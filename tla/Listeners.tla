----------------------------- MODULE Listeners -----------------------------
(***************************************************************************)
(* The core thread's event loop with the queue of listener notifications   *)
(* (dds.c), and the data-available listeners of readers that share one     *)
(* subscriber (dcps_event.c, dcps_reader.c, dcps_sub.c).                   *)
(*                                                                         *)
(* An action is a stretch of code under ev_lock or under the lock of one   *)
(* reader.  A callback runs on the core thread without any lock.           *)
(***************************************************************************)
EXTENDS Integers, Sequences, SequencesExt

CONSTANTS
    Threads,   \* application threads
    Readers,
    Sub,       \* their subscriber, whose listener they inherit
    Null,
    Inherit,   \* the subscriber has a listener
    Relisten,  \* a listener is set again after it was removed
    MaxPipe    \* bound: bytes in the wake-up pipe

ASSUME ListenersAssumption ==
    /\ Sub \notin Readers /\ Null \notin Readers \cup {Sub}
    /\ Inherit \in BOOLEAN /\ Relisten \in BOOLEAN
    /\ MaxPipe \in Nat \ {0}

Entities == Readers \cup {Sub}

VARIABLES
    ev,        \* what ev_lock protects
    pipe,      \* bytes in the wake-up pipe
    reader,    \* per reader: status bit, unread data, existence
    listener,  \* per entity: on_data_available is set and enabled
    todo,      \* some other work was signalled (DDS_EV_PROXY_NE, ...)
    core,      \* the core thread, in dds_work
    thread     \* per application thread: what it does

vars == <<ev, pipe, reader, listener, todo, core, thread>>

Idle == [at |-> "idle", ep |-> Null]
CoreStart == [at |-> "collect", events |-> {}, again |-> FALSE, cb |-> Null]

Init ==
    /\ ev = [pending |-> {},     \* dds_ev_pending
             notify |-> <<>>,    \* notify_head ...: readers
             sleeping |-> FALSE, \* dds_sleeping
             running |-> Null]   \* ev_entity_in_listener
    /\ pipe = 0
    /\ reader = [r \in Readers |-> [status |-> FALSE, data |-> FALSE, alive |-> TRUE]]
    /\ listener = [e \in Entities |-> IF e = Sub THEN Inherit ELSE ~Inherit]
    /\ todo = FALSE
    /\ core = CoreStart
    /\ thread = [t \in Threads |-> Idle]

-----------------------------------------------------------------------------
(* Producers of events.                                                    *)

\* dds_notify: the caller writes to the pipe afterwards if the core thread
\* was asleep.
dds_notify(q, r) == [q EXCEPT !.notify = Append(@, r), !.pending = @ \cup {"notify"}]

\* dcps_data_available_listener.
Active(r) == listener[r] \/ listener[Sub]

\* dcps_data_available, with the reader's lock: status st, events q.  The
\* listener is only notified when the status bit was not yet set.
Announced(q, st, r) == IF Active(r) /\ ~ st THEN dds_notify(q, r) ELSE q

\* An application thread writes to a reader of its own process.
NewData(t, r) ==
    /\ thread[t].at = "idle" /\ reader[r].alive
    /\ reader' = [reader EXCEPT ![r].data = TRUE, ![r].status = TRUE]
    /\ ev' = Announced(ev, reader[r].status, r)
    /\ thread' = [thread EXCEPT ![t].at = IF ev' # ev /\ ev.sleeping THEN "wakeup" ELSE "idle"]
    /\ UNCHANGED <<pipe, listener, todo, core>>

\* dds_wakeup, behind dds_notify.
dds_wakeup(t) ==
    /\ thread[t].at = "wakeup" /\ pipe < MaxPipe
    /\ pipe' = pipe + 1
    /\ thread' = [thread EXCEPT ![t] = Idle]
    /\ UNCHANGED <<ev, reader, listener, todo, core>>

\* Mutant of dds_signal: the core thread is left asleep.
dds_signal_quiet(t) ==
    /\ thread[t].at = "idle" /\ ~ todo
    /\ todo' = TRUE
    /\ ev' = [ev EXCEPT !.pending = @ \cup {"signal"}]
    /\ UNCHANGED <<pipe, reader, listener, core, thread>>

\* A thread leaves work and calls dds_signal, which only writes to the pipe
\* when it sets the first pending event.
dds_signal(t) ==
    /\ thread[t].at = "idle" /\ ~ todo
    /\ todo' = TRUE
    /\ ev' = [ev EXCEPT !.pending = @ \cup {"signal"}]
    /\ IF ev.pending = {} /\ ev.sleeping
       THEN pipe < MaxPipe /\ pipe' = pipe + 1
       ELSE UNCHANGED pipe
    /\ UNCHANGED <<reader, listener, core, thread>>

-----------------------------------------------------------------------------
(* dds_work.                                                               *)

\* The pending events are collected; the thread sleeps when there are none,
\* but dds_work returns first, and is called again, when it has worked.
Collect ==
    /\ core.at = "collect"
    /\ ev' = [ev EXCEPT !.pending = {}, !.sleeping = ev.pending = {}]
    /\ core' = [core EXCEPT !.at = IF ev.pending # {} THEN "work"
                                   ELSE IF core.again THEN "collect" ELSE "poll",
                            !.events = ev.pending,
                            !.again = ev.pending # {}]
    /\ UNCHANGED <<pipe, reader, listener, todo, thread>>

Awake == /\ ev' = [ev EXCEPT !.sleeping = FALSE]
         /\ core' = CoreStart

\* sock_fd_poll returns: there is a byte in the pipe, or time has passed.
PollReturns ==
    /\ core.at = "poll" /\ pipe > 0
    /\ pipe' = pipe - 1
    /\ Awake
    /\ UNCHANGED <<reader, listener, todo, thread>>

PollTimeout ==
    /\ core.at = "poll"
    /\ Awake
    /\ UNCHANGED <<pipe, reader, listener, todo, thread>>

\* A sample is received: the notification writes to the core's own pipe.
Receive(r) ==
    LET q == Announced(ev, reader[r].status, r)
    IN  /\ core.at = "poll" /\ reader[r].alive
        /\ reader' = [reader EXCEPT ![r].data = TRUE, ![r].status = TRUE]
        /\ q # ev => pipe < MaxPipe
        /\ pipe' = IF q # ev THEN pipe + 1 ELSE pipe
        /\ ev' = [q EXCEPT !.sleeping = FALSE]
        /\ core' = CoreStart
        /\ UNCHANGED <<listener, todo, thread>>

\* Work that was signalled is done before listeners are called.
DoWork ==
    /\ core.at = "work" /\ "signal" \in core.events
    /\ todo' = FALSE
    /\ core' = [core EXCEPT !.events = @ \ {"signal"},
                            !.at = IF core.events = {"signal"} THEN "collect" ELSE "work"]
    /\ UNCHANGED <<ev, pipe, reader, listener, thread>>

\* Mutant of dds_client_notify: the entity is not marked as having a listener
\* that runs.
dds_client_notify_unmarked ==
    /\ core.at = "work" /\ core.events = {"notify"}
    /\ ev.notify # <<>>
    /\ ev' = [ev EXCEPT !.notify = Tail(@)]
    /\ core' = [core EXCEPT !.cb = Head(ev.notify), !.at = "pick"]
    /\ UNCHANGED <<pipe, reader, listener, todo, thread>>

\* dds_client_notify takes a notification, if there is one left, and marks
\* its entity; the event bit goes with the last notification.
dds_client_notify ==
    LET rest == IF ev.notify = <<>> THEN <<>> ELSE Tail(ev.notify)
        events == IF rest = <<>> THEN {} ELSE core.events
    IN  /\ core.at = "work" /\ core.events = {"notify"}
        /\ ev' = [ev EXCEPT !.notify = rest,
                            !.pending = IF rest = <<>> THEN @ \ {"notify"} ELSE @,
                            !.running = IF ev.notify = <<>> THEN @ ELSE Head(ev.notify)]
        /\ core' = [core EXCEPT !.events = events,
                                !.cb = IF ev.notify = <<>> THEN Null ELSE Head(ev.notify),
                                !.at = IF ev.notify # <<>> THEN "pick" ELSE "collect"]
        /\ UNCHANGED <<pipe, reader, listener, todo, thread>>

\* dcps_notify_data_available, with the reader's lock, picks the reader's
\* listener or else the one it inherits, and clears the status bit.
dcps_notify_data_available ==
    LET r == core.cb
    IN  /\ core.at = "pick"
        /\ IF Active(r)
           THEN /\ reader' = [reader EXCEPT ![r].status = FALSE]
                /\ core' = [core EXCEPT !.at = "call", !.cb = <<r, IF listener[r] THEN r ELSE Sub>>]
           ELSE /\ core' = [core EXCEPT !.at = "done"]
                /\ UNCHANGED reader
        /\ UNCHANGED <<ev, pipe, listener, todo, thread>>

\* The callback takes the data of its reader ...
on_data_available ==
    /\ core.at = "call"
    /\ reader' = [reader EXCEPT ![core.cb[1]].data = FALSE]
    /\ core' = [core EXCEPT !.at = "called"]
    /\ UNCHANGED <<ev, pipe, listener, todo, thread>>

\* Mutant of NotifyDone: nobody is signalled.
NotifyDoneSilent ==
    /\ core.at \in {"called", "done"}
    /\ ev' = [ev EXCEPT !.running = Null]
    /\ core' = [core EXCEPT !.at = IF core.events = {} THEN "collect" ELSE "work", !.cb = Null]
    /\ UNCHANGED <<pipe, reader, listener, todo, thread>>

\* ... and returns: those that wait for the entity are signalled.
NotifyDone ==
    /\ core.at \in {"called", "done"}
    /\ ev' = [ev EXCEPT !.running = Null]
    /\ core' = [core EXCEPT !.at = IF core.events = {} THEN "collect" ELSE "work", !.cb = Null]
    /\ thread' = [t \in Threads |-> IF thread[t].at = "asleep"
                                    THEN [thread[t] EXCEPT !.at = "waiting"] ELSE thread[t]]
    /\ UNCHANGED <<pipe, reader, listener, todo>>

-----------------------------------------------------------------------------
(* Changing listeners and deleting readers.                                *)

\* The elements of q at the positions I, in their order.
Rank(I, i) == Cardinality({j \in I : j <= i})
Positions(q, I) == [k \in 1..Cardinality(I) |-> q[CHOOSE i \in I : Rank(I, i) = k]]

\* dds_purge_notifications.
dds_purge_notifications(q, e) ==
    [q EXCEPT !.notify = Positions(@, {i \in DOMAIN @ : @[i] # e})]

\* Mutant of RemoveListener: queued notifications are purged, a running
\* listener is not waited for.
RemoveListenerNow(t, e) ==
    /\ thread[t].at = "idle" /\ listener[e]
    /\ e \in Readers => reader[e].alive
    /\ listener' = [listener EXCEPT ![e] = FALSE]
    /\ ev' = dds_purge_notifications(ev, e)
    /\ UNCHANGED <<pipe, reader, todo, core, thread>>

\* dcps_update_listener without a new listener: what is queued is purged, and
\* the caller waits when the entity is the one whose listener runs.
RemoveListener(t, e) ==
    /\ thread[t].at = "idle" /\ listener[e]
    /\ e \in Readers => reader[e].alive
    /\ listener' = [listener EXCEPT ![e] = FALSE]
    /\ ev' = dds_purge_notifications(ev, e)
    /\ thread' = [thread EXCEPT ![t] = IF ev.running = e THEN [at |-> "waiting", ep |-> e] ELSE Idle]
    /\ UNCHANGED <<pipe, reader, todo, core>>

\* dds_wait_listener, under ev_lock.
dds_wait_listener(t) ==
    /\ thread[t].at = "waiting"
    /\ thread' = [thread EXCEPT ![t] = IF ev.running = thread[t].ep
                                       THEN [@ EXCEPT !.at = "asleep"] ELSE Idle]
    /\ UNCHANGED <<ev, pipe, reader, listener, todo, core>>

\* DDS_DataReader_set_listener with a listener where there was none: unread
\* data is announced as if it were new.
DDS_DataReader_set_listener(t, r) ==
    /\ Relisten
    /\ thread[t].at = "idle" /\ reader[r].alive /\ ~ listener[r]
    /\ listener' = [listener EXCEPT ![r] = TRUE]
    /\ IF reader[r].data
       THEN /\ reader' = [reader EXCEPT ![r].status = TRUE]
            /\ ev' = dds_notify(ev, r)
            /\ thread' = [thread EXCEPT ![t].at = IF ev.sleeping THEN "wakeup" ELSE "idle"]
       ELSE UNCHANGED <<reader, ev, thread>>
    /\ UNCHANGED <<pipe, todo, core>>

\* delete_datareader_l is refused while a listener of the reader runs.
delete_datareader(t, r) ==
    /\ thread[t].at = "idle" /\ reader[r].alive
    /\ \A u \in Threads : thread[u].ep # r
    /\ ev.running # r
    /\ ev' = dds_purge_notifications(ev, r)
    /\ reader' = [reader EXCEPT ![r] = [status |-> FALSE, data |-> FALSE, alive |-> FALSE]]
    /\ listener' = [listener EXCEPT ![r] = FALSE]
    /\ UNCHANGED <<pipe, todo, core, thread>>

Next ==
    \/ \E t \in Threads :
         \/ dds_wakeup(t) \/ dds_signal(t) \/ dds_wait_listener(t)
         \/ \E r \in Readers : \/ NewData(t, r) \/ DDS_DataReader_set_listener(t, r)
                               \/ delete_datareader(t, r)
         \/ \E e \in Entities : RemoveListener(t, e)
    \/ Collect \/ PollReturns \/ PollTimeout \/ DoWork \/ dds_client_notify
    \/ dcps_notify_data_available \/ on_data_available \/ NotifyDone
    \/ \E r \in Readers : Receive(r)

Spec == Init /\ [][Next]_vars

\* The core thread runs, but may stay in poll until a byte arrives; a thread
\* finishes the call it is in.
Fairness ==
    /\ WF_vars(Collect \/ PollReturns \/ DoWork \/ dds_client_notify
               \/ dcps_notify_data_available \/ on_data_available \/ NotifyDone)
    /\ \A t \in Threads : WF_vars(dds_wakeup(t)) /\ WF_vars(dds_wait_listener(t))

FairSpec == Spec /\ Fairness

-----------------------------------------------------------------------------
(* Properties.                                                             *)

\* Every variable keeps its type; the core thread never reads a byte that is
\* not in the pipe, and the pipe never overflows (dds_wakeup, dds_work).
TypeOK ==
    /\ ev \in [pending : SUBSET {"notify", "signal"}, notify : Seq(Readers),
              sleeping : BOOLEAN, running : Readers \cup {Null}]
    /\ pipe \in 0..MaxPipe
    /\ reader \in [Readers -> [status : BOOLEAN, data : BOOLEAN, alive : BOOLEAN]]
    /\ listener \in [Entities -> BOOLEAN]
    /\ todo \in BOOLEAN
    /\ core \in [at : {"collect", "poll", "work", "pick", "call", "called", "done"},
                 events : SUBSET {"notify", "signal"}, again : BOOLEAN,
                 cb : {Null} \cup Readers \cup (Readers \X Entities)]
    /\ thread \in [Threads -> [at : {"idle", "wakeup", "waiting", "asleep"},
                               ep : {Null} \cup Entities]]

\* The core thread does not sleep over work: in poll with an empty pipe,
\* nothing is pending, queued or left, unless a thread is about to wake it
\* up (dds_sleeping against dds_ev_pending).
NoWorkAsleep ==
    core.at = "poll" /\ pipe = 0 =>
        \/ ev.pending = {} /\ ev.notify = <<>> /\ ~ todo
        \/ \E t \in Threads : thread[t].at = "wakeup"

\* No notification is queued, and no listener runs, for a reader that was
\* deleted (dds_purge_notifications and ev_entity_in_listener).
NoDeadCallback ==
    /\ \A i \in DOMAIN ev.notify : reader[ev.notify[i]].alive
    /\ core.at = "pick" => reader[core.cb].alive
    /\ core.at \in {"call", "called"} => reader[core.cb[1]].alive

\* A callback that runs was not removed by a call that has returned: the
\* remover waits until it has ended (dcps_update_listener).
NoCallbackAfterRemove ==
    core.at \in {"call", "called"} =>
        LET e == core.cb[2]
        IN  listener[e] \/ \E t \in Threads : thread[t].ep = e

\* Unread data with an active listener is on its way to that listener.
DataIsNotified ==
    \A r \in Readers :
        reader[r].data /\ Active(r) =>
            \/ Contains(ev.notify, r)
            \/ core.at = "pick" /\ core.cb = r
            \/ core.at = "call" /\ core.cb[1] = r

\* The data of a reader that keeps its listener is delivered in the end,
\* without help of a poll time-out, and whoever waits for a listener to end
\* gets on, unless that listener is set again meanwhile.
DataDelivered ==
    /\ \A r \in Readers : []listener[r] => (reader[r].data ~> ~ reader[r].data)
    /\ \A t \in Threads, r \in Readers :
          thread[t].ep = r ~> thread[t].ep # r \/ listener[r]
=============================================================================
