------------------------------ MODULE WaitSet ------------------------------
(***************************************************************************)
(* A wait set (dcps_waitset.c) with the read conditions of one data reader *)
(* and with guard conditions, and the queue of deferred checks that the    *)
(* core thread works on (dds.c).                                           *)
(*                                                                         *)
(* DDS_WaitSet_wait holds the wait set's lock and takes the reader's lock   *)
(* for every read condition it checks.  The core thread meets them in the  *)
(* other order: it holds the reader's lock when data arrives and may not   *)
(* block on the wait set, so it only tries the lock and defers the check   *)
(* when that fails.                                                        *)
(***************************************************************************)
EXTENDS Integers, Sequences, FiniteSets, SequencesExt

CONSTANTS
    Threads,     \* application threads
    ReadConds,   \* read and query conditions of the reader
    GuardConds,
    Null,
    Deletes,     \* read conditions are deleted
    UndoTail,    \* ... also when the last of several queued checks is theirs
    DeleteReader,\* the reader is deleted
    DetachLast,  \* the last of several attached conditions is detached
    MaxDeferred  \* bound: length of the queue of deferred checks

ASSUME WaitSetAssumption ==
    /\ IsFiniteSet(Threads) /\ IsFiniteSet(ReadConds)
    /\ ReadConds \cap GuardConds = {}
    /\ Null \notin Threads \cup ReadConds \cup GuardConds
    /\ Deletes \in BOOLEAN /\ UndoTail \in BOOLEAN
    /\ DeleteReader \in BOOLEAN /\ DetachLast \in BOOLEAN
    /\ MaxDeferred \in Nat \ {0}

Conds == ReadConds \cup GuardConds

VARIABLES
    ws,       \* the wait set
    cond,     \* per condition: its flags
    reader,   \* the reader: lock, conditions, whether it has data to read
    deferred, \* queue of deferred checks
    core,     \* the core thread
    thread    \* per application thread: what it does

vars == <<ws, cond, reader, deferred, core, thread>>

Idle == [at |-> "idle", cp |-> 0, found |-> FALSE, counted |-> FALSE]
CoreIdle == [at |-> "idle", cp |-> 0, cond |-> Null]

Init ==
    /\ ws = [list |-> <<>>,         \* first, next, ...
             last |-> Null,
             lock |-> Null,         \* owner
             nwaiting |-> 0]
    /\ cond = [c \in Conds |-> [waitset |-> FALSE,  \* attached
                                deferred |-> FALSE,
                                value |-> FALSE,    \* of a guard condition
                                live |-> TRUE]]
    /\ reader = [lock |-> FALSE,    \* r_lock is held by the core thread
                 conditions |-> SetToSeq(ReadConds),
                 data |-> FALSE,
                 alive |-> TRUE]
    /\ deferred = [checks |-> <<>>, \* defer_head, ...: conditions to check
                   stale |-> FALSE] \* defer_tail is a node that was removed
    /\ core = CoreIdle
    /\ thread = [t \in Threads |-> Idle]

-----------------------------------------------------------------------------
(* Conditions and signals.                                                 *)

\* waitset_check_condition.
Ready(c) == IF c \in ReadConds THEN reader.data ELSE cond[c].value

\* cond_signal or cond_signal_all, by nwaiting: every sleeper wakes up.
Signal == [t \in Threads |-> IF thread[t].at = "asleep"
                             THEN [thread[t] EXCEPT !.at = "woken"] ELSE thread[t]]

\* Mutant of waitset_signal: a single waiter is overlooked.
waitset_signal_many(c) == IF ws.nwaiting > 1 /\ Ready(c) THEN Signal ELSE thread

\* waitset_signal, with the lock of the wait set.
waitset_signal(c) == IF ws.nwaiting > 0 /\ Ready(c) THEN Signal ELSE thread

-----------------------------------------------------------------------------
(* DDS_WaitSet_wait.                                                       *)

WaitStart(t) ==
    /\ thread[t].at = "idle" /\ ws.list # <<>> /\ ws.lock = Null
    /\ ws' = [ws EXCEPT !.lock = t]
    /\ thread' = [thread EXCEPT ![t] = [Idle EXCEPT !.at = "scan", !.cp = 1]]
    /\ UNCHANGED <<cond, reader, deferred, core>>

\* waitset_check_ready looks at one condition.
WaitCheck(t) ==
    LET c == ws.list[thread[t].cp]
    IN  /\ thread[t].at = "scan" /\ thread[t].cp <= Len(ws.list)
        /\ c \in ReadConds => ~ reader.lock
        /\ thread' = [thread EXCEPT ![t].cp = @ + 1, ![t].found = @ \/ Ready(c)]
        /\ UNCHANGED <<ws, cond, reader, deferred, core>>

\* All were looked at: the call returns if one was ready, otherwise the
\* thread is counted and goes to sleep.
WaitDecide(t) ==
    /\ thread[t].at = "scan" /\ thread[t].cp > Len(ws.list)
    /\ IF thread[t].found
       THEN /\ ws' = [ws EXCEPT !.lock = Null,
                                !.nwaiting = IF thread[t].counted THEN @ - 1 ELSE @]
            /\ thread' = [thread EXCEPT ![t] = Idle]
       ELSE /\ ws' = [ws EXCEPT !.nwaiting = IF thread[t].counted THEN @ ELSE @ + 1]
            /\ thread' = [thread EXCEPT ![t].at = "sleep", ![t].counted = TRUE]
    /\ UNCHANGED <<cond, reader, deferred, core>>

\* cond_wait gives up the lock; a signal that was sent before is gone.
WaitSleep(t) ==
    /\ thread[t].at = "sleep"
    /\ ws' = [ws EXCEPT !.lock = Null]
    /\ thread' = [thread EXCEPT ![t].at = "asleep"]
    /\ UNCHANGED <<cond, reader, deferred, core>>

WaitWake(t) ==
    /\ thread[t].at = "woken" /\ ws.lock = Null
    /\ ws' = [ws EXCEPT !.lock = t]
    /\ thread' = [thread EXCEPT ![t].at = "scan", ![t].cp = 1, ![t].found = FALSE]
    /\ UNCHANGED <<cond, reader, deferred, core>>

WaitTimeout(t) ==
    /\ thread[t].at = "asleep" /\ ws.lock = Null
    /\ ws' = [ws EXCEPT !.nwaiting = @ - 1]
    /\ thread' = [thread EXCEPT ![t] = Idle]
    /\ UNCHANGED <<cond, reader, deferred, core>>

-----------------------------------------------------------------------------
(* Attaching and detaching; conditions are attached while nobody waits.    *)

\* The new condition is linked behind ws.last, which is not in the list any
\* more once detach_condition has removed the last of several conditions.
DDS_WaitSet_attach_condition(c) ==
    /\ ws.lock = Null /\ ws.nwaiting = 0
    /\ cond[c].live /\ ~ cond[c].waitset
    /\ c \in ReadConds => Contains(reader.conditions, c)
    /\ ws' = [ws EXCEPT !.list = IF @ = <<>> \/ ws.last = Last(@) THEN Append(@, c) ELSE @,
                        !.last = c]
    /\ cond' = [cond EXCEPT ![c].waitset = TRUE]
    /\ UNCHANGED <<reader, deferred, core, thread>>

\* The elements of q at the positions I, in their order.
Rank(I, i) == Cardinality({j \in I : j <= i})
Positions(q, I) == [k \in 1..Cardinality(I) |-> q[CHOOSE i \in I : Rank(I, i) = k]]

\* The list q after c was removed from it.
Without(q, c) == Positions(q, {i \in DOMAIN q : q[i] # c})

\* The wait set after c was detached: ws.last becomes c itself if c was last.
Detached(c) == [ws EXCEPT !.list = Without(@, c),
                          !.last = IF c = Last(ws.list) THEN c ELSE @]

MayDetach(c) == DetachLast \/ c = Head(ws.list) \/ c # Last(ws.list)

DDS_WaitSet_detach_condition(c) ==
    /\ ws.lock = Null /\ ws.nwaiting = 0
    /\ cond[c].waitset /\ Contains(ws.list, c) /\ MayDetach(c)
    /\ Contains(reader.conditions, c) \/ c \in GuardConds
    /\ ws' = Detached(c)
    /\ cond' = [cond EXCEPT ![c].waitset = FALSE]
    /\ UNCHANGED <<reader, deferred, core, thread>>

-----------------------------------------------------------------------------
(* The queue of deferred checks, under ev_lock.                            *)

\* A check is linked behind defer_tail: it is lost if that is stale.
dds_defer_waitset_check(q, c) ==
    IF q.checks = <<>> THEN [checks |-> <<c>>, stale |-> FALSE]
    ELSE IF q.stale THEN q ELSE [q EXCEPT !.checks = Append(@, c)]

\* All checks of c are removed; defer_tail is only reset when none is left.
dds_defer_waitset_undo(q, c) ==
    LET rest == Without(q.checks, c)
    IN  [checks |-> rest, stale |-> rest # <<>> /\ (q.stale \/ Last(q.checks) = c)]

-----------------------------------------------------------------------------
(* The core thread.                                                        *)

\* dcps_data_available, without listeners: called from the cache with r_lock.
dcps_data_available ==
    /\ core.at = "idle" /\ reader.alive
    /\ Len(deferred.checks) + Len(reader.conditions) <= MaxDeferred
    /\ reader' = [reader EXCEPT !.data = TRUE, !.lock = TRUE]
    /\ core' = [CoreIdle EXCEPT !.at = "wakeup", !.cp = 1]
    /\ UNCHANGED <<ws, cond, deferred, thread>>

\* Mutant of dcps_waitset_wakeup: a wait set whose lock is taken is skipped.
dcps_waitset_wakeup_skips ==
    /\ core.at = "wakeup" /\ core.cp <= Len(reader.conditions)
    /\ core' = [core EXCEPT !.cp = @ + 1]
    /\ thread' = IF ws.lock # Null THEN thread ELSE waitset_signal(reader.conditions[core.cp])
    /\ UNCHANGED <<ws, cond, reader, deferred>>

\* One turn of the loop in dcps_waitset_wakeup: signal the wait set or, when
\* its lock is taken, defer.
dcps_waitset_wakeup ==
    LET c == reader.conditions[core.cp]
    IN  /\ core.at = "wakeup" /\ core.cp <= Len(reader.conditions)
        /\ core' = [core EXCEPT !.cp = @ + 1]
        /\ IF ~ cond[c].waitset THEN UNCHANGED <<cond, deferred, thread>>
           ELSE IF ws.lock # Null
           THEN /\ cond' = [cond EXCEPT ![c].deferred = TRUE]
                /\ deferred' = dds_defer_waitset_check(deferred, c)
                /\ UNCHANGED thread
           ELSE /\ thread' = waitset_signal(c)
                /\ UNCHANGED <<cond, deferred>>
        /\ UNCHANGED <<ws, reader>>

WakeupDone ==
    /\ core.at = "wakeup" /\ core.cp > Len(reader.conditions)
    /\ core' = CoreIdle
    /\ reader' = [reader EXCEPT !.lock = FALSE]
    /\ UNCHANGED <<ws, cond, deferred, thread>>

\* dds_waitset_checks takes the oldest check from the queue ...
dds_waitset_checks ==
    /\ core.at = "idle" /\ deferred.checks # <<>>
    /\ core' = [CoreIdle EXCEPT !.at = "check", !.cond = Head(deferred.checks)]
    /\ deferred' = [deferred EXCEPT !.checks = Tail(@)]
    /\ UNCHANGED <<ws, cond, reader, thread>>

\* ... and then, with r_lock, retries it: the condition may be gone by now.
dcps_deferred_waitset_check ==
    LET c == core.cond
    IN  /\ core.at = "check"
        /\ core' = CoreIdle
        /\ IF ~ Contains(reader.conditions, c) THEN UNCHANGED <<cond, deferred, thread>>
           ELSE IF ~ cond[c].waitset
           THEN /\ cond' = [cond EXCEPT ![c].deferred = FALSE]
                /\ UNCHANGED <<deferred, thread>>
           ELSE IF ws.lock # Null
           THEN /\ deferred' = dds_defer_waitset_check(deferred, c)
                /\ UNCHANGED <<cond, thread>>
           ELSE /\ cond' = [cond EXCEPT ![c].deferred = FALSE]
                /\ thread' = waitset_signal(c)
                /\ UNCHANGED deferred
        /\ UNCHANGED <<ws, reader>>

-----------------------------------------------------------------------------
(* Other operations of the application.                                    *)

\* DDS_DataReader_take empties the cache.
take ==
    /\ reader.alive /\ ~ reader.lock /\ reader.data
    /\ reader' = [reader EXCEPT !.data = FALSE]
    /\ UNCHANGED <<ws, cond, deferred, core, thread>>

\* DDS_GuardCondition_set_trigger_value takes no lock: it sets the value and
\* then looks whether somebody waits.
set_trigger_value(t, c) ==
    /\ thread[t].at = "idle"
    /\ cond[c].waitset
    /\ cond' = [cond EXCEPT ![c].value = ~ @]
    /\ thread' = [thread EXCEPT ![t].at = IF cond[c].value THEN "idle" ELSE "set"]
    /\ UNCHANGED <<ws, reader, deferred, core>>

TriggerSignal(t) ==
    /\ thread[t].at = "set"
    /\ thread' = [IF ws.nwaiting > 0 THEN Signal ELSE thread EXCEPT ![t] = Idle]
    /\ UNCHANGED <<ws, cond, reader, deferred, core>>

MayUndo(c) == UndoTail \/ ~ dds_defer_waitset_undo(deferred, c).stale

\* Mutant of DDS_DataReader_delete_readcondition: it is freed before it is
\* detached.
delete_readcondition_early(c) ==
    /\ Deletes /\ ~ reader.lock
    /\ Contains(reader.conditions, c)
    /\ reader' = [reader EXCEPT !.conditions = Without(@, c)]
    /\ cond' = [cond EXCEPT ![c].live = FALSE]
    /\ UNCHANGED <<ws, deferred, core, thread>>

\* DDS_DataReader_delete_readcondition, with r_lock: deferred checks are
\* undone if the condition is flagged and it leaves the reader's list.
delete_readcondition(c) ==
    /\ Deletes /\ ~ reader.lock
    /\ Contains(reader.conditions, c)
    /\ cond[c].waitset => MayDetach(c)
    /\ cond[c].deferred => MayUndo(c)
    /\ reader' = [reader EXCEPT !.conditions = Without(@, c)]
    /\ deferred' = IF cond[c].deferred THEN dds_defer_waitset_undo(deferred, c) ELSE deferred
    /\ cond' = [cond EXCEPT ![c].deferred = FALSE, ![c].live = cond[c].waitset]
    /\ UNCHANGED <<ws, core, thread>>

\* It was attached: r_lock was released, it is detached and then freed.
DeleteDetach(c) ==
    /\ c \in ReadConds /\ cond[c].live /\ ~ Contains(reader.conditions, c)
    /\ ws.lock = Null /\ MayDetach(c)
    /\ ws' = Detached(c)
    /\ cond' = [cond EXCEPT ![c].waitset = FALSE, ![c].live = FALSE]
    /\ UNCHANGED <<reader, deferred, core, thread>>

\* delete_datareader_l is refused while there are read conditions.
delete_datareader ==
    /\ DeleteReader /\ reader.alive /\ ~ reader.lock
    /\ reader.conditions = <<>>
    /\ reader' = [reader EXCEPT !.alive = FALSE, !.data = FALSE]
    /\ UNCHANGED <<ws, cond, deferred, core, thread>>

Next ==
    \/ \E t \in Threads : \/ WaitStart(t) \/ WaitCheck(t) \/ WaitDecide(t) \/ WaitSleep(t)
                          \/ WaitWake(t) \/ WaitTimeout(t) \/ TriggerSignal(t)
                          \/ \E c \in GuardConds : set_trigger_value(t, c)
    \/ \E c \in Conds : DDS_WaitSet_attach_condition(c) \/ DDS_WaitSet_detach_condition(c)
    \/ \E c \in ReadConds : delete_readcondition(c) \/ DeleteDetach(c)
    \/ dcps_data_available \/ dcps_waitset_wakeup \/ WakeupDone
    \/ dds_waitset_checks \/ dcps_deferred_waitset_check
    \/ take \/ delete_datareader

Spec == Init /\ [][Next]_vars

\* The core thread keeps working and a thread that holds a lock, or was
\* signalled, goes on; sleeping may last for ever.
Fairness ==
    /\ WF_vars(dcps_waitset_wakeup \/ WakeupDone)
    /\ WF_vars(dds_waitset_checks \/ dcps_deferred_waitset_check)
    /\ \A t \in Threads : /\ WF_vars(WaitCheck(t) \/ WaitDecide(t) \/ WaitSleep(t))
                          /\ WF_vars(WaitWake(t)) /\ WF_vars(TriggerSignal(t))

FairSpec == Spec /\ Fairness

-----------------------------------------------------------------------------
(* Properties.                                                             *)

\* Every variable keeps its type; nwaiting never counts more threads than
\* there are (DDS_WaitSet_wait).
TypeOK ==
    /\ ws \in [list : Seq(Conds), last : Conds \cup {Null}, lock : Threads \cup {Null},
              nwaiting : 0..Cardinality(Threads)]
    /\ cond \in [Conds -> [waitset : BOOLEAN, deferred : BOOLEAN, value : BOOLEAN, live : BOOLEAN]]
    /\ reader \in [lock : BOOLEAN, conditions : Seq(ReadConds), data : BOOLEAN, alive : BOOLEAN]
    /\ deferred \in [checks : Seq(ReadConds), stale : BOOLEAN]
    /\ core \in [at : {"idle", "wakeup", "check"}, cp : 0..(Len(reader.conditions) + 1),
                 cond : ReadConds \cup {Null}]
    /\ thread \in [Threads -> [at : {"idle", "scan", "sleep", "asleep", "woken", "set"},
                               cp : Nat, found : BOOLEAN, counted : BOOLEAN]]

\* A check of read condition c is on its way: the core thread has still to
\* come to it, or it is in the queue.
CheckUnderway(c) ==
    \/ Contains(deferred.checks, c)
    \/ core.at = "check" /\ core.cond = c
    \/ core.at = "wakeup" /\ \E i \in core.cp..Len(reader.conditions) : reader.conditions[i] = c

\* Read condition c is attached and ready, and not being deleted.
Triggers(c) == cond[c].waitset /\ Contains(reader.conditions, c) /\ Ready(c)

\* No wake-up is lost: a thread that sleeps in DDS_WaitSet_wait while an
\* attached read condition is ready will be woken up, because a check of it
\* is on its way.
NoLostWakeup ==
    \A t \in Threads, c \in ReadConds :
        thread[t].at = "asleep" /\ Triggers(c) => CheckUnderway(c)

\* The same of a guard condition: a set_trigger_value has yet to signal.
NoLostTrigger ==
    \A t \in Threads, c \in GuardConds :
        thread[t].at = "asleep" /\ cond[c].waitset /\ Ready(c) =>
            \E u \in Threads : thread[u].at = "set"

\* A condition that is flagged as being in the deferred check list is in it,
\* or its check is being made: else nobody retries the check that failed.
DeferredIsQueued ==
    \A c \in ReadConds :
        cond[c].deferred /\ Contains(reader.conditions, c) => CheckUnderway(c)

\* A condition that was freed is in no list that a later wait, wake-up or
\* attach follows (delete_readcondition).
FreedUnreachable ==
    \A c \in Conds : ~ cond[c].live => ~ Contains(ws.list, c) /\ ~ Contains(reader.conditions, c)

\* The parent of a deferred check is still alive when its lock is taken
\* (dcps_deferred_waitset_check).
EntityAlive == (deferred.checks # <<>> \/ core.at = "check") => reader.alive

\* A sleeper does not miss data for good: it is woken up, or the data is
\* taken, or the condition goes away, unless other threads take the wait
\* set's lock for ever, as dcps_waitset_wakeup only ever tries it.
SleeperWakes ==
    <>[](ws.lock = Null) =>
        \A t \in Threads, c \in ReadConds :
            thread[t].at = "asleep" /\ Triggers(c) ~> thread[t].at # "asleep" \/ ~ Triggers(c)
=============================================================================
