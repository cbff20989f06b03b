----------------------------- MODULE WriteCache -----------------------------
(***************************************************************************)
(* The write path of an unkeyed KEEP_ALL writer (cache.c): application     *)
(* threads that write and block until there is room, threads that wait for *)
(* acknowledgements, and the core thread that processes ACKNACKs.          *)
(*                                                                         *)
(* Every action is a stretch of code that runs under the writer's lock;    *)
(* cond_wait gives the lock up, so a blocked write takes at least two.     *)
(* A Change_t is a cell of the change pool, named by its address, because  *)
(* a blocked write keeps the address of the change it is waiting for.      *)
(***************************************************************************)
EXTENDS Integers, FiniteSets, FiniteSetsExt

CONSTANTS
    Threads,         \* application threads
    Core,            \* the core thread
    ListenerWrites,  \* a listener, run by the core thread, writes
    Readers,         \* remote reliable readers
    Slots,           \* cells of the change pool
    Null,
    Durabilities,    \* hc_durability of the writers: TRUE is at least TRANSIENT_LOCAL
    MaxSamples,      \* hc_max_samples, and hc_max_depth of an unkeyed cache
    Forever,         \* the waits have no time limit
    Waiting,         \* durabilities for which applications call wait_for_acknowledgments
    Reuse,           \* the pool hands out a cell some blocked write still names
    MaxSnr           \* bound: number of samples written

ASSUME WriteCacheAssumption ==
    /\ Core \notin Threads
    /\ Null \notin Slots
    /\ IsFiniteSet(Threads) /\ IsFiniteSet(Slots) /\ IsFiniteSet(Readers)
    /\ {ListenerWrites, Forever, Reuse} \cup Durabilities \cup Waiting \subseteq BOOLEAN
    /\ MaxSamples \in Nat \ {0}
    /\ MaxSnr \in Nat

All == Threads \cup {Core}
Contexts == 1..Cardinality(All)

VARIABLES
    hc,       \* the history cache and waiters_list, see Init
    queued,   \* per reader: samples its proxy wants acknowledged
    matched,  \* readers with a proxy
    thread    \* per thread: what it does, and the locals it keeps in a wait

vars == <<hc, queued, matched, thread>>

NoWait == [change |-> Null, wchange |-> FALSE, nwaiting |-> 0]
Idle == [at |-> "idle", own |-> Null, victim |-> Null, wp |-> 0, woken |-> FALSE]

Numbers(h) == {h.cell[c].snr : c \in h.changes}

Init ==
    /\ \E d \in Durabilities :
       hc = [durable |-> d,      \* hc_durability
             changes |-> {},     \* hc_changes: cells, in the order of their numbers
             cell |-> [c \in Slots |-> [snr |-> 0, wack |-> 0, urgent |-> FALSE]],
             used |-> {},        \* cells in use; a free cell keeps its contents
             last |-> 0,         \* hc_last_seqnr
             unacked |-> 0,      \* hc_unacked
             blocked |-> FALSE,  \* hc_blocked
             waiters |-> [w \in Contexts |-> NoWait]]
    /\ queued = [r \in Readers |-> {}]
    /\ matched = Readers
    /\ thread = [t \in All |-> Idle]

-----------------------------------------------------------------------------
(* Waiting.                                                                *)

\* The context of the threads that wait for change c, or for the cache if c
\* is Null; a set with at most one element.
hc_wait_lookup(h, c) ==
    {w \in Contexts : /\ h.waiters[w].nwaiting > 0
                      /\ IF c = Null THEN ~ h.waiters[w].wchange
                         ELSE h.waiters[w].wchange /\ h.waiters[w].change = c}

Joined(h, c) == IF (c = Null /\ h.blocked) \/ (c # Null /\ h.cell[c].urgent)
                THEN hc_wait_lookup(h, c) ELSE {}

\* The context that hc_wait_add returns, and its effect.
WaitContext(h, c) ==
    IF Joined(h, c) # {} THEN Min(Joined(h, c))
    ELSE Min({w \in Contexts : h.waiters[w].nwaiting = 0})

hc_wait_add(h, c) ==
    LET w == WaitContext(h, c)
        new == [change |-> c, wchange |-> c # Null, nwaiting |-> 1]
    IN  IF Joined(h, c) # {} THEN [h EXCEPT !.waiters[w].nwaiting = @ + 1]
        ELSE IF c = Null THEN [h EXCEPT !.waiters[w] = new, !.blocked = TRUE]
        ELSE [h EXCEPT !.waiters[w] = new, !.cell[c].urgent = TRUE]

\* Mutant of hc_wait_free: every thread that leaves resets c_urgent.
hc_wait_free_all(h, w) ==
    LET c == h.waiters[w].change
        left == [h EXCEPT !.waiters[w].nwaiting = @ - 1]
    IN  IF c = Null THEN [left EXCEPT !.blocked = FALSE] ELSE [left EXCEPT !.cell[c].urgent = FALSE]

\* The last thread that leaves a context resets c_urgent of the change, or
\* hc_blocked when the context has no change (any more).
hc_wait_free(h, w) ==
    LET c == h.waiters[w].change
    IN  IF h.waiters[w].nwaiting > 1 THEN [h EXCEPT !.waiters[w].nwaiting = @ - 1]
        ELSE IF c = Null THEN [h EXCEPT !.waiters[w] = NoWait, !.blocked = FALSE]
        ELSE [h EXCEPT !.waiters[w] = NoWait, !.cell[c].urgent = FALSE]

-----------------------------------------------------------------------------
(* The cache.                                                              *)

\* hc_remove_i behind its wait: the reference to the cell is looked up by
\* address; nothing is done if there is none.
hc_remove_i(h, c) ==
    IF c \in h.changes THEN [h EXCEPT !.changes = @ \ {c}, !.used = @ \ {c}] ELSE h

\* A sample gets the next number when it is appended to hc_changes: what is
\* before c in the list has a smaller number.
Older(h, c) == {d \in h.changes : h.cell[d].snr < h.cell[c].snr}

\* The head of hc_changes.
Oldest(h) == CHOOSE c \in h.changes : Older(h, c) = {}

\* Mutant of MakeRoom: the oldest samples go, acknowledged or not.
MakeRoomAnyway(h) ==
    LET gone == {c \in h.changes : Cardinality(h.changes \ Older(h, c)) >= MaxSamples}
    IN  [h EXCEPT !.changes = @ \ gone, !.used = @ \ gone]

\* The loop in hc_add that removes the oldest samples of a full cache: it
\* ends when there is room or when the oldest sample is not acknowledged.
MakeRoom(h) ==
    LET gone == {c \in h.changes : /\ Cardinality(h.changes \ Older(h, c)) >= MaxSamples
                                   /\ \A d \in Older(h, c) \cup {c} : h.cell[d].wack = 0}
    IN  [h EXCEPT !.changes = @ \ gone, !.used = @ \ gone]

\* The end of hc_add and hc_add_i with rtps_writer_new_change: the sample is
\* numbered and queued for every matched reader.  A volatile sample that
\* nobody wants is removed again.
hc_add_i(h, c) ==
    LET n == Cardinality(matched)
        new == [h EXCEPT !.changes = @ \cup {c}, !.last = @ + 1,
                         !.cell[c] = [snr |-> h.last + 1, wack |-> n, urgent |-> FALSE],
                         !.unacked = @ + n]
    IN  IF n = 0 /\ ~ h.durable THEN hc_remove_i(new, c) ELSE new

\* hc_add by thread t with cell c, from state h on: the sample is added if
\* there is room, otherwise the thread waits for the oldest sample.
hc_add(t, c, h) ==
    LET room == MakeRoom(h)
        oldest == Oldest(room)
    IN  IF Cardinality(room.changes) < MaxSamples
        THEN /\ hc' = hc_add_i(room, c)
             /\ queued' = [r \in Readers |->
                             IF r \in matched THEN queued[r] \cup {h.last + 1} ELSE queued[r]]
             /\ thread' = [thread EXCEPT ![t] = Idle]
        ELSE /\ hc' = hc_wait_add(room, oldest)
             /\ thread' = [thread EXCEPT ![t] =
                             [at |-> "room", own |-> c, victim |-> oldest,
                              wp |-> WaitContext(room, oldest), woken |-> FALSE]]
             /\ UNCHANGED queued

\* Cells the pool may hand out; without Reuse none that a blocked write still
\* refers to.  What was in a free cell is never looked at, so dcps_write
\* takes one of them, whichever.
FreeCells ==
    {c \in Slots \ hc.used :
        Reuse \/ \A t \in All : /\ thread[t].victim # c
                                /\ thread[t].wp # 0 => hc.waiters[thread[t].wp].change # c}

\* dcps_write.  dds_listener_state, which hc_wait_acked tests, is never set:
\* a write of a listener blocks as any other.
dcps_write(t) ==
    /\ thread[t].at = "idle"
    /\ t \in Threads \/ ListenerWrites
    /\ hc.last < MaxSnr
    /\ hc.durable \/ matched # {}
    /\ FreeCells # {}
    /\ LET c == CHOOSE c \in FreeCells : TRUE
       IN  hc_add(t, c, [hc EXCEPT !.used = @ \cup {c}])
    /\ UNCHANGED matched

\* The loop condition of hc_wait_acked.
StillWaiting(w) ==
    hc.waiters[w].change # Null /\ hc.cell[hc.waiters[w].change].wack > 0

\* A blocked write that was signalled goes on in hc_remove_i and hc_add.
hc_wait_acked(t) ==
    LET w == thread[t].wp
    IN  /\ thread[t].at = "room" /\ thread[t].woken
        /\ IF StillWaiting(w)
           THEN /\ thread' = [thread EXCEPT ![t].woken = FALSE]
                /\ UNCHANGED <<hc, queued>>
           ELSE hc_add(t, thread[t].own, hc_remove_i(hc_wait_free(hc, w), thread[t].victim))
        /\ UNCHANGED matched

\* DDS_DataWriter_wait_for_acknowledgments.
hc_wait_acks(t) ==
    /\ hc.durable \in Waiting /\ t \in Threads
    /\ thread[t].at = "idle"
    /\ hc.unacked > 0
    /\ hc' = hc_wait_add(hc, Null)
    /\ thread' = [thread EXCEPT ![t] =
                    [at |-> "acks", own |-> Null, victim |-> Null,
                     wp |-> WaitContext(hc, Null), woken |-> FALSE]]
    /\ UNCHANGED <<queued, matched>>

\* Its loop, after a signal.
WaitAcksLoop(t) ==
    /\ thread[t].at = "acks" /\ thread[t].woken
    /\ IF hc.unacked > 0
       THEN /\ thread' = [thread EXCEPT ![t].woken = FALSE]
            /\ UNCHANGED hc
       ELSE /\ thread' = [thread EXCEPT ![t] = Idle]
            /\ hc' = hc_wait_free(hc, thread[t].wp)
    /\ UNCHANGED <<queued, matched>>

\* The time limit of either wait passes: a write gives its new change up.
TimeOut(t) ==
    /\ ~ Forever
    /\ thread[t].at # "idle"
    /\ hc' = [hc_wait_free(hc, thread[t].wp) EXCEPT !.used = @ \ {thread[t].own}]
    /\ thread' = [thread EXCEPT ![t] = Idle]
    /\ UNCHANGED <<queued, matched>>

-----------------------------------------------------------------------------
(* Acknowledgement, by the core thread when it is not itself blocked.      *)

\* Mutant of hc_acknowledged: hc_unacked counts samples, not acknowledgements.
hc_acknowledged_last(h, S) ==
    LET acked == {c \in h.changes : h.cell[c].snr \in S}
        done == {c \in acked : h.cell[c].wack = 1}
    IN  [h EXCEPT !.cell = [c \in Slots |-> IF c \in acked THEN [h.cell[c] EXCEPT !.wack = @ - 1]
                                            ELSE h.cell[c]],
                  !.unacked = @ - Cardinality(done)]

\* hc_acknowledged for the samples S of one reader: a sample that was the last
\* reader's to acknowledge wakes up who waits for it and, in a volatile cache,
\* is removed; whoever waits for all is woken up when none is left.
hc_acknowledged(h, S) ==
    LET acked == {c \in h.changes : h.cell[c].snr \in S}
        done == {c \in acked : h.cell[c].wack = 1}
        gone == IF h.durable THEN {} ELSE done
    IN  [h EXCEPT !.cell = [c \in Slots |-> IF c \in acked THEN [h.cell[c] EXCEPT !.wack = @ - 1]
                                            ELSE h.cell[c]],
                  !.unacked = @ - Cardinality(acked),
                  !.changes = @ \ gone,
                  !.used = @ \ gone,
                  !.waiters = [w \in Contexts |->
                                 IF /\ h.waiters[w].nwaiting > 0 /\ h.waiters[w].change \in gone
                                    /\ h.cell[h.waiters[w].change].urgent
                                 THEN [h.waiters[w] EXCEPT !.change = Null] ELSE h.waiters[w]]]

\* Mutant of Signalled: who waits for all acknowledgements is not woken up.
SignalledChange(h, S) ==
    {w \in Contexts : \E c \in h.changes : /\ h.cell[c].snr \in S /\ h.cell[c].wack = 1
                                          /\ h.cell[c].urgent
                                          /\ w \in hc_wait_lookup(h, c)}

\* The contexts that hc_acknowledged signals.
Signalled(h, S) ==
    {w \in Contexts :
        \/ \E c \in h.changes : /\ h.cell[c].snr \in S /\ h.cell[c].wack = 1
                               /\ h.cell[c].urgent
                               /\ w \in hc_wait_lookup(h, c)
        \/ LET after == hc_acknowledged(h, S)
           IN  after.unacked = 0 /\ after.unacked # h.unacked /\ h.blocked /\ w \in hc_wait_lookup(h, Null)}

Acknowledge(r, S) ==
    /\ thread[Core].at = "idle"
    /\ hc' = hc_acknowledged(hc, S)
    /\ queued' = [queued EXCEPT ![r] = @ \ S]
    /\ LET signalled == Signalled(hc, S)
       IN  thread' = [t \in All |-> IF thread[t].wp \in signalled
                                    THEN [thread[t] EXCEPT !.woken = TRUE] ELSE thread[t]]

\* An ACKNACK of reader r acknowledges the oldest samples of its proxy.
sfw_rel_acknack(r) ==
    /\ \E n \in queued[r] : Acknowledge(r, {s \in queued[r] : s <= n})
    /\ UNCHANGED matched

\* The match with r ends: change_delete_enqueued acknowledges what is queued.
rtps_matched_reader_remove(r) ==
    /\ r \in matched
    /\ Acknowledge(r, queued[r])
    /\ matched' = matched \ {r}

\* Reader r is matched: a durable cache is replayed to it (hc_replay).
rtps_matched_reader_add(r) ==
    /\ r \notin matched
    /\ thread[Core].at = "idle"
    /\ matched' = matched \cup {r}
    /\ IF hc.durable
       THEN /\ hc' = [hc EXCEPT !.cell = [c \in Slots |-> IF c \in hc.changes
                                                          THEN [hc.cell[c] EXCEPT !.wack = @ + 1]
                                                          ELSE hc.cell[c]],
                                !.unacked = @ + Cardinality(hc.changes)]
            /\ queued' = [queued EXCEPT ![r] = Numbers(hc)]
       ELSE UNCHANGED <<hc, queued>>
    /\ UNCHANGED thread

Next ==
    \/ \E t \in All : \/ dcps_write(t) \/ hc_wait_acked(t) \/ hc_wait_acks(t)
                      \/ WaitAcksLoop(t) \/ TimeOut(t)
    \/ \E r \in Readers : \/ sfw_rel_acknack(r)
                          \/ rtps_matched_reader_remove(r) \/ rtps_matched_reader_add(r)

Spec == Init /\ [][Next]_vars

\* A thread that was signalled gets the lock, the core thread serves its
\* sockets, and readers acknowledge what they are sent.
Fairness ==
    /\ \A t \in All : WF_vars(hc_wait_acked(t) \/ WaitAcksLoop(t))
    /\ \A r \in Readers : WF_vars(sfw_rel_acknack(r))

FairSpec == Spec /\ Fairness

-----------------------------------------------------------------------------
(* Properties.                                                             *)

\* Every variable keeps its type: counters do not go below zero
\* (hc_acknowledged, hc_wait_free).
TypeOK ==
    /\ hc \in [durable : BOOLEAN, changes : SUBSET Slots,
               cell : [Slots -> [snr : Nat, wack : Nat, urgent : BOOLEAN]],
               used : SUBSET Slots, last : Nat, unacked : Nat, blocked : BOOLEAN,
               waiters : [Contexts -> [change : Slots \cup {Null}, wchange : BOOLEAN,
                                       nwaiting : Nat]]]
    /\ queued \in [Readers -> SUBSET Nat]
    /\ matched \subseteq Readers
    /\ thread \in [All -> [at : {"idle", "room", "acks"}, own : Slots \cup {Null},
                           victim : Slots \cup {Null}, wp : {0} \cup Contexts,
                           woken : BOOLEAN]]

\* A KEEP_ALL writer never drops a sample that a matched reader has yet to
\* acknowledge, however blocked writes, acknowledgements, time-outs and
\* matches interleave (hc_remove_i, cache.c).
KeepsUnacked == \A r \in matched : queued[r] \subseteq Numbers(hc)

\* The acknowledgements that the queues q of the proxies still want.
Unacked(q) == UNION {{<<r, n>> : n \in q[r]} : r \in Readers}

\* hc_unacked counts the acknowledgements that are still to come, so that
\* wait_for_acknowledgments neither returns early nor waits for ever, and two
\* writers that race for the same room do not overfill the cache.
UnackedExact ==
    /\ hc.unacked = Cardinality(Unacked(queued))
    /\ Cardinality(hc.changes) <= MaxSamples

\* No wake-up is lost: a thread that sleeps in hc_wait_acked waits for a
\* sample in the cache that is not acknowledged and marked urgent, one that
\* sleeps in hc_wait_acks has acknowledgements to wait for and hc_blocked set.
NoLostWakeup ==
    \A t \in All :
        /\ thread[t].at = "room" /\ ~ thread[t].woken =>
              LET c == hc.waiters[thread[t].wp].change
              IN  c \in hc.changes /\ hc.cell[c].wack > 0 /\ hc.cell[c].urgent
        /\ thread[t].at = "acks" /\ ~ thread[t].woken => hc.unacked > 0 /\ hc.blocked

\* The core thread, which processes the acknowledgements, never waits for one:
\* what dds_listener_state ("Currently in a listener", domain.c) is tested for.
ListenerNeverBlocks == thread[Core].at = "idle"

\* A blocked write and a wait for acknowledgements end when readers keep
\* acknowledging, also without a time limit, unless readers come and go for
\* ever (each durable match makes every sample unacknowledged again).
WaitsEnd ==
    <>[][UNCHANGED matched]_matched
        => \A t \in All : thread[t].at # "idle" ~> thread[t].at = "idle"
=============================================================================
