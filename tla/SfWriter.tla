------------------------------ MODULE SfWriter ------------------------------
(***************************************************************************)
(* The stateful reliable writer: a writer history cache (cache.c) and one  *)
(* RemReader_t proxy of rtps_sfrw.c, that is, what a reliable writer keeps *)
(* for one matched reader.                                                 *)
(*                                                                         *)
(* The list rr_changes of the code has one node per sample and one node    *)
(* per range of irrelevant numbers (a gap).  Here it is a record: the      *)
(* state of every number, which numbers are samples, and at which numbers  *)
(* a node starts.  The pointer rr_unsent_changes is the number at which    *)
(* the node it points to starts, Null, or Freed when that node was deleted *)
(* and the pointer was left behind.                                        *)
(***************************************************************************)
EXTENDS RtpsNumbers, Integers, FiniteSets, FiniteSetsExt

CONSTANTS
    Durable,   \* writer and reader durability above VOLATILE
    MustAck,   \* hc_must_ack: KEEP_ALL history, never drop an unacked sample
    Depth,     \* samples the cache holds
    Lifespan,  \* samples may expire (hc_check_lifespan)
    Restarts   \* the operator restarts proxies (debug command, rtps_dbg.c)

ASSUME WriterAssumption ==
    /\ MaxSnr \in Nat
    /\ {Durable, MustAck, Lifespan, Restarts} \subseteq BOOLEAN
    /\ Depth \in Nat \ {0}
    /\ CountMod \in Nat \ {0}

Null  == 0
Freed == MaxSnr + 1

Unsent    == "unsent"     \* CS_UNSENT
Underway  == "underway"   \* CS_UNDERWAY: sent, not acknowledged
Requested == "requested"  \* CS_REQUESTED: asked for by an ACKNACK
Acked     == "acked"      \* CS_ACKED

VARIABLES
    hc_last,        \* hc_last_seqnr: number of the last sample written
    hc_cache,       \* numbers of the samples in the writer's cache
    hc_wack,        \* samples of the cache with c_wack: the reader's ack is awaited
    rr_cstate,      \* "none": no proxy; "ready": proxy active
    rr_changes,     \* the list and rr_unsent_changes, see above
    rr_tstate,      \* "idle", "pushing" or "announcing"
    rr_astate,      \* "waiting" or "repairing"
    rr_active,      \* the proxy is queued for rtps_send_changes
    rr_peer_alive,  \* an ACKNACK was received
    rr_new_snr,     \* where the list would start if it is empty
    rr_last_ack,    \* count of the last ACKNACK processed
    rr_nack_timer,  \* the WALIVE_TO timer runs
    rh_timer,       \* the HEARTBEAT timer runs
    heartbeats,     \* count of the HEARTBEATs sent
    rr_sent         \* the submessages the last step put on the wire

cacheVars == <<hc_last, hc_cache, hc_wack>>
wvars == <<hc_last, hc_cache, hc_wack, rr_cstate, rr_changes, rr_tstate, rr_astate,
           rr_active, rr_peer_alive, rr_new_snr, rr_last_ack, rr_nack_timer, rh_timer,
           heartbeats, rr_sent>>

-----------------------------------------------------------------------------
(* Submessages.                                                            *)

DataMsg(s) == [type |-> "DATA", snr |-> s]

GapMsg(start, base, bits) ==
    [type |-> "GAP", start |-> start, base |-> base, bits |-> bits]

HeartbeatMsg(first, last, final, liveliness) ==
    [type |-> "HB", first |-> first, last |-> last, final |-> final,
     liveliness |-> liveliness, count |-> (heartbeats + 1) % CountMod]

\* Mutant of SendHeartbeat: the count does not wrap.
SendHeartbeatUnwrapped(first, last, final, liveliness) ==
    /\ heartbeats' = heartbeats + 1
    /\ rr_sent' = {HeartbeatMsg(first, last, final, liveliness)}

SendHeartbeat(first, last, final, liveliness) ==
    /\ heartbeats' = (heartbeats + 1) % CountMod
    /\ rr_sent' = {HeartbeatMsg(first, last, final, liveliness)}

Send(msgs) == rr_sent' = msgs /\ UNCHANGED heartbeats

-----------------------------------------------------------------------------
(* The list of changes of the proxy.                                       *)

EmptyList == [state |-> [s \in Snr |-> None], rel |-> {}, first |-> {},
              towire |-> {}, unsent |-> Null]

Listed(q) == {s \in Snr : q.state[s] # None}

\* Number at which the node that covers s starts, and the node's numbers.
NodeStart(q, s) == Max({f \in q.first : f <= s})
Node(q, s) == {t \in Listed(q) : NodeStart(q, t) = NodeStart(q, s)}

MinOr(S, default) == IF S = {} THEN default ELSE Min(S)

\* Mutant of CacheMin: the oldest sample is left out.
CacheMinNext == MinOr(hc_cache, hc_last) + 1

\* hc_seqnr_info
CacheMin == MinOr(hc_cache, hc_last + 1)

\* Mutant of AddSample: rr_unsent_changes is not set for a new sample.
AddSampleNotUnsent(q, s) ==
    [state |-> [q.state EXCEPT ![s] = Unsent],
     rel |-> q.rel \cup {s},
     first |-> q.first \cup {s},
     towire |-> q.towire \cup {s},
     unsent |-> q.unsent]

\* sfw_rel_new_change with a sample: numbers skipped since the tail of the
\* list become a gap, or extend the gap at the tail.
AddSample(q, s) ==
    LET tail == Max(Listed(q))
        skipped == IF Listed(q) = {} THEN {} ELSE (tail + 1)..(s - 1)
    IN  [state |-> [t \in Snr |->
                        CASE t = s -> Unsent
                          [] t \in skipped -> IF tail \in q.rel THEN Unsent
                                              ELSE q.state[tail]
                          [] OTHER -> q.state[t]],
         rel |-> q.rel \cup {s},
         first |-> q.first \cup {s}
                     \cup (IF skipped # {} /\ tail \in q.rel THEN {tail + 1} ELSE {}),
         towire |-> q.towire \cup {s},
         unsent |-> IF q.unsent = Null THEN s ELSE q.unsent]

\* Mutant of Replay: nothing is replayed.
ReplayNothing(cache) == EmptyList

\* Mutant of Replay: no gaps between the samples.
ReplayNoGaps(cache) ==
    IF cache = {} THEN EmptyList
    ELSE [state |-> [s \in Snr |-> IF s \in cache THEN Unsent ELSE None],
          rel |-> cache, first |-> cache, towire |-> cache, unsent |-> Min(cache)]

\* hc_replay into an empty list: every cached sample, gaps in between.
Replay(cache) ==
    IF cache = {} THEN EmptyList
    ELSE LET all == Min(cache)..Max(cache)
         IN  [state |-> [s \in Snr |-> IF s \in all THEN Unsent ELSE None],
              rel |-> cache,
              first |-> {s \in all : s \in cache \/ s - 1 \in cache},
              towire |-> cache,
              unsent |-> Min(cache)]

\* sfw_rel_rem_change: the sample becomes a gap that is merged with the gaps
\* next to it; then all gaps at the head of the list are dropped.
RemoveSample(q, s) ==
    LET rest == {t \in Listed(q) : t > s}
        next == MinOr(rest, Null)
        nextGap == next # Null /\ next \notin q.rel
        prevGap == s - 1 \in Listed(q) /\ s - 1 \notin q.rel
        start == IF prevGap THEN NodeStart(q, s - 1) ELSE s
        state == IF nextGap THEN q.state[next]
                 ELSE IF prevGap THEN q.state[s - 1] ELSE q.state[s]
        rel == q.rel \ {s}
        head == {t \in Listed(q) : \A u \in rel : t < u}
        unsent == IF q.unsent = s THEN MinOr({t \in rel : t > s}, Null)
                  ELSE IF nextGap /\ prevGap /\ q.unsent = start THEN Freed
                  ELSE IF nextGap /\ q.unsent = next THEN start
                  ELSE q.unsent
    IN  [state |-> [t \in Snr |-> IF t \in head THEN None
                                  ELSE IF start <= t /\ t <= s THEN state
                                  ELSE q.state[t]],
         rel |-> rel,
         first |-> ((q.first \ {s, next}) \cup {start}
                       \cup (IF nextGap THEN {} ELSE {next} \cap Snr)) \ head,
         towire |-> q.towire \ {s},
         unsent |-> IF unsent \in head THEN Freed ELSE unsent]

\* sfw_rel_acknack: the gap added behind the list for numbers asked for there.
\* Number 0, where a reset proxy starts, is below every base and left out.
AddImplicitGap(q, from, to) ==
    LET tail == Max(Listed(q))
        join == Listed(q) # {} /\ tail \notin q.rel /\ q.state[tail] = Unsent
        start == IF join THEN NodeStart(q, tail) ELSE Max({from, 1})
    IN  [q EXCEPT !.state = [s \in Snr |-> IF from <= s /\ s <= to THEN Unsent
                                           ELSE q.state[s]],
                  !.first = @ \cup {start},
                  !.unsent = IF @ = Null /\ ~ join THEN start ELSE @]

\* What an ACKNACK says about number s of the list: a zero bit acknowledges.
\* A gap whose last covered number is requested is requested to its end.
AckVerdict(q, m, s) ==
    LET max == m.base + m.numbits
        asked == IF s < max THEN s - m.base \in m.bits
                 ELSE /\ s \notin q.rel /\ m.numbits > 0
                      /\ max - 1 \in Node(q, s) /\ m.numbits - 1 \in m.bits
    IN  IF q.state[s] = Acked \/ s < m.base THEN Acked
        ELSE IF asked THEN Requested
        ELSE IF s < max THEN Acked ELSE q.state[s]

\* Mutant of AckRequested: requested gaps do not count.
AckRequestedSamples(q, m) ==
    {s \in q.rel : /\ q.state[s] # Acked
                   /\ m.base <= s /\ s < m.base + m.numbits
                   /\ s - m.base \in m.bits}

\* Numbers of the list whose bit is set.
AckRequested(q, m) ==
    {s \in Listed(q) : /\ q.state[s] # Acked
                       /\ m.base <= s /\ s < m.base + m.numbits
                       /\ s - m.base \in m.bits}

AckList(q, m) ==
    [q EXCEPT !.state = [s \in Snr |-> IF s \in Listed(q) THEN AckVerdict(q, m, s)
                                       ELSE None],
              !.first = @ \cup {s \in Listed(q) \ q.rel :
                                  /\ s - 1 \in Listed(q)
                                  /\ AckVerdict(q, m, s) # AckVerdict(q, m, s - 1)},
              !.towire = @ \cup (AckRequested(q, m) \cap q.rel)]

\* Mutant of AckedPrefix: the head of the list is taken for acknowledged.
AckedPrefixHead(q) ==
    {s \in Listed(q) : \A t \in Listed(q) : t < s => q.state[t] = Acked}

AckedPrefix(q) ==
    {s \in Listed(q) : \A t \in Listed(q) : t <= s => q.state[t] = Acked}

\* change_remove_ref for every acknowledged node at the head of the list.
DropPrefix(q, gone) ==
    LET left == Listed(q) \ gone
    IN  [state |-> [s \in Snr |-> IF s \in gone THEN None ELSE q.state[s]],
         rel |-> q.rel \ gone,
         first |-> q.first \ gone,
         towire |-> q.towire \ gone,
         unsent |-> IF q.unsent \in gone THEN MinOr(left, Null) ELSE q.unsent]

-----------------------------------------------------------------------------
(* The writer's cache.                                                     *)

\* Samples that make room for a new one.  KEEP_ALL only drops the oldest, and
\* only once it is acknowledged (hc_wait_acked); KEEP_LAST drops the oldest
\* sample of the instance written to, which may be any of the cache.
Victims ==
    LET full == Cardinality(hc_cache) >= Depth
    IN  IF MustAck
        THEN IF full THEN {{s} : s \in {Min(hc_cache)} \ hc_wack} ELSE {{}}
        ELSE {{s} : s \in hc_cache} \cup (IF full THEN {} ELSE {{}})

\* hc_remove_i: the proxy hears about it if it still waits for the reader.
RemoveFromList(q, victim) ==
    IF victim = {} \/ victim \cap hc_wack \cap Listed(q) = {} THEN q
    ELSE RemoveSample(q, CHOOSE s \in victim : TRUE)

\* Mutant of sfw_announce: the HEARTBEAT timer is not started.
sfw_announce_once == rr_tstate' = "announcing" /\ UNCHANGED rh_timer

\* sfw_announce: HEARTBEATs follow until everything is acknowledged.  The one
\* that an urgent announcement sends at once is the timer firing at once.
sfw_announce == rr_tstate' = "announcing" /\ rh_timer' = TRUE

\* What sfw_rel_new_change starts for a change that is now in the list.
StartSending ==
    \/ /\ rr_peer_alive
       /\ rr_tstate' = "pushing" /\ rr_active' = TRUE /\ UNCHANGED rh_timer
    \/ /\ ~ rr_peer_alive /\ ~ rh_timer
       /\ sfw_announce /\ UNCHANGED rr_active
    \/ /\ ~ rr_peer_alive /\ rh_timer
       /\ UNCHANGED <<rr_tstate, rr_active, rh_timer>>

\* A write (hc_add): room is made, the sample enters cache and list.  Nobody
\* waits for a volatile sample without a reader and it leaves at once.
hc_add(victim) ==
    /\ hc_last < MaxSnr
    /\ victim \in Victims
    /\ hc_last' = hc_last + 1
    /\ LET s == hc_last + 1
       IN  IF rr_cstate = "ready"
           THEN /\ hc_cache' = (hc_cache \ victim) \cup {s}
                /\ hc_wack' = (hc_wack \ victim) \cup {s}
                /\ rr_changes' = AddSample(RemoveFromList(rr_changes, victim), s)
                /\ StartSending
           ELSE /\ hc_cache' = IF Durable THEN (hc_cache \ victim) \cup {s}
                               ELSE hc_cache \ victim
                /\ UNCHANGED <<hc_wack, rr_changes, rr_tstate, rr_active, rh_timer>>
    /\ Send({})
    /\ UNCHANGED <<rr_cstate, rr_astate, rr_peer_alive, rr_new_snr, rr_last_ack,
                   rr_nack_timer>>

\* hc_check_lifespan: the oldest sample expires, unless KEEP_ALL still waits
\* for it; a call that removes several is several of these steps.
hc_check_lifespan ==
    /\ Lifespan
    /\ hc_cache # {}
    /\ LET s == Min(hc_cache)
       IN  /\ MustAck => s \notin hc_wack
           /\ hc_cache' = hc_cache \ {s}
           /\ hc_wack' = hc_wack \ {s}
           /\ rr_changes' = RemoveFromList(rr_changes, {s})
    /\ Send({})
    /\ UNCHANGED <<hc_last, rr_cstate, rr_tstate, rr_astate, rr_active, rr_peer_alive,
                   rr_new_snr, rr_last_ack, rr_nack_timer, rh_timer>>

-----------------------------------------------------------------------------
(* Sending.                                                                *)

\* Mutant of GapFor: the range is one too long.
GapForTooLong(q, irrelevant) ==
    IF irrelevant = {} THEN {}
    ELSE LET head == Node(q, Min(irrelevant))
         IN  {GapMsg(Min(head), Max(head) + 2, irrelevant \ head)}

\* The one GAP submessage for a set of irrelevant numbers of list q: the
\* first node is its range, the other numbers are bits.
GapFor(q, irrelevant) ==
    IF irrelevant = {} THEN {}
    ELSE LET head == Node(q, Min(irrelevant))
         IN  {GapMsg(Min(head), Max(head) + 1, irrelevant \ head)}

\* Send the nodes that cover the numbers in todo.
Transmit(q, todo) ==
    LET data == todo \cap q.rel \cap q.towire
        gaps == {s \in todo \ q.rel : q.state[s] # Underway}
    IN  /\ Send({DataMsg(s) : s \in data} \cup GapFor(q, gaps))
        /\ rr_changes' =
              [q EXCEPT !.state = [s \in Snr |-> IF s \in todo THEN Underway ELSE @[s]],
                        !.towire = @ \ data,
                        !.unsent = IF rr_tstate = "pushing" THEN Null ELSE @]
        /\ sfw_announce

\* rtps_send_changes for this proxy: sfw_rel_send_data, then it is inactive.
\* Pushing sends everything from the unsent pointer on, repairing sends what
\* is requested; a repair that is due while pushing waits for the next call.
SendPushed ==
    /\ rr_tstate = "pushing"
    /\ Listed(rr_changes) # {}
    /\ rr_changes.unsent # Freed
    /\ Transmit(rr_changes, IF rr_changes.unsent = Null THEN {}
                            ELSE {s \in Listed(rr_changes) : s >= rr_changes.unsent})
    /\ UNCHANGED rr_astate

SendRequested ==
    /\ rr_tstate # "pushing"
    /\ rr_astate = "repairing"
    /\ LET todo == {s \in Listed(rr_changes) : rr_changes.state[s] = Requested}
       IN  IF todo # {} THEN Transmit(rr_changes, todo)
           ELSE Send({}) /\ UNCHANGED <<rr_changes, rr_tstate, rh_timer>>
    /\ rr_astate' = IF Listed(rr_changes) = {} THEN rr_astate ELSE "waiting"

SendNothing ==
    /\ \/ rr_tstate = "pushing" /\ Listed(rr_changes) = {}
       \/ rr_tstate # "pushing" /\ rr_astate # "repairing"
    /\ Send({})
    /\ UNCHANGED <<rr_changes, rr_tstate, rr_astate, rh_timer>>

rtps_send_changes ==
    /\ rr_active
    /\ SendPushed \/ SendRequested \/ SendNothing
    /\ rr_active' = FALSE
    /\ UNCHANGED <<cacheVars, rr_cstate, rr_peer_alive, rr_new_snr, rr_last_ack,
                   rr_nack_timer>>

\* sfw_heartbeat_to: no HEARTBEAT is needed unless the proxy announces.  With
\* an empty list the HEARTBEAT says 0..0 and every receiver rejects it.
sfw_heartbeat_to ==
    /\ rh_timer
    /\ IF rr_cstate = "ready" /\ rr_tstate = "announcing"
       THEN /\ rr_active' = TRUE
            /\ UNCHANGED rh_timer
            /\ IF Listed(rr_changes) = {}
               THEN SendHeartbeat(0, 0, FALSE, FALSE)
               ELSE SendHeartbeat(Min({CacheMin, Min(Listed(rr_changes))}),
                                  Min({hc_last, Max(Listed(rr_changes))}), FALSE, FALSE)
       ELSE rh_timer' = FALSE /\ UNCHANGED rr_active /\ Send({})
    /\ UNCHANGED <<cacheVars, rr_cstate, rr_changes, rr_tstate, rr_astate, rr_peer_alive,
                   rr_new_snr, rr_last_ack, rr_nack_timer>>

\* Poll the reader: what is unsent is pushed, an empty cache only says that
\* the writer is there.
sfw_rel_send_alive ==
    /\ rr_active' = TRUE
    /\ IF hc_cache # {} /\ rr_changes.unsent # Null
       THEN rr_tstate' = "pushing" /\ Send({})
       ELSE /\ UNCHANGED rr_tstate
            /\ IF hc_cache = {} THEN SendHeartbeat(CacheMin, CacheMin, TRUE, TRUE)
               ELSE SendHeartbeat(CacheMin, hc_last, FALSE, FALSE)

sfw_rel_alive_to ==
    /\ rr_nack_timer
    /\ sfw_rel_send_alive
    /\ UNCHANGED <<cacheVars, rr_cstate, rr_changes, rr_astate, rr_peer_alive,
                   rr_new_snr, rr_last_ack, rr_nack_timer, rh_timer>>

-----------------------------------------------------------------------------
(* The life of the proxy.                                                  *)

\* The list is filled from the cache for a reader that is not heard of yet.
ReplayCache ==
    /\ rr_changes' = Replay(hc_cache)
    /\ hc_wack' = hc_cache
    /\ IF hc_cache # {} /\ ~ rh_timer THEN sfw_announce
       ELSE rr_tstate' = "idle" /\ UNCHANGED rh_timer

sfw_rel_start ==
    /\ rr_cstate = "none"
    /\ rr_cstate' = "ready"
    /\ IF Durable
       THEN ReplayCache /\ rr_new_snr' = 1
       ELSE /\ rr_new_snr' = hc_last + 1
            /\ rr_tstate' = "idle"
            /\ UNCHANGED <<rr_changes, hc_wack, rh_timer>>
    /\ rr_nack_timer' = (rr_changes'.unsent # Null)
    /\ Send({})
    /\ UNCHANGED <<hc_last, hc_cache, rr_astate, rr_active, rr_peer_alive, rr_last_ack>>

\* sfw_restart: the reader was restarted.  A durable proxy acknowledges all
\* that is queued and starts from the cache, a volatile one sends again what
\* was sent.
RestartList(q) ==
    LET again == {s \in Listed(q) : q.state[s] \in {Requested, Underway}}
    IN  [q EXCEPT !.state = [s \in Snr |-> IF s \in again THEN Unsent ELSE @[s]],
                  !.unsent = MinOr(again, Null)]

\* alive_timer: the WALIVE_TO timer still runs.
sfw_restart(alive_timer) ==
    /\ rr_astate' = "waiting"
    /\ rr_peer_alive' = FALSE
    /\ IF Durable
       THEN ReplayCache /\ rr_new_snr' = 1 /\ rr_active' = FALSE
       ELSE /\ rr_new_snr' = 0
            /\ rr_changes' = RestartList(rr_changes)
            /\ rr_tstate' = "idle"
            /\ UNCHANGED <<hc_wack, rr_active, rh_timer>>
    /\ rr_nack_timer' = (alive_timer \/ rr_changes'.unsent # Null)
    /\ Send({})
    /\ UNCHANGED <<hc_last, hc_cache, rr_cstate>>

rtps_matched_reader_restart ==
    /\ Restarts
    /\ rr_cstate = "ready"
    /\ sfw_restart(rr_nack_timer)
    /\ UNCHANGED rr_last_ack

\* Nobody waits any more for the samples that are queued.
change_delete_enqueued == hc_wack' = hc_wack \ rr_changes.rel

\* change_delete_enqueued and sfw_rel_all_acked, then the proxy is gone.
sfw_rel_finish ==
    /\ rr_cstate = "ready"
    /\ rr_cstate' = "none"
    /\ change_delete_enqueued
    /\ hc_cache' = IF Durable THEN hc_cache
                   ELSE hc_cache \ (hc_wack \cap rr_changes.rel)
    /\ rr_changes' = EmptyList
    /\ rr_tstate' = "idle"
    /\ rr_astate' = "waiting"
    /\ rr_active' = FALSE
    /\ rr_peer_alive' = FALSE
    /\ rr_new_snr' = 0
    /\ rr_last_ack' = 0
    /\ rr_nack_timer' = FALSE
    /\ rh_timer' = FALSE
    /\ Send({})
    /\ UNCHANGED hc_last

-----------------------------------------------------------------------------
(* ACKNACK.                                                                *)

ZeroAck(m) == m.base = 0 /\ m.numbits = 0

\* Numbers asked for in front of the list.
AckGapBits(m) ==
    LET q == rr_changes
        start == IF Listed(q) # {} THEN Min(Listed(q)) ELSE rr_new_snr
    IN  IF Listed(q) = {} /\ m.numbits > 0 THEN m.numbits
        ELSE IF m.base < start THEN start - m.base ELSE 0

\* The immediate GAP that tells a volatile reader to stop asking for them.
ImmediateGap(m) ==
    LET n == AckGapBits(m)
        asked == IF m.numbits > 0
                 THEN {i \in m.bits : i < n} ELSE 0..(n - 1)
    IN  IF n = 0 THEN {} ELSE {GapMsg(m.base, m.base, {m.base + i : i \in asked})}

\* First answer of a reader: the peer is alive, what is queued is pushed.
AckWakesUp(m) ==
    /\ ~ rr_peer_alive
    /\ Listed(rr_changes) # {}
    /\ ZeroAck(m) \/ rr_changes.unsent # Null
    /\ rr_tstate' = "pushing"
    /\ rr_active' = TRUE
    /\ rr_nack_timer' = FALSE
    /\ Send({})
    /\ UNCHANGED <<cacheVars, rr_changes, rr_astate, rr_new_snr, rh_timer>>

AckAlive(m) == rr_peer_alive \/ Listed(rr_changes) = {} \/
                  (~ ZeroAck(m) /\ rr_changes.unsent = Null)

AckZero(m) ==
    /\ AckAlive(m)
    /\ ZeroAck(m)
    /\ IF rr_tstate = "idle" THEN sfw_rel_send_alive
       ELSE Send({}) /\ UNCHANGED <<rr_tstate, rr_active>>
    /\ rr_nack_timer' = (rr_nack_timer /\ rr_peer_alive)
    /\ UNCHANGED <<cacheVars, rr_changes, rr_astate, rr_new_snr, rh_timer>>

\* A durable reader asks for what is no longer queued: start again.  The first
\* answer stopped the alive timer.
AckRestarts(m) ==
    /\ AckAlive(m)
    /\ ~ ZeroAck(m)
    /\ Durable /\ AckGapBits(m) > 0
    /\ sfw_restart(rr_nack_timer /\ rr_peer_alive)

\* The list is updated, requested changes are repaired, and acknowledged
\* changes leave the list and, if nobody else needs them, the cache.
AckProcessed(m) ==
    /\ AckAlive(m)
    /\ ~ ZeroAck(m)
    /\ ~ (Durable /\ AckGapBits(m) > 0)
    /\ LET end == IF Listed(rr_changes) = {} THEN rr_new_snr
                  ELSE Max(Listed(rr_changes)) + 1
           known == IF m.base + m.numbits >= end /\ hc_last > end
                    THEN AddImplicitGap(rr_changes, end, hc_last) ELSE rr_changes
           acked == AckList(known, m)
           repair == AckRequested(known, m) # {}
           gone == AckedPrefix(acked)
           left == DropPrefix(acked, gone)
           done == Listed(left) = {} /\ AckGapBits(m) = 0
       IN  /\ rr_changes' = left
           /\ hc_wack' = hc_wack \ (gone \cap acked.rel)
           /\ hc_cache' = IF Durable THEN hc_cache
                          ELSE hc_cache \ (gone \cap acked.rel \cap hc_wack)
           /\ rr_new_snr' = IF gone # {} /\ Listed(left) = {} THEN Max(gone)
                            ELSE rr_new_snr
           /\ Send(ImmediateGap(m))
           /\ rr_active' = (rr_active \/ repair \/ AckGapBits(m) > 0)
           /\ rr_tstate' = IF done THEN "idle" ELSE rr_tstate
           /\ rr_astate' = IF done THEN "waiting"
                           ELSE IF repair THEN "repairing" ELSE rr_astate
           /\ rr_nack_timer' = (rr_nack_timer /\ rr_peer_alive /\ ~ done)
           /\ rh_timer' = (rh_timer /\ ~ done)
    /\ UNCHANGED hc_last

sfw_rel_acknack(m) ==
    /\ rr_cstate = "ready"
    /\ \/ /\ m.count = rr_last_ack
          /\ Send({})
          /\ UNCHANGED <<cacheVars, rr_cstate, rr_changes, rr_tstate, rr_astate, rr_active,
                         rr_peer_alive, rr_new_snr, rr_last_ack, rr_nack_timer, rh_timer>>
       \/ /\ m.count # rr_last_ack
          /\ rr_last_ack' = m.count
          /\ \/ AckRestarts(m)
             \/ /\ AckWakesUp(m) \/ AckZero(m) \/ AckProcessed(m)
                /\ rr_peer_alive' = TRUE
                /\ UNCHANGED rr_cstate

-----------------------------------------------------------------------------

WriterInit ==
    /\ hc_last = 0
    /\ hc_cache = {}
    /\ hc_wack = {}
    /\ rr_cstate = "none"
    /\ rr_changes = EmptyList
    /\ rr_tstate = "idle"
    /\ rr_astate = "waiting"
    /\ rr_active = FALSE
    /\ rr_peer_alive = FALSE
    /\ rr_new_snr = 0
    /\ rr_last_ack = 0
    /\ rr_nack_timer = FALSE
    /\ rh_timer = FALSE
    /\ heartbeats = 0
    /\ rr_sent = {}

\* ACKNACKs of an arbitrary reader, numbers up to MaxSnr only.
AckNackMsg ==
    {m \in [base: 0..MaxSnr + 1, numbits: 0..MaxSnr, bits: SUBSET (0..MaxSnr - 1),
            count: 0..CountMod - 1] :
        /\ m.base = 0 => m.numbits = 0
        /\ m.base + m.numbits <= MaxSnr + 1
        /\ \A i \in m.bits : i < m.numbits}

WriterNext ==
    \/ \E victim \in Victims : hc_add(victim)
    \/ hc_check_lifespan
    \/ rtps_send_changes
    \/ sfw_heartbeat_to
    \/ sfw_rel_alive_to
    \/ sfw_rel_start
    \/ rtps_matched_reader_restart
    \/ sfw_rel_finish
    \/ \E m \in AckNackMsg : sfw_rel_acknack(m)

WriterSpec == WriterInit /\ [][WriterNext]_wvars

-----------------------------------------------------------------------------
(* Properties.                                                             *)

\* Every variable keeps its type; the cache waits only for samples it holds,
\* and counts wrap (hc_acknowledged, sfw_send_heartbeat).
WriterTypeOK ==
    /\ hc_last \in 0..MaxSnr
    /\ hc_cache \subseteq 1..hc_last
    /\ hc_wack \subseteq hc_cache
    /\ rr_cstate \in {"none", "ready"}
    /\ rr_changes.state \in [Snr -> {None, Unsent, Underway, Requested, Acked}]
    /\ rr_changes.first \subseteq Snr
    /\ rr_changes.unsent \in 0..MaxSnr + 1
    /\ rr_tstate \in {"idle", "pushing", "announcing"}
    /\ rr_astate \in {"waiting", "repairing"}
    /\ {rr_active, rr_peer_alive, rr_nack_timer, rh_timer} \subseteq BOOLEAN
    /\ rr_new_snr \in 0..MaxSnr + 1
    /\ {rr_last_ack, heartbeats} \subseteq 0..CountMod - 1

\* The nodes of the list cover consecutive numbers and a node starts at every
\* sample and behind every sample, however samples are added, expire, are
\* replayed and acknowledged: what RANGE_CHECK tests in rtps_sfrw.c.
ListWellFormed ==
    LET q == rr_changes
    IN  /\ \A s, t \in Listed(q) : \A u \in s..t : u \in Listed(q)
        /\ q.first \subseteq Listed(q)
        /\ q.rel \subseteq Listed(q)
        /\ \A s \in Listed(q) :
              s \in q.rel \/ s - 1 \in q.rel \/ s = Min(Listed(q)) => s \in q.first

\* rr_unsent_changes points to a node of the list or is NULL: what the
\* debugging aid sfw_rel_verify_ptr reports when it is not so.
UnsentValid == rr_changes.unsent \in {Null} \cup rr_changes.first

\* A sample that was never sent is at or behind rr_unsent_changes, where the
\* next push starts, as long as the pointer points to a node.
UnsentReachable ==
    rr_changes.unsent # Freed =>
        \A s \in rr_changes.rel : rr_changes.state[s] = Unsent =>
            rr_changes.unsent # Null /\ rr_changes.unsent <= s

\* A sample whose acknowledgement the cache waits for is in the list of the
\* proxy, so that an ACKNACK can release it.
WaitedForIsQueued == hc_wack \subseteq rr_changes.rel

\* A change that was asked for is going to be repaired.
RepairScheduled ==
    (\E s \in Snr : rr_changes.state[s] = Requested) =>
        rr_astate = "repairing" /\ (rr_active \/ rh_timer)

\* A HEARTBEAT never declares a sample unavailable that the reader still has
\* to acknowledge.
HeartbeatSparesSamples ==
    \A m \in rr_sent : m.type = "HB" => \A s \in hc_wack : m.first <= s
=============================================================================
