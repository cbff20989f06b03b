------------------------------ MODULE SfReader ------------------------------
(***************************************************************************)
(* The stateful reliable reader: one RemWriter_t proxy of rtps_sfrr.c,     *)
(* that is, what a reliable reader keeps for one matched writer.           *)
(*                                                                         *)
(* The list rw_changes of the code holds nodes that are either one sample  *)
(* or a range of numbers sharing a state.  Here it is a function that      *)
(* gives the state of every sequence number, None when no node covers it.  *)
(* The submessages arrive from an arbitrary environment: any DATA, GAP or  *)
(* HEARTBEAT that the receive path of rtps_msg.c lets through.             *)
(***************************************************************************)
EXTENDS RtpsNumbers, FiniteSets

CONSTANTS
    CacheAcks,   \* endpoint.cache_acks: the reader's history is KEEP_ALL
    MaxSamples,  \* hc_max_samples of a KEEP_ALL reader cache
    MaxBits      \* bits in an ACKNACK bitmap (8 * 32 in the code)

ASSUME ReaderAssumption ==
    /\ MaxSnr \in Nat
    /\ CacheAcks \in BOOLEAN
    /\ MaxSamples \in Nat \ {0}
    /\ MaxBits \in Nat \ {0}
    /\ CountMod \in Nat \ {0}

Missing  == "missing"   \* CS_MISSING range
Received == "received"  \* CS_RECEIVED, relevant: a sample waiting in the list
Gap      == "gap"       \* CS_RECEIVED, not relevant: known to be irrelevant
Lost     == "lost"      \* CS_LOST: no longer available at the writer

ChangeState == {None, Missing, Received, Gap, Lost}

VARIABLES
    rw_cstate,       \* "none": no proxy; "ready": proxy active
    rw_seqnr_next,   \* next sequence number expected by the cache
    rw_changes,      \* state of every number in the list
    rw_heartbeats,   \* a HEARTBEAT was processed
    rw_peer_alive,   \* something was received from the writer
    rw_blocked,      \* the reader cache refused a sample
    rw_last_hb,      \* count of the last HEARTBEAT processed
    rw_hbrsp_timer,  \* "none", "alive" (RALIVE_TO) or "hbrsp" (response delay)
    hc_nchanges,     \* samples in a KEEP_ALL reader cache, not yet taken
    acknacks,        \* count of the ACKNACKs sent
    rw_sent,         \* the ACKNACK the last step put on the wire, if any
    delivered,       \* history: numbers handed to the reader cache
    told             \* history: numbers the writer declared unavailable

rvars == <<rw_cstate, rw_seqnr_next, rw_changes, rw_heartbeats, rw_peer_alive,
           rw_blocked, rw_last_hb, rw_hbrsp_timer, hc_nchanges, acknacks,
           rw_sent, delivered, told>>

-----------------------------------------------------------------------------
(* Submessages as the receive path hands them to the proxy.                *)

Heartbeats ==
    {m \in [first: Snr \cup {MaxSnr + 1}, last: 0..MaxSnr, final: BOOLEAN,
            liveliness: BOOLEAN, count: 0..CountMod - 1] :
        m.first <= m.last + 1}

Gaps == {m \in [start: Snr, base: Snr \cup {MaxSnr + 1}, bits: SUBSET Snr] :
             /\ m.start <= m.base
             /\ \A s \in m.bits : m.base <= s}

AckNacks == [base: 0..MaxSnr + 1, numbits: Nat, bits: SUBSET Nat,
               count: 0..CountMod - 1]

-----------------------------------------------------------------------------
(* The list of changes.                                                    *)

Empty == [s \in Snr |-> None]

Covered(ch)    == {s \in Snr : ch[s] # None}
Before(ch, s) == \A t \in Covered(ch) : s < t
After(ch, s)  == \A t \in Covered(ch) : t < s
InSpan(ch, s) == \E lo, hi \in Covered(ch) : lo <= s /\ s <= hi
IsHead(ch, s) == s \in Covered(ch) /\ \A t \in Covered(ch) : s <= t
IsTail(ch, s) == s \in Covered(ch) /\ \A t \in Covered(ch) : t <= s

\* Mutant of Ready: MISSING numbers are taken off the list as well.
ReadyMissing(ch, s) == ch[s] # None

\* Numbers that sfr_process_samples may take off the head of the list.
Ready(ch, s) == ch[s] \in {Received, Gap, Lost}

\* Samples among the numbers from..to-1 that go to the reader cache.
Samples(ch, from, to) == {s \in Snr : from <= s /\ s < to /\ ch[s] = Received}

\* reader_cache_add_inst: a full KEEP_ALL cache answers NO_DATA.
HasRoom(n) == CacheAcks => n < MaxSamples

\* The number at which sfr_process_samples stops when it starts at next with
\* n samples in the cache: everything before it is taken off the list.
Stops(ch, next, n) ==
    IF ~ IsHead(ch, next) THEN {next}
    ELSE {e \in next..MaxSnr + 1 :
            /\ \A s \in next..(e - 1) :
                  /\ Ready(ch, s)
                  /\ ch[s] = Received => HasRoom(n + Cardinality(Samples(ch, next, s)))
            /\ \/ e = MaxSnr + 1
               \/ ~ Ready(ch, e)
               \/ ch[e] = Received /\ ~ HasRoom(n + Cardinality(Samples(ch, next, e)))}

Drop(ch, from, to) == [s \in Snr |-> IF from <= s /\ s < to THEN None ELSE ch[s]]

\* The stop is a sample that found the cache full.
StopsBlocked(ch, next, e) == IsHead(ch, next) /\ e \in Snr /\ ch[e] = Received

\* Hand the head of list ch to the cache, starting at number next.
sfr_process_samples(ch, next) ==
    \E e \in Stops(ch, next, hc_nchanges) :
        /\ rw_changes' = Drop(ch, next, e)
        /\ rw_seqnr_next' = e
        /\ delivered' = delivered \cup Samples(ch, next, e)
        /\ hc_nchanges' = IF CacheAcks
                          THEN hc_nchanges + Cardinality(Samples(ch, next, e))
                          ELSE hc_nchanges
        /\ rw_blocked' = (rw_blocked \/ StopsBlocked(ch, next, e))

HeadIn(ch, states) == \E s \in Covered(ch) : IsHead(ch, s) /\ ch[s] \in states

-----------------------------------------------------------------------------
(* ACKNACKs.                                                               *)

\* Mutant of NextCount: the count does not wrap.
NextCountUnwrapped(c) == c + 1

NextCount(c) == (c + 1) % CountMod

SendAckNack(base, numbits, bits) ==
    /\ acknacks' = NextCount(acknacks)
    /\ rw_sent' = {[base |-> base, numbits |-> numbits, bits |-> bits,
                    count |-> NextCount(acknacks)]}

NoAckNack == acknacks' = acknacks /\ rw_sent' = {}

\* Empty ACKNACK: base 0 and no bits (RTPS_EMPTY_ACKNACK).
sfr_rel_init_acknack == SendAckNack(0, 0, {})

\* The walk of the list ends at the first sample that is not yet cached.
AckStop(ch, blocked, s) == ch[s] = Received /\ (CacheAcks \/ blocked)

\* The numbers that get a bit, counted from the head of the list.
AckCounted(ch, next, blocked) ==
    {s \in Covered(ch) :
        /\ \A t \in Covered(ch) : t <= s => ~ AckStop(ch, blocked, t)
        /\ ~ (ch[s] = Gap /\ CacheAcks)
        /\ ~ (blocked /\ ch[s] # Received /\ s # next)}

\* Mutant of AckPosition: the bits are counted from 1.
AckPositionFromOne(ch, next, blocked, s) ==
    Cardinality({t \in AckCounted(ch, next, blocked) : t <= s})

AckPosition(ch, next, blocked, s) ==
    Cardinality({t \in AckCounted(ch, next, blocked) : t < s})

sfr_rel_do_ack_nl(ch, next, blocked) ==
    LET counted == AckCounted(ch, next, blocked)
        n == Cardinality(counted)
    IN  SendAckNack(next, IF n < MaxBits THEN n ELSE MaxBits,
            {i \in 0..MaxBits - 1 :
                \E s \in counted : /\ ch[s] = Missing
                                   /\ AckPosition(ch, next, blocked, s) = i})

-----------------------------------------------------------------------------
(* DATA.                                                                   *)

\* The first submessage of the writer stops the alive timer.
sfr_rel_alive ==
    /\ rw_peer_alive' = TRUE
    /\ rw_hbrsp_timer' = IF rw_peer_alive THEN rw_hbrsp_timer ELSE "none"

\* Mutant of FillBefore: the head node is extended whatever the tail is.
FillBeforeAnyTail(ch) ==
    IF \E h \in Covered(ch) : IsHead(ch, h) /\ ch[h] # Received
    THEN ch[CHOOSE h \in Covered(ch) : IsHead(ch, h)]
    ELSE Missing

\* State given to the numbers between a new sample and the head of the list:
\* the head node is extended when it is a range and the tail is MISSING.
FillBefore(ch) ==
    IF \E h, t \in Covered(ch) : /\ IsHead(ch, h) /\ ch[h] # Received
                                /\ IsTail(ch, t) /\ ch[t] = Missing
    THEN ch[CHOOSE h \in Covered(ch) : IsHead(ch, h)]
    ELSE Missing

\* Mutant of AddChange: no MISSING node between the sample and the list.
AddChangeAlone(ch, s, st) == [ch EXCEPT ![s] = st]

\* List after number s, not covered or MISSING, got state st.
AddChange(ch, s, st) ==
    [t \in Snr |->
        IF t = s THEN st
        ELSE IF Covered(ch) = {} THEN ch[t]
        ELSE IF s < t /\ Before(ch, t) THEN FillBefore(ch)
        ELSE IF t < s /\ After(ch, t) THEN Missing
        ELSE ch[t]]

\* hc_accepts: an out-of-order sample must leave room for the expected one.
hc_accepts(s) == HasRoom(IF s = rw_seqnr_next THEN hc_nchanges ELSE hc_nchanges + 1)

NoDelivery == UNCHANGED <<rw_seqnr_next, rw_changes, hc_nchanges, delivered>>

DataIgnored(s) == s < rw_seqnr_next /\ NoDelivery /\ UNCHANGED rw_blocked

DataRefused(s) ==
    /\ s >= rw_seqnr_next
    /\ ~ hc_accepts(s)
    /\ rw_blocked' = (rw_blocked \/ s = rw_seqnr_next)
    /\ NoDelivery

\* Mutants of DataDirect: the expected number stays; the order is not checked.
DataDirectNoIncrement(s, ignore) ==
    /\ s = rw_seqnr_next
    /\ Covered(rw_changes) = {}
    /\ delivered' = IF ignore THEN delivered ELSE delivered \cup {s}
    /\ hc_nchanges' = IF CacheAcks /\ ~ ignore THEN hc_nchanges + 1 ELSE hc_nchanges
    /\ UNCHANGED <<rw_seqnr_next, rw_changes, rw_blocked>>

DataDirectAnyOrder(s, ignore) ==
    /\ s >= rw_seqnr_next
    /\ Covered(rw_changes) = {}
    /\ rw_seqnr_next' = rw_seqnr_next + 1
    /\ delivered' = IF ignore THEN delivered ELSE delivered \cup {s}
    /\ hc_nchanges' = IF CacheAcks /\ ~ ignore THEN hc_nchanges + 1 ELSE hc_nchanges
    /\ UNCHANGED <<rw_changes, rw_blocked>>

\* The sample is the expected one and nothing is queued: straight to the cache.
DataDirect(s, ignore) ==
    /\ s = rw_seqnr_next
    /\ Covered(rw_changes) = {}
    /\ rw_seqnr_next' = s + 1
    /\ delivered' = IF ignore THEN delivered ELSE delivered \cup {s}
    /\ hc_nchanges' = IF CacheAcks /\ ~ ignore THEN hc_nchanges + 1 ELSE hc_nchanges
    /\ UNCHANGED <<rw_changes, rw_blocked>>

DataFirstNode(s, ignore) ==
    /\ s > rw_seqnr_next
    /\ Covered(rw_changes) = {}
    /\ rw_changes' = AddChange(rw_changes, s, IF ignore THEN Gap ELSE Received)
    /\ UNCHANGED <<rw_seqnr_next, rw_blocked, hc_nchanges, delivered>>

DataQueued(s, ignore) ==
    /\ s >= rw_seqnr_next
    /\ Covered(rw_changes) # {}
    /\ IF rw_changes[s] \in {None, Missing}
       THEN LET ch == AddChange(rw_changes, s, IF ignore THEN Gap ELSE Received)
            IN  IF HeadIn(ch, {Received, Gap, Lost}) /\ rw_heartbeats
                THEN sfr_process_samples(ch, rw_seqnr_next)
                ELSE /\ rw_changes' = ch
                     /\ UNCHANGED <<rw_seqnr_next, rw_blocked, hc_nchanges, delivered>>
       ELSE NoDelivery /\ UNCHANGED rw_blocked

\* DATA submessage with number s; ignore: filtered out before it gets here.
sfr_rel_data(s, ignore) ==
    /\ rw_cstate = "ready"
    /\ sfr_rel_alive
    /\ NoAckNack
    /\ \/ DataIgnored(s)
       \/ ~ ignore /\ DataRefused(s)
       \/ /\ ignore \/ hc_accepts(s)
          /\ \/ DataDirect(s, ignore)
             \/ DataFirstNode(s, ignore)
             \/ DataQueued(s, ignore)
    /\ told' = IF ignore THEN told \cup {s} ELSE told
    /\ UNCHANGED <<rw_cstate, rw_heartbeats, rw_last_hb>>

-----------------------------------------------------------------------------
(* GAP.                                                                    *)

Between(u, s, t) == (s <= u /\ u <= t) \/ (t <= u /\ u <= s)

\* s and t belong to the same run of consecutive numbers of irr.
SameRun(irr, s, t) == \A u \in Snr : Between(u, s, t) => u \in irr

\* Irrelevant numbers that sfr_rel_gap_range records.  A run that overlaps
\* the list only counts inside the list; a later run sees the list that the
\* first one extended downwards.
GapKept(ch, irr) ==
    {s \in irr :
        \/ InSpan(ch, s)
        \/ \A t \in irr : SameRun(irr, s, t) => ~ InSpan(ch, t)
        \/ Before(ch, s) /\ \E u \in irr : u < s /\ ~ SameRun(irr, u, s)}

\* sfr_rel_gap_range for every run of irr, in order.
GapSet(ch, next, irrelevant) ==
    LET irr == {s \in irrelevant : s >= next}
        kept == GapKept(ch, irr)
        all == Covered(ch) \cup kept
    IN  [t \in Snr |->
            IF t \in kept /\ ch[t] # Received THEN Gap
            ELSE IF ch[t] = None /\ \E lo, hi \in all : lo < t /\ t < hi THEN Missing
            ELSE ch[t]]

\* Environment assumption.  A run that starts below a sample at the head of
\* the list and reaches it makes sfr_rel_gap_range count from the wrong number
\* and leave an inverted range node; the model has no counterpart for it.
GapAligned(ch, next, irrelevant) ==
    LET irr == {s \in irrelevant : s >= next}
    IN  \A h \in Covered(ch), s \in irr :
            IsHead(ch, h) /\ s < h /\ h \in irr /\ SameRun(irr, s, h) => ch[h] # Received

GapRange(m) == m.start..(m.base - 1)

GapOk(m) == /\ GapAligned(rw_changes, rw_seqnr_next, GapRange(m))
            /\ GapAligned(GapSet(rw_changes, rw_seqnr_next, GapRange(m)),
                          rw_seqnr_next, m.bits)

sfr_rel_gap(m) ==
    /\ rw_cstate = "ready"
    /\ sfr_rel_alive
    /\ NoAckNack
    /\ LET ch == GapSet(GapSet(rw_changes, rw_seqnr_next, GapRange(m)),
                        rw_seqnr_next, m.bits)
       IN  IF HeadIn(ch, {Received, Gap, Lost})
           THEN sfr_process_samples(ch, rw_seqnr_next)
           ELSE /\ rw_changes' = ch
                /\ UNCHANGED <<rw_seqnr_next, rw_blocked, hc_nchanges, delivered>>
    /\ told' = told \cup (Snr \cap (GapRange(m) \cup m.bits))
    /\ UNCHANGED <<rw_cstate, rw_heartbeats, rw_last_hb>>

-----------------------------------------------------------------------------
(* HEARTBEAT.                                                              *)

MarkLost(ch, first) ==
    [s \in Snr |-> IF ch[s] = Missing /\ s < first THEN Lost ELSE ch[s]]

\* Mutant of ExtendMissing: nothing is added in front of the list.
ExtendMissingAfter(ch, first, last) ==
    [s \in Snr |->
        IF \/ Covered(ch) = {} /\ first <= s /\ s <= last
           \/ Covered(ch) # {} /\ After(ch, s) /\ s <= last
        THEN Missing ELSE ch[s]]

\* MISSING numbers added before and after the list up to first..last.
ExtendMissing(ch, first, last) ==
    [s \in Snr |->
        IF \/ Covered(ch) = {} /\ first <= s /\ s <= last
           \/ Covered(ch) # {} /\ Before(ch, s) /\ first <= s
           \/ Covered(ch) # {} /\ After(ch, s) /\ s <= last
        THEN Missing ELSE ch[s]]

\* "adjust seqnr_next (1)": the list starts at or before the first available.
JumpsToHead(ch, first) ==
    /\ rw_seqnr_next < first
    /\ \E h \in Covered(ch) : IsHead(ch, h) /\ h <= first

\* The list part of the handler: what is no longer available is given up and
\* what was announced and is not in the list becomes MISSING.
HeartbeatList(m) ==
    LET ch == MarkLost(rw_changes, m.first)
        jump == JumpsToHead(ch, m.first)
        from == IF jump THEN CHOOSE h \in Covered(ch) : IsHead(ch, h)
                        ELSE rw_seqnr_next
    IN  \E e \in IF jump THEN Stops(ch, from, hc_nchanges) ELSE {from} :
            LET rest == Drop(ch, from, e)
                next == IF e < m.first THEN m.first ELSE e
            IN  /\ rw_seqnr_next' = next
                /\ rw_changes' = IF next <= m.last
                                 THEN ExtendMissing(rest, next, m.last) ELSE rest
                /\ delivered' = delivered \cup Samples(ch, from, e)
                /\ hc_nchanges' = IF CacheAcks
                                  THEN hc_nchanges + Cardinality(Samples(ch, from, e))
                                  ELSE hc_nchanges
                /\ rw_blocked' = (rw_blocked \/ (jump /\ StopsBlocked(ch, from, e)))

\* When and how the HEARTBEAT is answered: at once when it woke up the proxy,
\* after the response delay otherwise; a FINAL one only if the list is used.
HeartbeatAnswer(m) ==
    \/ /\ ~ m.final /\ ~ rw_peer_alive
       /\ rw_hbrsp_timer' = "none"
       /\ sfr_rel_do_ack_nl(rw_changes', rw_seqnr_next', rw_blocked')
    \/ /\ ~ m.final /\ rw_peer_alive
       /\ rw_hbrsp_timer' = "hbrsp"
       /\ NoAckNack
    \/ /\ m.final /\ Covered(rw_changes') # {}
       /\ rw_hbrsp_timer' = "hbrsp"
       /\ NoAckNack
    \/ /\ m.final /\ Covered(rw_changes') = {}
       /\ rw_hbrsp_timer' = IF rw_peer_alive THEN rw_hbrsp_timer ELSE "none"
       /\ NoAckNack

\* A liveliness assertion or a duplicate count only makes the peer alive.
HeartbeatSkipped(m) == (m.liveliness /\ m.final) \/ m.count = rw_last_hb

sfr_rel_heartbeat(m) ==
    /\ rw_cstate = "ready"
    /\ \/ /\ HeartbeatSkipped(m)
          /\ sfr_rel_alive
          /\ NoAckNack
          /\ NoDelivery
          /\ UNCHANGED <<rw_blocked, rw_last_hb, rw_heartbeats, told>>
       \/ /\ ~ HeartbeatSkipped(m)
          /\ rw_peer_alive' = TRUE
          /\ rw_last_hb' = m.count
          /\ rw_heartbeats' = TRUE
          /\ told' = told \cup {s \in Snr : s < m.first}
          /\ HeartbeatList(m)
          /\ HeartbeatAnswer(m)
    /\ UNCHANGED rw_cstate

-----------------------------------------------------------------------------
(* Timers, the application, and the life of the proxy.                     *)

\* Alive timer: repeat the empty ACKNACK until the writer is heard.
sfr_rel_alive_to ==
    /\ rw_hbrsp_timer = "alive"
    /\ sfr_rel_init_acknack
    /\ UNCHANGED <<rw_cstate, rw_heartbeats, rw_peer_alive, rw_last_hb,
                   rw_hbrsp_timer, rw_blocked, told>>
    /\ NoDelivery

\* HEARTBEAT response timer.
sfr_rel_do_ack ==
    /\ rw_hbrsp_timer = "hbrsp"
    /\ rw_hbrsp_timer' = "none"
    /\ sfr_rel_do_ack_nl(rw_changes, rw_seqnr_next, rw_blocked)
    /\ UNCHANGED <<rw_cstate, rw_heartbeats, rw_peer_alive, rw_last_hb, rw_blocked,
                   told>>
    /\ NoDelivery

\* The application takes one sample; a blocked cache then retries the list.
Take ==
    /\ hc_nchanges > 0
    /\ IF rw_blocked
       THEN \E e \in Stops(rw_changes, rw_seqnr_next, hc_nchanges - 1) :
              LET got == Samples(rw_changes, rw_seqnr_next, e)
              IN  /\ rw_changes' = Drop(rw_changes, rw_seqnr_next, e)
                  /\ rw_seqnr_next' = e
                  /\ delivered' = delivered \cup got
                  /\ hc_nchanges' = hc_nchanges - 1 + Cardinality(got)
                  /\ rw_blocked' = StopsBlocked(rw_changes, rw_seqnr_next, e)
       ELSE /\ hc_nchanges' = hc_nchanges - 1
            /\ UNCHANGED <<rw_changes, rw_seqnr_next, delivered, rw_blocked>>
    /\ NoAckNack
    /\ UNCHANGED <<rw_cstate, rw_heartbeats, rw_peer_alive, rw_last_hb,
                   rw_hbrsp_timer, told>>

\* rtps_matched_writer_add and sfr_rel_start: a new proxy asks for a HEARTBEAT.
sfr_rel_start ==
    /\ rw_cstate = "none"
    /\ rw_cstate' = "ready"
    /\ rw_seqnr_next' = 1
    /\ rw_hbrsp_timer' = "alive"
    /\ sfr_rel_init_acknack
    /\ UNCHANGED <<rw_changes, rw_heartbeats, rw_peer_alive, rw_blocked, rw_last_hb,
                   hc_nchanges, delivered, told>>

\* sfr_restart: the writer was restarted, its numbers start again.
sfr_rel_reset ==
    /\ rw_cstate = "ready"
    /\ rw_changes' = Empty
    /\ rw_seqnr_next' = 0
    /\ rw_peer_alive' = FALSE
    /\ rw_hbrsp_timer' = "alive"
    /\ sfr_rel_init_acknack
    /\ delivered' = {}
    /\ told' = {}
    /\ UNCHANGED <<rw_cstate, rw_heartbeats, rw_blocked, rw_last_hb, hc_nchanges>>

\* The match ends and the proxy is freed.
sfr_rel_finish ==
    /\ rw_cstate = "ready"
    /\ rw_cstate' = "none"
    /\ rw_changes' = Empty
    /\ rw_seqnr_next' = 1
    /\ rw_heartbeats' = FALSE
    /\ rw_peer_alive' = FALSE
    /\ rw_blocked' = FALSE
    /\ rw_last_hb' = 0
    /\ rw_hbrsp_timer' = "none"
    /\ delivered' = {}
    /\ told' = {}
    /\ NoAckNack
    /\ UNCHANGED hc_nchanges

ReaderInit ==
    /\ rw_cstate = "none"
    /\ rw_seqnr_next = 1
    /\ rw_changes = Empty
    /\ rw_heartbeats = FALSE
    /\ rw_peer_alive = FALSE
    /\ rw_blocked = FALSE
    /\ rw_last_hb = 0
    /\ rw_hbrsp_timer = "none"
    /\ hc_nchanges = 0
    /\ acknacks = 0
    /\ rw_sent = {}
    /\ delivered = {}
    /\ told = {}

ReaderNext ==
    \/ \E s \in Snr, ignore \in BOOLEAN : sfr_rel_data(s, ignore)
    \/ \E m \in Gaps : GapOk(m) /\ sfr_rel_gap(m)
    \/ \E m \in Heartbeats : sfr_rel_heartbeat(m)
    \/ sfr_rel_alive_to
    \/ sfr_rel_do_ack
    \/ Take
    \/ sfr_rel_start
    \/ sfr_rel_reset
    \/ sfr_rel_finish

ReaderSpec == ReaderInit /\ [][ReaderNext]_rvars

-----------------------------------------------------------------------------
(* Properties.                                                             *)

\* Every variable has its type: the shapes that the handlers assign.
ReaderTypeOK ==
    /\ rw_cstate \in {"none", "ready"}
    /\ rw_seqnr_next \in 0..MaxSnr + 1
    /\ rw_changes \in [Snr -> ChangeState]
    /\ rw_heartbeats \in BOOLEAN
    /\ rw_peer_alive \in BOOLEAN
    /\ rw_blocked \in BOOLEAN
    /\ rw_last_hb \in 0..CountMod - 1
    /\ rw_hbrsp_timer \in {"none", "alive", "hbrsp"}
    /\ hc_nchanges \in Nat
    /\ acknacks \in 0..CountMod - 1
    /\ rw_sent \in SUBSET AckNacks
    /\ delivered \in SUBSET Snr
    /\ told \in SUBSET Snr

\* The nodes of the list cover consecutive numbers (what RANGE_CHECK tests):
\* no handler leaves a hole between two nodes.
Contiguous == \A s \in Snr : InSpan(rw_changes, s) => rw_changes[s] # None

\* A number handed to the cache is behind rw_seqnr_next and behind the whole
\* list, so that no later DATA or list walk can hand it over a second time.
DeliveredBehind ==
    \A d \in delivered : d < rw_seqnr_next /\ Before(rw_changes, d)

\* rw_seqnr_next never passes a number silently: every number behind it was
\* handed to the cache, declared unavailable by the writer, or is a sample that
\* waits in the list.
NoSilentLoss ==
    \A s \in Snr : s < rw_seqnr_next =>
        s \in delivered \/ s \in told \/ rw_changes[s] = Received

\* A number that is given up (LOST or GAP) was declared unavailable by the
\* writer; in particular extending the head range of the list, as sfr_rel_data
\* does, never spreads its state to a number the writer still has.
GivenUpWasTold ==
    \A s \in Snr : rw_changes[s] \in {Gap, Lost} => s \in told

\* A list that ends in announced but MISSING numbers reaches down to
\* rw_seqnr_next: nothing below the announced numbers is forgotten.
MissingTailAnchored ==
    \A t \in Snr : IsTail(rw_changes, t) /\ rw_changes[t] = Missing =>
        \E h \in Covered(rw_changes) : h <= rw_seqnr_next

\* Samples reach the cache in the order of their numbers, over any number of
\* steps of one session.
DeliveryInOrder ==
    [][\A d \in delivered' \ delivered, x \in delivered : x < d]_rvars

Settled(s) == s \in delivered \/ s \in told \/ rw_changes[s] \in {Received, Gap, Lost}

\* An ACKNACK acknowledges, by its base and by the zero bits of its bitmap,
\* only numbers that were received or that the writer declared unavailable.
AckSound ==
    \A m \in rw_sent : \A s \in Snr :
        \/ s < m.base
        \/ m.base > 0 /\ s < m.base + m.numbits /\ s - m.base \notin m.bits
        => Settled(s)

\* Once HEARTBEATs are seen, a sample or gap that is the expected number does
\* not stay in the list unless the cache is full: "add these samples to the
\* history cache and remove them from the changes list".
NothingReadyWaits ==
    \A s \in Snr : rw_heartbeats /\ IsHead(rw_changes, s) /\ Ready(rw_changes, s) =>
        rw_blocked \/ s > rw_seqnr_next
=============================================================================
