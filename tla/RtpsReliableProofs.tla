------------------------- MODULE RtpsReliableProofs -------------------------
(***************************************************************************)
(* Proofs about RtpsReliable: what a reliable writer and a reliable reader *)
(* keep true together, for any history, durability and number of samples,  *)
(* losses, duplications, overtakings and restarts.                         *)
(***************************************************************************)
EXTENDS RtpsReliable, RtpsProxyProofs

-----------------------------------------------------------------------------
(* The inductive invariant.                                                *)

\* Numbers that the reader need not wait for: the writer's cache no longer has
\* them, or the reader confirmed them.
Unavailable == {n \in Snr : n <= hc_last /\ (n \notin hc_cache \/ n \in confirmed)}

\* The history variables and the cache.
Books ==
    /\ owed \subseteq dropped \cup confirmed \cup hc_wack
    /\ hc_wack \subseteq owed /\ \A s \in owed : s \in Snr /\ s <= hc_last
    /\ dropped \subseteq owed /\ dropped \cap hc_cache = {}
    /\ rr_cstate = "none" => owed = {}
    /\ rr_cstate = "ready" => hc_cache \subseteq owed
    /\ ~ Durable => hc_cache \subseteq hc_wack
    /\ rr_new_snr <= hc_last + 1

\* Only unavailable numbers are queued as gaps, and a list that is in use
\* reaches as far as the cache.
GapsUnavailable(q) == \A s \in Listed(q) : s \notin q.rel => s \in Unavailable
ListCovers(q) == Listed(q) # {} => \A c \in hc_cache : \E t \in Listed(q) : c <= t

\* The reader has s, and rw_seqnr_next passed it.
Passed(s) == s \in Held /\ s < rw_seqnr_next

AckedPassed(q) == \A s \in q.rel : q.state[s] = Acked => Passed(s)

\* The submessages underway.
DataUnderway == [type : {"DATA"}, snr : owed]

GapUnderway ==
    {m \in [type : {"GAP"}, start : Snr, base : 1..MaxSnr + 1, bits : SUBSET Snr] :
        /\ m.start <= m.base
        /\ \A s \in m.bits : m.base <= s
        /\ \A s \in Snr : s \in GapRange(m) \cup m.bits => s \in Unavailable}

HeartbeatUnderway ==
    {m \in [type : {"HB"}, first : 0..MaxSnr + 1, last : 0..MaxSnr + 1, final : BOOLEAN,
            liveliness : BOOLEAN, count : 0..CountMod - 1] :
        \/ m.first = 0
        \/ m.final /\ m.liveliness
        \/ /\ m.first <= m.last + 1 /\ m.last <= hc_last
           /\ \A s \in Snr : s < m.first => s \in Unavailable}

AckUnderway ==
    {m \in AckNackMsg :
        /\ m.base + m.numbits <= hc_last + 1
        /\ \A s \in Acknowledged(m.base, m.numbits, m.bits) : s \in told \/ Passed(s)}

ForReader == DataUnderway \cup GapUnderway \cup HeartbeatUnderway

Channels == toReader \in Seq(ForReader) /\ toWriter \in Seq(AckUnderway)

\* The reader knows of nothing that was not written, and gives up only what
\* is unavailable.
ReaderKnows ==
    /\ \A s \in Covered(rw_changes) : s <= hc_last
    /\ 1 <= rw_seqnr_next /\ rw_seqnr_next <= hc_last + 1
    /\ rw_cstate = "none" => rw_seqnr_next = 1
    /\ told \subseteq Unavailable
    /\ Held \subseteq owed
    /\ \A s \in confirmed : Passed(s)

PairInv ==
    /\ WriterInv /\ IInv
    /\ Books
    /\ GapsUnavailable(rr_changes) /\ ListCovers(rr_changes) /\ AckedPassed(rr_changes)
    /\ Channels
    /\ ReaderKnows

-----------------------------------------------------------------------------
(* Channels.                                                               *)

\* A channel of some submessages is one of more submessages.
LEMMA WiderChannel ==
    ASSUME NEW A, NEW B, A \subseteq B, NEW q \in Seq(A)
    PROVE  q \in Seq(B)
OBVIOUS

\* A loss or an arrival takes a submessage off a channel.
LEMMA RemovedFrom ==
    ASSUME NEW A, NEW q \in Seq(A), NEW i \in DOMAIN q
    PROVE  RemoveAt(q, i) \in Seq(A) /\ q[i] \in A
<1>1. i \in 1..Len(q) /\ Len(q) \in Nat
  OBVIOUS
<1>2. SubSeq(q, 1, i - 1) \in Seq(A) /\ SubSeq(q, i + 1, Len(q)) \in Seq(A)
  BY <1>1
<1> QED  BY <1>1, <1>2 DEF RemoveAt

\* A duplication adds a submessage that is there already.
LEMMA InsertedInto ==
    ASSUME NEW A, NEW q \in Seq(A), NEW i \in DOMAIN q
    PROVE  InsertAt(q, i, q[i]) \in Seq(A)
<1>1. i \in 1..Len(q) /\ Len(q) \in Nat /\ q[i] \in A
  OBVIOUS
<1>2. SubSeq(q, 1, i - 1) \in Seq(A) /\ SubSeq(q, i, Len(q)) \in Seq(A) /\ <<q[i]>> \in Seq(A)
  BY <1>1
<1> QED  BY <1>1, <1>2 DEF InsertAt

\* The submessages of a step join a channel.
LEMMA QueuedInto ==
    ASSUME NEW A, NEW q \in Seq(A), NEW msgs, IsFiniteSet(msgs), msgs \subseteq A,
           NEW after, Queued(q, msgs, after)
    PROVE  after \in Seq(A)
<1>1. PICK batch \in SetToSeqs(msgs) : after = q \o batch
  BY DEF Queued
<1>2. Cardinality(msgs) \in Nat
  BY FS_CardinalityType
<1>3. batch \in [1..Cardinality(msgs) -> msgs]
  BY DEF SetToSeqs
<1>4. batch \in Seq(msgs)
  BY <1>2, <1>3
<1>5. batch \in Seq(A)
  BY <1>4
<1> QED  BY <1>1, <1>5

-----------------------------------------------------------------------------
(* What the reader's handlers do to the samples it holds, and how far its  *)
(* list reaches.                                                           *)

HeldIn(ch, del) == del \cup {s \in Snr : ch[s] = Received}

Within(ch, next, last) ==
    (\A s \in Covered(ch) : s <= last) /\ 1 <= next /\ next <= last + 1

\* sfr_process_samples hands over what it takes off the list.
LEMMA ProcessHeld ==
    ASSUME NEW ch \in [Snr -> ChangeState], NEW next \in 0..MaxSnr + 1, NEW n,
           NEW e \in Stops(ch, next, n), NEW del, NEW last \in Nat, Within(ch, next, last)
    PROVE  /\ HeldIn(Drop(ch, next, e), del \cup Samples(ch, next, e)) = HeldIn(ch, del)
           /\ Within(Drop(ch, next, e), e, last)
           /\ next <= e
<1>1. /\ e \in 0..MaxSnr + 1 /\ next <= e
      /\ \A s \in Snr : next <= s /\ s < e => Ready(ch, s)
  BY StopsReady
<1>2. \A s \in Snr : Drop(ch, next, e)[s] = IF next <= s /\ s < e THEN None ELSE ch[s]
  BY DEF Drop
<1>3. HeldIn(Drop(ch, next, e), del \cup Samples(ch, next, e)) = HeldIn(ch, del)
  BY <1>2 DEF HeldIn, Samples, None, Received
<1>4. \A s \in Covered(Drop(ch, next, e)) : s <= last
  BY <1>2 DEF Covered, Within
<1>5. 1 <= e /\ e <= last + 1
  <2>1. CASE e = next
    BY <2>1 DEF Within
  <2>2. CASE e # next
    <3>1. e - 1 \in Snr /\ next <= e - 1 /\ e - 1 < e
      BY <1>1, <2>2, Numbers DEF Within
    <3>2. Ready(ch, e - 1)
      BY <1>1, <3>1
    <3>3. e - 1 \in Covered(ch)
      BY <3>1, <3>2 DEF Ready, Covered, None, Received, Gap, Lost
    <3> QED  BY <1>1, <3>3 DEF Within
  <2> QED  BY <2>1, <2>2
<1> QED  BY <1>1, <1>3, <1>4, <1>5 DEF Within

\* A sample that enters the list.
LEMMA AddHeld ==
    ASSUME NEW ch, NEW next, NEW del, NEW tld, ListInv(ch, next, del, tld), NEW s \in Snr,
           next <= s, ch[s] \in {None, Missing}, NEW last \in Nat, s <= last, Within(ch, next, last)
    PROVE  /\ HeldIn(AddChange(ch, s, Received), del) = HeldIn(ch, del) \cup {s}
           /\ Within(AddChange(ch, s, Received), next, last)
<1> DEFINE k == AddChange(ch, s, Received)
<1>1. ch \in [Snr -> ChangeState] /\ Covered(ch) \subseteq Snr
  BY DEF ListInv, ListType, Covered
<1>2. ASSUME NEW t \in Snr, t # s
      PROVE  k[t] = ch[t] \/ (k[t] # Received /\ ch[t] # Received)
  <2>2. CASE Covered(ch) # {} /\ s < t /\ Before(ch, t)
    <3>2. FillBefore(ch) # Received
      BY <2>2, FillIsMissing DEF Missing, Received
    <3>1. t \notin Covered(ch)
      BY <2>2, Numbers DEF Before
    <3> QED  BY <2>2, <3>1, <3>2, <1>2 DEF AddChange, Covered, None, Received
  <2>3. CASE Covered(ch) # {} /\ t < s /\ After(ch, t)
    <3>1. t \notin Covered(ch)
      BY <2>3, Numbers DEF After
    <3> QED  BY <2>3, <3>1, <1>2, Numbers DEF AddChange, Covered, None, Received, Missing
  <2> QED  BY <1>2, <2>2, <2>3 DEF AddChange
<1>3. k[s] = Received
  BY DEF AddChange
<1>4. HeldIn(k, del) = HeldIn(ch, del) \cup {s}
  BY <1>2, <1>3 DEF HeldIn
<1>5. ASSUME NEW t \in Covered(k) PROVE t <= last
  <2>1. t \in Snr
    BY DEF Covered
  <2>2. CASE s < t /\ Before(ch, t) /\ Covered(ch) # {}
    <3>1. PICK c \in Covered(ch) : t < c
      BY <2>2 DEF Before
    <3> QED  BY <1>1, <2>1, <3>1, Numbers DEF Within
  <2>3. CASE t < s
    BY <2>1, <2>3, Numbers
  <2>4. CASE t = s
    BY <2>4
  <2>5. CASE ~ (t < s) /\ t # s /\ ~ (s < t /\ Before(ch, t) /\ Covered(ch) # {})
    <3>1. k[t] = ch[t]
      BY <2>1, <2>5 DEF AddChange
    <3> QED  BY <3>1, <2>1 DEF Covered, Within
  <2> QED  BY <2>2, <2>3, <2>4, <2>5
<1> QED  BY <1>4, <1>5 DEF Within

\* A GAP leaves the samples of the list alone.
LEMMA GapHeld ==
    ASSUME NEW ch \in [Snr -> ChangeState], NEW next, NEW del, NEW irrelevant \in SUBSET Snr,
           NEW last \in Nat, \A s \in irrelevant : s <= last, Within(ch, next, last)
    PROVE  /\ HeldIn(GapSet(ch, next, irrelevant), del) = HeldIn(ch, del)
           /\ Within(GapSet(ch, next, irrelevant), next, last)
           /\ \A s \in Snr : GapSet(ch, next, irrelevant)[s] = Received <=> ch[s] = Received
<1> DEFINE irr == {s \in irrelevant : s >= next}
           kept == GapKept(ch, irr)
           all == Covered(ch) \cup kept
           k == GapSet(ch, next, irrelevant)
<1>1. kept \subseteq irrelevant /\ Covered(ch) \subseteq Snr
  BY DEF GapKept, Covered
<1>2. \A t \in Snr : k[t] = IF t \in kept /\ ch[t] # Received THEN Gap
                            ELSE IF ch[t] = None /\ \E lo, hi \in all : lo < t /\ t < hi
                            THEN Missing ELSE ch[t]
  BY DEF GapSet
<1> HIDE DEF k, irr, kept
<1>3. \A s \in Snr : k[s] = Received <=> ch[s] = Received
  BY <1>2 DEF Received, Gap, Missing, None
<1>4. ASSUME NEW t \in Covered(k) PROVE t <= last
  <2>1. t \in Snr /\ k[t] # None
    BY DEF Covered
  <2>2. \A a \in all : a \in Snr /\ a <= last
    BY <1>1 DEF Within
  <2>3. CASE t \in all
    BY <2>2, <2>3
  <2>4. CASE t \notin all
    <3>1. ch[t] = None
      BY <2>1, <2>4 DEF Covered
    <3>2. PICK lo, hi \in all : lo < t /\ t < hi
      BY <1>2, <2>1, <2>4, <3>1
    <3> QED  BY <2>1, <2>2, <3>2, Numbers
  <2> QED  BY <2>3, <2>4
<1>5. HeldIn(k, del) = HeldIn(ch, del)
  BY <1>3 DEF HeldIn
<1> QED  BY <1>3, <1>4, <1>5 DEF Within, k

\* What a HEARTBEAT marks and adds are no samples.
LEMMA HeartbeatHeld ==
    ASSUME NEW ch \in [Snr -> ChangeState], NEW first, NEW from, NEW to, NEW next, NEW del,
           NEW last \in Nat, to <= last, to \in Nat, Within(ch, next, last)
    PROVE  /\ HeldIn(MarkLost(ch, first), del) = HeldIn(ch, del)
           /\ Within(MarkLost(ch, first), next, last)
           /\ HeldIn(ExtendMissing(ch, from, to), del) = HeldIn(ch, del)
           /\ Within(ExtendMissing(ch, from, to), next, last)
<1>1. \A s \in Snr : MarkLost(ch, first)[s] = IF ch[s] = Missing /\ s < first THEN Lost ELSE ch[s]
  BY DEF MarkLost
<1>2. HeldIn(MarkLost(ch, first), del) = HeldIn(ch, del)
  BY <1>1 DEF HeldIn, Missing, Lost, Received
<1>3. Within(MarkLost(ch, first), next, last)
  BY <1>1 DEF Within, Covered, Missing, None
<1> DEFINE k == ExtendMissing(ch, from, to)
           added(s) == \/ Covered(ch) = {} /\ from <= s /\ s <= to
                       \/ Covered(ch) # {} /\ Before(ch, s) /\ from <= s
                       \/ Covered(ch) # {} /\ After(ch, s) /\ s <= to
<1>4. \A s \in Snr : k[s] = IF added(s) THEN Missing ELSE ch[s]
  BY DEF ExtendMissing
<1>c. Covered(ch) \subseteq Snr
  BY DEF Covered
<1>5. \A s \in Snr : added(s) => ch[s] # Received
  <2> SUFFICES ASSUME NEW s \in Snr, added(s), s \in Covered(ch) PROVE FALSE
    BY DEF Covered, None, Received
  <2> QED  BY Numbers DEF Before, After
<1>6. \A s \in Snr : added(s) => s <= last
  <2> SUFFICES ASSUME NEW s \in Snr, added(s) PROVE s <= last
    OBVIOUS
  <2>1. CASE s <= to
    BY <2>1, Numbers
  <2>2. CASE Covered(ch) # {} /\ Before(ch, s)
    <3>1. PICK c \in Covered(ch) : s < c
      BY <2>2 DEF Before
    <3> QED  BY <1>c, <3>1, Numbers DEF Within
  <2> QED  BY <2>1, <2>2
<1> HIDE DEF k, added
<1>7. HeldIn(k, del) = HeldIn(ch, del)
  BY <1>4, <1>5 DEF HeldIn, Missing, Received
<1>8. Within(k, next, last)
  BY <1>4, <1>6 DEF Within, Covered
<1> QED  BY <1>2, <1>3, <1>7, <1>8 DEF k

\* What a step of the reader may do when it learns of the sample s in new and
\* of the numbers up to last.
ReaderMoves(new, last) ==
    /\ Held \subseteq Held' /\ Held' \subseteq Held \cup new
    /\ delivered \subseteq delivered'
    /\ rw_seqnr_next <= rw_seqnr_next'
    /\ Within(rw_changes', rw_seqnr_next', last)

\* Held, of the state and of the next one.
LEMMA HeldState ==
    Held = HeldIn(rw_changes, delivered) /\ Held' = HeldIn(rw_changes', delivered')
BY DEF Held, HeldIn

\* sfr_process_samples on the list a handler made.
LEMMA ProcessMoves ==
    ASSUME IInv, NEW ch \in [Snr -> ChangeState], NEW last \in Nat, NEW new,
           Within(ch, rw_seqnr_next, last), HeldIn(ch, delivered) = Held \cup new,
           sfr_process_samples(ch, rw_seqnr_next)
    PROVE  ReaderMoves(new, last)
<1>1. PICK e \in Stops(ch, rw_seqnr_next, hc_nchanges) :
        /\ rw_changes' = Drop(ch, rw_seqnr_next, e)
        /\ rw_seqnr_next' = e
        /\ delivered' = delivered \cup Samples(ch, rw_seqnr_next, e)
  BY DEF sfr_process_samples
<1>2. rw_seqnr_next \in 0..MaxSnr + 1
  BY DEF IInv, ReaderTypeOK
<1>3. /\ HeldIn(rw_changes', delivered') = HeldIn(ch, delivered)
      /\ Within(rw_changes', rw_seqnr_next', last)
      /\ rw_seqnr_next <= rw_seqnr_next'
  BY <1>1, <1>2, ProcessHeld
<1> QED  BY <1>1, <1>3, HeldState DEF ReaderMoves

\* Only the list changes.
LEMMA ListMoves ==
    ASSUME IInv, NEW ch, NEW last, NEW new,
           Within(ch, rw_seqnr_next, last), HeldIn(ch, delivered) = Held \cup new,
           rw_changes' = ch, UNCHANGED <<rw_seqnr_next, delivered>>
    PROVE  ReaderMoves(new, last)
<1>1. rw_seqnr_next \in Nat
  BY Numbers DEF IInv, ReaderTypeOK
<1> QED  BY <1>1, HeldState DEF ReaderMoves

\* Nothing changes.
LEMMA NothingMoves ==
    ASSUME IInv, NEW last, Within(rw_changes, rw_seqnr_next, last), NEW new,
           UNCHANGED <<rw_changes, rw_seqnr_next, delivered>>
    PROVE  ReaderMoves(new, last)
<1>1. rw_seqnr_next \in Nat
  BY Numbers DEF IInv, ReaderTypeOK
<1> QED  BY <1>1, HeldState DEF ReaderMoves

\* sfr_rel_data.
LEMMA DataMoves ==
    ASSUME IInv, NEW s \in Snr, NEW last \in Nat, s <= last,
           Within(rw_changes, rw_seqnr_next, last), sfr_rel_data(s, FALSE)
    PROVE  ReaderMoves({s}, last)
<1>1. /\ ListInv(rw_changes, rw_seqnr_next, delivered, told)
      /\ rw_changes \in [Snr -> ChangeState] /\ rw_seqnr_next \in 0..MaxSnr + 1
  BY DEF IInv, ReaderTypeOK
<1> DEFINE ch == AddChange(rw_changes, s, Received)
<1>2. ASSUME rw_seqnr_next <= s, rw_changes[s] \in {None, Missing}
      PROVE  /\ HeldIn(ch, delivered) = Held \cup {s}
             /\ Within(ch, rw_seqnr_next, last)
             /\ ch \in [Snr -> ChangeState]
  <2>1. /\ HeldIn(ch, delivered) = HeldIn(rw_changes, delivered) \cup {s}
        /\ Within(ch, rw_seqnr_next, last)
    BY <1>1, <1>2, AddHeld
  <2>2. ListInv(ch, rw_seqnr_next, delivered, told)
    BY <1>1, <1>2, AddKeeps DEF Gap, Received
  <2> QED  BY <2>1, <2>2, HeldState DEF ListInv, ListType
<1>5. CASE DataIgnored(s) \/ DataRefused(s)
  BY <1>5, NothingMoves DEF DataIgnored, DataRefused, NoDelivery
<1>6. CASE DataDirect(s, FALSE)
  <2>1. /\ s = rw_seqnr_next /\ rw_seqnr_next' = s + 1 /\ rw_changes' = rw_changes
        /\ delivered' = delivered \cup {s}
    BY <1>6 DEF DataDirect
  <2>2. Held' = Held \cup {s}
    BY <2>1, HeldState DEF HeldIn
  <2>3. Within(rw_changes', rw_seqnr_next', last)
    BY <2>1, Numbers DEF Within
  <2> QED  BY <2>1, <2>2, <2>3, Numbers DEF ReaderMoves
<1>7. CASE DataFirstNode(s, FALSE)
  <2>1. rw_seqnr_next <= s /\ rw_changes[s] \in {None, Missing} /\ rw_changes' = ch
    BY <1>1, <1>7, Numbers DEF DataFirstNode, Covered
  <2> QED  BY <1>2, <1>7, <2>1, ListMoves DEF DataFirstNode
<1>8. CASE DataQueued(s, FALSE)
  <2>0. rw_seqnr_next <= s
    BY <1>1, <1>8, Numbers DEF DataQueued
  <2>1. CASE rw_changes[s] \in {None, Missing} /\ HeadIn(ch, {Received, Gap, Lost})
               /\ rw_heartbeats
    <3>1. sfr_process_samples(ch, rw_seqnr_next)
      BY <1>8, <2>1 DEF DataQueued
    <3> HIDE DEF ch
    <3> QED  BY <1>2, <2>0, <2>1, <3>1, ProcessMoves
  <2>2. CASE /\ rw_changes[s] \in {None, Missing}
             /\ ~ (HeadIn(ch, {Received, Gap, Lost}) /\ rw_heartbeats)
    <3>1. rw_changes' = ch /\ UNCHANGED <<rw_seqnr_next, rw_blocked, hc_nchanges, delivered>>
      BY <1>8, <2>2 DEF DataQueued
    <3> QED  BY <1>2, <2>0, <2>2, <3>1, ListMoves
  <2>3. CASE rw_changes[s] \notin {None, Missing}
    BY <1>8, <2>3, NothingMoves DEF DataQueued, NoDelivery
  <2> QED  BY <2>1, <2>2, <2>3
<1> QED  BY <1>5, <1>6, <1>7, <1>8 DEF sfr_rel_data

\* sfr_rel_gap.
LEMMA GapMoves ==
    ASSUME IInv, NEW m \in Gaps, NEW last \in Nat, \A s \in GapRange(m) \cup m.bits : s <= last,
           Within(rw_changes, rw_seqnr_next, last), sfr_rel_gap(m)
    PROVE  ReaderMoves({}, last)
<1>1. GapRange(m) \in SUBSET Snr /\ m.bits \in SUBSET Snr
  BY ReaderAssumption DEF Gaps, GapRange, Snr
<1>2. rw_changes \in [Snr -> ChangeState] /\ rw_seqnr_next \in 0..MaxSnr + 1
  BY DEF IInv, ReaderTypeOK
<1> DEFINE mid == GapSet(rw_changes, rw_seqnr_next, GapRange(m))
           ch == GapSet(mid, rw_seqnr_next, m.bits)
<1>3. \A k \in [Snr -> ChangeState], irrelevant \in SUBSET Snr :
         GapSet(k, rw_seqnr_next, irrelevant) \in [Snr -> ChangeState]
  BY DEF GapSet, ChangeState
<1>4. mid \in [Snr -> ChangeState] /\ ch \in [Snr -> ChangeState]
  BY <1>1, <1>2, <1>3
<1>5. /\ HeldIn(mid, delivered) = HeldIn(rw_changes, delivered)
      /\ Within(mid, rw_seqnr_next, last)
  BY <1>1, <1>2, GapHeld
<1> HIDE DEF mid
<1>6. /\ HeldIn(ch, delivered) = Held \cup {}
      /\ Within(ch, rw_seqnr_next, last)
  <2>1. /\ HeldIn(ch, delivered) = HeldIn(mid, delivered)
        /\ Within(ch, rw_seqnr_next, last)
    BY <1>1, <1>4, <1>5, GapHeld
  <2>2. Held \cup {} = Held /\ Held = HeldIn(rw_changes, delivered)
    BY HeldState
  <2> QED  BY <1>5, <2>1, <2>2
<1>7. IF HeadIn(ch, {Received, Gap, Lost})
      THEN sfr_process_samples(ch, rw_seqnr_next)
      ELSE rw_changes' = ch /\ UNCHANGED <<rw_seqnr_next, rw_blocked, hc_nchanges, delivered>>
  BY DEF sfr_rel_gap, mid
<1> HIDE DEF ch
<1>8. CASE HeadIn(ch, {Received, Gap, Lost})
  BY <1>4, <1>6, <1>7, <1>8, ProcessMoves
<1>9. CASE ~ HeadIn(ch, {Received, Gap, Lost})
  BY <1>6, <1>7, <1>9, ListMoves
<1> QED  BY <1>8, <1>9

\* The list part of sfr_rel_heartbeat.
LEMMA HeartbeatMoves ==
    ASSUME IInv, NEW m \in Heartbeats, NEW last \in Nat, m.last <= last,
           Within(rw_changes, rw_seqnr_next, last), HeartbeatList(m)
    PROVE  ReaderMoves({}, last)
<1> DEFINE ch == MarkLost(rw_changes, m.first)
           jump == JumpsToHead(ch, m.first)
           from == IF jump THEN CHOOSE h \in Covered(ch) : IsHead(ch, h)
                           ELSE rw_seqnr_next
<1>1. PICK e \in IF jump THEN Stops(ch, from, hc_nchanges) ELSE {from} :
        LET rest == Drop(ch, from, e)
            next == IF e < m.first THEN m.first ELSE e
        IN  /\ rw_seqnr_next' = next
            /\ rw_changes' = IF next <= m.last
                             THEN ExtendMissing(rest, next, m.last) ELSE rest
            /\ delivered' = delivered \cup Samples(ch, from, e)
  BY DEF HeartbeatList
<1> DEFINE rest == Drop(ch, from, e)
           next == IF e < m.first THEN m.first ELSE e
           got == Samples(ch, from, e)
<1>2. m.first \in 1..MaxSnr + 1 /\ m.last \in 0..MaxSnr /\ m.first <= m.last + 1
  BY ReaderAssumption DEF Heartbeats, Snr
<1>3. rw_changes \in [Snr -> ChangeState] /\ rw_seqnr_next \in 0..MaxSnr + 1
  BY DEF IInv, ReaderTypeOK
<1>4. /\ ch \in [Snr -> ChangeState]
      /\ HeldIn(ch, delivered) = Held /\ Within(ch, rw_seqnr_next, last)
  <2>1. ch \in [Snr -> ChangeState]
    BY <1>3 DEF MarkLost, ChangeState
  <2>2. m.last <= last /\ m.last \in Nat
    BY <1>2
  <2>3. HeldIn(ch, delivered) = HeldIn(rw_changes, delivered) /\ Within(ch, rw_seqnr_next, last)
    BY <1>3, <2>2, HeartbeatHeld
  <2> QED  BY <2>1, <2>3, HeldState
<1> HIDE DEF ch
<1>5. /\ jump => from \in Snr /\ from <= last /\ rw_seqnr_next < m.first
      /\ ~ jump => from = rw_seqnr_next /\ e = from
  BY <1>1, <1>4 DEF JumpsToHead, Covered, Within
<1> HIDE DEF from
<1>6. /\ from \in 0..MaxSnr + 1 /\ Within(ch, from, last)
  BY <1>3, <1>4, <1>5, Numbers DEF Within
<1>7. /\ HeldIn(rest, delivered \cup got) = Held /\ Within(rest, e, last)
      /\ from <= e /\ e \in 0..MaxSnr + 1
      /\ rest \in [Snr -> ChangeState]
  <2>0. rest \in [Snr -> ChangeState]
    BY <1>4 DEF Drop, ChangeState
  <2>1. CASE jump
    <3>1. e \in Stops(ch, from, hc_nchanges)
      BY <1>1, <2>1
    <3>2. e \in 0..MaxSnr + 1
      BY <3>1, <1>6, StopsReady
    <3> QED  BY <1>4, <1>6, <2>0, <3>1, <3>2, ProcessHeld
  <2>2. CASE ~ jump
    <3>1. e = from /\ from = rw_seqnr_next
      BY <1>5, <2>2
    <3>2. rest = ch /\ got = {}
      BY <3>1, <1>4, <1>6, Numbers DEF Drop, Samples
    <3> QED  BY <1>4, <1>6, <2>0, <3>1, <3>2
  <2> QED  BY <2>1, <2>2
<1>8. /\ rw_seqnr_next' = next /\ delivered' = delivered \cup got
      /\ rw_changes' = IF next <= m.last THEN ExtendMissing(rest, next, m.last) ELSE rest
  BY <1>1
<1>9. Within(rest, next, last) /\ rw_seqnr_next <= next
  <2> HIDE DEF rest
  <2>1. CASE jump
    BY <1>2, <1>3, <1>5, <1>7, <2>1, Numbers DEF Within
  <2>2. CASE ~ jump
    BY <1>2, <1>3, <1>5, <1>7, <2>2, Numbers DEF Within
  <2> QED  BY <2>1, <2>2
<1> HIDE DEF rest, next, got
<1>10. HeldIn(rw_changes', delivered') = Held /\ Within(rw_changes', rw_seqnr_next', last)
  <2>1. m.last \in Nat /\ m.last <= last
    BY <1>2
  <2>2. /\ HeldIn(ExtendMissing(rest, next, m.last), delivered \cup got) = HeldIn(rest, delivered \cup got)
        /\ Within(ExtendMissing(rest, next, m.last), next, last)
    BY <1>7, <1>9, <2>1, HeartbeatHeld
  <2> QED  BY <1>7, <1>8, <1>9, <2>2
<1> QED  BY <1>8, <1>9, <1>10, HeldState DEF ReaderMoves

\* The application takes a sample.
LEMMA TakeMoves ==
    ASSUME IInv, NEW last \in Nat, Within(rw_changes, rw_seqnr_next, last), Take
    PROVE  ReaderMoves({}, last)
<1>1. CASE ~ rw_blocked
  BY <1>1, NothingMoves DEF Take
<1>2. CASE rw_blocked
  <2>1. PICK e \in Stops(rw_changes, rw_seqnr_next, hc_nchanges - 1) :
          /\ rw_changes' = Drop(rw_changes, rw_seqnr_next, e)
          /\ rw_seqnr_next' = e
          /\ delivered' = delivered \cup Samples(rw_changes, rw_seqnr_next, e)
    BY <1>2 DEF Take
  <2>2. rw_changes \in [Snr -> ChangeState] /\ rw_seqnr_next \in 0..MaxSnr + 1
    BY DEF IInv, ReaderTypeOK
  <2>3. /\ HeldIn(rw_changes', delivered') = HeldIn(rw_changes, delivered)
        /\ Within(rw_changes', rw_seqnr_next', last) /\ rw_seqnr_next <= rw_seqnr_next'
    BY <2>1, <2>2, ProcessHeld
  <2> QED  BY <2>1, <2>3, HeldState DEF ReaderMoves
<1> QED  BY <1>1, <1>2

-----------------------------------------------------------------------------
(* ACKNACKs.                                                               *)

\* The bitmap of an ACKNACK ends where the list does.
LEMMA CountedFits ==
    ASSUME CacheAcks, NEW ch, NEW next, NEW del, NEW tld, ListInv(ch, next, del, tld),
           NEW last \in Nat, Within(ch, next, last), NEW blocked
    PROVE  /\ IsFiniteSet(AckCounted(ch, next, blocked))
           /\ Cardinality(AckCounted(ch, next, blocked)) \in Nat
           /\ next + Cardinality(AckCounted(ch, next, blocked)) <= last + 1
<1> DEFINE C == AckCounted(ch, next, blocked)
<1>1. next \in Nat /\ next \in Int /\ last \in Int
  BY Numbers DEF ListInv, ListType
<1>2. \A c \in C : c \in Nat /\ next <= c /\ c <= last
  BY CountedAhead, Numbers DEF AckCounted, Covered, Within
<1> HIDE DEF C
<1>3. C \subseteq next..last
  BY <1>1, <1>2
<1>4. /\ IsFiniteSet(next..last)
      /\ Cardinality(next..last) = IF next > last THEN 0 ELSE last - next + 1
  BY <1>1, FS_Interval
<1>5. IsFiniteSet(C) /\ Cardinality(C) <= Cardinality(next..last)
  BY <1>3, <1>4, FS_Subset
<1>6. Cardinality(C) \in Nat
  BY <1>5, FS_CardinalityType
<1>7. next + Cardinality(C) <= last + 1
  <2>1. next <= last + 1
    BY DEF Within
  <2> QED  BY <1>1, <1>4, <1>5, <1>6, <2>1
<1> QED  BY <1>5, <1>6, <1>7 DEF C

\* A bit of the bitmap is below its length.
LEMMA PositionFits ==
    ASSUME NEW C, IsFiniteSet(C), NEW c \in C, c \in Nat
    PROVE  Cardinality({t \in C : t < c}) < Cardinality(C) /\ Cardinality({t \in C : t < c}) \in Nat
<1> DEFINE T == {t \in C : t < c}
<1>1. T \in SUBSET C /\ c \notin T
  OBVIOUS
<1> HIDE DEF T
<1>2. T # C
  BY <1>1
<1>3. IsFiniteSet(T) /\ Cardinality(T) <= Cardinality(C) /\ Cardinality(C) # Cardinality(T)
  BY <1>1, <1>2, FS_Subset
<1>4. Cardinality(T) \in Nat /\ Cardinality(C) \in Nat
  BY <1>3, FS_CardinalityType
<1> QED  BY <1>3, <1>4 DEF T

\* An ACKNACK of the reader is one that the writer may get.
LEMMA AckNackBuilt ==
    ASSUME NEW base \in 0..MaxSnr + 1, NEW numbits \in 0..MaxSnr,
           NEW bits \in SUBSET (0..MaxSnr - 1), NEW count \in 0..CountMod - 1,
           base # 0, base + numbits <= MaxSnr + 1, \A i \in bits : i < numbits
    PROVE  [base |-> base, numbits |-> numbits, bits |-> bits, count |-> count] \in AckNackMsg
BY DEF AckNackMsg

\* What a step of the reader puts on the wire acknowledges only what is told
\* to be unavailable or passed.
LEMMA AckSent ==
    ASSUME CacheAcks, IInv', acknacks \in 0..CountMod - 1, hc_last' \in 0..MaxSnr,
           Within(rw_changes', rw_seqnr_next', hc_last'),
           \/ rw_sent' = {}
           \/ sfr_rel_init_acknack
           \/ sfr_rel_do_ack_nl(rw_changes', rw_seqnr_next', rw_blocked')
    PROVE  IsFiniteSet(rw_sent') /\ rw_sent' \subseteq AckUnderway'
<1>0. /\ ListInv(rw_changes', rw_seqnr_next', delivered', told')
      /\ rw_seqnr_next' \in 0..MaxSnr + 1 /\ rw_blocked' \in BOOLEAN
      /\ hc_last' \in Nat /\ MaxSnr \in Nat
      /\ NextCount(acknacks) \in 0..CountMod - 1
      /\ 1 <= rw_seqnr_next'
  BY Numbers, ReaderAssumption DEF IInv, ReaderTypeOK, NextCount, Within
<1>1. CASE rw_sent' = {}
  BY <1>1, FS_EmptySet
<1>2. CASE sfr_rel_init_acknack
  <2> DEFINE m == [base |-> 0, numbits |-> 0, bits |-> {}, count |-> NextCount(acknacks)]
  <2>1. rw_sent' = {m}
    BY <1>2 DEF sfr_rel_init_acknack, SendAckNack
  <2>2. m \in AckNackMsg
    BY <1>0 DEF AckNackMsg
  <2>3. m.base = 0 /\ m.numbits = 0
    OBVIOUS
  <2> HIDE DEF m
  <2>4. Acknowledged(m.base, m.numbits, m.bits) = {}
    BY <2>3, Numbers DEF Acknowledged
  <2>5. m \in AckUnderway'
    BY <1>0, <2>2, <2>3, <2>4 DEF AckUnderway
  <2> QED  BY <2>1, <2>5, FS_Singleton
<1>3. CASE sfr_rel_do_ack_nl(rw_changes', rw_seqnr_next', rw_blocked')
  <2> DEFINE C == AckCounted(rw_changes', rw_seqnr_next', rw_blocked')
             n == Cardinality(C)
             numbits == IF n < MaxBits THEN n ELSE MaxBits
             bits == {i \in 0..MaxBits - 1 :
                        \E s \in C : /\ rw_changes'[s] = Missing
                                     /\ AckPosition(rw_changes', rw_seqnr_next', rw_blocked', s) = i}
             m == [base |-> rw_seqnr_next', numbits |-> numbits, bits |-> bits,
                   count |-> NextCount(acknacks)]
  <2>1. rw_sent' = {m}
    BY <1>3 DEF sfr_rel_do_ack_nl, SendAckNack
  <2>2. IsFiniteSet(C) /\ n \in Nat /\ rw_seqnr_next' + n <= hc_last' + 1
    BY <1>0, CountedFits
  <2>3. \A i \in bits : i \in Nat /\ i < numbits
    <3> SUFFICES ASSUME NEW i \in 0..MaxBits - 1, NEW s \in C,
                        AckPosition(rw_changes', rw_seqnr_next', rw_blocked', s) = i
                 PROVE  i \in Nat /\ i < numbits
      OBVIOUS
    <3>1. s \in Nat
      BY Numbers DEF AckCounted, Covered
    <3>2. i = Cardinality({t \in C : t < s})
      BY DEF AckPosition
    <3> HIDE DEF C
    <3>3. i < n /\ i \in Nat
      BY <2>2, <3>1, <3>2, PositionFits
    <3> HIDE DEF n
    <3> QED  BY <2>2, <3>3, ReaderAssumption
  <2> HIDE DEF bits, n, C
  <2>4. /\ numbits \in Nat /\ rw_seqnr_next' + numbits <= hc_last' + 1 /\ numbits <= MaxSnr
        /\ rw_seqnr_next' + numbits <= MaxSnr + 1
    <3>1. numbits \in Nat /\ numbits <= n
      BY <2>2, ReaderAssumption
    <3>2. /\ rw_seqnr_next' \in Nat /\ 1 <= rw_seqnr_next' /\ hc_last' \in Nat
          /\ hc_last' <= MaxSnr /\ MaxSnr \in Nat
      BY <1>0
    <3>3. n \in Nat /\ rw_seqnr_next' + n <= hc_last' + 1
      BY <2>2
    <3> HIDE DEF numbits
    <3>4. \A a, b, c, d \in Nat : 1 <= a /\ a + b <= d + 1 /\ c <= b /\ d <= MaxSnr =>
             a + c <= d + 1 /\ c <= MaxSnr /\ a + c <= MaxSnr + 1
      BY <3>2
    <3> QED  BY <3>1, <3>2, <3>3, <3>4
  <2> HIDE DEF numbits
  <2>5. bits \in SUBSET (0..MaxSnr - 1)
    BY <1>0, <2>3, <2>4
  <2>6. m \in AckNackMsg
    <3>1. numbits \in 0..MaxSnr /\ rw_seqnr_next' # 0
      BY <1>0, <2>4
    <3> QED  BY <1>0, <2>3, <2>4, <2>5, <3>1, AckNackBuilt
  <2>7. m.base = rw_seqnr_next' /\ m.numbits = numbits
    OBVIOUS
  <2> HIDE DEF m
  <2>8. \A s \in Acknowledged(m.base, m.numbits, m.bits) :
           s \in told' \/ (s < rw_seqnr_next' /\ (s \in delivered' \/ rw_changes'[s] = Received))
    BY <1>0, <1>3, <2>1, AckKeeps
  <2>9. \A s \in Acknowledged(m.base, m.numbits, m.bits) : s \in told' \/ Passed(s)'
    BY <2>8 DEF Passed, Held, Acknowledged
  <2>10. m \in AckUnderway'
    BY <2>4, <2>6, <2>7, <2>9 DEF AckUnderway
  <2> QED  BY <2>1, <2>10, FS_Singleton
<1> QED  BY <1>1, <1>2, <1>3

-----------------------------------------------------------------------------
(* Steps of the reader.                                                    *)

\* The writer does nothing.
LEMMA WriterIdleKeeps ==
    ASSUME WriterInv, WriterIdle
    PROVE  WriterInv'
<1>1. Scalars' /\ Agree' /\ RepairDue'
  BY DEF WriterInv, WriterIdle, Scalars, Agree, RepairDue
<1>2. HeartbeatSparesSamples'
  BY DEF WriterIdle, HeartbeatSparesSamples
<1> QED  BY <1>1, <1>2 DEF WriterInv

\* The reader does nothing.
LEMMA ReaderIdleKeeps ==
    ASSUME IInv, ReaderIdle
    PROVE  IInv'
<1>1. RestType' /\ Fresh'
  BY IInvParts DEF ReaderIdle, RestType, Fresh
<1>2. ListInv(rw_changes', rw_seqnr_next', delivered', told')
  BY DEF IInv, ReaderIdle
<1> QED  BY <1>1, <1>2 DEF IInv, ReaderTypeOK, RestType, ListInv, ListType

\* What is unavailable and underway when the writer does nothing.
LEMMA WriterIdleSame ==
    ASSUME WriterIdle, UNCHANGED <<owed, dropped, confirmed>>
    PROVE  Unavailable' = Unavailable /\ ForReader' = ForReader
<1>1. Unavailable' = Unavailable
  BY DEF WriterIdle, Unavailable
<1>2. GapUnderway' = GapUnderway
  BY <1>1 DEF GapUnderway, GapRange
<1>3. HeartbeatUnderway' = HeartbeatUnderway
  BY <1>1 DEF HeartbeatUnderway, WriterIdle
<1> QED  BY <1>1, <1>2, <1>3 DEF ForReader, DataUnderway

\* The abstract step that a step of the reader is.
LEMMA ReaderArrives ==
    ASSUME IInv', WriterInv', Books', ReaderKnows', NEW new, ReaderMoves(new, hc_last),
           \A d \in delivered' \ delivered, x \in delivered : x < d,
           UNCHANGED <<owed, dropped, confirmed>>
    PROVE  D!Arrive
<1>1. /\ Held \subseteq Held' /\ Held' \subseteq owed
      /\ delivered \subseteq delivered' /\ delivered' \subseteq Held'
  BY DEF ReaderMoves, ReaderKnows, Held
<1>2. ASSUME NEW d \in delivered', NEW s \in owed, s < d
      PROVE  s \in delivered' \cup dropped
  <2>1. /\ s \in Snr /\ d \in Snr /\ d < rw_seqnr_next' /\ rw_seqnr_next' \in Nat
        /\ \A t \in Covered(rw_changes') : d < t
        /\ Covered(rw_changes') \subseteq Snr
    BY Numbers DEF Books, IInv, ListInv, ListType, Behind, Before, Covered
  <2>2. rw_changes'[s] # Received
    <3> SUFFICES ASSUME s \in Covered(rw_changes') PROVE FALSE
      BY <2>1 DEF Covered, None, Received
    <3> QED  BY <1>2, <2>1, Numbers
  <2>3. s < rw_seqnr_next'
    BY <1>2, <2>1, Numbers
  <2>4. s \in delivered' \/ s \in told'
    BY <2>1, <2>2, <2>3 DEF IInv, ListInv, Accounted
  <2>5. CASE s \in told'
    <3>1. s \in dropped \/ s \in confirmed
      BY <2>5 DEF ReaderKnows, Books, Unavailable, WriterInv, Agree
    <3>2. s \in confirmed => s \in delivered'
      BY <2>2 DEF ReaderKnows, Passed, Held
    <3> QED  BY <3>1, <3>2
  <2> QED  BY <2>4, <2>5
<1> QED  BY <1>1, <1>2 DEF D!Arrive

\* A step of the reader, from what its handler did.
LEMMA ReaderPart ==
    ASSUME CacheAcks, PairInv, ReaderStep, IInv', NEW new \in SUBSET owed,
           ReaderMoves(new, hc_last),
           \A d \in delivered' \ delivered, x \in delivered : x < d,
           told \subseteq told', told' \subseteq Unavailable,
           rw_cstate' = "none" => rw_seqnr_next' = 1,
           \/ rw_sent' = {}
           \/ sfr_rel_init_acknack
           \/ sfr_rel_do_ack_nl(rw_changes', rw_seqnr_next', rw_blocked'),
           toReader' \in Seq(ForReader)
    PROVE  PairInv' /\ D!Arrive
<1>0. WriterIdle /\ UNCHANGED <<owed, dropped, confirmed>> /\ Queued(toWriter, rw_sent', toWriter')
  BY DEF ReaderStep
<1>1. WriterInv' /\ Unavailable' = Unavailable /\ ForReader' = ForReader
  BY <1>0, WriterIdleKeeps, WriterIdleSame DEF PairInv
<1>2. Books'
  BY <1>0 DEF PairInv, Books, WriterIdle
<1>m. \A s : Passed(s) => Passed(s)'
  <2>1. rw_seqnr_next \in Nat /\ rw_seqnr_next' \in Nat
    BY Numbers DEF PairInv, IInv, ReaderTypeOK
  <2>2. \A s \in Held : s \in Nat
    BY Numbers DEF Held, PairInv, IInv, ReaderTypeOK
  <2> QED  BY <2>1, <2>2 DEF Passed, ReaderMoves
<1>3. ReaderKnows'
  <2>1. hc_last' = hc_last /\ \A s \in confirmed' : Passed(s)'
    BY <1>0, <1>m DEF WriterIdle, PairInv, ReaderKnows
  <2>2. Held' \subseteq owed'
    BY <1>0 DEF PairInv, ReaderKnows, ReaderMoves
  <2> QED  BY <1>1, <2>1, <2>2 DEF ReaderKnows, ReaderMoves, Within
<1>4. /\ GapsUnavailable(rr_changes)' /\ ListCovers(rr_changes)'
      /\ AckedPassed(rr_changes)'
  BY <1>0, <1>1, <1>m DEF PairInv, WriterIdle, GapsUnavailable, ListCovers, AckedPassed
<1>5. AckUnderway \subseteq AckUnderway'
  BY <1>0, <1>m DEF AckUnderway, WriterIdle
<1>6. IsFiniteSet(rw_sent') /\ rw_sent' \subseteq AckUnderway'
  <2>1. acknacks \in 0..CountMod - 1 /\ hc_last' \in 0..MaxSnr
    BY <1>0 DEF PairInv, IInv, ReaderTypeOK, WriterInv, Agree, WriterIdle
  <2>2. Within(rw_changes', rw_seqnr_next', hc_last')
    BY <1>0 DEF ReaderMoves, WriterIdle
  <2> QED  BY <2>1, <2>2, AckSent
<1>7. Channels'
  <2>1. toWriter \in Seq(AckUnderway')
    BY <1>5, WiderChannel DEF PairInv, Channels
  <2>2. toWriter' \in Seq(AckUnderway')
    BY <1>0, <1>6, <2>1, QueuedInto
  <2> QED  BY <1>1, <2>2 DEF Channels
<1>8. D!Arrive
  BY <1>0, <1>1, <1>2, <1>3, ReaderArrives
<1> QED  BY <1>1, <1>2, <1>3, <1>4, <1>7, <1>8 DEF PairInv

\* The facts about the reader's handlers that every step below starts from.
LEMMA ReaderFacts ==
    ASSUME PairInv
    PROVE  /\ IInv /\ hc_last \in Nat /\ hc_last \in 0..MaxSnr
           /\ Within(rw_changes, rw_seqnr_next, hc_last)
           /\ told \subseteq Unavailable /\ toReader \in Seq(ForReader)
           /\ rw_cstate = "none" => rw_seqnr_next = 1
<1>1. hc_last \in 0..MaxSnr /\ hc_last \in Nat
  BY Numbers DEF PairInv, WriterInv, Agree
<1> QED  BY <1>1 DEF PairInv, ReaderKnows, Within, Channels

\* The match, the timers and the application.
LEMMA ReaderOwnStep ==
    ASSUME CacheAcks, PairInv, ReaderMatch \/ ReaderAliveTimer \/ AckTimer \/ TakeSample
    PROVE  PairInv' /\ D!Arrive
<1>0. /\ IInv /\ hc_last \in Nat /\ Within(rw_changes, rw_seqnr_next, hc_last)
      /\ told \subseteq Unavailable /\ toReader \in Seq(ForReader)
      /\ rw_cstate = "none" => rw_seqnr_next = 1
  BY ReaderFacts
<1>1. ReaderStep /\ toReader' = toReader
  BY DEF ReaderMatch, ReaderAliveTimer, AckTimer, TakeSample
<1>2. /\ sfr_rel_start \/ sfr_rel_alive_to \/ sfr_rel_do_ack \/ Take
  BY DEF ReaderMatch, ReaderAliveTimer, AckTimer, TakeSample
<1>3. IInv' /\ \A d \in delivered' \ delivered, x \in delivered : x < d
  <2>1. ReaderNext
    BY <1>2 DEF ReaderNext
  <2> QED  BY <1>0, <2>1, NextStep
<1>4. told' = told
  BY <1>2 DEF sfr_rel_start, sfr_rel_alive_to, sfr_rel_do_ack, Take
<1>5. \/ rw_sent' = {}
      \/ sfr_rel_init_acknack
      \/ sfr_rel_do_ack_nl(rw_changes', rw_seqnr_next', rw_blocked')
  BY <1>2, Zenon DEF sfr_rel_start, sfr_rel_alive_to, sfr_rel_do_ack, Take, NoDelivery, NoAckNack
<1>6. ReaderMoves({}, hc_last) /\ (rw_cstate' = "none" => rw_seqnr_next' = 1)
  <2>1. CASE sfr_rel_start
    <3>1. UNCHANGED <<rw_changes, rw_seqnr_next, delivered>> /\ rw_cstate' = "ready"
      BY <1>0, <2>1 DEF sfr_rel_start
    <3> QED  BY <1>0, <3>1, NothingMoves
  <2>2. CASE sfr_rel_alive_to \/ sfr_rel_do_ack
    <3>1. UNCHANGED <<rw_changes, rw_seqnr_next, delivered, rw_cstate>>
      BY <2>2 DEF sfr_rel_alive_to, sfr_rel_do_ack, NoDelivery
    <3> QED  BY <1>0, <3>1, NothingMoves
  <2>3. CASE Take
    <3>1. ReaderMoves({}, hc_last)
      BY <1>0, <2>3, TakeMoves
    <3>2. ASSUME rw_cstate' = "none" PROVE rw_seqnr_next' = 1
      <4>1. rw_cstate = "none" /\ rw_seqnr_next = 1 /\ rw_changes = Empty
        BY <1>0, <2>3, <3>2 DEF Take, IInv, Fresh
      <4>2. ~ IsHead(rw_changes, rw_seqnr_next)
        BY <4>1 DEF IsHead, Covered, Empty
      <4>3. \A n : Stops(rw_changes, rw_seqnr_next, n) = {rw_seqnr_next}
        BY <4>2 DEF Stops
      <4> QED  BY <2>3, <4>1, <4>3 DEF Take
    <3> QED  BY <3>1, <3>2
  <2> QED  BY <1>2, <2>1, <2>2, <2>3
<1>7. {} \in SUBSET owed /\ toReader' \in Seq(ForReader) /\ told \subseteq told' /\ told' \subseteq Unavailable
  BY <1>0, <1>1, <1>4
<1> QED  BY <1>1, <1>3, <1>5, <1>6, <1>7, ReaderPart

\* The handlers look only at the fields they know.
LEMMA SameGap ==
    ASSUME NEW m, NEW n, m.start = n.start, m.base = n.base, m.bits = n.bits, sfr_rel_gap(m), GapOk(m)
    PROVE  sfr_rel_gap(n) /\ GapOk(n)
<1>1. GapRange(m) = GapRange(n)
  BY DEF GapRange
<1>2. sfr_rel_gap(n)
  BY <1>1, Zenon DEF sfr_rel_gap
<1> QED  BY <1>1, <1>2 DEF GapOk

\* The same of a HEARTBEAT.
LEMMA SameHeartbeat ==
    ASSUME NEW m, NEW n, m.final = n.final, m.liveliness = n.liveliness, m.count = n.count,
           HeartbeatSkipped(m) \/ (m.first = n.first /\ m.last = n.last), sfr_rel_heartbeat(m)
    PROVE  sfr_rel_heartbeat(n)
<1>1. HeartbeatSkipped(m) <=> HeartbeatSkipped(n)
  BY DEF HeartbeatSkipped
<1>2. CASE HeartbeatSkipped(m)
  BY <1>1, <1>2, Zenon DEF sfr_rel_heartbeat
<1>3. CASE ~ HeartbeatSkipped(m)
  <2>1. m.first = n.first /\ m.last = n.last
    BY <1>3
  <2>2. HeartbeatList(m) => HeartbeatList(n)
    BY <2>1, Zenon DEF HeartbeatList
  <2>3. HeartbeatAnswer(m) => HeartbeatAnswer(n)
    BY Zenon DEF HeartbeatAnswer
  <2> QED  BY <1>1, <1>3, <2>1, <2>2, <2>3, Zenon DEF sfr_rel_heartbeat
<1> QED  BY <1>2, <1>3

\* A DATA submessage arrives.
LEMMA DataArrives ==
    ASSUME PairInv, NEW m \in DataUnderway, sfr_rel_data(m.snr, FALSE)
    PROVE  /\ IInv' /\ \A d \in delivered' \ delivered, x \in delivered : x < d
           /\ {m.snr} \in SUBSET owed /\ ReaderMoves({m.snr}, hc_last)
           /\ told' = told /\ rw_sent' = {} /\ rw_cstate' = "ready"
<1>1. m.snr \in owed /\ m.snr \in Snr /\ m.snr <= hc_last
  BY DEF DataUnderway, PairInv, Books
<1>2. IInv /\ hc_last \in Nat /\ Within(rw_changes, rw_seqnr_next, hc_last)
  BY ReaderFacts
<1>3. ReaderNext
  BY <1>1 DEF ReaderNext
<1>4. told' = told /\ rw_sent' = {} /\ rw_cstate' = "ready"
  BY DEF sfr_rel_data, NoAckNack
<1>5. ReaderMoves({m.snr}, hc_last)
  BY <1>1, <1>2, DataMoves
<1> QED  BY <1>1, <1>2, <1>3, <1>4, <1>5, NextStep

\* A GAP submessage arrives.
LEMMA GapArrives ==
    ASSUME PairInv, NEW m \in GapUnderway, GapOk(m), sfr_rel_gap(m)
    PROVE  /\ IInv' /\ \A d \in delivered' \ delivered, x \in delivered : x < d
           /\ ReaderMoves({}, hc_last)
           /\ told \subseteq told' /\ told' \subseteq Unavailable
           /\ rw_sent' = {} /\ rw_cstate' = "ready"
<1> DEFINE n == [start |-> m.start, base |-> m.base, bits |-> m.bits]
<1>0. /\ IInv /\ hc_last \in Nat /\ Within(rw_changes, rw_seqnr_next, hc_last)
      /\ told \subseteq Unavailable
  BY ReaderFacts
<1>1. /\ m.start \in Snr /\ m.base \in 1..MaxSnr + 1 /\ m.bits \in SUBSET Snr /\ m.start <= m.base
      /\ \A s \in m.bits : m.base <= s
      /\ \A s \in Snr : s \in GapRange(m) \cup m.bits => s \in Unavailable
  BY DEF GapUnderway
<1>2. m.base \in Snr \cup {MaxSnr + 1}
  BY <1>1, Numbers DEF Snr
<1>3. n \in Gaps /\ n.start = m.start /\ n.base = m.base /\ n.bits = m.bits
  BY <1>1, <1>2 DEF Gaps
<1>4. GapRange(n) = GapRange(m)
  BY <1>3 DEF GapRange
<1> HIDE DEF n
<1>5. sfr_rel_gap(n) /\ GapOk(n)
  BY <1>3, SameGap
<1>6. ReaderNext
  BY <1>3, <1>5 DEF ReaderNext
<1>7. \A s \in GapRange(n) \cup n.bits : s \in Snr /\ s \in Unavailable
  <2>1. \A s \in GapRange(m) : s \in Snr
    BY <1>1, Numbers DEF GapRange, Snr
  <2> QED  BY <1>1, <1>3, <1>4, <2>1
<1>8. \A s \in GapRange(n) \cup n.bits : s <= hc_last
  BY <1>7 DEF Unavailable
<1>9. ReaderMoves({}, hc_last)
  BY <1>0, <1>3, <1>5, <1>8, GapMoves
<1>10. told \subseteq told' /\ told' \subseteq Unavailable /\ rw_sent' = {} /\ rw_cstate' = "ready"
  BY <1>0, <1>1 DEF sfr_rel_gap, NoAckNack
<1> QED  BY <1>0, <1>6, <1>9, <1>10, NextStep

\* A HEARTBEAT submessage arrives.
LEMMA HeartbeatArrives ==
    ASSUME PairInv, NEW m \in HeartbeatUnderway, m.first # 0, sfr_rel_heartbeat(m)
    PROVE  /\ IInv' /\ \A d \in delivered' \ delivered, x \in delivered : x < d
           /\ ReaderMoves({}, hc_last)
           /\ told \subseteq told' /\ told' \subseteq Unavailable
           /\ rw_cstate' = "ready"
           /\ \/ rw_sent' = {}
              \/ sfr_rel_do_ack_nl(rw_changes', rw_seqnr_next', rw_blocked')
<1>0. /\ IInv /\ hc_last \in Nat /\ hc_last <= MaxSnr /\ Within(rw_changes, rw_seqnr_next, hc_last)
      /\ told \subseteq Unavailable
  BY ReaderFacts
<1>1. /\ m.first \in 0..MaxSnr + 1 /\ m.last \in 0..MaxSnr + 1 /\ m.final \in BOOLEAN
      /\ m.liveliness \in BOOLEAN /\ m.count \in 0..CountMod - 1
      /\ \/ m.final /\ m.liveliness
         \/ /\ m.first <= m.last + 1 /\ m.last <= hc_last
            /\ \A s \in Snr : s < m.first => s \in Unavailable
  BY DEF HeartbeatUnderway
<1>c. rw_cstate' = "ready"
  BY DEF sfr_rel_heartbeat
<1>2. CASE HeartbeatSkipped(m)
  <2> DEFINE n == [first |-> 1, last |-> 0, final |-> m.final, liveliness |-> m.liveliness,
                   count |-> m.count]
  <2>1. 1 \in Snr \cup {MaxSnr + 1} /\ 0 \in 0..MaxSnr
    BY Numbers DEF Snr
  <2>2. n \in Heartbeats
    BY <1>1, <2>1 DEF Heartbeats
  <2>3. m.final = n.final /\ m.liveliness = n.liveliness /\ m.count = n.count
    OBVIOUS
  <2> HIDE DEF n
  <2>4. sfr_rel_heartbeat(n)
    BY <1>2, <2>3, SameHeartbeat
  <2>5. ReaderNext
    BY <2>2, <2>4 DEF ReaderNext
  <2>6. /\ UNCHANGED <<rw_changes, rw_seqnr_next, delivered>>
        /\ told' = told /\ rw_sent' = {}
    BY <1>2 DEF sfr_rel_heartbeat, NoDelivery, NoAckNack
  <2>7. ReaderMoves({}, hc_last)
    BY <1>0, <2>6, NothingMoves
  <2> QED  BY <1>0, <1>c, <2>5, <2>6, <2>7, NextStep
<1>3. CASE ~ HeartbeatSkipped(m)
  <2> DEFINE n == [first |-> m.first, last |-> m.last, final |-> m.final,
                   liveliness |-> m.liveliness, count |-> m.count]
  <2>1. /\ m.first <= m.last + 1 /\ m.last <= hc_last
        /\ \A s \in Snr : s < m.first => s \in Unavailable
    BY <1>1, <1>3 DEF HeartbeatSkipped
  <2>2. m.first \in Snr \cup {MaxSnr + 1} /\ m.last \in 0..MaxSnr
    BY <1>0, <1>1, <2>1, Numbers DEF Snr
  <2>3. n \in Heartbeats
    BY <1>1, <2>1, <2>2 DEF Heartbeats
  <2>4. /\ m.final = n.final /\ m.liveliness = n.liveliness /\ m.count = n.count
        /\ m.first = n.first /\ m.last = n.last
    OBVIOUS
  <2> HIDE DEF n
  <2>5. sfr_rel_heartbeat(n) /\ ~ HeartbeatSkipped(n)
    BY <1>3, <2>4, SameHeartbeat DEF HeartbeatSkipped
  <2>6. ReaderNext
    BY <2>3, <2>5 DEF ReaderNext
  <2>7. /\ HeartbeatList(n) /\ HeartbeatAnswer(n)
        /\ told' = told \cup {s \in Snr : s < n.first}
    BY <2>5, Zenon DEF sfr_rel_heartbeat
  <2>8. ReaderMoves({}, hc_last)
    BY <1>0, <2>1, <2>3, <2>4, <2>7, HeartbeatMoves
  <2>9. told \subseteq told' /\ told' \subseteq Unavailable
    BY <1>0, <2>1, <2>4, <2>7
  <2>10. \/ rw_sent' = {}
         \/ sfr_rel_do_ack_nl(rw_changes', rw_seqnr_next', rw_blocked')
    BY <2>7, Zenon DEF HeartbeatAnswer, NoAckNack
  <2> QED  BY <1>0, <1>c, <2>6, <2>8, <2>9, <2>10, NextStep
<1> QED  BY <1>2, <1>3

\* A submessage of the writer arrives.
LEMMA ReaderReceivesStep ==
    ASSUME CacheAcks, PairInv, NEW i \in DOMAIN toReader, ReaderReceives(i)
    PROVE  PairInv' /\ D!Arrive
<1> DEFINE m == toReader[i]
<1>0. /\ IInv /\ hc_last \in Nat /\ Within(rw_changes, rw_seqnr_next, hc_last)
      /\ told \subseteq Unavailable /\ toReader \in Seq(ForReader)
      /\ rw_cstate = "none" => rw_seqnr_next = 1
  BY ReaderFacts
<1>1. RemoveAt(toReader, i) \in Seq(ForReader) /\ m \in ForReader
  BY <1>0, RemovedFrom
<1>2. ReaderStep /\ toReader' \in Seq(ForReader)
  BY <1>1 DEF ReaderReceives
<1>3. \/ ~ Acceptable(m) /\ ReaderIdle
      \/ /\ Acceptable(m)
         /\ \/ m.type = "DATA" /\ sfr_rel_data(m.snr, FALSE)
            \/ m.type = "GAP" /\ GapOk(m) /\ sfr_rel_gap(m)
            \/ m.type = "HB" /\ sfr_rel_heartbeat(m)
  BY DEF ReaderReceives
<1> HIDE DEF m
<1>4. /\ m.type = "DATA" => m \in DataUnderway
      /\ m.type = "GAP" => m \in GapUnderway
      /\ m.type = "HB" => m \in HeartbeatUnderway
  BY <1>1 DEF ForReader, DataUnderway, GapUnderway, HeartbeatUnderway
<1>5. CASE ReaderIdle
  <2>1. IInv'
    BY <1>0, <1>5, ReaderIdleKeeps
  <2>2. /\ UNCHANGED <<rw_changes, rw_seqnr_next, delivered, rw_cstate, told>> /\ rw_sent' = {}
    BY <1>5 DEF ReaderIdle
  <2>3. ReaderMoves({}, hc_last)
    BY <1>0, <2>2, NothingMoves
  <2>4. {} \in SUBSET owed /\ \A d \in delivered' \ delivered, x \in delivered : x < d
    BY <2>2
  <2> QED  BY <1>0, <1>2, <2>1, <2>2, <2>3, <2>4, ReaderPart
<1>6. CASE m.type = "DATA" /\ sfr_rel_data(m.snr, FALSE)
  <2>1. /\ IInv' /\ \A d \in delivered' \ delivered, x \in delivered : x < d
        /\ {m.snr} \in SUBSET owed /\ ReaderMoves({m.snr}, hc_last)
        /\ told' = told /\ rw_sent' = {} /\ rw_cstate' = "ready"
    BY <1>4, <1>6, DataArrives
  <2> QED  BY <1>0, <1>2, <2>1, ReaderPart
<1>7. CASE m.type = "GAP" /\ GapOk(m) /\ sfr_rel_gap(m)
  <2>1. /\ IInv' /\ \A d \in delivered' \ delivered, x \in delivered : x < d
        /\ ReaderMoves({}, hc_last)
        /\ told \subseteq told' /\ told' \subseteq Unavailable
        /\ rw_sent' = {} /\ rw_cstate' = "ready"
    BY <1>4, <1>7, GapArrives
  <2>2. {} \in SUBSET owed
    OBVIOUS
  <2> QED  BY <1>2, <2>1, <2>2, ReaderPart
<1>8. CASE m.type = "HB" /\ Acceptable(m) /\ sfr_rel_heartbeat(m)
  <2>1. m \in HeartbeatUnderway /\ m.first # 0
    BY <1>4, <1>8 DEF Acceptable
  <2>2. /\ IInv' /\ \A d \in delivered' \ delivered, x \in delivered : x < d
        /\ ReaderMoves({}, hc_last)
        /\ told \subseteq told' /\ told' \subseteq Unavailable
        /\ rw_cstate' = "ready"
        /\ \/ rw_sent' = {}
           \/ sfr_rel_do_ack_nl(rw_changes', rw_seqnr_next', rw_blocked')
    BY <1>8, <2>1, HeartbeatArrives
  <2>3. {} \in SUBSET owed
    OBVIOUS
  <2> QED  BY <1>2, <2>2, <2>3, ReaderPart
<1> QED  BY <1>3, <1>5, <1>6, <1>7, <1>8

-----------------------------------------------------------------------------
(* Steps of the writer.                                                    *)

\* What a step of the writer does to its cache and to the history variables.
WriterMoves(removed) ==
    /\ WriterHistory(removed)
    /\ removed \subseteq hc_wack /\ removed \cap hc_cache' = {}
    /\ hc_last <= hc_last'
    /\ \A s \in hc_cache' : s \in hc_cache \/ hc_last < s
    /\ rr_cstate' = "none" => rr_cstate = "none"
    /\ rr_cstate' = "ready" => hc_cache' \subseteq owed'
    /\ ~ Durable => hc_cache' \subseteq hc_wack'
    /\ rr_new_snr' <= hc_last' + 1
    /\ \A s \in confirmed' : Passed(s)

\* The reader does nothing, so it passes nothing.
LEMMA ReaderIdleSame ==
    ASSUME ReaderIdle
    PROVE  Held' = Held /\ \A s : Passed(s)' <=> Passed(s)
<1>1. Held' = Held
  BY DEF ReaderIdle, Held
<1> QED  BY <1>1 DEF ReaderIdle, Passed

\* What is unavailable stays so, and what is underway stays true.
LEMMA StillUnderway ==
    ASSUME PairInv, WriterInv', NEW removed, WriterMoves(removed)
    PROVE  /\ Unavailable \subseteq Unavailable'
           /\ ForReader \subseteq ForReader'
           /\ AckUnderway \subseteq AckUnderway'
<1>0. /\ hc_last \in Nat /\ hc_last' \in Nat /\ hc_last <= hc_last'
      /\ owed \subseteq owed' /\ confirmed \subseteq confirmed' /\ ReaderIdle
      /\ Snr \subseteq Nat
  BY Numbers DEF PairInv, WriterInv, Agree, WriterMoves, WriterHistory
<1>1. Unavailable \subseteq Unavailable'
  <2> SUFFICES ASSUME NEW n \in Unavailable PROVE n \in Unavailable'
    OBVIOUS
  <2>1. n \in Snr /\ n \in Nat /\ n <= hc_last /\ (n \notin hc_cache \/ n \in confirmed)
    BY <1>0 DEF Unavailable
  <2>2. n <= hc_last'
    BY <1>0, <2>1
  <2>3. n \in hc_cache' => n \in hc_cache
    BY <1>0, <2>1 DEF WriterMoves
  <2> QED  BY <1>0, <2>1, <2>2, <2>3 DEF Unavailable
<1>2. DataUnderway \subseteq DataUnderway'
  BY <1>0 DEF DataUnderway
<1>3. GapUnderway \subseteq GapUnderway'
  BY <1>1 DEF GapUnderway, GapRange
<1>4. HeartbeatUnderway \subseteq HeartbeatUnderway'
  <2> SUFFICES ASSUME NEW m \in HeartbeatUnderway PROVE m \in HeartbeatUnderway'
    OBVIOUS
  <2>1. m.last \in Nat
    BY Numbers DEF HeartbeatUnderway
  <2>2. m.last <= hc_last => m.last <= hc_last'
    BY <1>0, <2>1
  <2> QED  BY <1>1, <2>2 DEF HeartbeatUnderway
<1>5. AckUnderway \subseteq AckUnderway'
  <2> SUFFICES ASSUME NEW m \in AckUnderway PROVE m \in AckUnderway'
    OBVIOUS
  <2>1. /\ m \in AckNackMsg /\ m.base \in Nat /\ m.numbits \in Nat
        /\ m.base + m.numbits <= hc_last + 1
    BY Numbers DEF AckUnderway, AckNackMsg
  <2>2. m.base + m.numbits <= hc_last' + 1
    BY <1>0, <2>1
  <2>3. told' = told
    BY <1>0 DEF ReaderIdle
  <2>4. \A s \in Acknowledged(m.base, m.numbits, m.bits) : s \in told' \/ Passed(s)'
    BY <1>0, <2>3, ReaderIdleSame DEF AckUnderway
  <2> QED  BY <2>1, <2>2, <2>4 DEF AckUnderway
<1> QED  BY <1>1, <1>2, <1>3, <1>4, <1>5 DEF ForReader

\* The history variables and the reader's knowledge after a step of the writer.
LEMMA WriterBooks ==
    ASSUME PairInv, WriterInv', NEW removed, WriterMoves(removed)
    PROVE  Books' /\ ReaderKnows' /\ IInv'
<1>0. /\ hc_last \in Nat /\ hc_last' \in Nat /\ hc_last <= hc_last'
      /\ Snr \subseteq Nat /\ ReaderIdle /\ IInv
      /\ owed' = owed \cup hc_wack' /\ dropped' = dropped \cup removed
      /\ confirmed' = confirmed \cup ((hc_wack \ hc_wack') \ removed)
      /\ rr_changes'.rel = hc_wack' /\ hc_wack' \subseteq hc_cache'
      /\ \A s \in hc_cache' : s \in Snr /\ s <= hc_last'
  BY Numbers DEF PairInv, WriterInv, Agree, WriterMoves, WriterHistory
<1>1. Books'
  <2>1. owed' \subseteq dropped' \cup confirmed' \cup hc_wack'
    BY <1>0 DEF PairInv, Books
  <2>2. hc_wack' \subseteq owed' /\ \A s \in owed' : s \in Snr /\ s <= hc_last'
    <3>1. \A s \in owed : s \in Snr /\ s \in Nat /\ s <= hc_last
      BY <1>0 DEF PairInv, Books
    <3>2. \A s \in owed : s <= hc_last'
      BY <1>0, <3>1
    <3> QED  BY <1>0, <3>1, <3>2
  <2>3. dropped' \subseteq owed' /\ dropped' \cap hc_cache' = {}
    <3>1. \A s \in dropped : s \in Nat /\ s <= hc_last /\ s \notin hc_cache /\ s \in owed
      BY <1>0 DEF PairInv, Books
    <3>2. \A s \in dropped : s \notin hc_cache'
      BY <1>0, <3>1 DEF WriterMoves
    <3>3. removed \subseteq owed /\ removed \cap hc_cache' = {}
      BY DEF PairInv, Books, WriterMoves
    <3> QED  BY <1>0, <3>1, <3>2, <3>3
  <2>4. rr_cstate' = "none" => owed' = {}
    <3> SUFFICES ASSUME rr_cstate' = "none" PROVE owed' = {}
      OBVIOUS
    <3>1. rr_changes'.rel = {}
      BY EmptyListInv DEF WriterInv, Agree
    <3>2. owed = {}
      BY DEF PairInv, Books, WriterMoves
    <3> QED  BY <1>0, <3>1, <3>2
  <2> QED  BY <2>1, <2>2, <2>3, <2>4 DEF Books, WriterMoves
<1>2. IInv'
  BY <1>0, ReaderIdleKeeps
<1>3. ReaderKnows'
  <2>1. Unavailable \subseteq Unavailable'
    BY StillUnderway
  <2>2. /\ rw_changes' = rw_changes /\ rw_seqnr_next' = rw_seqnr_next /\ rw_cstate' = rw_cstate
        /\ told' = told
    BY <1>0 DEF ReaderIdle
  <2>3. Held' \subseteq owed' /\ \A s \in confirmed' : Passed(s)'
    BY <1>0, ReaderIdleSame DEF PairInv, ReaderKnows, WriterMoves
  <2>4. \A s \in Covered(rw_changes) : s <= hc_last'
    <3>1. \A s \in Covered(rw_changes) : s \in Nat /\ s <= hc_last
      BY <1>0 DEF PairInv, ReaderKnows, Covered
    <3> QED  BY <1>0, <3>1
  <2>5. rw_seqnr_next <= hc_last' + 1
    <3>1. rw_seqnr_next \in Nat /\ rw_seqnr_next <= hc_last + 1
      BY Numbers DEF PairInv, ReaderKnows, IInv, ReaderTypeOK
    <3>2. hc_last \in Nat /\ hc_last' \in Nat /\ hc_last <= hc_last'
      BY <1>0
    <3>3. \A a, b, c \in Nat : a <= b + 1 /\ b <= c => a <= c + 1
      OBVIOUS
    <3> QED  BY <3>1, <3>2, <3>3
  <2> QED  BY <2>1, <2>2, <2>3, <2>4, <2>5 DEF PairInv, ReaderKnows
<1> QED  BY <1>1, <1>2, <1>3

\* What the list of a step of the writer has to satisfy.
ListMovesTo(q) ==
    /\ \A s \in Listed(q) : s \notin q.rel => s \in Unavailable'
    /\ Listed(q) # {} => \A c \in hc_cache' : \E t \in Listed(q) : c <= t
    /\ \A s \in q.rel : q.state[s] = Acked => Passed(s)

\* A step of the writer, from what its handler did.
LEMMA WriterPart ==
    ASSUME PairInv, WriterInv', NEW removed, WriterMoves(removed), ListMovesTo(rr_changes'),
           IsFiniteSet(rr_sent'), rr_sent' \subseteq ForReader',
           toReader' = toReader \/ Queued(toReader, rr_sent', toReader'),
           toWriter' \in Seq(AckUnderway)
    PROVE  PairInv'
<1>0. Books' /\ ReaderKnows' /\ IInv' /\ ReaderIdle
  BY WriterBooks DEF WriterMoves, WriterHistory
<1>1. GapsUnavailable(rr_changes)' /\ ListCovers(rr_changes)'
  BY DEF ListMovesTo, GapsUnavailable, ListCovers
<1>2. AckedPassed(rr_changes)'
  BY <1>0, ReaderIdleSame DEF ListMovesTo, AckedPassed
<1>3. Channels'
  <2>1. ForReader \subseteq ForReader' /\ AckUnderway \subseteq AckUnderway'
    BY StillUnderway
  <2>2. toReader \in Seq(ForReader')
    BY <2>1, WiderChannel DEF PairInv, Channels
  <2>3. toReader' \in Seq(ForReader')
    BY <2>2, QueuedInto
  <2>4. toWriter' \in Seq(AckUnderway')
    BY <2>1, WiderChannel
  <2> QED  BY <2>3, <2>4 DEF Channels
<1> QED  BY <1>0, <1>1, <1>2, <1>3 DEF PairInv

\* A step that queues or drops samples is a write of the abstract writer.
LEMMA WriterWrites ==
    ASSUME PairInv, WriterInv', Books', NEW removed, WriterMoves(removed),
           hc_wack \ hc_wack' \subseteq removed,
           \A s \in hc_wack', t \in owed : s \in owed \/ t < s
    PROVE  D!Write
<1>1. /\ owed' = owed \cup hc_wack' /\ dropped' = dropped \cup removed /\ confirmed' = confirmed
      /\ removed \subseteq owed /\ dropped \subseteq owed
  BY DEF WriterMoves, WriterHistory, WriterInv, Agree, PairInv, Books
<1>2. Held' = Held /\ delivered' = delivered
  BY ReaderIdleSame DEF WriterMoves, WriterHistory, ReaderIdle
<1>3. owed' \subseteq Snr
  BY DEF Books
<1> QED  BY <1>1, <1>2, <1>3 DEF D!Write

\* A step that releases samples is a confirmation.
LEMMA WriterConfirms ==
    ASSUME PairInv, WriterInv', WriterMoves({}), hc_wack' \subseteq owed
    PROVE  D!Confirm
<1>1. /\ owed' = owed /\ dropped' = dropped /\ confirmed \subseteq confirmed'
      /\ confirmed' \subseteq Held
  BY DEF WriterMoves, WriterHistory, WriterInv, Agree, PairInv, Books, Passed
<1>2. Held' = Held /\ delivered' = delivered
  BY ReaderIdleSame DEF WriterMoves, WriterHistory, ReaderIdle
<1> QED  BY <1>1, <1>2 DEF D!Confirm

-----------------------------------------------------------------------------
(* What the operations on the list do to the numbers it covers and to the  *)
(* states of its samples.                                                  *)

\* A list that is left when a sample is removed reaches as far as before, and
\* the states of the other samples stay.
LEMMA RemoveSampleReach ==
    ASSUME NEW q, ChangesInv(q), NEW s \in q.rel, NEW k, k = RemoveSample(q, s)
    PROVE  /\ Listed(k) # {} => \A t \in Listed(q) : \E u \in Listed(k) : t <= u
           /\ \A t \in k.rel : k.state[t] = q.state[t]
<1> DEFINE L == Listed(q)
           next == MinOr({t \in L : t > s}, Null)
           nextGap == next # Null /\ next \notin q.rel
           prevGap == s - 1 \in L /\ s - 1 \notin q.rel
           start == IF prevGap THEN NodeStart(q, s - 1) ELSE s
           x == IF nextGap THEN q.state[next]
                ELSE IF prevGap THEN q.state[s - 1] ELSE q.state[s]
           r == q.rel \ {s}
           head == {t \in L : \A v \in r : t < v}
<1>1. k.rel = r /\ \A t \in Snr : k.state[t] = IF t \in head THEN None
                                               ELSE IF start <= t /\ t <= s THEN x
                                               ELSE q.state[t]
  BY DEF RemoveSample
<1>q. /\ L \in SUBSET Snr
      /\ \A t \in Snr : t \in L <=> q.state[t] # None
      /\ \A t \in L : t \in Snr /\ t \in Nat
      /\ \A t \in q.rel : t \in L
  BY ListFacts
<1>n. (s + 1 \in L => next = s + 1) /\ (s + 1 \notin L => next = Null)
  BY <1>q, NextNumber
<1>2. \E t \in L : x = q.state[t]
  BY <1>n, <1>q
<1>p. \A t \in q.rel : t < s => t < start
  <2>1. CASE prevGap
    BY <2>1, GapBefore
  <2>2. CASE ~ prevGap
    BY <2>2
  <2> QED  BY <2>1, <2>2
<1>x. x # None
  BY <1>2, <1>q
<1> HIDE DEF next, nextGap, prevGap, start, x
<1>3. \A t \in r : t \in L /\ t \notin head
  BY <1>q
<1>4. ASSUME NEW t \in k.rel PROVE k.state[t] = q.state[t]
  <2>1. t \in r /\ t \in q.rel /\ t # s /\ t \in Nat /\ s \in Nat /\ t \in Snr
    BY <1>1, <1>q
  <2>2. ~ (start <= t /\ t <= s)
    <3> SUFFICES ASSUME t < s, start <= t PROVE FALSE
      BY <2>1
    <3>1. t < start
      BY <1>p, <2>1
    <3>2. start \in Nat
      BY <1>q, GapBefore DEF start, prevGap
    <3> QED  BY <2>1, <3>1, <3>2
  <2> QED  BY <1>1, <1>3, <2>1, <2>2
<1>5. ASSUME Listed(k) # {}, NEW t \in L PROVE \E u \in Listed(k) : t <= u
  <2>1. PICK c \in Snr : k.state[c] # None
    BY <1>5 DEF Listed
  <2>2. c \notin head /\ c \in L
    <3>1. c \notin head
      BY <1>1, <2>1
    <3>2. CASE start <= c /\ c <= s
      <4>1. start \in L /\ start \in Nat /\ s \in L /\ c \in Nat
        BY <1>q, GapBefore, ListFacts, Numbers DEF start, prevGap
      <4> QED  BY <3>1, <4>1, <3>2, ListFacts
    <3>3. CASE ~ (start <= c /\ c <= s)
      BY <3>1, <3>3, <1>1, <1>q, <2>1
    <3> QED  BY <3>1, <3>2, <3>3
  <2>3. PICK v \in r : v \in L
    BY <2>2, <1>q
  <2>4. PICK w \in L : t <= w /\ v <= w
    BY <1>q, <2>3
  <2>5. w \in Snr /\ w \notin head
    BY <1>q, <2>3, <2>4
  <2>6. w \in Listed(k)
    BY <1>1, <1>x, <1>q, <2>4, <2>5 DEF Listed
  <2> QED  BY <2>4, <2>6
<1> QED  BY <1>4, <1>5

\* The same of what leaves the cache.
LEMMA RemovedList ==
    ASSUME Agree, NEW victim, victim = {} \/ \E c : victim = {c},
           NEW k, k = RemoveFromList(rr_changes, victim)
    PROVE  /\ Listed(k) # {} => \A t \in Listed(rr_changes) : \E u \in Listed(k) : t <= u
           /\ \A t \in k.rel : k.state[t] = rr_changes.state[t]
<1> DEFINE q == rr_changes
<1>1. ChangesInv(q) /\ q.rel = hc_wack
  BY DEF Agree
<1>2. CASE k = q
  <2>1. \A t \in Listed(q) : t <= t
    BY <1>1, ListFacts
  <2> QED  BY <1>2, <2>1
<1>3. CASE k # q
  <2>1. PICK c : victim = {c}
    BY <1>3 DEF RemoveFromList
  <2>2. (CHOOSE s \in victim : TRUE) = c
    BY <2>1
  <2>3. k = RemoveSample(q, c) /\ c \in q.rel
    BY <1>1, <1>3, <2>1, <2>2 DEF RemoveFromList
  <2> HIDE DEF q
  <2>4. /\ Listed(k) # {} => \A t \in Listed(q) : \E u \in Listed(k) : t <= u
        /\ \A t \in k.rel : k.state[t] = q.state[t]
    BY <1>1, <2>3, RemoveSampleReach
  <2> QED  BY <2>4 DEF q
<1> QED  BY <1>2, <1>3

\* The numbers of the list that a new sample s is added to, and their states.
LEMMA AddedList ==
    ASSUME NEW q, ChangesInv(q), NEW s \in Snr, \A t \in Listed(q) : t < s, NEW k, k = AddSample(q, s)
    PROVE  /\ s \in Listed(k)
           /\ \A t \in Listed(k) : \/ t \in Listed(q) \/ t = s
                                   \/ t < s /\ Listed(q) # {} /\ \A u \in Listed(q) : u < t
           /\ \A t \in q.rel : k.state[t] = q.state[t]
           /\ k.state[s] = Unsent
<1> DEFINE L == Listed(q)
           tail == Max(L)
           skipped == IF L = {} THEN {} ELSE (tail + 1)..(s - 1)
           x == IF tail \in q.rel THEN Unsent ELSE q.state[tail]
           a == [t \in Snr |-> CASE t = s -> Unsent
                                 [] t \in skipped -> x
                                 [] OTHER -> q.state[t]]
<1>1. k.state = a
  BY DEF AddSample
<1>q. /\ L \in SUBSET Snr /\ Snr \in SUBSET Nat
      /\ \A t \in Snr : t \in L <=> q.state[t] # None
      /\ \A t \in q.rel : t \in L
  BY ListFacts, Numbers
<1>2. L # {} => tail \in L /\ \A t \in L : t <= tail
  BY <1>q, SnrMax
<1> HIDE DEF L, tail
<1>3. \A t \in skipped : t \in Nat /\ L # {} /\ tail < t /\ t < s
  <2>1. CASE L = {}
    BY <2>1
  <2>2. CASE L # {}
    <3>1. tail \in Nat /\ s \in Nat
      BY <2>2, <1>2, <1>q
    <3> QED  BY <3>1, <2>2
  <2> QED  BY <2>1, <2>2
<1>4. \A t \in skipped : \A u \in L : u < t
  <2> SUFFICES ASSUME NEW t \in skipped, NEW u \in L PROVE u < t
    OBVIOUS
  <2>1. t \in Nat /\ tail \in Nat /\ u \in Nat /\ tail < t /\ u <= tail
    BY <1>2, <1>3, <1>q
  <2> QED  BY <2>1
<1>s. s \notin skipped
  <2>1. s \in Nat
    BY <1>q
  <2> QED  BY <1>3, <2>1
<1> HIDE DEF skipped, x
<1>a. /\ a[s] = Unsent
      /\ \A t \in Snr : t # s /\ t \notin skipped => a[t] = q.state[t]
  BY <1>s
<1> HIDE DEF a
<1>5. s \in Listed(k) /\ k.state[s] = Unsent
  BY <1>1, <1>a, StatesDiffer DEF Listed
<1>6. ASSUME NEW t \in q.rel PROVE k.state[t] = q.state[t]
  <2>1. t \in L /\ t \in Snr /\ t \in Nat /\ t < s /\ s \in Nat
    BY <1>q DEF L
  <2>2. t # s /\ t \notin skipped
    BY <1>4, <2>1
  <2> QED  BY <1>1, <1>a, <2>1, <2>2
<1>7. ASSUME NEW t \in Listed(k)
      PROVE  \/ t \in L \/ t = s
             \/ t < s /\ L # {} /\ \A u \in L : u < t
  <2>1. t \in Snr /\ k.state[t] # None
    BY DEF Listed
  <2>2. CASE t \in skipped
    BY <2>2, <1>3, <1>4
  <2>3. CASE t # s /\ t \notin skipped
    BY <2>1, <2>3, <1>1, <1>a, <1>q
  <2> QED  BY <2>2, <2>3
<1> QED  BY <1>5, <1>6, <1>7 DEF L

-----------------------------------------------------------------------------
(* Writing and expiring.                                                   *)

\* The facts about the writer that the steps below start from.
LEMMA WriterFacts ==
    ASSUME PairInv
    PROVE  /\ WriterInv /\ Agree /\ Scalars /\ hc_last \in Nat /\ hc_last <= MaxSnr
           /\ Snr \subseteq Nat
           /\ hc_cache \subseteq Snr /\ hc_wack \subseteq hc_cache
           /\ \A s \in hc_cache : s \in Nat /\ s <= hc_last
           /\ \A s \in owed : s \in Snr /\ s \in Nat /\ s <= hc_last
           /\ ChangesInv(rr_changes) /\ rr_changes.rel = hc_wack
           /\ \A s \in Listed(rr_changes) : s \in Snr /\ s \in Nat /\ s <= hc_last
           /\ rr_cstate # "ready" =>
                 /\ rr_cstate = "none" /\ rr_changes = EmptyList /\ Listed(rr_changes) = {}
                 /\ hc_wack = {} /\ owed = {}
           /\ \A s \in confirmed : Passed(s)
           /\ toWriter \in Seq(AckUnderway)
<1>1. WriterInv /\ Agree /\ Scalars /\ Books
  BY DEF PairInv, WriterInv
<1>2. hc_last \in Nat /\ hc_last <= MaxSnr /\ Snr \subseteq Nat
  BY <1>1, Numbers DEF Agree
<1>3. \A s \in Listed(rr_changes) : s \in Snr /\ s \in Nat /\ s <= hc_last
  BY <1>1, ListFacts DEF Agree
<1>4. rr_cstate # "ready" =>
         /\ rr_cstate = "none" /\ rr_changes = EmptyList /\ Listed(rr_changes) = {}
         /\ hc_wack = {} /\ owed = {}
  BY <1>1, EmptyListInv DEF Scalars, Agree, Books
<1>5. /\ hc_cache \subseteq Snr /\ hc_wack \subseteq hc_cache
      /\ \A s \in hc_cache : s \in Nat /\ s <= hc_last
      /\ \A s \in owed : s \in Snr /\ s \in Nat /\ s <= hc_last
      /\ ChangesInv(rr_changes) /\ rr_changes.rel = hc_wack
  BY <1>1, <1>2 DEF Agree, Books
<1>6. (\A s \in confirmed : Passed(s)) /\ toWriter \in Seq(AckUnderway)
  BY DEF PairInv, ReaderKnows, Channels
<1> QED  BY <1>1, <1>2, <1>3, <1>4, <1>5, <1>6

\* The list after some sample left the cache.
LEMMA RemovedMovesTo ==
    ASSUME PairInv, WriterInv', NEW removed, WriterMoves(removed),
           NEW victim, victim = {} \/ \E c : victim = {c}, victim \cap hc_cache' = {},
           NEW k, k = RemoveFromList(rr_changes, victim)
    PROVE  /\ \A s \in Listed(k) : s \notin k.rel => s \in Unavailable'
           /\ Listed(k) # {} => \A c \in hc_cache : \E t \in Listed(k) : c <= t
           /\ \A s \in k.rel : k.state[s] = Acked => Passed(s)
           /\ ChangesInv(k) /\ Listed(k) \subseteq Listed(rr_changes)
           /\ k.rel = hc_wack \ victim
<1>0. /\ Agree /\ Snr \subseteq Nat /\ rr_changes.rel = hc_wack
      /\ \A s \in hc_cache : s \in Nat
      /\ hc_last \in Nat /\ hc_last' \in Nat /\ hc_last <= hc_last'
      /\ \A s \in Listed(rr_changes) : s \in Snr /\ s \in Nat /\ s <= hc_last
  BY WriterFacts DEF WriterMoves, WriterInv, Agree
<1>1. /\ ChangesInv(k) /\ k.rel = hc_wack \ victim
      /\ Listed(k) \subseteq Listed(rr_changes)
  BY <1>0, RemoveFromListInv
<1>2. /\ Listed(k) # {} => \A t \in Listed(rr_changes) : \E u \in Listed(k) : t <= u
      /\ \A t \in k.rel : k.state[t] = rr_changes.state[t]
  BY <1>0, RemovedList
<1>3. Unavailable \subseteq Unavailable'
  BY StillUnderway
<1>4. ASSUME NEW s \in Listed(k), s \notin k.rel PROVE s \in Unavailable'
  <2>1. CASE s \notin hc_wack
    <3>1. s \in Unavailable
      BY <1>0, <1>1, <1>4, <2>1 DEF PairInv, GapsUnavailable
    <3> QED  BY <1>3, <3>1
  <2>2. CASE s \in hc_wack
    <3>1. s \notin hc_cache' /\ s \in Snr /\ s \in Nat /\ s <= hc_last
      BY <1>0, <1>1, <1>4, <2>2
    <3>2. s <= hc_last'
      BY <1>0, <3>1
    <3> QED  BY <3>1, <3>2 DEF Unavailable
  <2> QED  BY <2>1, <2>2
<1>5. ASSUME Listed(k) # {}, NEW c \in hc_cache PROVE \E t \in Listed(k) : c <= t
  <2>1. PICK u \in Listed(rr_changes) : c <= u
    BY <1>1, <1>5 DEF PairInv, ListCovers
  <2>2. PICK t \in Listed(k) : u <= t
    BY <1>2, <1>5
  <2>3. c \in Nat /\ u \in Nat /\ t \in Nat
    BY <1>0, <1>1
  <2> QED  BY <2>1, <2>2, <2>3
<1>6. \A s \in k.rel : k.state[s] = Acked => Passed(s)
  BY <1>0, <1>1, <1>2 DEF PairInv, AckedPassed
<1> QED  BY <1>1, <1>4, <1>5, <1>6

\* A write with a proxy.
LEMMA WriteMovesTo ==
    ASSUME PairInv, WriterInv', NEW victim \in Victims, hc_add(victim), rr_cstate = "ready",
           WriterMoves(Removed)
    PROVE  ListMovesTo(rr_changes')
<1> DEFINE s == hc_last + 1
           k == RemoveFromList(rr_changes, victim)
<1>0. /\ Snr \subseteq Nat /\ hc_last \in Nat
      /\ \A t \in hc_cache : t \in Nat /\ t <= hc_last /\ t \in Snr
      /\ \A t \in Listed(rr_changes) : t \in Snr /\ t \in Nat /\ t <= hc_last
      /\ s \in Nat
  BY WriterFacts
<1>1. /\ hc_cache' = (hc_cache \ victim) \cup {s} /\ hc_last' = s /\ hc_last < MaxSnr
      /\ rr_changes' = AddSample(k, s)
  BY DEF hc_add
<1>2. s \in Snr
  BY <1>0, <1>1, Numbers
<1>3. (victim = {} \/ \E c : victim = {c}) /\ victim \subseteq hc_cache
  <2>1. victim \subseteq hc_cache
    <3>1. CASE MustAck
      <4>1. CASE victim = {}
        BY <4>1
      <4>2. CASE victim # {}
        <5>1. victim = {Min(hc_cache)} /\ Cardinality(hc_cache) >= Depth
          BY <3>1, <4>2 DEF Victims
        <5>2. hc_cache # {}
          BY <5>1, FS_EmptySet, WriterAssumption
        <5>3. Min(hc_cache) \in hc_cache
          BY <5>2, SnrMin, WriterFacts
        <5> QED  BY <5>1, <5>3
      <4> QED  BY <4>1, <4>2
    <3>2. CASE ~ MustAck
      BY <3>2 DEF Victims
    <3> QED  BY <3>1, <3>2
  <2> QED  BY <2>1, VictimIsOne
<1>4. victim \cap hc_cache' = {}
  <2>1. \A t \in victim : t \in Nat /\ t <= hc_last
    BY <1>0, <1>3
  <2>2. s \notin victim
    BY <1>0, <2>1
  <2> QED  BY <1>1, <2>2
<1>5. k = RemoveFromList(rr_changes, victim)
  OBVIOUS
<1> HIDE DEF k
<1>6. /\ \A t \in Listed(k) : t \notin k.rel => t \in Unavailable'
      /\ Listed(k) # {} => \A c \in hc_cache : \E t \in Listed(k) : c <= t
      /\ \A t \in k.rel : k.state[t] = Acked => Passed(t)
      /\ ChangesInv(k) /\ Listed(k) \subseteq Listed(rr_changes)
  BY <1>3, <1>4, <1>5, RemovedMovesTo
<1>7. \A t \in Listed(k) : t < s
  BY <1>0, <1>6
<1>8. /\ s \in Listed(rr_changes')
      /\ \A t \in Listed(rr_changes') :
            \/ t \in Listed(k) \/ t = s
            \/ t < s /\ Listed(k) # {} /\ \A u \in Listed(k) : u < t
      /\ \A t \in k.rel : rr_changes'.state[t] = k.state[t]
      /\ rr_changes'.state[s] = Unsent
  BY <1>1, <1>2, <1>6, <1>7, AddedList
<1>9. rr_changes'.rel = k.rel \cup {s}
  BY <1>1, <1>2, <1>6, <1>7, AddSampleInv
<1> HIDE DEF s
<1>10. ASSUME NEW t \in Listed(rr_changes'), t \notin rr_changes'.rel PROVE t \in Unavailable'
  <2>1. CASE t \in Listed(k)
    BY <1>6, <1>9, <1>10, <2>1
  <2>2. CASE t < s /\ Listed(k) # {} /\ \A u \in Listed(k) : u < t
    <3>1. t \in Snr /\ t \in Nat
      BY <1>0 DEF Listed
    <3>2. t \notin hc_cache
      <4> SUFFICES ASSUME t \in hc_cache PROVE FALSE
        OBVIOUS
      <4>1. PICK u \in Listed(k) : t <= u
        BY <1>6, <2>2
      <4>2. u \in Nat /\ u < t
        BY <1>0, <1>6, <2>2
      <4> QED  BY <3>1, <4>1, <4>2
    <3>3. t \notin hc_cache' /\ t <= hc_last'
      BY <1>0, <1>1, <2>2, <3>1, <3>2
    <3> QED  BY <3>1, <3>3 DEF Unavailable
  <2> QED  BY <1>8, <1>9, <1>10, <2>1, <2>2
<1>11. \A c \in hc_cache' : c <= s
  BY <1>0, <1>1 DEF s
<1>12. \A t \in rr_changes'.rel : rr_changes'.state[t] = Acked => Passed(t)
  BY <1>6, <1>8, <1>9, StatesDiffer
<1> QED  BY <1>8, <1>10, <1>11, <1>12 DEF ListMovesTo

\* A list that nobody uses.
LEMMA UnusedMovesTo ==
    ASSUME NEW q, Listed(q) = {}, q.rel = {}
    PROVE  ListMovesTo(q)
BY DEF ListMovesTo

\* A step that sends nothing.
LEMMA NothingSent ==
    ASSUME rr_sent' = {}
    PROVE  IsFiniteSet(rr_sent') /\ rr_sent' \subseteq ForReader'
BY FS_EmptySet

\* hc_add.
LEMMA WriteStep ==
    ASSUME PairInv, Write
    PROVE  PairInv' /\ D!Write
<1> DEFINE s == hc_last + 1
<1>0. /\ WriterInv /\ hc_last \in Nat /\ hc_wack \subseteq hc_cache
      /\ \A t \in hc_cache : t \in Nat /\ t <= hc_last
      /\ \A t \in owed : t \in Nat /\ t <= hc_last
      /\ rr_changes.rel = hc_wack
      /\ rr_cstate # "ready" =>
            /\ rr_cstate = "none" /\ rr_changes = EmptyList /\ Listed(rr_changes) = {}
            /\ hc_wack = {} /\ owed = {}
      /\ \A t \in confirmed : Passed(t)
      /\ toWriter \in Seq(AckUnderway)
      /\ s \in Nat /\ hc_last < s
  BY WriterFacts
<1>1. PICK victim \in Victims : hc_add(victim)
  BY DEF Write
<1>2. WriterHistory(Removed) /\ toReader' = toReader /\ toWriter' = toWriter
  BY DEF Write
<1>3. WriterInv'
  BY <1>0, <1>1, AddStep
<1>4. rr_sent' = {} /\ rr_cstate' = rr_cstate /\ rr_new_snr' = rr_new_snr /\ hc_last' = s
  BY <1>1 DEF hc_add, Send
<1>5. /\ rr_cstate = "ready" => /\ hc_cache' = (hc_cache \ victim) \cup {s}
                                /\ hc_wack' = (hc_wack \ victim) \cup {s}
      /\ rr_cstate # "ready" => /\ hc_wack' = hc_wack /\ rr_changes' = rr_changes
                                /\ hc_cache' \subseteq hc_cache \cup {s}
                                /\ ~ Durable => hc_cache' \subseteq hc_cache
  BY <1>1 DEF hc_add
<1>6. hc_wack \ hc_wack' \subseteq Removed
  <2>1. CASE rr_cstate = "ready"
    BY <1>5, <2>1 DEF Removed
  <2>2. CASE rr_cstate # "ready"
    BY <1>5, <2>2
  <2> QED  BY <2>1, <2>2
<1>w. rr_changes'.rel = hc_wack'
  BY <1>3 DEF WriterInv, Agree
<1>7. WriterMoves(Removed)
  <2>1. Removed \subseteq hc_wack /\ Removed \cap hc_cache' = {}
    BY DEF Removed
  <2>2. hc_last <= hc_last' /\ rr_new_snr' <= hc_last' + 1
    <3>1. rr_new_snr \in Nat /\ rr_new_snr <= hc_last + 1
      BY <1>0, Numbers DEF PairInv, Books, WriterInv, Scalars
    <3> QED  BY <1>0, <1>4, <3>1
  <2>3. \A t \in hc_cache' : t \in hc_cache \/ hc_last < t
    BY <1>0, <1>5
  <2>4. rr_cstate' = "ready" => hc_cache' \subseteq owed'
    <3> SUFFICES ASSUME rr_cstate = "ready" PROVE hc_cache' \subseteq owed'
      BY <1>4
    <3>1. hc_cache \subseteq owed
      BY DEF PairInv, Books
    <3>2. s \in hc_wack'
      BY <1>5
    <3> QED  BY <1>2, <1>5, <1>w, <3>1, <3>2 DEF WriterHistory
  <2>5. ~ Durable => hc_cache' \subseteq hc_wack'
    <3> SUFFICES ASSUME ~ Durable PROVE hc_cache' \subseteq hc_wack'
      OBVIOUS
    <3>1. hc_cache \subseteq hc_wack
      BY DEF PairInv, Books
    <3> QED  BY <1>5, <3>1
  <2>6. \A t \in confirmed' : Passed(t)
    BY <1>0, <1>2, <1>6 DEF WriterHistory
  <2> QED  BY <1>2, <1>4, <2>1, <2>2, <2>3, <2>4, <2>5, <2>6 DEF WriterMoves
<1>8. ListMovesTo(rr_changes')
  <2>1. CASE rr_cstate = "ready"
    BY <1>1, <1>3, <1>7, <2>1, WriteMovesTo
  <2>2. CASE rr_cstate # "ready"
    <3>1. Listed(rr_changes') = {} /\ rr_changes'.rel = {}
      BY <1>0, <1>5, <2>2
    <3> QED  BY <3>1, UnusedMovesTo
  <2> QED  BY <2>1, <2>2
<1>9. PairInv'
  <2>1. IsFiniteSet(rr_sent') /\ rr_sent' \subseteq ForReader'
    BY <1>4, NothingSent
  <2>2. toWriter' \in Seq(AckUnderway)
    BY <1>0, <1>2
  <2> QED  BY <1>2, <1>3, <1>7, <1>8, <2>1, <2>2, WriterPart
<1>10. \A t \in hc_wack', o \in owed : t \in owed \/ o < t
  <2>1. \A t \in hc_wack' : t \in owed \/ t = s
    BY <1>5 DEF PairInv, Books
  <2>2. \A o \in owed : o < s
    BY <1>0
  <2> QED  BY <2>1, <2>2
<1>11. D!Write
  <2>1. Books'
    BY <1>9 DEF PairInv
  <2> QED  BY <1>3, <1>6, <1>7, <1>10, <2>1, WriterWrites
<1> QED  BY <1>9, <1>11

\* hc_check_lifespan.
LEMMA ExpireStep ==
    ASSUME PairInv, Expire
    PROVE  PairInv' /\ D!Write
<1> DEFINE s == Min(hc_cache)
<1>0. /\ WriterInv /\ hc_last \in Nat /\ hc_wack \subseteq hc_cache
      /\ \A t \in hc_cache : t \in Nat /\ t <= hc_last
      /\ rr_changes.rel = hc_wack /\ hc_wack \subseteq owed
      /\ \A t \in confirmed : Passed(t)
      /\ toWriter \in Seq(AckUnderway)
  BY WriterFacts DEF PairInv, Books
<1>1. /\ hc_cache' = hc_cache \ {s} /\ hc_wack' = hc_wack \ {s}
      /\ rr_changes' = RemoveFromList(rr_changes, {s})
      /\ hc_last' = hc_last /\ rr_cstate' = rr_cstate /\ rr_new_snr' = rr_new_snr
      /\ rr_sent' = {}
  BY DEF Expire, hc_check_lifespan, Send
<1>2. WriterHistory(Removed) /\ toReader' = toReader /\ toWriter' = toWriter
  BY DEF Expire
<1>3. WriterInv'
  BY <1>0, LifespanStep DEF Expire
<1> HIDE DEF s
<1>6. hc_wack \ hc_wack' \subseteq Removed
  BY <1>1 DEF Removed
<1>w. rr_changes'.rel = hc_wack'
  BY <1>3 DEF WriterInv, Agree
<1>7. WriterMoves(Removed)
  <2>1. Removed \subseteq hc_wack /\ Removed \cap hc_cache' = {}
    BY DEF Removed
  <2>2. hc_last <= hc_last' /\ rr_new_snr' <= hc_last' + 1
    BY <1>0, <1>1 DEF PairInv, Books
  <2>4. rr_cstate' = "ready" => hc_cache' \subseteq owed'
    BY <1>1, <1>2 DEF WriterHistory, PairInv, Books
  <2>5. ~ Durable => hc_cache' \subseteq hc_wack'
    BY <1>1 DEF PairInv, Books
  <2>6. \A t \in confirmed' : Passed(t)
    BY <1>0, <1>2, <1>6 DEF WriterHistory
  <2> QED  BY <1>1, <1>2, <2>1, <2>2, <2>4, <2>5, <2>6 DEF WriterMoves
<1>8. ListMovesTo(rr_changes')
  <2>1. {s} \cap hc_cache' = {} /\ \E c : {s} = {c}
    BY <1>1
  <2>2. /\ \A t \in Listed(rr_changes') : t \notin rr_changes'.rel => t \in Unavailable'
        /\ Listed(rr_changes') # {} => \A c \in hc_cache : \E t \in Listed(rr_changes') : c <= t
        /\ \A t \in rr_changes'.rel : rr_changes'.state[t] = Acked => Passed(t)
    BY <1>1, <1>3, <1>7, <2>1, RemovedMovesTo
  <2> QED  BY <1>1, <2>2 DEF ListMovesTo
<1>9. PairInv'
  <2>1. IsFiniteSet(rr_sent') /\ rr_sent' \subseteq ForReader'
    BY <1>1, NothingSent
  <2>2. toWriter' \in Seq(AckUnderway)
    BY <1>0, <1>2
  <2> QED  BY <1>2, <1>3, <1>7, <1>8, <2>1, <2>2, WriterPart
<1>10. D!Write
  <2>1. Books'
    BY <1>9 DEF PairInv
  <2>2. \A t \in hc_wack', o \in owed : t \in owed \/ o < t
    BY <1>0, <1>1
  <2> QED  BY <1>3, <1>6, <1>7, <2>1, <2>2, WriterWrites
<1> QED  BY <1>9, <1>10

-----------------------------------------------------------------------------
(* Sending.                                                                *)

\* A step that leaves the cache alone.
LEMMA CacheStays ==
    ASSUME PairInv, WriterInv', WriterHistory({}), hc_last' = hc_last, hc_cache' = hc_cache,
           hc_wack \subseteq hc_wack', hc_wack' \subseteq owed,
           rr_cstate' = rr_cstate \/ (rr_cstate' = "ready" /\ hc_cache \subseteq owed),
           rr_new_snr' <= hc_last + 1
    PROVE  WriterMoves({})
<1>0. /\ hc_last \in Nat /\ \A t \in confirmed : Passed(t)
  BY WriterFacts
<1>1. hc_last <= hc_last'
  BY <1>0
<1>2. rr_cstate = "ready" => hc_cache \subseteq owed
  BY DEF PairInv, Books
<1>3. ~ Durable => hc_cache \subseteq hc_wack
  BY DEF PairInv, Books
<1>4. confirmed' = confirmed /\ owed \subseteq owed'
  BY DEF WriterHistory
<1> QED  BY <1>0, <1>1, <1>2, <1>3, <1>4 DEF WriterMoves

\* The states of a list change, its numbers do not.
LEMMA SameListMovesTo ==
    ASSUME PairInv, WriterInv', NEW removed, WriterMoves(removed), hc_cache' \subseteq hc_cache,
           NEW k, Listed(k) = Listed(rr_changes), k.rel = rr_changes.rel,
           \A t \in k.rel : k.state[t] = Acked => rr_changes.state[t] = Acked
    PROVE  ListMovesTo(k)
<1>1. Unavailable \subseteq Unavailable'
  BY StillUnderway
<1> QED  BY <1>1 DEF PairInv, GapsUnavailable, ListCovers, AckedPassed, ListMovesTo

\* The samples that are sent are owed to the reader.
LEMMA DataSent ==
    ASSUME PairInv, NEW data \in SUBSET rr_changes.rel
    PROVE  /\ IsFiniteSet({DataMsg(s) : s \in data})
           /\ {DataMsg(s) : s \in data} \subseteq ForReader
<1> DEFINE f == [s \in data |-> DataMsg(s)]
           T == {DataMsg(s) : s \in data}
<1>1. data \subseteq Snr /\ data \subseteq owed
  BY WriterFacts DEF PairInv, Books
<1>2. IsFiniteSet(data)
  <2>1. IsFiniteSet(Snr)
    BY WriterAssumption, FS_Interval DEF Snr
  <2> QED  BY <1>1, <2>1, FS_Subset
<1>3. f \in Surjection(data, T)
  BY DEF Surjection
<1> HIDE DEF f
<1>4. IsFiniteSet(T)
  BY <1>2, <1>3, FS_Surjection
<1>5. \A s \in data : DataMsg(s) \in DataUnderway
  BY <1>1 DEF DataMsg, DataUnderway
<1> QED  BY <1>4, <1>5 DEF ForReader

\* A node that starts with a gap has no samples, and its numbers are
\* consecutive.
LEMMA GapNode ==
    ASSUME NEW q, ChangesInv(q), NEW g \in Listed(q), g \notin q.rel
    PROVE  /\ g \in Node(q, g) /\ Node(q, g) \subseteq Listed(q) \ q.rel
           /\ \A a, b \in Node(q, g) : \A t \in Nat : a <= t /\ t <= b => t \in Node(q, g)
<1>q. /\ \A t \in Listed(q) : t \in Snr /\ t \in Nat
      /\ \A b, e \in Listed(q), t \in Nat : b <= t /\ t <= e => t \in Listed(q)
      /\ \A t \in q.first : t \in Listed(q)
      /\ \A t \in q.rel : t \in Listed(q) /\ t \in q.first
      /\ \A t \in Listed(q) : t - 1 \in q.rel => t \in q.first
  BY ListFacts
<1>n. \A t \in Listed(q) : /\ NodeStart(q, t) \in q.first /\ NodeStart(q, t) <= t
                           /\ NodeStart(q, t) \in Nat
                           /\ \A f \in q.first : f <= t => f <= NodeStart(q, t)
  BY <1>q, NodeFacts
<1>1. g \in Node(q, g) /\ Node(q, g) \subseteq Listed(q)
  BY DEF Node
<1>2. ASSUME NEW t \in Node(q, g), t \in q.rel PROVE FALSE
  <2>1. t \in Listed(q) /\ NodeStart(q, t) = NodeStart(q, g) /\ t \in Nat /\ g \in Nat /\ t \in q.first
    BY <1>q, <1>2 DEF Node
  <2>2. NodeStart(q, t) = t
    BY <1>n, <2>1
  <2>g. t # g
    BY <1>2
  <2>3. t < g
    <3>1. NodeStart(q, g) <= g
      BY <1>n
    <3> QED  BY <2>1, <2>2, <2>g, <3>1
  <2>4. t + 1 \in Listed(q) /\ (t + 1) - 1 = t
    BY <1>q, <2>1, <2>3
  <2>5. t + 1 \in q.first
    BY <1>q, <1>2, <2>4
  <2>6. t + 1 <= g
    BY <2>1, <2>3
  <2>7. t + 1 <= NodeStart(q, g)
    BY <1>n, <2>5, <2>6
  <2> QED  BY <2>1, <2>2, <2>7
<1>3. ASSUME NEW a \in Node(q, g), NEW b \in Node(q, g), NEW t \in Nat, a <= t, t <= b
      PROVE  t \in Node(q, g)
  <2>1. /\ a \in Listed(q) /\ b \in Listed(q) /\ a \in Nat /\ b \in Nat
        /\ NodeStart(q, a) = NodeStart(q, g) /\ NodeStart(q, b) = NodeStart(q, g)
    BY <1>q DEF Node
  <2>2. t \in Listed(q)
    BY <1>q, <1>3, <2>1
  <2>3. NodeStart(q, a) <= t /\ NodeStart(q, t) <= b
    BY <1>n, <1>3, <2>1, <2>2
  <2>4. NodeStart(q, a) <= NodeStart(q, t) /\ NodeStart(q, t) <= NodeStart(q, b)
    BY <1>n, <2>1, <2>2, <2>3
  <2>5. NodeStart(q, t) = NodeStart(q, g)
    BY <1>n, <2>1, <2>2, <2>4
  <2> QED  BY <2>2, <2>5 DEF Node
<1> QED  BY <1>1, <1>2, <1>3

\* The numbers of a GAP that is sent are unavailable.
LEMMA GapSent ==
    ASSUME PairInv, NEW gaps \in SUBSET (Listed(rr_changes) \ rr_changes.rel)
    PROVE  /\ IsFiniteSet(GapFor(rr_changes, gaps)) /\ GapFor(rr_changes, gaps) \subseteq ForReader
<1> DEFINE q == rr_changes
<1>1. CASE gaps = {}
  BY <1>1, FS_EmptySet DEF GapFor
<1>2. CASE gaps # {}
  <2> DEFINE g == Min(gaps)
             head == Node(q, g)
             m == GapMsg(Min(head), Max(head) + 1, gaps \ head)
  <2>1. GapFor(q, gaps) = {m}
    BY <1>2 DEF GapFor
  <2>2. ChangesInv(q) /\ Listed(q) \subseteq Snr /\ Snr \subseteq Nat
    BY WriterFacts
  <2>3. g \in gaps /\ \A t \in gaps : g <= t
    BY <1>2, <2>2, SnrMin
  <2>4. g \in Listed(q) /\ g \notin q.rel /\ g \in Nat
    BY <2>2, <2>3
  <2> HIDE DEF g, q
  <2>5. /\ g \in head /\ head \subseteq Listed(q) \ q.rel
        /\ \A a, b \in head : \A t \in Nat : a <= t /\ t <= b => t \in head
    BY <2>2, <2>4, GapNode
  <2> HIDE DEF head
  <2>6. /\ Min(head) \in head /\ Max(head) \in head
        /\ \A t \in head : Min(head) <= t /\ t <= Max(head)
    BY <2>2, <2>5, SnrMin, SnrMax
  <2> DEFINE lo == Min(head)
             hi == Max(head)
  <2>7. /\ lo \in Snr /\ hi \in Snr /\ lo \in Nat /\ hi \in Nat /\ lo <= hi
        /\ m = [type |-> "GAP", start |-> lo, base |-> hi + 1, bits |-> gaps \ head]
    BY <2>2, <2>5, <2>6 DEF GapMsg
  <2> HIDE DEF lo, hi, m
  <2>8. \A s \in gaps \ head : hi + 1 <= s
    <3>0. hi \in Nat /\ gaps \subseteq Nat
      BY <2>2, <2>7 DEF q
    <3> SUFFICES ASSUME NEW s \in gaps, s <= hi PROVE s \in head
      BY <3>0
    <3>1. s \in Nat /\ g <= s
      BY <2>2, <2>3 DEF q
    <3>2. g \in head /\ hi \in head
      BY <2>5, <2>6 DEF hi
    <3> QED  BY <2>5, <3>1, <3>2
  <2>9. \A s \in Snr : s \in lo..hi \cup (gaps \ head) => s \in Unavailable
    <3>1. \A s \in lo..hi : s \in head
      BY <2>5, <2>6, <2>7 DEF lo, hi
    <3>2. \A s \in Listed(q) \ q.rel : s \in Unavailable
      BY DEF PairInv, GapsUnavailable, q
    <3> QED  BY <2>5, <3>1, <3>2 DEF q
  <2>10. GapRange(m) = lo..hi
    BY <2>7 DEF GapRange
  <2>11. m \in GapUnderway
    <3>1. hi + 1 \in 1..MaxSnr + 1 /\ lo <= hi + 1
      BY <2>7, Numbers
    <3>2. gaps \ head \in SUBSET Snr
      BY <2>2 DEF q
    <3>3. \A s \in Snr : s \in GapRange(m) \cup m.bits => s \in Unavailable
      BY <2>7, <2>9, <2>10
    <3> QED  BY <2>7, <2>8, <3>1, <3>2, <3>3 DEF GapUnderway
  <2> QED  BY <2>1, <2>11, FS_Singleton DEF ForReader, q
<1> QED  BY <1>1, <1>2

\* A step that only sends, and may change the states of the list.
LEMMA SendingPart ==
    ASSUME PairInv, WriterInv', WriterStep,
           hc_last' = hc_last, hc_cache' = hc_cache, hc_wack' = hc_wack,
           rr_cstate' = rr_cstate \/ (rr_cstate' = "ready" /\ hc_cache \subseteq owed),
           rr_new_snr' <= hc_last + 1,
           Listed(rr_changes') = Listed(rr_changes), rr_changes'.rel = rr_changes.rel,
           \A t \in rr_changes'.rel : rr_changes'.state[t] = Acked => rr_changes.state[t] = Acked,
           IsFiniteSet(rr_sent'), rr_sent' \subseteq ForReader,
           toWriter' \in Seq(AckUnderway)
    PROVE  PairInv' /\ D!Write
<1>0. hc_wack \subseteq owed
  BY DEF PairInv, Books
<1>1. WriterHistory({}) /\ Queued(toReader, rr_sent', toReader')
  BY DEF WriterStep
<1>2. WriterMoves({})
  BY <1>0, <1>1, CacheStays
<1>3. ListMovesTo(rr_changes')
  BY <1>2, SameListMovesTo
<1>4. rr_sent' \subseteq ForReader'
  BY <1>2, StillUnderway
<1>5. PairInv'
  BY <1>1, <1>2, <1>3, <1>4, WriterPart
<1>6. D!Write
  <2>1. Books' /\ (\A s \in hc_wack', t \in owed : s \in owed \/ t < s) /\ hc_wack \ hc_wack' \subseteq {}
    BY <1>0, <1>5 DEF PairInv
  <2> QED  BY <1>2, <2>1, WriterWrites
<1> QED  BY <1>5, <1>6

\* Nodes of the list are sent.
LEMMA Transmitted ==
    ASSUME PairInv, NEW todo \in SUBSET Listed(rr_changes), Transmit(rr_changes, todo)
    PROVE  /\ Listed(rr_changes') = Listed(rr_changes) /\ rr_changes'.rel = rr_changes.rel
           /\ \A t \in rr_changes'.rel : rr_changes'.state[t] = Acked => rr_changes.state[t] = Acked
           /\ IsFiniteSet(rr_sent') /\ rr_sent' \subseteq ForReader
<1> DEFINE q == rr_changes
           data == todo \cap q.rel \cap q.towire
           gaps == {s \in todo \ q.rel : q.state[s] # Underway}
<1>q. /\ q \in ChangesType /\ q.state \in [Snr -> States] /\ q.rel \in SUBSET Snr
      /\ Listed(q) \in SUBSET Snr
  BY WriterFacts, ListFacts
<1>1. /\ rr_sent' = {DataMsg(s) : s \in data} \cup GapFor(q, gaps)
      /\ rr_changes' = [q EXCEPT !.state = [s \in Snr |-> IF s \in todo THEN Underway ELSE @[s]],
                                 !.towire = @ \ data,
                                 !.unsent = IF rr_tstate = "pushing" THEN Null ELSE @]
  BY DEF Transmit, Send
<1>2. data \in SUBSET rr_changes.rel /\ gaps \in SUBSET (Listed(rr_changes) \ rr_changes.rel)
  OBVIOUS
<1>3. /\ rr_changes'.rel = q.rel
      /\ \A s \in Snr : rr_changes'.state[s] = IF s \in todo THEN Underway ELSE q.state[s]
  BY <1>1, <1>q DEF ChangesType
<1> HIDE DEF data, gaps
<1>4. IsFiniteSet(rr_sent') /\ rr_sent' \subseteq ForReader
  <2>1. /\ IsFiniteSet({DataMsg(s) : s \in data})
        /\ {DataMsg(s) : s \in data} \subseteq ForReader
    BY <1>2, DataSent
  <2>2. IsFiniteSet(GapFor(q, gaps)) /\ GapFor(q, gaps) \subseteq ForReader
    BY <1>2, GapSent
  <2> QED  BY <1>1, <2>1, <2>2, FS_Union
<1>5. Listed(rr_changes') = Listed(q)
  BY <1>3, <1>q, StatesDiffer DEF Listed
<1>6. \A t \in q.rel : rr_changes'.state[t] = Acked => q.state[t] = Acked
  BY <1>3, <1>q, StatesDiffer
<1> QED  BY <1>3, <1>4, <1>5, <1>6

\* rtps_send_changes.
LEMMA SendChangesStep ==
    ASSUME PairInv, SendChanges
    PROVE  PairInv' /\ D!Write
<1>0. /\ WriterInv /\ hc_last \in Nat /\ rr_new_snr <= hc_last + 1 /\ toWriter \in Seq(AckUnderway)
  BY WriterFacts DEF PairInv, Books
<1>1. rtps_send_changes /\ WriterStep /\ toWriter' = toWriter
  BY DEF SendChanges
<1>2. WriterInv'
  BY <1>0, <1>1, SendStep
<1>3. /\ hc_last' = hc_last /\ hc_cache' = hc_cache /\ hc_wack' = hc_wack
      /\ rr_cstate' = rr_cstate /\ rr_new_snr' = rr_new_snr
      /\ SendPushed \/ SendRequested \/ SendNothing
  BY <1>1 DEF rtps_send_changes, cacheVars
<1>4. \/ \E todo \in SUBSET Listed(rr_changes) : Transmit(rr_changes, todo)
      \/ rr_sent' = {} /\ rr_changes' = rr_changes
  <2>1. CASE SendPushed
    <3> DEFINE todo == IF rr_changes.unsent = Null THEN {}
                       ELSE {s \in Listed(rr_changes) : s >= rr_changes.unsent}
    <3>1. Transmit(rr_changes, todo) /\ todo \in SUBSET Listed(rr_changes)
      BY <2>1, Zenon DEF SendPushed
    <3> QED  BY <3>1
  <2>2. CASE SendRequested
    <3> DEFINE todo == {s \in Listed(rr_changes) : rr_changes.state[s] = Requested}
    <3>1. todo \in SUBSET Listed(rr_changes)
      OBVIOUS
    <3>2. CASE todo # {}
      <4>1. Transmit(rr_changes, todo)
        BY <2>2, <3>2, Zenon DEF SendRequested
      <4> QED  BY <3>1, <4>1
    <3>3. CASE todo = {}
      BY <2>2, <3>3 DEF SendRequested, Send
    <3> QED  BY <3>2, <3>3
  <2>3. CASE SendNothing
    BY <2>3 DEF SendNothing, Send
  <2> QED  BY <1>3, <2>1, <2>2, <2>3
<1>5. /\ Listed(rr_changes') = Listed(rr_changes) /\ rr_changes'.rel = rr_changes.rel
      /\ \A t \in rr_changes'.rel : rr_changes'.state[t] = Acked => rr_changes.state[t] = Acked
      /\ IsFiniteSet(rr_sent') /\ rr_sent' \subseteq ForReader
  <2>1. CASE \E todo \in SUBSET Listed(rr_changes) : Transmit(rr_changes, todo)
    BY <2>1, Transmitted
  <2>2. CASE rr_sent' = {} /\ rr_changes' = rr_changes
    BY <2>2, FS_EmptySet
  <2> QED  BY <1>4, <2>1, <2>2
<1>6. rr_new_snr' <= hc_last + 1 /\ toWriter' \in Seq(AckUnderway)
  BY <1>0, <1>1, <1>3
<1> QED  BY <1>1, <1>2, <1>3, <1>5, <1>6, SendingPart

\* A HEARTBEAT that is sent declares only unavailable numbers so.
LEMMA HeartbeatSent ==
    ASSUME PairInv, NEW first \in 0..MaxSnr + 1, NEW last \in 0..MaxSnr + 1,
           NEW final \in BOOLEAN, NEW liveliness \in BOOLEAN,
           \/ first = 0
           \/ final /\ liveliness
           \/ /\ first <= last + 1 /\ last <= hc_last
              /\ \A s \in Snr : s < first => s \in Unavailable,
           SendHeartbeat(first, last, final, liveliness)
    PROVE  IsFiniteSet(rr_sent') /\ rr_sent' \subseteq ForReader
<1> DEFINE c == (heartbeats + 1) % CountMod
           m == [type |-> "HB", first |-> first, last |-> last, final |-> final,
                 liveliness |-> liveliness, count |-> c]
<1>1. rr_sent' = {m}
  BY DEF SendHeartbeat, HeartbeatMsg
<1>2. c \in 0..CountMod - 1
  <2>1. heartbeats \in Nat /\ CountMod \in Nat \ {0}
    BY WriterFacts, WriterAssumption DEF Scalars
  <2> QED  BY <2>1
<1> HIDE DEF c
<1>3. m \in HeartbeatUnderway
  BY <1>2 DEF HeartbeatUnderway
<1> QED  BY <1>1, <1>3, FS_Singleton DEF ForReader

\* The oldest sample of the cache: what is below it is unavailable.
LEMMA CacheMinSent ==
    ASSUME PairInv
    PROVE  /\ CacheMin \in Nat /\ 1 <= CacheMin /\ CacheMin <= hc_last + 1
           /\ \A s \in Snr : s < CacheMin => s \in Unavailable
           /\ hc_cache # {} => CacheMin <= hc_last
<1>0. /\ hc_last \in Nat /\ hc_cache \subseteq Snr /\ Snr \subseteq Nat
      /\ \A s \in hc_cache : s \in Nat /\ s <= hc_last
  BY WriterFacts
<1>1. CASE hc_cache = {}
  <2>1. CacheMin = hc_last + 1
    BY <1>1 DEF CacheMin, MinOr
  <2>2. \A s \in Snr : s < hc_last + 1 => s <= hc_last
    BY <1>0
  <2> QED  BY <1>0, <1>1, <2>1, <2>2 DEF Unavailable
<1>2. CASE hc_cache # {}
  <2>1. CacheMin = Min(hc_cache)
    BY <1>2 DEF CacheMin, MinOr
  <2>2. CacheMin \in hc_cache /\ \A s \in hc_cache : CacheMin <= s
    BY <1>0, <1>2, <2>1, SnrMin
  <2>3. CacheMin \in Nat /\ 1 <= CacheMin /\ CacheMin <= hc_last
    BY <1>0, <2>2, Numbers
  <2>4. ASSUME NEW s \in Snr, s < CacheMin PROVE s \in Unavailable
    <3>1. s \in Nat
      BY <1>0
    <3>2. s <= hc_last
      BY <1>0, <2>3, <2>4, <3>1
    <3>3. s \notin hc_cache
      BY <2>2, <2>3, <2>4, <3>1
    <3> QED  BY <3>2, <3>3 DEF Unavailable
  <2> QED  BY <1>0, <2>3, <2>4
<1> QED  BY <1>1, <1>2

\* sfw_heartbeat_to.
LEMMA HeartbeatTimerPair ==
    ASSUME PairInv, HeartbeatTimer
    PROVE  PairInv' /\ D!Write
<1>0. /\ WriterInv /\ hc_last \in Nat /\ hc_last <= MaxSnr
      /\ rr_new_snr <= hc_last + 1 /\ toWriter \in Seq(AckUnderway)
      /\ \A s \in Listed(rr_changes) : s \in Snr /\ s \in Nat /\ s <= hc_last
  BY WriterFacts DEF PairInv, Books
<1>1. sfw_heartbeat_to /\ WriterStep /\ toWriter' = toWriter
  BY DEF HeartbeatTimer
<1>2. WriterInv' /\ rr_changes' = rr_changes
  BY <1>0, <1>1, HeartbeatTimerStep
<1>3. /\ hc_last' = hc_last /\ hc_cache' = hc_cache /\ hc_wack' = hc_wack
      /\ rr_cstate' = rr_cstate /\ rr_new_snr' = rr_new_snr
  BY <1>1 DEF sfw_heartbeat_to, cacheVars
<1>4. IsFiniteSet(rr_sent') /\ rr_sent' \subseteq ForReader
  <2>1. CASE rr_sent' = {}
    BY <2>1, FS_EmptySet
  <2>2. CASE Listed(rr_changes) = {} /\ SendHeartbeat(0, 0, FALSE, FALSE)
    <3>1. 0 \in 0..MaxSnr + 1
      BY Numbers
    <3> QED  BY <2>2, <3>1, HeartbeatSent
  <2> DEFINE lo == Min(Listed(rr_changes))
             hi == Max(Listed(rr_changes))
             first == Min({CacheMin, lo})
             last == Min({hc_last, hi})
  <2>3. CASE Listed(rr_changes) # {} /\ SendHeartbeat(first, last, FALSE, FALSE)
    <3>1. /\ CacheMin \in Nat /\ 1 <= CacheMin
          /\ \A s \in Snr : s < CacheMin => s \in Unavailable
      BY CacheMinSent
    <3>2. /\ lo \in Nat /\ 1 <= lo /\ lo <= hc_last /\ hi \in Nat /\ hi <= hc_last /\ lo <= hi
      <4>1. Listed(rr_changes) \in SUBSET Snr
        BY <1>0
      <4>2. lo \in Listed(rr_changes) /\ hi \in Listed(rr_changes) /\ lo <= hi
        BY <2>3, <4>1, SnrMin, SnrMax
      <4> QED  BY <1>0, <4>2, Numbers
    <3> HIDE DEF lo, hi
    <3>3. first \in {CacheMin, lo} /\ first <= CacheMin /\ first <= lo
      BY <3>1, <3>2, MinProps
    <3>4. last \in {hc_last, hi} /\ last <= hc_last
      BY <1>0, <3>2, MinProps
    <3> HIDE DEF first, last
    <3>5. first \in Nat /\ last \in Nat /\ first <= last /\ last <= hc_last
      BY <1>0, <3>1, <3>2, <3>3, <3>4
    <3>6. first \in 0..MaxSnr + 1 /\ last \in 0..MaxSnr + 1 /\ first <= last + 1
      BY <1>0, <3>5, Numbers
    <3>7. ASSUME NEW s \in Snr, s < first PROVE s \in Unavailable
      <4>1. s \in Nat
        BY Numbers
      <4>2. s < CacheMin
        BY <3>1, <3>3, <3>5, <3>7, <4>1
      <4> QED  BY <3>1, <4>2
    <3> QED  BY <2>3, <3>5, <3>6, <3>7, HeartbeatSent
  <2>4. \/ rr_sent' = {}
        \/ Listed(rr_changes) = {} /\ SendHeartbeat(0, 0, FALSE, FALSE)
        \/ Listed(rr_changes) # {} /\ SendHeartbeat(first, last, FALSE, FALSE)
    BY <1>1, Zenon DEF sfw_heartbeat_to, Send
  <2> QED  BY <2>1, <2>2, <2>3, <2>4
<1>5. rr_new_snr' <= hc_last + 1 /\ toWriter' \in Seq(AckUnderway)
  BY <1>0, <1>1, <1>3
<1> QED  BY <1>1, <1>2, <1>3, <1>4, <1>5, SendingPart

\* What sfw_rel_send_alive puts on the wire.
LEMMA AliveSent ==
    ASSUME PairInv, sfw_rel_send_alive
    PROVE  IsFiniteSet(rr_sent') /\ rr_sent' \subseteq ForReader
<1>0. hc_last \in Nat /\ hc_last <= MaxSnr /\ MaxSnr \in Nat
  BY WriterFacts, Numbers
<1>1. /\ CacheMin \in Nat /\ CacheMin <= hc_last + 1
      /\ \A s \in Snr : s < CacheMin => s \in Unavailable
      /\ hc_cache # {} => CacheMin <= hc_last
  BY CacheMinSent
<1>2. CacheMin \in 0..MaxSnr + 1 /\ hc_last \in 0..MaxSnr + 1 /\ hc_last <= hc_last
  BY <1>0, <1>1
<1>3. CASE rr_sent' = {}
  BY <1>3, FS_EmptySet
<1>4. CASE SendHeartbeat(CacheMin, CacheMin, TRUE, TRUE)
  BY <1>2, <1>4, HeartbeatSent
<1>5. CASE SendHeartbeat(CacheMin, hc_last, FALSE, FALSE)
  BY <1>1, <1>2, <1>5, HeartbeatSent
<1>6. \/ rr_sent' = {}
      \/ SendHeartbeat(CacheMin, CacheMin, TRUE, TRUE)
      \/ SendHeartbeat(CacheMin, hc_last, FALSE, FALSE)
  BY Zenon DEF sfw_rel_send_alive, Send
<1> QED  BY <1>3, <1>4, <1>5, <1>6

\* sfw_rel_alive_to.
LEMMA WriterAlivePair ==
    ASSUME PairInv, WriterAliveTimer
    PROVE  PairInv' /\ D!Write
<1>0. /\ WriterInv /\ rr_new_snr <= hc_last + 1 /\ toWriter \in Seq(AckUnderway)
  BY WriterFacts DEF PairInv, Books
<1>1. sfw_rel_alive_to /\ WriterStep /\ toWriter' = toWriter
  BY DEF WriterAliveTimer
<1>2. WriterInv' /\ rr_changes' = rr_changes
  BY <1>0, <1>1, AliveStep
<1>3. /\ hc_last' = hc_last /\ hc_cache' = hc_cache /\ hc_wack' = hc_wack
      /\ rr_cstate' = rr_cstate /\ rr_new_snr' = rr_new_snr
  BY <1>1 DEF sfw_rel_alive_to, cacheVars
<1>4. IsFiniteSet(rr_sent') /\ rr_sent' \subseteq ForReader
  BY <1>1, AliveSent DEF sfw_rel_alive_to
<1>5. rr_new_snr' <= hc_last + 1 /\ toWriter' \in Seq(AckUnderway)
  BY <1>0, <1>1, <1>3
<1> QED  BY <1>1, <1>2, <1>3, <1>4, <1>5, SendingPart

-----------------------------------------------------------------------------
(* Matching and restarting.                                                *)

\* A durable proxy starts from the cache.
LEMMA ReplayPart ==
    ASSUME PairInv, WriterInv', WriterStep, ReplayCache, hc_last' = hc_last, hc_cache' = hc_cache,
           rr_cstate' = "ready", rr_new_snr' = 1, owed = {} \/ hc_cache \subseteq owed,
           rr_sent' = {}, toWriter' = toWriter \/ toWriter' \in Seq(AckUnderway)
    PROVE  PairInv' /\ D!Write
<1>0. /\ hc_last \in Nat /\ hc_cache \subseteq Snr /\ hc_wack \subseteq hc_cache
      /\ \A s \in hc_cache : s \in Nat /\ s <= hc_last
      /\ \A s \in confirmed : Passed(s)
      /\ toWriter \in Seq(AckUnderway)
  BY WriterFacts
<1>1. rr_changes' = Replay(hc_cache) /\ hc_wack' = hc_cache
  BY DEF ReplayCache
<1>2. WriterHistory({}) /\ Queued(toReader, rr_sent', toReader')
  BY DEF WriterStep
<1>3. /\ ChangesInv(rr_changes') /\ rr_changes'.rel = hc_cache
      /\ \A t \in Listed(rr_changes') : t <= hc_last
  BY <1>0, <1>1, ReplayInv
<1>4. owed' = owed \cup hc_cache /\ confirmed' = confirmed
  BY <1>0, <1>1, <1>2, <1>3 DEF WriterHistory
<1>5. WriterMoves({})
  <2>1. hc_last <= hc_last' /\ 1 <= hc_last' + 1
    BY <1>0
  <2> QED  BY <1>0, <1>1, <1>2, <1>4, <2>1 DEF WriterMoves
<1>6. ListMovesTo(rr_changes')
  <2>1. \A s \in Listed(rr_changes') : s \in Snr
    BY DEF Listed
  <2>2. \A s \in Listed(rr_changes') : s \notin rr_changes'.rel => s \in Unavailable'
    BY <1>3, <2>1 DEF Unavailable
  <2>3. \A c \in hc_cache : c \in Listed(rr_changes') /\ c <= c
    BY <1>0, <1>3, ListFacts
  <2>4. \A s \in Snr : rr_changes'.state[s] \in {Unsent, None}
    <3>1. CASE hc_cache = {}
      BY <1>1, <3>1 DEF Replay, EmptyList
    <3>2. CASE hc_cache # {}
      BY <1>1, <3>2 DEF Replay
    <3> QED  BY <3>1, <3>2
  <2>5. \A s \in rr_changes'.rel : rr_changes'.state[s] # Acked
    BY <1>0, <1>3, <2>4, StatesDiffer
  <2> QED  BY <2>2, <2>3, <2>5 DEF ListMovesTo
<1>7. PairInv'
  <2>1. IsFiniteSet(rr_sent') /\ rr_sent' \subseteq ForReader'
    BY NothingSent
  <2>2. toWriter' \in Seq(AckUnderway)
    BY <1>0
  <2> QED  BY <1>2, <1>5, <1>6, <2>1, <2>2, WriterPart
<1>8. D!Write
  <2>1. Books' /\ hc_wack \ hc_wack' \subseteq {} /\ \A s \in hc_wack', t \in owed : s \in owed \/ t < s
    BY <1>0, <1>1, <1>7 DEF PairInv
  <2> QED  BY <1>5, <2>1, WriterWrites
<1> QED  BY <1>7, <1>8

\* sfw_rel_start.
LEMMA WriterMatchStep ==
    ASSUME PairInv, WriterMatch
    PROVE  PairInv' /\ D!Write
<1>0. /\ WriterInv /\ hc_last \in Nat /\ toWriter \in Seq(AckUnderway)
      /\ rr_cstate # "ready" => hc_wack = {} /\ owed = {}
  BY WriterFacts
<1>1. sfw_rel_start /\ WriterStep /\ toWriter' = toWriter
  BY DEF WriterMatch
<1>2. WriterInv'
  BY <1>0, <1>1, StartStep
<1>3. /\ rr_cstate = "none" /\ rr_cstate' = "ready" /\ rr_sent' = {}
      /\ hc_last' = hc_last /\ hc_cache' = hc_cache
      /\ Durable => ReplayCache /\ rr_new_snr' = 1
      /\ ~ Durable => /\ rr_new_snr' = hc_last + 1 /\ rr_changes' = rr_changes
                      /\ hc_wack' = hc_wack
  BY <1>1, Zenon DEF sfw_rel_start, Send
<1>4. owed = {} /\ hc_wack = {}
  BY <1>0, <1>3
<1>5. CASE Durable
  BY <1>1, <1>2, <1>3, <1>4, <1>5, ReplayPart
<1>6. CASE ~ Durable
  <2>1. hc_cache \subseteq owed
    BY <1>4, <1>6 DEF PairInv, Books
  <2>2. IsFiniteSet(rr_sent') /\ rr_sent' \subseteq ForReader
    BY <1>3, FS_EmptySet
  <2>3. rr_new_snr' <= hc_last + 1 /\ toWriter' \in Seq(AckUnderway)
    BY <1>0, <1>1, <1>3, <1>6
  <2> QED  BY <1>1, <1>2, <1>3, <1>6, <2>1, <2>2, <2>3, SendingPart
<1> QED  BY <1>5, <1>6

\* sfw_restart, of the operator and of an ACKNACK.
LEMMA RestartPart ==
    ASSUME PairInv, WriterInv', WriterStep, rr_cstate = "ready", NEW alive_timer,
           sfw_restart(alive_timer), toWriter' \in Seq(AckUnderway)
    PROVE  PairInv' /\ D!Write
<1>0. hc_last \in Nat /\ ChangesInv(rr_changes)
  BY WriterFacts
<1>1. /\ rr_cstate' = "ready" /\ rr_sent' = {} /\ hc_last' = hc_last /\ hc_cache' = hc_cache
      /\ Durable => ReplayCache /\ rr_new_snr' = 1
      /\ ~ Durable => /\ rr_new_snr' = 0 /\ rr_changes' = RestartList(rr_changes)
                      /\ hc_wack' = hc_wack
  BY Zenon DEF sfw_restart, Send
<1>2. hc_cache \subseteq owed
  BY DEF PairInv, Books
<1>3. CASE Durable
  BY <1>1, <1>2, <1>3, ReplayPart
<1>4. CASE ~ Durable
  <2>1. rr_changes'.rel = rr_changes.rel /\ Listed(rr_changes') = Listed(rr_changes)
    BY <1>0, <1>1, <1>4, RestartListInv
  <2>2. rr_changes \in ChangesType /\ rr_changes.rel \in SUBSET Snr
    BY <1>0, ListFacts
  <2>3. \A s \in Snr : rr_changes'.state[s] \in {Unsent, rr_changes.state[s]}
    BY <1>1, <1>4, <2>2 DEF RestartList, ChangesType
  <2>4. \A s \in rr_changes'.rel : rr_changes'.state[s] = Acked => rr_changes.state[s] = Acked
    BY <2>1, <2>2, <2>3, StatesDiffer
  <2>5. IsFiniteSet(rr_sent') /\ rr_sent' \subseteq ForReader
    BY <1>1, FS_EmptySet
  <2>6. rr_new_snr' <= hc_last + 1
    BY <1>0, <1>1, <1>4
  <2> QED  BY <1>1, <1>2, <1>4, <2>1, <2>4, <2>5, <2>6, SendingPart
<1> QED  BY <1>3, <1>4

\* The operator's restart.
LEMMA WriterRestartStep ==
    ASSUME PairInv, WriterRestart
    PROVE  PairInv' /\ D!Write
<1>0. /\ WriterInv /\ toWriter \in Seq(AckUnderway)
  BY WriterFacts
<1>1. rtps_matched_reader_restart /\ WriterStep /\ toWriter' = toWriter
  BY DEF WriterRestart
<1>2. WriterInv'
  <2>1. WriterNext
    BY <1>1 DEF WriterNext
  <2> QED  BY <1>0, <2>1, WriterNextStep
<1>3. rr_cstate = "ready" /\ sfw_restart(rr_nack_timer)
  BY <1>1 DEF rtps_matched_reader_restart
<1> QED  BY <1>0, <1>1, <1>2, <1>3, RestartPart

-----------------------------------------------------------------------------
(* ACKNACKs at the writer.                                                 *)

\* What the list says of the numbers that it covers.
ListTrue(q) ==
    /\ ChangesInv(q) /\ q.rel = hc_wack /\ \A s \in Listed(q) : s <= hc_last
    /\ GapsUnavailable(q) /\ ListCovers(q) /\ AckedPassed(q)

\* The gap behind the list covers only unavailable numbers: samples of the
\* cache are not behind a list that is in use, and when none is in use all
\* that was owed is confirmed.
LEMMA ImplicitGapTrue ==
    ASSUME PairInv, rr_cstate = "ready", NEW from \in Nat, from < hc_last,
           Listed(rr_changes) # {} => from = Max(Listed(rr_changes)) + 1,
           NEW k, k = AddImplicitGap(rr_changes, from, hc_last)
    PROVE  ListTrue(k)
<1> DEFINE q == rr_changes
<1>0. /\ hc_last \in Nat /\ hc_last <= MaxSnr /\ ChangesInv(q) /\ q.rel = hc_wack /\ Snr \subseteq Nat
      /\ hc_wack \subseteq hc_cache
      /\ \A s \in hc_cache : s \in Nat /\ s <= hc_last
      /\ \A s \in Listed(q) : s \in Snr /\ s \in Nat /\ s <= hc_last
  BY WriterFacts
<1>1. hc_last \in Snr
  BY <1>0, Numbers
<1>q. q \in ChangesType /\ q.rel \in SUBSET Listed(q) /\ Listed(q) \in SUBSET Snr
  BY <1>0, ListFacts
<1>2. /\ ChangesInv(k) /\ k.rel = q.rel
      /\ \A t \in Listed(k) : t \in Listed(q) \/ t <= hc_last
  BY <1>0, <1>1, ImplicitGapInv
<1>3. \A s \in Snr : k.state[s] = IF from <= s /\ s <= hc_last THEN Unsent ELSE q.state[s]
  BY <1>q DEF AddImplicitGap, ChangesType
<1>t. Listed(q) # {} => Max(Listed(q)) \in Listed(q) /\ \A s \in Listed(q) : s <= Max(Listed(q))
  BY <1>q, SnrMax
<1>b. Listed(q) # {} => \A s \in Listed(q) : s < from
  BY <1>0, <1>t
<1> HIDE DEF q
<1>4. ASSUME NEW s \in Snr, from <= s, s <= hc_last PROVE s \in Unavailable
  <2>0. s \in Nat
    BY <1>0
  <2>1. CASE Listed(q) # {}
    <3>1. s \notin hc_cache
      <4> SUFFICES ASSUME s \in hc_cache PROVE FALSE
        OBVIOUS
      <4>1. PICK t \in Listed(q) : s <= t
        BY <2>1 DEF PairInv, ListCovers, q
      <4>2. t \in Nat /\ t < from
        BY <1>0, <1>b, <2>1
      <4> QED  BY <1>4, <2>0, <4>1, <4>2
    <3> QED  BY <1>4, <3>1 DEF Unavailable
  <2>2. CASE Listed(q) = {}
    <3>1. hc_wack = {}
      BY <1>0, <1>q, <2>2
    <3>2. s \in hc_cache => s \in confirmed
      BY <3>1 DEF PairInv, Books
    <3> QED  BY <1>4, <3>2 DEF Unavailable
  <2> QED  BY <2>1, <2>2
<1>5. GapsUnavailable(k)
  <2> SUFFICES ASSUME NEW s \in Listed(k), s \notin k.rel PROVE s \in Unavailable
    BY DEF GapsUnavailable
  <2>1. s \in Snr /\ k.state[s] # None
    BY DEF Listed
  <2>2. CASE from <= s /\ s <= hc_last
    BY <1>4, <2>1, <2>2
  <2>3. CASE ~ (from <= s /\ s <= hc_last)
    <3>1. s \in Listed(q)
      BY <1>3, <2>1, <2>3 DEF Listed
    <3> QED  BY <1>2, <3>1 DEF PairInv, GapsUnavailable, q
  <2> QED  BY <2>2, <2>3
<1>6. ListCovers(k)
  <2>1. hc_last \in Listed(k)
    BY <1>0, <1>1, <1>3, StatesDiffer DEF Listed
  <2> QED  BY <1>0, <2>1 DEF ListCovers
<1>7. AckedPassed(k)
  BY <1>0, <1>2, <1>3, <1>q, StatesDiffer DEF PairInv, AckedPassed, q
<1>8. \A t \in Listed(k) : t <= hc_last
  BY <1>0, <1>2
<1> QED  BY <1>0, <1>2, <1>5, <1>6, <1>7, <1>8 DEF ListTrue

\* A sample whose number an ACKNACK acknowledges was passed by the reader: the
\* cache still has it, so the reader was not told that it is unavailable
\* unless it confirmed it before.
LEMMA AcknowledgedPassed ==
    ASSUME PairInv, NEW m \in AckUnderway, NEW s \in hc_wack,
           s \in Acknowledged(m.base, m.numbits, m.bits)
    PROVE  Passed(s)
<1>1. s \in told \/ Passed(s)
  BY DEF AckUnderway
<1>2. s \in told => s \in confirmed
  BY WriterFacts DEF PairInv, ReaderKnows, Unavailable
<1>3. s \in confirmed => Passed(s)
  BY DEF PairInv, ReaderKnows
<1> QED  BY <1>1, <1>2, <1>3

\* The list after the acknowledgements and requests are marked.
LEMMA AckListTrue ==
    ASSUME PairInv, NEW m \in AckUnderway, m.base > 0, NEW q, ListTrue(q), NEW k, k = AckList(q, m)
    PROVE  ListTrue(k)
<1>0. /\ m \in AckNackMsg /\ m.base \in Nat /\ m.numbits \in Nat
      /\ Snr \subseteq Nat /\ hc_wack \subseteq Snr
  BY WriterFacts, Numbers DEF AckUnderway, AckNackMsg
<1>1. ChangesInv(k) /\ k.rel = q.rel /\ Listed(k) = Listed(q)
  BY <1>0, AckListInv DEF ListTrue
<1>q. q \in ChangesType /\ q.rel \in SUBSET Listed(q)
  BY ListFacts DEF ListTrue
<1>2. \A s \in Snr : k.state[s] = IF s \in Listed(q) THEN AckVerdict(q, m, s) ELSE None
  BY <1>q DEF AckList, ChangesType
<1>3. ASSUME NEW s \in k.rel, k.state[s] = Acked PROVE Passed(s)
  <2>1. s \in hc_wack /\ s \in Snr /\ s \in Nat /\ s \in Listed(q) /\ s \in q.rel
    BY <1>0, <1>1, <1>q DEF ListTrue
  <2>2. AckVerdict(q, m, s) = Acked
    BY <1>2, <1>3, <2>1
  <2>3. CASE q.state[s] = Acked
    BY <2>1, <2>3 DEF ListTrue, AckedPassed
  <2>4. CASE q.state[s] # Acked
    <3>1. s < m.base \/ (s < m.base + m.numbits /\ s - m.base \notin m.bits)
      BY <2>1, <2>2, <2>4, StatesDiffer DEF AckVerdict
    <3>2. s \in Acknowledged(m.base, m.numbits, m.bits)
      BY <2>1, <3>1 DEF Acknowledged
    <3> QED  BY <2>1, <3>2, AcknowledgedPassed
  <2> QED  BY <2>3, <2>4
<1>4. GapsUnavailable(k) /\ ListCovers(k) /\ AckedPassed(k)
  BY <1>1, <1>3 DEF ListTrue, GapsUnavailable, ListCovers, AckedPassed
<1> QED  BY <1>1, <1>4 DEF ListTrue

\* The immediate GAP: below the list of a volatile proxy, or with no list at
\* all, nothing is in the cache.
LEMMA ImmediateGapSent ==
    ASSUME PairInv, NEW m \in AckUnderway, ~ ZeroAck(m), ~ (Durable /\ AckGapBits(m) > 0)
    PROVE  IsFiniteSet(ImmediateGap(m)) /\ ImmediateGap(m) \subseteq ForReader
<1> DEFINE n == AckGapBits(m)
           L == Listed(rr_changes)
           start == IF L # {} THEN Min(L) ELSE rr_new_snr
           asked == IF m.numbits > 0 THEN {i \in m.bits : i < n} ELSE 0..(n - 1)
           bits == {m.base + i : i \in asked}
<1>0. /\ m.base \in Nat /\ m.numbits \in Nat /\ m.bits \in SUBSET Nat /\ m.base # 0
      /\ \A i \in m.bits : i < m.numbits
      /\ m.base + m.numbits <= hc_last + 1
  <2>1. m \in AckNackMsg /\ m.base + m.numbits <= hc_last + 1
    BY DEF AckUnderway
  <2>2. /\ m.base \in 0..MaxSnr + 1 /\ m.numbits \in 0..MaxSnr /\ m.bits \in SUBSET (0..MaxSnr - 1)
        /\ m.base = 0 => m.numbits = 0
        /\ \A i \in m.bits : i < m.numbits
    BY <2>1 DEF AckNackMsg
  <2> QED  BY <2>1, <2>2 DEF ZeroAck
<1>1. /\ hc_last \in Nat /\ hc_last <= MaxSnr /\ MaxSnr \in Nat /\ L \subseteq Snr /\ Snr \subseteq Nat
      /\ \A s \in L : s <= hc_last
      /\ rr_changes.rel = hc_wack /\ rr_changes.rel \subseteq L
      /\ rr_new_snr \in Nat /\ rr_new_snr <= hc_last + 1
  <2>1. ChangesInv(rr_changes) /\ Scalars
    BY WriterFacts
  <2>2. rr_new_snr \in Nat
    BY <2>1, Numbers DEF Scalars
  <2> QED  BY <2>1, <2>2, WriterFacts, ListFacts, Numbers DEF PairInv, Books
<1>2. /\ start \in Nat /\ start <= hc_last + 1
      /\ L # {} => \A s \in L : start <= s
  <2>1. CASE L = {}
    BY <1>1, <2>1
  <2>2. CASE L # {}
    <3>1. Min(L) \in L /\ \A s \in L : Min(L) <= s
      BY <1>1, <2>2, SnrMin
    <3>2. Min(L) \in Nat /\ Min(L) <= hc_last
      BY <1>1, <3>1
    <3> QED  BY <1>1, <2>2, <3>1, <3>2
  <2> QED  BY <2>1, <2>2
<1>3. n = IF L = {} /\ m.numbits > 0 THEN m.numbits
          ELSE IF m.base < start THEN start - m.base ELSE 0
  BY DEF AckGapBits
<1> HIDE DEF L, start
<1>4. n \in Nat
  BY <1>0, <1>2, <1>3
<1>5. CASE n = 0
  BY <1>5, FS_EmptySet DEF ImmediateGap
<1>6. CASE n # 0
  <2> DEFINE g == GapMsg(m.base, m.base, bits)
  <2>1. ImmediateGap(m) = {g}
    BY <1>6 DEF ImmediateGap
  <2>2. hc_cache \subseteq L
    BY <1>1, <1>4, <1>6 DEF PairInv, Books
  <2> HIDE DEF n
  <2>b. m.base \in Snr
    <3>1. m.base <= MaxSnr
      <4>1. CASE L = {} /\ m.numbits > 0
        BY <1>0, <1>1, <4>1
      <4>2. CASE ~ (L = {} /\ m.numbits > 0)
        BY <1>0, <1>1, <1>2, <1>3, <1>6, <4>2
      <4> QED  BY <4>1, <4>2
    <3> QED  BY <1>0, <3>1, Numbers
  <2>3. ASSUME NEW i \in asked
        PROVE  /\ m.base + i \in Snr /\ m.base <= m.base + i /\ m.base + i \in Unavailable
    <3>0. i \in Nat /\ i < n /\ (m.numbits > 0 => i < m.numbits)
      BY <1>0, <1>4
    <3> HIDE DEF asked
    <3>1. m.base + i <= hc_last
      <4>1. CASE m.numbits > 0
        <5>1. i < m.numbits
          BY <3>0, <4>1
        <5> QED  BY <1>0, <1>1, <3>0, <5>1
      <4>2. CASE ~ (m.numbits > 0)
        <5>1. n = start - m.base
          BY <1>3, <1>6, <4>2
        <5> QED  BY <1>0, <1>1, <1>2, <3>0, <5>1
      <4> QED  BY <4>1, <4>2
    <3>2. m.base + i \in Snr /\ m.base <= m.base + i
      BY <1>0, <1>1, <3>0, <3>1, Numbers
    <3>3. m.base + i \notin L
      <4>1. CASE L = {}
        BY <4>1
      <4>2. CASE L # {}
        <5>1. n = start - m.base
          BY <1>3, <1>6, <4>2
        <5>2. m.base + i < start
          BY <1>0, <1>2, <3>0, <5>1
        <5> QED  BY <1>0, <1>1, <1>2, <3>0, <4>2, <5>2
      <4> QED  BY <4>1, <4>2
    <3> QED  BY <2>2, <3>1, <3>2, <3>3 DEF Unavailable
  <2> HIDE DEF asked
  <2>4. bits \in SUBSET Snr /\ \A s \in bits : m.base <= s /\ s \in Unavailable
    BY <2>3
  <2> HIDE DEF bits
  <2>5. g = [type |-> "GAP", start |-> m.base, base |-> m.base, bits |-> bits]
    BY DEF GapMsg
  <2> HIDE DEF g
  <2>6. GapRange(g) = {}
    BY <1>0, <2>5 DEF GapRange
  <2>7. g \in GapUnderway
    <3>1. m.base \in 1..MaxSnr + 1 /\ m.base <= m.base
      BY <1>0, <2>b, Numbers
    <3> QED  BY <2>b, <2>4, <2>5, <2>6, <3>1 DEF GapUnderway
  <2> QED  BY <2>1, <2>7, FS_Singleton DEF ForReader
<1> QED  BY <1>5, <1>6

\* An ACKNACK that the writer processes.
LEMMA AckProcessedPair ==
    ASSUME PairInv, NEW m \in AckUnderway, rr_cstate = "ready", AckProcessed(m),
           WriterInv', WriterStep, rr_cstate' = rr_cstate, toWriter' \in Seq(AckUnderway)
    PROVE  PairInv' /\ D!Confirm
<1> DEFINE q == rr_changes
           end == IF Listed(q) = {} THEN rr_new_snr ELSE Max(Listed(q)) + 1
           known == IF m.base + m.numbits >= end /\ hc_last > end
                    THEN AddImplicitGap(q, end, hc_last) ELSE q
           acked == AckList(known, m)
           gone == AckedPrefix(acked)
           left == DropPrefix(acked, gone)
<1>0. /\ hc_last \in Nat /\ Snr \subseteq Nat /\ hc_wack \subseteq hc_cache
      /\ hc_cache \subseteq Snr
      /\ ChangesInv(q) /\ q.rel = hc_wack /\ Scalars
      /\ \A s \in Listed(q) : s \in Snr /\ s \in Nat /\ s <= hc_last
      /\ \A s \in confirmed : Passed(s)
  BY WriterFacts
<1>1. /\ ~ ZeroAck(m) /\ ~ (Durable /\ AckGapBits(m) > 0)
      /\ rr_changes' = left
      /\ hc_wack' = hc_wack \ (gone \cap acked.rel)
      /\ hc_cache' = IF Durable THEN hc_cache
                     ELSE hc_cache \ (gone \cap acked.rel \cap hc_wack)
      /\ rr_new_snr' = IF gone # {} /\ Listed(left) = {} THEN Max(gone) ELSE rr_new_snr
      /\ rr_sent' = ImmediateGap(m)
      /\ hc_last' = hc_last
  BY DEF AckProcessed, Send
<1>2. WriterHistory({}) /\ Queued(toReader, rr_sent', toReader')
  BY DEF WriterStep
<1>3. m.base > 0
  <2>1. m.base \in Nat /\ (m.base = 0 => m.numbits = 0)
    BY Numbers DEF AckUnderway, AckNackMsg
  <2> QED  BY <1>1, <2>1 DEF ZeroAck
<1>4. ListTrue(known)
  <2>1. CASE known = q
    BY <1>0, <2>1 DEF ListTrue, PairInv
  <2>2. CASE known = AddImplicitGap(q, end, hc_last) /\ hc_last > end
    <3>1. end \in Nat
      <4>1. CASE Listed(q) = {}
        BY <4>1, <1>0, Numbers DEF Scalars
      <4>2. CASE Listed(q) # {}
        <5>1. Max(Listed(q)) \in Nat
          BY <1>0, <4>2, SnrMax
        <5> QED  BY <4>2, <5>1
      <4> QED  BY <4>1, <4>2
    <3>2. Listed(q) # {} => end = Max(Listed(q)) + 1
      OBVIOUS
    <3> HIDE DEF end, known
    <3>3. end < hc_last
      BY <1>0, <2>2, <3>1
    <3> QED  BY <2>2, <3>1, <3>2, <3>3, ImplicitGapTrue
  <2> QED  BY <2>1, <2>2
<1> HIDE DEF known
<1>5. ListTrue(acked)
  BY <1>3, <1>4, AckListTrue
<1> HIDE DEF acked
<1>6. /\ ChangesInv(acked) /\ acked.rel = hc_wack /\ Listed(acked) \in SUBSET Snr
      /\ \A s \in Listed(acked) : s <= hc_last /\ s \in Nat /\ s \in Snr
      /\ \A s \in Listed(acked) : s \notin acked.rel => s \in Unavailable
      /\ Listed(acked) # {} => \A c \in hc_cache : \E t \in Listed(acked) : c <= t
      /\ \A s \in acked.rel : acked.state[s] = Acked => Passed(s)
      /\ acked.rel \in SUBSET Listed(acked)
  BY <1>0, <1>5, ListFacts DEF ListTrue, GapsUnavailable, ListCovers, AckedPassed
<1>g. /\ gone \subseteq Listed(acked)
      /\ \A s \in gone : acked.state[s] = Acked
      /\ \A s \in gone, t \in Listed(acked) : t <= s => t \in gone
  <2>1. \A s \in gone : s \in Listed(acked) /\ \A t \in Listed(acked) : t <= s => acked.state[t] = Acked
    BY DEF AckedPrefix
  <2>2. \A s \in gone : acked.state[s] = Acked
    BY <1>6, <2>1
  <2>3. ASSUME NEW s \in gone, NEW t \in Listed(acked), t <= s PROVE t \in gone
    <3>1. \A u \in Listed(acked) : u <= t => u <= s
      BY <1>6, <2>1, <2>3
    <3> QED  BY <2>1, <3>1 DEF AckedPrefix
  <2> QED  BY <2>1, <2>2, <2>3
<1>7. left.rel = acked.rel \ gone /\ \A s \in Snr : left.state[s] = IF s \in gone THEN None ELSE acked.state[s]
  BY DEF DropPrefix
<1>8. Listed(left) = Listed(acked) \ gone
  BY <1>7 DEF Listed
<1> HIDE DEF gone, left
<1>9. \A s \in gone \cap hc_wack : Passed(s)
  BY <1>6, <1>g
<1>10. /\ hc_wack' = hc_wack \ gone /\ hc_wack' \subseteq owed
       /\ hc_cache' \subseteq hc_cache
       /\ ~ Durable => hc_cache' = hc_cache \ (gone \cap hc_wack)
  BY <1>1, <1>6 DEF PairInv, Books
<1>11. rr_new_snr' <= hc_last' + 1
  <2>1. CASE gone # {} /\ Listed(left) = {}
    <3>1. Max(gone) \in gone
      BY <1>6, <1>g, <2>1, SnrMax
    <3>2. Max(gone) \in Nat /\ Max(gone) <= hc_last
      BY <1>6, <1>g, <3>1
    <3> QED  BY <1>0, <1>1, <2>1, <3>2
  <2>2. CASE ~ (gone # {} /\ Listed(left) = {})
    BY <1>1, <2>2 DEF PairInv, Books
  <2> QED  BY <2>1, <2>2
<1>12. WriterMoves({})
  <2>1. confirmed' = confirmed \cup (gone \cap hc_wack) /\ owed \subseteq owed'
    BY <1>2, <1>10 DEF WriterHistory
  <2>2. \A s \in confirmed' : Passed(s)
    BY <1>0, <1>9, <2>1
  <2>3. hc_cache' \subseteq owed'
    BY <1>10, <2>1 DEF PairInv, Books
  <2>4. ~ Durable => hc_cache' \subseteq hc_wack'
    BY <1>10 DEF PairInv, Books
  <2>5. hc_last <= hc_last'
    BY <1>0, <1>1
  <2> QED  BY <1>2, <1>10, <1>11, <2>2, <2>3, <2>4, <2>5 DEF WriterMoves
<1>13. ListMovesTo(left)
  <2>1. Unavailable \subseteq Unavailable'
    BY <1>12, StillUnderway
  <2>2. \A s \in Listed(left) : s \notin left.rel => s \in Unavailable'
    BY <1>6, <1>7, <1>8, <2>1
  <2>3. ASSUME Listed(left) # {}, NEW c \in hc_cache' PROVE \E t \in Listed(left) : c <= t
    <3>1. PICK t \in Listed(acked) : c <= t
      BY <1>6, <1>8, <1>10, <2>3
    <3>2. CASE t \in Listed(left)
      BY <3>1, <3>2
    <3>3. CASE t \notin Listed(left)
      <4>1. PICK u \in Listed(left) : TRUE
        BY <2>3
      <4>2. t \in gone /\ u \in Listed(acked) /\ u \notin gone
        BY <1>8, <3>3, <4>1
      <4>3. ~ (u <= t) /\ u \in Nat /\ t \in Nat
        BY <1>6, <1>g, <4>2
      <4>4. c \in Nat
        BY <1>0, <1>10
      <4>5. c <= u
        BY <3>1, <4>3, <4>4
      <4> QED  BY <4>5
    <3> QED  BY <3>2, <3>3
  <2>4. \A s \in left.rel : left.state[s] = Acked => Passed(s)
    BY <1>6, <1>7
  <2> QED  BY <2>2, <2>3, <2>4 DEF ListMovesTo
<1>14. IsFiniteSet(rr_sent') /\ rr_sent' \subseteq ForReader'
  <2>1. IsFiniteSet(ImmediateGap(m)) /\ ImmediateGap(m) \subseteq ForReader
    BY <1>1, ImmediateGapSent
  <2>2. ForReader \subseteq ForReader'
    BY <1>12, StillUnderway
  <2> QED  BY <1>1, <2>1, <2>2
<1>15. PairInv'
  BY <1>1, <1>2, <1>12, <1>13, <1>14, WriterPart
<1>16. D!Confirm
  BY <1>10, <1>12, WriterConfirms
<1> QED  BY <1>15, <1>16

\* Neither side does anything: a submessage is lost, duplicated or ignored.
LEMMA IdleStep ==
    ASSUME PairInv, WriterIdle, ReaderIdle, UNCHANGED <<owed, dropped, confirmed>>,
           toReader' \in Seq(ForReader), toWriter' \in Seq(AckUnderway)
    PROVE  PairInv' /\ D!Write
<1>1. WriterInv' /\ IInv'
  BY WriterIdleKeeps, ReaderIdleKeeps DEF PairInv
<1>2. Unavailable' = Unavailable /\ ForReader' = ForReader
  BY WriterIdleSame
<1>3. Held' = Held /\ \A s : Passed(s)' <=> Passed(s)
  BY ReaderIdleSame
<1>4. /\ hc_last' = hc_last /\ hc_cache' = hc_cache /\ hc_wack' = hc_wack
      /\ rr_cstate' = rr_cstate /\ rr_changes' = rr_changes /\ rr_new_snr' = rr_new_snr
      /\ rw_cstate' = rw_cstate /\ rw_seqnr_next' = rw_seqnr_next
      /\ rw_changes' = rw_changes /\ told' = told /\ delivered' = delivered
      /\ owed' = owed /\ dropped' = dropped /\ confirmed' = confirmed
  BY DEF WriterIdle, ReaderIdle
<1>5. Books'
  <2>1. Books
    BY DEF PairInv
  <2> QED  BY <1>4, <2>1 DEF Books
<1>6. GapsUnavailable(rr_changes)' /\ ListCovers(rr_changes)' /\ AckedPassed(rr_changes)'
  BY <1>2, <1>3, <1>4 DEF PairInv, GapsUnavailable, ListCovers, AckedPassed
<1>7. ReaderKnows'
  <2>1. ReaderKnows
    BY DEF PairInv
  <2>2. \A s \in confirmed' : Passed(s)'
    BY <1>3, <1>4, <2>1 DEF ReaderKnows
  <2> QED  BY <1>2, <1>3, <1>4, <2>1, <2>2 DEF ReaderKnows
<1>8. Channels'
  <2>1. AckUnderway' = AckUnderway
    BY <1>3, <1>4 DEF AckUnderway
  <2> QED  BY <1>2, <2>1 DEF Channels
<1>9. D!Write
  <2>1. owed \subseteq Snr /\ dropped \subseteq owed
    BY DEF PairInv, Books
  <2> QED  BY <1>3, <1>4, <2>1 DEF D!Write
<1> QED  BY <1>1, <1>5, <1>6, <1>7, <1>8, <1>9 DEF PairInv

\* An ACKNACK arrives.
LEMMA WriterReceivesStep ==
    ASSUME PairInv, NEW i \in DOMAIN toWriter, WriterReceives(i)
    PROVE  PairInv' /\ (D!Write \/ D!Confirm)
<1> DEFINE m == toWriter[i]
<1>0. /\ WriterInv /\ IInv /\ toWriter \in Seq(AckUnderway) /\ hc_last \in Nat
      /\ rr_new_snr <= hc_last + 1
  BY WriterFacts DEF PairInv, Books
<1>1. RemoveAt(toWriter, i) \in Seq(AckUnderway) /\ m \in AckUnderway
  BY <1>0, RemovedFrom
<1>2. toWriter' \in Seq(AckUnderway)
  BY <1>1 DEF WriterReceives
<1>3. CASE rr_cstate # "ready"
  <2>1. WriterIdle /\ ReaderIdle /\ UNCHANGED <<toReader, owed, dropped, confirmed>>
    BY <1>3 DEF WriterReceives
  <2>2. toReader' \in Seq(ForReader)
    BY <2>1 DEF PairInv, Channels
  <2> QED  BY <1>2, <2>1, <2>2, IdleStep
<1>4. CASE rr_cstate = "ready"
  <2>1. sfw_rel_acknack(m) /\ WriterStep
    BY <1>4 DEF WriterReceives
  <2>2. m \in AckNackMsg
    BY <1>1 DEF AckUnderway
  <2> HIDE DEF m
  <2>3. WriterInv'
    BY <1>0, <2>1, <2>2, AckNackStep
  <2>4. CASE m.count = rr_last_ack /\ Send({}) /\ UNCHANGED <<cacheVars, rr_cstate, rr_changes, rr_new_snr>>
    <3>1. /\ rr_sent' = {} /\ hc_last' = hc_last /\ hc_cache' = hc_cache /\ hc_wack' = hc_wack
          /\ rr_cstate' = rr_cstate /\ rr_changes' = rr_changes /\ rr_new_snr' = rr_new_snr
      BY <2>4 DEF Send, cacheVars
    <3>2. IsFiniteSet(rr_sent') /\ rr_sent' \subseteq ForReader /\ rr_new_snr' <= hc_last + 1
      BY <1>0, <3>1, FS_EmptySet
    <3> QED  BY <1>2, <2>1, <2>3, <3>1, <3>2, SendingPart
  <2>5. CASE AckRestarts(m)
    BY <1>2, <1>4, <2>1, <2>3, <2>5, RestartPart DEF AckRestarts
  <2>6. CASE rr_cstate' = rr_cstate /\ (AckWakesUp(m) \/ AckZero(m))
    <3>1. /\ hc_last' = hc_last /\ hc_cache' = hc_cache /\ hc_wack' = hc_wack
          /\ rr_changes' = rr_changes /\ rr_new_snr' = rr_new_snr
          /\ rr_sent' = {} \/ sfw_rel_send_alive
      BY <2>6, Zenon DEF AckWakesUp, AckZero, Send, cacheVars
    <3>2. IsFiniteSet(rr_sent') /\ rr_sent' \subseteq ForReader
      BY <3>1, FS_EmptySet, AliveSent
    <3>3. rr_new_snr' <= hc_last + 1
      BY <1>0, <3>1
    <3> QED  BY <1>2, <2>1, <2>3, <2>6, <3>1, <3>2, <3>3, SendingPart
  <2>7. CASE rr_cstate' = rr_cstate /\ AckProcessed(m)
    BY <1>1, <1>2, <1>4, <2>1, <2>3, <2>7, AckProcessedPair DEF m
  <2>8. \/ m.count = rr_last_ack /\ Send({}) /\ UNCHANGED <<cacheVars, rr_cstate, rr_changes, rr_new_snr>>
        \/ AckRestarts(m)
        \/ rr_cstate' = rr_cstate /\ (AckWakesUp(m) \/ AckZero(m))
        \/ rr_cstate' = rr_cstate /\ AckProcessed(m)
    BY <2>1, Zenon DEF sfw_rel_acknack
  <2> QED  BY <2>4, <2>5, <2>6, <2>7, <2>8
<1> QED  BY <1>3, <1>4


-----------------------------------------------------------------------------
(* The system.                                                             *)

\* A submessage is lost or delivered twice.
LEMMA FaultStep ==
    ASSUME PairInv, Fault
    PROVE  PairInv' /\ D!Write
<1>0. toReader \in Seq(ForReader) /\ toWriter \in Seq(AckUnderway)
  BY DEF PairInv, Channels
<1>1. WriterIdle /\ ReaderIdle /\ UNCHANGED <<owed, dropped, confirmed>>
  BY DEF Fault
<1>2. CASE /\ toWriter' = toWriter
           /\ \E i \in DOMAIN toReader :
                toReader' \in {RemoveAt(toReader, i), InsertAt(toReader, i, toReader[i])}
  <2>1. toReader' \in Seq(ForReader)
    BY <1>0, <1>2, RemovedFrom, InsertedInto
  <2>2. toWriter' \in Seq(AckUnderway)
    BY <1>0, <1>2
  <2> QED  BY <1>1, <2>1, <2>2, IdleStep
<1>3. CASE /\ toReader' = toReader
           /\ \E i \in DOMAIN toWriter :
                toWriter' \in {RemoveAt(toWriter, i), InsertAt(toWriter, i, toWriter[i])}
  <2>1. toWriter' \in Seq(AckUnderway)
    BY <1>0, <1>3, RemovedFrom, InsertedInto
  <2>2. toReader' \in Seq(ForReader)
    BY <1>0, <1>3
  <2> QED  BY <1>1, <2>1, <2>2, IdleStep
<1> QED  BY <1>2, <1>3 DEF Fault

\* Nothing at all happens.
LEMMA StutterStep ==
    ASSUME PairInv, UNCHANGED vars
    PROVE  PairInv' /\ UNCHANGED D!dvars
<1>0. UNCHANGED <<wvars, rvars, toReader, toWriter, owed, dropped, confirmed>>
  BY DEF vars
<1>1. WriterInv'
  BY <1>0 DEF PairInv, WriterInv, wvars, Scalars, Agree, RepairDue, HeartbeatSparesSamples
<1>2. IInv'
  <2>1. RestType' /\ Fresh' /\ ListInv(rw_changes', rw_seqnr_next', delivered', told')
    BY <1>0, IInvParts DEF PairInv, IInv, rvars, RestType, Fresh
  <2> QED  BY <2>1 DEF IInv, ReaderTypeOK, RestType, ListInv, ListType
<1>3. /\ hc_last' = hc_last /\ hc_cache' = hc_cache /\ hc_wack' = hc_wack
      /\ rr_cstate' = rr_cstate /\ rr_changes' = rr_changes /\ rr_new_snr' = rr_new_snr
      /\ rw_cstate' = rw_cstate /\ rw_seqnr_next' = rw_seqnr_next
      /\ rw_changes' = rw_changes /\ told' = told /\ delivered' = delivered
      /\ owed' = owed /\ dropped' = dropped /\ confirmed' = confirmed
      /\ toReader' = toReader /\ toWriter' = toWriter
  BY <1>0 DEF wvars, rvars
<1>4. Held' = Held /\ Unavailable' = Unavailable
  BY <1>3 DEF Held, Unavailable
<1>5. \A s : Passed(s)' <=> Passed(s)
  BY <1>3, <1>4 DEF Passed
<1>6. ForReader' = ForReader /\ AckUnderway' = AckUnderway
  BY <1>3, <1>4, <1>5 DEF ForReader, DataUnderway, GapUnderway, GapRange, HeartbeatUnderway,
                          AckUnderway
<1>7. Books'
  <2>1. Books
    BY DEF PairInv
  <2> QED  BY <1>3, <2>1 DEF Books
<1>8. GapsUnavailable(rr_changes)' /\ ListCovers(rr_changes)' /\ AckedPassed(rr_changes)'
  BY <1>3, <1>4, <1>5 DEF PairInv, GapsUnavailable, ListCovers, AckedPassed
<1>9. ReaderKnows'
  <2>1. ReaderKnows
    BY DEF PairInv
  <2>2. \A s \in confirmed' : Passed(s)'
    BY <1>3, <1>5, <2>1 DEF ReaderKnows
  <2> QED  BY <1>3, <1>4, <2>1, <2>2 DEF ReaderKnows
<1>10. Channels'
  BY <1>3, <1>6 DEF PairInv, Channels
<1>11. UNCHANGED D!dvars
  BY <1>3, <1>4 DEF D!dvars
<1> QED  BY <1>1, <1>2, <1>7, <1>8, <1>9, <1>10, <1>11 DEF PairInv

\* Every step of the pair keeps the invariant and is a step, or none, of
\* reliable delivery.
LEMMA PairStep ==
    ASSUME CacheAcks, PairInv, [Next]_vars
    PROVE  PairInv' /\ [D!Next]_(D!dvars)
<1>1. CASE Write \/ Expire
  BY <1>1, WriteStep, ExpireStep DEF D!Next
<1>2. CASE SendChanges \/ HeartbeatTimer \/ WriterAliveTimer
  BY <1>2, SendChangesStep, HeartbeatTimerPair, WriterAlivePair DEF D!Next
<1>3. CASE WriterMatch \/ WriterRestart
  BY <1>3, WriterMatchStep, WriterRestartStep DEF D!Next
<1>4. CASE ReaderMatch \/ ReaderAliveTimer \/ AckTimer \/ TakeSample
  BY <1>4, ReaderOwnStep DEF D!Next
<1>5. CASE \E i \in DOMAIN toReader : ReaderReceives(i)
  BY <1>5, ReaderReceivesStep DEF D!Next
<1>6. CASE \E i \in DOMAIN toWriter : WriterReceives(i)
  BY <1>6, WriterReceivesStep DEF D!Next
<1>7. CASE Fault
  BY <1>7, FaultStep DEF D!Next
<1>8. CASE UNCHANGED vars
  BY <1>8, StutterStep
<1> QED  BY <1>1, <1>2, <1>3, <1>4, <1>5, <1>6, <1>7, <1>8 DEF Next

\* The proxies start with the invariant, and with nothing owed.
LEMMA InitPair == Init => PairInv /\ D!Init /\ dropped = {}
<1> SUFFICES ASSUME Init PROVE PairInv /\ D!Init /\ dropped = {}
  OBVIOUS
<1>1. WriterInv /\ IInv
  BY InitInv, InitIInv DEF Init
<1>2. /\ hc_last = 0 /\ hc_cache = {} /\ hc_wack = {} /\ rr_changes = EmptyList
      /\ rr_cstate = "none" /\ rr_new_snr = 0
  BY DEF Init, WriterInit
<1>3. /\ rw_cstate = "none" /\ rw_seqnr_next = 1 /\ rw_changes = Empty
      /\ delivered = {} /\ told = {}
  BY DEF Init, ReaderInit
<1>4. /\ owed = {} /\ dropped = {} /\ confirmed = {}
      /\ toReader = <<>> /\ toWriter = <<>>
  BY DEF Init
<1>5. Listed(rr_changes) = {} /\ rr_changes.rel = {} /\ Covered(rw_changes) = {}
  BY <1>2, <1>3 DEF Listed, EmptyList, Covered, Empty
<1>6. Held = {}
  BY <1>3 DEF Held, Empty, None, Received
<1>7. Books
  BY <1>2, <1>4 DEF Books
<1>8. GapsUnavailable(rr_changes) /\ ListCovers(rr_changes) /\ AckedPassed(rr_changes)
  BY <1>5 DEF GapsUnavailable, ListCovers, AckedPassed
<1>9. Channels
  BY <1>4 DEF Channels
<1>10. ReaderKnows
  BY <1>2, <1>3, <1>4, <1>5, <1>6 DEF ReaderKnows
<1>11. D!Init
  BY <1>3, <1>4, <1>6 DEF D!Init
<1> QED  BY <1>1, <1>4, <1>7, <1>8, <1>9, <1>10, <1>11 DEF PairInv

\* Two proxies whose reader has a KEEP_ALL history keep the invariant.
THEOREM PairInvariant ==
    ASSUME CacheAcks
    PROVE  Spec => []PairInv
<1>1. Init => PairInv
  BY InitPair
<1>2. PairInv /\ [Next]_vars => PairInv'
  BY PairStep
<1> QED  BY <1>1, <1>2, PTL DEF Spec

\* A writer may free a sample once it takes it for acknowledged: whatever the
\* network loses, duplicates and reorders, and however often the proxy of the
\* writer is restarted, the reader has every such sample.
THEOREM AcknowledgedSamplesAreHeld ==
    ASSUME CacheAcks
    PROVE  Spec => []ConfirmedIsReceived
<1>1. PairInv => ConfirmedIsReceived
  BY DEF PairInv, ReaderKnows, Passed, ConfirmedIsReceived
<1> QED  BY <1>1, PairInvariant, PTL

\* sfr_rel_gap and sfr_rel_heartbeat give up a sample only when the writer's
\* history dropped it or the reader has it.
THEOREM GivenUpOnlyIfDropped ==
    ASSUME CacheAcks
    PROVE  Spec => []OnlyDroppedGivenUp
<1>1. ASSUME PairInv PROVE OnlyDroppedGivenUp
  <2>1. Books /\ told \subseteq Unavailable /\ hc_wack \subseteq hc_cache
    BY <1>1, WriterFacts DEF PairInv, ReaderKnows
  <2> SUFFICES ASSUME NEW s \in owed, s \in told PROVE s \in dropped \cup confirmed
    BY DEF OnlyDroppedGivenUp
  <2>2. s \notin hc_cache \/ s \in confirmed
    BY <2>1 DEF Unavailable
  <2> QED  BY <2>1, <2>2 DEF Books
<1> QED  BY <1>1, PairInvariant, PTL

\* The proxies of a writer and of a reader with a KEEP_ALL history implement
\* reliable delivery: samples reach the reader in the order of writing, none
\* is skipped that the writer did not drop, and what the writer takes for
\* acknowledged has arrived.
THEOREM PairIsReliable ==
    ASSUME CacheAcks
    PROVE  Spec => Reliable
<1>1. Init => PairInv /\ D!Init
  BY InitPair
<1>2. PairInv /\ [Next]_vars => PairInv' /\ [D!Next]_(D!dvars)
  BY PairStep
<1> QED  BY <1>1, <1>2, PTL DEF Spec, Reliable, D!Spec

\* With a KEEP_ALL writer nothing is dropped: hc_add and hc_check_lifespan
\* spare the samples that the reader did not acknowledge.
LEMMA NothingDropped ==
    ASSUME MustAck, PairInv, dropped = {}, [Next]_vars
    PROVE  dropped' = {}
<1>1. CASE Write
  <2>1. PICK victim \in Victims : hc_add(victim)
    BY <1>1 DEF Write
  <2>2. victim \cap hc_wack = {}
    BY <2>1 DEF Victims
  <2>3. hc_cache \ victim \subseteq hc_cache' \/ hc_wack = {}
    BY <2>1 DEF hc_add
  <2>4. hc_wack \subseteq hc_cache
    BY WriterFacts
  <2> QED  BY <1>1, <2>2, <2>3, <2>4 DEF Write, WriterHistory, Removed
<1>2. CASE Expire
  <2>1. hc_wack \subseteq hc_cache
    BY WriterFacts
  <2> QED  BY <1>2, <2>1 DEF Expire, hc_check_lifespan, WriterHistory, Removed
<1>3. CASE SendChanges \/ HeartbeatTimer \/ WriterAliveTimer \/ WriterMatch \/ WriterRestart
  BY <1>3 DEF SendChanges, HeartbeatTimer, WriterAliveTimer, WriterMatch, WriterRestart,
              WriterStep, WriterHistory
<1>4. CASE ReaderMatch \/ ReaderAliveTimer \/ AckTimer \/ TakeSample
  BY <1>4 DEF ReaderMatch, ReaderAliveTimer, AckTimer, TakeSample, ReaderStep
<1>5. CASE \E i \in DOMAIN toReader : ReaderReceives(i)
  BY <1>5 DEF ReaderReceives, ReaderStep
<1>6. CASE \E i \in DOMAIN toWriter : WriterReceives(i)
  BY <1>6 DEF WriterReceives, WriterStep, WriterHistory
<1>7. CASE Fault \/ UNCHANGED vars
  BY <1>7 DEF Fault, vars
<1> QED  BY <1>1, <1>2, <1>3, <1>4, <1>5, <1>6, <1>7 DEF Next

\* A sample that waits in the reader's list and that the writer declares
\* irrelevant was dropped by the writer.
LEMMA WaitingIsAvailable ==
    ASSUME PairInv, dropped = {}, NEW h \in Snr, rw_changes[h] = Received, h >= rw_seqnr_next
    PROVE  h \notin Unavailable
<1> SUFFICES ASSUME h \in Unavailable PROVE FALSE
  OBVIOUS
<1>1. h \in owed
  BY DEF Held, PairInv, ReaderKnows
<1>2. h \in confirmed
  <2>1. hc_wack \subseteq hc_cache
    BY WriterFacts
  <2> QED  BY <1>1, <2>1 DEF Unavailable, PairInv, Books
<1>3. h < rw_seqnr_next
  BY <1>2 DEF PairInv, ReaderKnows, Passed
<1>4. h \in Nat /\ rw_seqnr_next \in Nat
  BY Numbers DEF PairInv, IInv, ReaderTypeOK
<1> QED  BY <1>3, <1>4

\* A GAP of such a writer is aligned with the reader's list.
LEMMA UnderwayAligned ==
    ASSUME PairInv, dropped = {}, NEW i \in DOMAIN toReader, toReader[i].type = "GAP"
    PROVE  GapOk(toReader[i])
<1> DEFINE m == toReader[i]
           after == GapSet(rw_changes, rw_seqnr_next, GapRange(m))
<1>1. m \in ForReader
  BY RemovedFrom DEF PairInv, Channels
<1>2. m \in GapUnderway
  BY <1>1 DEF ForReader, DataUnderway, HeartbeatUnderway
<1>3. \A s \in Snr : s \in GapRange(m) \cup m.bits => s \in Unavailable
  BY <1>2 DEF GapUnderway
<1> HIDE DEF m
<1>4. \A s \in Snr : after[s] = Received <=> rw_changes[s] = Received
  BY DEF GapSet, Received, Gap, Missing, None
<1>5. GapAligned(rw_changes, rw_seqnr_next, GapRange(m))
  BY <1>3, WaitingIsAvailable DEF GapAligned, Covered
<1>6. GapAligned(after, rw_seqnr_next, m.bits)
  BY <1>3, <1>4, WaitingIsAvailable DEF GapAligned, Covered
<1> QED  BY <1>5, <1>6 DEF GapOk, m

\* A KEEP_ALL writer never sends a GAP that makes sfr_rel_gap_range count from
\* the wrong number, whatever the network does to it.
THEOREM KeepAllGapsAligned ==
    ASSUME CacheAcks, MustAck
    PROVE  Spec => []GapsAligned
<1>1. Init => PairInv /\ dropped = {}
  BY InitPair
<1>2. PairInv /\ dropped = {} /\ [Next]_vars => PairInv' /\ (dropped = {})'
  BY PairStep, NothingDropped
<1>3. PairInv /\ dropped = {} => GapsAligned
  BY UnderwayAligned DEF GapsAligned
<1> QED  BY <1>1, <1>2, <1>3, PTL DEF Spec
=============================================================================
