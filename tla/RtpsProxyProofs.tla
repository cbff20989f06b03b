-------------------------- MODULE RtpsProxyProofs ---------------------------
(***************************************************************************)
(* Proofs about the two proxies of the reliable protocol, SfReader first,  *)
(* then SfWriter: for any number of samples, history depth and durability, *)
(* and against any environment.                                            *)
(***************************************************************************)
EXTENDS SfReader, SfWriter, FiniteSetTheorems, WellFoundedInduction, TLAPS

-----------------------------------------------------------------------------
(***************************************************************************)
(* The reader's proxy.                                                     *)
(***************************************************************************)

(* The inductive invariant, as a predicate on a list ch, the expected      *)
(* number next, the numbers del handed to the cache and the numbers tld    *)
(* the writer declared unavailable.  The handlers go through several such  *)
(* lists in one step; every lemma below is about one of these changes.     *)

ListType(ch, next, del, tld) ==
    /\ ch \in [Snr -> ChangeState]
    /\ next \in 0..MaxSnr + 1
    /\ del \in SUBSET Snr
    /\ tld \in SUBSET Snr

Gapless(ch) == \A s \in Snr : InSpan(ch, s) => ch[s] # None

Behind(ch, next, del) == \A d \in del : d < next /\ Before(ch, d)

Accounted(ch, next, del, tld) ==
    \A s \in Snr : s < next => s \in del \/ s \in tld \/ ch[s] = Received

GivenUpTold(ch, tld) == \A s \in Snr : ch[s] \in {Gap, Lost} => s \in tld

Anchored(ch, next) ==
    \A t \in Snr : IsTail(ch, t) /\ ch[t] = Missing => \E h \in Covered(ch) : h <= next

\* What is LOST is below a number that a HEARTBEAT gave as the first one.
LostTold(ch, tld) ==
    \A t \in Snr : ch[t] = Lost => \A u \in Snr : u <= t => u \in tld

\* A list that starts below the expected number starts with a sample, which
\* the cache refused when a HEARTBEAT moved the expected number on.
HeadWaits(ch, next) ==
    \A h \in Snr : IsHead(ch, h) /\ h < next => ch[h] = Received

ListInv(ch, next, del, tld) ==
    /\ ListType(ch, next, del, tld)
    /\ Gapless(ch)
    /\ Behind(ch, next, del)
    /\ Accounted(ch, next, del, tld)
    /\ GivenUpTold(ch, tld)
    /\ Anchored(ch, next)
    /\ LostTold(ch, tld)
    /\ HeadWaits(ch, next)

-----------------------------------------------------------------------------
(* Lists.                                                                  *)

\* More numbers declared unavailable do no harm.
LEMMA MoreTold ==
    ASSUME NEW ch, NEW next, NEW del, NEW tld, NEW more \in SUBSET Snr,
           ListInv(ch, next, del, tld)
    PROVE  ListInv(ch, next, del, tld \cup more)
BY DEF ListInv, ListType, Gapless, Behind, Accounted, GivenUpTold, Anchored, LostTold,
       HeadWaits

\* What sfr_process_samples passes is ready, and it only moves when the list
\* starts at the expected number.
LEMMA StopsReady ==
    ASSUME NEW ch, NEW next \in 0..MaxSnr + 1, NEW n, NEW e \in Stops(ch, next, n)
    PROVE  /\ e \in 0..MaxSnr + 1
           /\ next <= e
           /\ \A s \in Snr : next <= s /\ s < e => Ready(ch, s)
           /\ e # next => IsHead(ch, next)
<1>1. CASE ~ IsHead(ch, next)
  BY <1>1, ReaderAssumption DEF Stops, Snr
<1>2. CASE IsHead(ch, next)
  <2>1. e \in next..MaxSnr + 1 /\ \A s \in next..(e - 1) : Ready(ch, s)
    BY <1>2 DEF Stops
  <2> QED  BY <1>2, <2>1, ReaderAssumption DEF Snr
<1> QED  BY <1>1, <1>2

\* Taking ready numbers off the head keeps the invariant.
LEMMA ProcessKeeps ==
    ASSUME NEW ch, NEW next, NEW del, NEW tld, NEW n,
           ListInv(ch, next, del, tld), NEW e \in Stops(ch, next, n)
    PROVE  ListInv(Drop(ch, next, e), e, del \cup Samples(ch, next, e), tld)
<1> DEFINE rest == Drop(ch, next, e)
           got == Samples(ch, next, e)
<1>t. ListType(ch, next, del, tld)
  BY DEF ListInv
<1>1. /\ e \in 0..MaxSnr + 1
      /\ next <= e
      /\ \A s \in Snr : next <= s /\ s < e => Ready(ch, s)
      /\ e # next => IsHead(ch, next)
  BY <1>t, StopsReady DEF ListType
<1>2. /\ rest \in [Snr -> ChangeState]
      /\ \A s \in Snr : rest[s] = IF next <= s /\ s < e THEN None ELSE ch[s]
  BY <1>t DEF ListType, Drop, ChangeState
<1>3. Covered(rest) = {s \in Covered(ch) : ~ (next <= s /\ s < e)}
  BY <1>2 DEF Covered
<1>4. e # next => \A s \in Covered(ch) : next <= s
  BY <1>1 DEF IsHead
<1>5. ListType(rest, e, del \cup got, tld)
  BY <1>t, <1>1, <1>2 DEF ListType, Samples
<1>6. Gapless(rest)
  <2> SUFFICES ASSUME NEW s \in Snr, InSpan(rest, s) PROVE rest[s] # None
    BY DEF Gapless
  <2>1. PICK lo \in Covered(rest), hi \in Covered(rest) : lo <= s /\ s <= hi
    BY DEF InSpan
  <2>2. lo \in Covered(ch) /\ hi \in Covered(ch) /\ ~ (next <= lo /\ lo < e)
    BY <1>3, <2>1
  <2>3. ch[s] # None
    BY <2>1, <2>2 DEF ListInv, Gapless, InSpan
  <2>4. e # next => e <= lo
    BY <1>1, <1>4, <2>2, <1>t DEF Covered, Snr, ListType
  <2> QED  BY <1>1, <1>2, <2>1, <2>2, <2>3, <2>4, <1>t DEF Covered, Snr, ListType
<1>7. Behind(rest, e, del \cup got)
  <2> SUFFICES ASSUME NEW d \in del \cup got
               PROVE  d < e /\ \A t \in Covered(rest) : d < t
    BY DEF Behind, Before
  <2>1. CASE d \in del
    <3>1. d < next /\ \A t \in Covered(ch) : d < t
      BY <2>1 DEF ListInv, Behind, Before
    <3> QED  BY <3>1, <2>1, <1>1, <1>3, <1>t DEF ListType, Snr
  <2>2. CASE d \in got
    <3>1. d \in Snr /\ next <= d /\ d < e
      BY <2>2 DEF Samples
    <3>2. e # next
      BY <3>1, <1>1, <1>t DEF ListType, Snr
    <3>3. \A t \in Covered(rest) : t \in Snr /\ e <= t
      BY <3>2, <1>1, <1>3, <1>4, <1>t DEF ListType, Snr, Covered
    <3> QED  BY <3>1, <3>3, <1>1 DEF Snr
  <2> QED  BY <2>1, <2>2
<1>8. Accounted(rest, e, del \cup got, tld)
  <2> SUFFICES ASSUME NEW s \in Snr, s < e
               PROVE  s \in del \cup got \/ s \in tld \/ rest[s] = Received
    BY DEF Accounted
  <2>1. CASE s < next
    BY <2>1, <1>2, <1>t DEF ListInv, Accounted, ListType, Snr
  <2>2. CASE next <= s
    <3>1. Ready(ch, s)
      BY <2>2, <1>1
    <3>2. ch[s] = Received => s \in got
      BY <2>2 DEF Samples
    <3>3. ch[s] \in {Gap, Lost} => s \in tld
      BY DEF ListInv, GivenUpTold
    <3> QED  BY <3>1, <3>2, <3>3 DEF Ready
  <2> QED  BY <2>1, <2>2, <1>t DEF ListType, Snr
<1>9. GivenUpTold(rest, tld)
  BY <1>2 DEF ListInv, GivenUpTold, None, Gap, Lost
<1>10. Anchored(rest, e)
  <2> SUFFICES ASSUME NEW t \in Snr, IsTail(rest, t), rest[t] = Missing
               PROVE  \E h \in Covered(rest) : h <= e
    BY DEF Anchored
  <2>1. t \in Covered(ch) /\ ~ (next <= t /\ t < e) /\ ch[t] = Missing
    BY <1>2, <1>3 DEF IsTail, Missing, None
  <2>2. CASE e = next
    <3>1. Covered(rest) = Covered(ch) 
      BY <2>2, <1>3, <1>t DEF ListType, Covered, Snr
    <3>2. IsTail(ch, t)
      BY <3>1, <2>1 DEF IsTail
    <3> QED  BY <3>1, <3>2, <2>1, <2>2 DEF ListInv, Anchored
  <2>3. CASE e # next
    <3>1. next \in Covered(ch) /\ next \in Snr /\ e <= t
      BY <2>3, <2>1, <1>1, <1>4, <1>t DEF IsHead, Covered, Snr, ListType
    <3>2. e \in Snr
      BY <3>1, <1>1, ReaderAssumption DEF Snr
    <3>3. ch[e] # None
      BY <3>1, <3>2, <2>1, <1>1 DEF ListInv, Gapless, InSpan
    <3>4. e \in Covered(rest)
      BY <3>2, <3>3, <1>3 DEF Covered, Snr
    <3> QED  BY <3>4, <1>1
  <2> QED  BY <2>2, <2>3
<1>11. LostTold(rest, tld)
  BY <1>2 DEF ListInv, LostTold, None, Lost
<1>12. HeadWaits(rest, e)
  <2> SUFFICES ASSUME NEW h \in Snr, IsHead(rest, h), h < e PROVE rest[h] = Received
    BY DEF HeadWaits
  <2>1. e = next
    BY <1>1, <1>3, <1>4, <1>t DEF IsHead, ListType, Covered, Snr
  <2>2. Covered(rest) = Covered(ch) /\ rest[h] = ch[h]
    BY <2>1, <1>2, <1>3, <1>t DEF ListType, Covered, Snr
  <2>3. IsHead(ch, h)
    BY <2>2 DEF IsHead
  <2> QED  BY <2>1, <2>2, <2>3 DEF ListInv, HeadWaits
<1> QED  BY <1>5, <1>6, <1>7, <1>8, <1>9, <1>10, <1>11, <1>12 DEF ListInv

\* What is handed to the cache is numbered behind what was handed before.
LEMMA ProcessInOrder ==
    ASSUME NEW ch, NEW next, NEW del, NEW tld, NEW e,
           ListInv(ch, next, del, tld),
           NEW d \in Samples(ch, next, e), NEW x \in del
    PROVE  x < d
BY DEF ListInv, ListType, Behind, Samples, Snr

\* A number outside a list without holes is before or after all of it.
LEMMA OutsideSpan ==
    ASSUME NEW ch \in [Snr -> ChangeState], Gapless(ch), NEW s \in Snr, ch[s] = None
    PROVE  Before(ch, s) \/ After(ch, s)
<1> SUFFICES ASSUME ~ Before(ch, s), ~ After(ch, s) PROVE FALSE
  OBVIOUS
<1>1. PICK lo \in Covered(ch) : ~ (s < lo)
  BY DEF Before
<1>2. PICK hi \in Covered(ch) : ~ (hi < s)
  BY DEF After
<1>3. lo <= s /\ s <= hi
  BY <1>1, <1>2 DEF Covered, Snr
<1> QED  BY <1>3 DEF Gapless, InSpan

\* The numbers below the head that sfr_rel_data adds to the list are MISSING:
\* extending the head node never hands its state to other numbers.
LEMMA FillIsMissing ==
    ASSUME NEW ch, NEW next, NEW del, NEW tld, ListInv(ch, next, del, tld),
           NEW s \in Snr, next <= s, NEW t \in Snr, s < t, Before(ch, t)
    PROVE  FillBefore(ch) = Missing
<1> SUFFICES ASSUME NEW h \in Covered(ch), NEW u \in Covered(ch),
                    IsTail(ch, u), ch[u] = Missing
             PROVE  FALSE
  BY DEF FillBefore
<1>1. PICK low \in Covered(ch) : low <= next
  BY DEF ListInv, Anchored, Covered
<1> QED  BY <1>1 DEF Before, ListInv, ListType, Covered, Snr

\* Adding a sample, or a number that is known to be irrelevant.
LEMMA AddKeeps ==
    ASSUME NEW ch, NEW next, NEW del, NEW tld, ListInv(ch, next, del, tld),
           NEW s \in Snr, next <= s, ch[s] \in {None, Missing},
           NEW st \in {Received, Gap}, st = Gap => s \in tld
    PROVE  ListInv(AddChange(ch, s, st), next, del, tld)
<1> DEFINE new == AddChange(ch, s, st)
           Filled(t) == /\ Covered(ch) # {}
                        /\ (s < t /\ Before(ch, t)) \/ (t < s /\ After(ch, t))
<1>t. ListType(ch, next, del, tld)
  BY DEF ListInv
<1>1. \A t \in Snr : new[t] = IF t = s THEN st ELSE IF Filled(t) THEN Missing ELSE ch[t]
  BY FillIsMissing DEF AddChange
<1>2. new \in [Snr -> ChangeState]
  <2>1. \A t \in Snr : new[t] \in ChangeState
    BY <1>1, <1>t DEF ListType, ChangeState
  <2> QED  BY <2>1 DEF AddChange
<1>3. Covered(new) = {t \in Snr : t = s \/ Filled(t) \/ t \in Covered(ch)}
  BY <1>1 DEF Covered, None, Missing, Received, Gap
<1> HIDE DEF new
<1>4. ListType(new, next, del, tld)
  BY <1>t, <1>2 DEF ListType
<1>5. Gapless(new)
  <2> SUFFICES ASSUME NEW u \in Snr, InSpan(new, u), u \notin Covered(new) PROVE FALSE
    BY DEF Gapless, Covered
  <2>1. PICK lo \in Covered(new), hi \in Covered(new) : lo <= u /\ u <= hi
    BY DEF InSpan
  <2>2. u # s /\ ~ Filled(u) /\ ch[u] = None
    BY <1>3 DEF Covered
  <2>3. Before(ch, u) \/ After(ch, u)
    BY <2>2, <1>t, OutsideSpan DEF ListType, ListInv
  <2>4. CASE Covered(ch) = {}
    BY <2>1, <2>2, <2>4, <1>3 DEF Snr
  <2>5. CASE Covered(ch) # {} /\ Before(ch, u)
    <3>1. u < s
      BY <2>2, <2>5 DEF Snr
    <3>2. lo \notin Covered(ch) /\ lo # s
      BY <3>1, <2>1, <2>5 DEF Before, Covered, Snr
    <3>3. Filled(lo) /\ lo \in Snr
      BY <3>2, <1>3
    <3>4. After(ch, lo)
      BY <3>1, <3>3, <2>1 DEF Snr
    <3> QED  BY <3>3, <3>4, <2>1, <2>5 DEF Before, After, Covered, Snr
  <2>6. CASE Covered(ch) # {} /\ After(ch, u)
    <3>1. s < u
      BY <2>2, <2>6 DEF Snr
    <3>2. hi \notin Covered(ch) /\ hi # s
      BY <3>1, <2>1, <2>6 DEF After, Covered, Snr
    <3>3. Filled(hi) /\ hi \in Snr
      BY <3>2, <1>3
    <3>4. Before(ch, hi)
      BY <3>1, <3>3, <2>1 DEF Snr
    <3> QED  BY <3>3, <3>4, <2>1, <2>6 DEF Before, After, Covered, Snr
  <2> QED  BY <2>3, <2>4, <2>5, <2>6
<1>6. Behind(new, next, del)
  <2> SUFFICES ASSUME NEW d \in del
               PROVE  d < next /\ \A t \in Covered(new) : d < t
    BY DEF Behind, Before
  <2>1. d \in Snr /\ d < next /\ \A u \in Covered(ch) : d < u
    BY <1>t DEF ListInv, Behind, Before, ListType
  <2>2. ASSUME NEW t \in Covered(new) PROVE d < t
    <3>1. t \in Snr /\ (t = s \/ Filled(t) \/ t \in Covered(ch))
      BY <1>3
    <3>2. CASE t = s \/ s < t
      BY <2>1, <3>1, <3>2, <1>t DEF ListType, Snr
    <3>3. CASE t \in Covered(ch)
      BY <2>1, <3>3
    <3>4. CASE Covered(ch) # {} /\ After(ch, t)
      BY <2>1, <3>1, <3>4 DEF After, Covered, Snr
    <3> QED  BY <3>1, <3>2, <3>3, <3>4
  <2> QED  BY <2>1, <2>2
<1>7. Accounted(new, next, del, tld)
  <2>1. \A t \in Snr : ch[t] = Received => new[t] = Received
    <3> SUFFICES ASSUME NEW t \in Snr, ch[t] = Received PROVE new[t] = Received
      OBVIOUS
    <3>1. t \in Covered(ch) /\ t # s
      BY DEF Covered, Received, None, Missing
    <3>2. ~ Filled(t)
      BY <3>1 DEF Before, After, Snr
    <3> QED  BY <1>1, <3>1, <3>2
  <2> QED  BY <2>1 DEF ListInv, Accounted
<1>8. GivenUpTold(new, tld) /\ LostTold(new, tld)
  BY <1>1 DEF ListInv, GivenUpTold, LostTold, Received, Missing, Gap, Lost
<1>10. HeadWaits(new, next)
  <2> SUFFICES ASSUME NEW h \in Snr, IsHead(new, h), h < next PROVE new[h] = Received
    BY DEF HeadWaits
  <2>1. h < s
    BY <1>t DEF ListType, Snr
  <2>2. PICK t \in Covered(ch) : t <= h
    <3>1. h \in Covered(new)
      BY DEF IsHead
    <3>2. CASE h \in Covered(ch)
      BY <3>2 DEF Covered, Snr
    <3>3. CASE Covered(ch) # {} /\ After(ch, h)
      BY <3>3 DEF After, Covered, Snr
    <3> QED  BY <2>1, <3>1, <3>2, <3>3, <1>3 DEF Snr
  <2>3. t \in Covered(new) /\ Covered(ch) \subseteq Covered(new)
    BY <2>2, <1>3 DEF Covered
  <2>4. t = h
    BY <2>2, <2>3 DEF IsHead, Covered, Snr
  <2>5. IsHead(ch, h)
    BY <2>2, <2>3, <2>4 DEF IsHead
  <2>6. ch[h] = Received
    BY <2>5 DEF ListInv, HeadWaits
  <2>7. ~ Filled(h)
    BY <2>2, <2>4 DEF Before, After, Covered, Snr
  <2> QED  BY <1>1, <2>1, <2>6, <2>7 DEF Snr
<1>9. Anchored(new, next)
  <2> SUFFICES ASSUME NEW t \in Snr, IsTail(new, t), new[t] = Missing
               PROVE  \E h \in Covered(new) : h <= next
    BY DEF Anchored
  <2>1. t # s /\ s <= t
    BY <1>1, <1>3 DEF IsTail, Missing, Received, Gap
  <2>2. ~ Filled(t)
    <3> SUFFICES ASSUME Filled(t) PROVE FALSE
      OBVIOUS
    <3>1. PICK u \in Covered(ch) : t < u
      BY <2>1 DEF Before, Snr
    <3> QED  BY <3>1, <1>3 DEF IsTail, Covered, Snr
  <2>3. ch[t] = Missing /\ t \in Covered(ch)
    BY <2>1, <2>2, <1>1 DEF Covered, Missing, None
  <2>4. IsTail(ch, t)
    BY <2>3, <1>3 DEF IsTail, Covered
  <2> QED  BY <2>3, <2>4, <1>3 DEF ListInv, Anchored, Covered
<1> QED  BY <1>4, <1>5, <1>6, <1>7, <1>8, <1>9, <1>10 DEF ListInv, new

\* Recording irrelevant numbers that the writer declared so.
LEMMA GapKeeps ==
    ASSUME NEW ch, NEW next, NEW del, NEW tld, ListInv(ch, next, del, tld),
           NEW irrelevant \in SUBSET tld
    PROVE  ListInv(GapSet(ch, next, irrelevant), next, del, tld)
<1> DEFINE new == GapSet(ch, next, irrelevant)
           irr == {s \in irrelevant : s >= next}
           kept == GapKept(ch, irr)
           all == Covered(ch) \cup kept
           Inside(t) == \E lo, hi \in all : lo < t /\ t < hi
<1>t. ListType(ch, next, del, tld)
  BY DEF ListInv
<1>1. kept \subseteq irr /\ kept \subseteq Snr /\ all \subseteq Snr
  BY <1>t DEF GapKept, ListType, Covered
<1>2. \A t \in Snr : new[t] = IF t \in kept /\ ch[t] # Received THEN Gap
                              ELSE IF ch[t] = None /\ Inside(t) THEN Missing ELSE ch[t]
  BY DEF GapSet
<1>3. new \in [Snr -> ChangeState]
  <2>1. \A t \in Snr : new[t] \in ChangeState
    BY <1>2, <1>t DEF ListType, ChangeState
  <2> QED  BY <2>1 DEF GapSet
<1> HIDE DEF new, kept
<1>4. Covered(new) = {t \in Snr : t \in all \/ Inside(t)}
  <2>1. ASSUME NEW t \in Snr PROVE new[t] # None <=> t \in all \/ Inside(t)
    BY <1>2 DEF Covered, None, Missing, Received, Gap
  <2> QED  BY <2>1 DEF Covered
<1>5. ListType(new, next, del, tld)
  BY <1>t, <1>3 DEF ListType
<1>6. Gapless(new)
  <2> SUFFICES ASSUME NEW u \in Snr, NEW lo \in Covered(new), NEW hi \in Covered(new),
                      lo <= u, u <= hi
               PROVE  u \in Covered(new)
    BY DEF Gapless, InSpan, Covered
  <2>1. PICK low \in all : low <= lo
    BY <1>1, <1>4 DEF Snr
  <2>2. PICK high \in all : hi <= high
    BY <1>1, <1>4 DEF Snr
  <2>3. low \in Snr /\ high \in Snr /\ lo \in Snr /\ hi \in Snr
    BY <1>1, <1>4
  <2>4. low <= u /\ u <= high
    BY <2>1, <2>2, <2>3 DEF Snr
  <2> QED  BY <2>3, <2>4, <1>4 DEF Snr
<1>7. Behind(new, next, del)
  <2> SUFFICES ASSUME NEW d \in del
               PROVE  d < next /\ \A t \in Covered(new) : d < t
    BY DEF Behind, Before
  <2>1. d \in Snr /\ d < next /\ \A u \in Covered(ch) : d < u
    BY <1>t DEF ListInv, Behind, Before, ListType
  <2>2. \A u \in all : d < u
    BY <2>1, <1>1, <1>t DEF ListType, Snr
  <2> QED  BY <2>1, <2>2, <1>1, <1>4 DEF Snr
<1>8. Accounted(new, next, del, tld)
  BY <1>2 DEF ListInv, Accounted, Received, None
<1>9. GivenUpTold(new, tld) /\ LostTold(new, tld)
  BY <1>1, <1>2 DEF ListInv, GivenUpTold, LostTold, Missing, Gap, Lost
<1>11. HeadWaits(new, next)
  <2> SUFFICES ASSUME NEW h \in Snr, IsHead(new, h), h < next PROVE new[h] = Received
    BY DEF HeadWaits
  <2>1. h \in Covered(new) /\ \A t \in all : h <= t
    BY <1>1, <1>4 DEF IsHead
  <2>2. h \in all
    BY <2>1, <1>1, <1>4 DEF Snr
  <2>3. h \notin kept
    BY <1>1, <1>t DEF ListType, Snr
  <2>4. IsHead(ch, h)
    BY <2>1, <2>2, <2>3 DEF IsHead
  <2>5. ch[h] = Received
    BY <2>4 DEF ListInv, HeadWaits
  <2> QED  BY <1>2, <2>5 DEF Received, None
<1>10. Anchored(new, next)
  <2> SUFFICES ASSUME NEW t \in Snr, IsTail(new, t), new[t] = Missing
               PROVE  \E h \in Covered(new) : h <= next
    BY DEF Anchored
  <2>1. ~ Inside(t)
    <3> SUFFICES ASSUME NEW hi \in all, t < hi PROVE FALSE
      OBVIOUS
    <3> QED  BY <1>1, <1>4 DEF IsTail, Snr
  <2>2. ch[t] = Missing /\ t \in Covered(ch)
    BY <2>1, <1>2 DEF Covered, Missing, Gap, None
  <2>3. IsTail(ch, t)
    BY <2>2, <1>4 DEF IsTail, Covered
  <2> QED  BY <2>2, <2>3, <1>4 DEF ListInv, Anchored, Covered
<1> QED  BY <1>5, <1>6, <1>7, <1>8, <1>9, <1>10, <1>11 DEF ListInv, new

\* Giving up MISSING numbers that are no longer available.
LEMMA MarkLostKeeps ==
    ASSUME NEW ch, NEW next, NEW del, NEW tld, ListInv(ch, next, del, tld),
           NEW first \in Nat, \A s \in Snr : s < first => s \in tld
    PROVE  ListInv(MarkLost(ch, first), next, del, tld)
<1> DEFINE new == MarkLost(ch, first)
<1>t. ListType(ch, next, del, tld)
  BY DEF ListInv
<1>1. /\ new \in [Snr -> ChangeState]
      /\ \A s \in Snr : new[s] = IF ch[s] = Missing /\ s < first THEN Lost ELSE ch[s]
  BY <1>t DEF MarkLost, ListType, ChangeState
<1>2. Covered(new) = Covered(ch)
  BY <1>1 DEF Covered, Lost, Missing, None
<1> HIDE DEF new
<1>3. ListType(new, next, del, tld)
  BY <1>t, <1>1 DEF ListType
<1>4. Gapless(new)
  BY <1>2 DEF ListInv, Gapless, InSpan, Covered
<1>5. Behind(new, next, del) /\ Accounted(new, next, del, tld)
  BY <1>1, <1>2 DEF ListInv, Behind, Before, Accounted, Missing, Received
<1>6. GivenUpTold(new, tld)
  BY <1>1 DEF ListInv, GivenUpTold
<1>7. Anchored(new, next)
  BY <1>1, <1>2 DEF ListInv, Anchored, IsTail, Lost, Missing
<1>8. LostTold(new, tld)
  <2> SUFFICES ASSUME NEW t \in Snr, new[t] = Lost, NEW u \in Snr, u <= t PROVE u \in tld
    BY DEF LostTold
  <2>1. CASE t < first
    <3>1. u < first
      BY <2>1 DEF Snr
    <3> QED  BY <3>1
  <2>2. CASE ch[t] = Lost
    BY <2>2 DEF ListInv, LostTold
  <2> QED  BY <2>1, <2>2, <1>1
<1>9. HeadWaits(new, next)
  BY <1>1, <1>2 DEF ListInv, HeadWaits, IsHead, Received, Missing
<1> QED  BY <1>3, <1>4, <1>5, <1>6, <1>7, <1>8, <1>9 DEF ListInv, new

\* "adjust seqnr_next (1)": moving the expected number to the head.
LEMMA JumpKeeps ==
    ASSUME NEW ch, NEW next, NEW del, NEW tld, ListInv(ch, next, del, tld),
           NEW h, IsHead(ch, h), \A s \in Snr : s < h => s \in tld
    PROVE  ListInv(ch, h, del, tld)
<1>1. h \in Snr /\ h \in Covered(ch)
  BY DEF IsHead, Covered
<1>2. ListType(ch, h, del, tld)
  BY <1>1, ReaderAssumption DEF ListInv, ListType, Snr
<1>3. Behind(ch, h, del)
  BY <1>1 DEF ListInv, Behind, Before
<1>4. Accounted(ch, h, del, tld) /\ Anchored(ch, h)
  BY <1>1 DEF Accounted, Anchored, Snr
<1>5. HeadWaits(ch, h)
  BY <1>1 DEF HeadWaits, IsHead, Snr
<1> QED  BY <1>2, <1>3, <1>4, <1>5 DEF ListInv

\* Moving the expected number over numbers that are not available.
LEMMA AdvanceKeeps ==
    ASSUME NEW ch, NEW next, NEW del, NEW tld, ListInv(ch, next, del, tld),
           NEW to \in 0..MaxSnr + 1, next <= to, \A s \in Snr : s < to => s \in tld,
           HeadWaits(ch, to)
    PROVE  ListInv(ch, to, del, tld)
<1>t. ListType(ch, next, del, tld)
  BY DEF ListInv
<1>1. ListType(ch, to, del, tld)
  BY <1>t DEF ListType
<1>2. Behind(ch, to, del)
  BY <1>t DEF ListInv, Behind, ListType, Snr
<1>3. Accounted(ch, to, del, tld)
  BY DEF Accounted
<1>4. Anchored(ch, to)
  <2> SUFFICES ASSUME NEW h \in Covered(ch), h <= next PROVE h <= to
    BY DEF ListInv, Anchored
  <2> QED  BY <1>t DEF ListType, Covered, Snr
<1> QED  BY <1>1, <1>2, <1>3, <1>4 DEF ListInv

\* When a walk from the head stops below first, where nothing is MISSING, it
\* stops at a sample that the cache refused or at the end of the list.
LEMMA StopsAtSample ==
    ASSUME NEW ch \in [Snr -> ChangeState], Gapless(ch), NEW first \in 1..MaxSnr + 1,
           \A s \in Snr : s < first => ch[s] # Missing,
           NEW from \in Snr, IsHead(ch, from),
           NEW n, NEW e \in Stops(ch, from, n), e < first
    PROVE  HeadWaits(Drop(ch, from, e), first)
<1> DEFINE rest == Drop(ch, from, e)
<1>1. e \in 0..MaxSnr + 1 /\ from <= e
  BY StopsReady, ReaderAssumption DEF Snr
<1>2. e \in Snr /\ (~ Ready(ch, e) \/ ch[e] = Received)
  BY <1>1, ReaderAssumption DEF Stops, Snr
<1>3. \A s \in Snr : rest[s] = IF from <= s /\ s < e THEN None ELSE ch[s]
  BY DEF Drop
<1>4. \A t \in Covered(rest) : t \in Covered(ch) /\ e <= t
  BY <1>1, <1>3 DEF Covered, IsHead, Snr
<1>5. CASE ch[e] = Received
  <2>1. e \in Covered(rest) /\ rest[e] = Received
    BY <1>2, <1>3, <1>5 DEF Covered, Snr, Received, None
  <2> QED  BY <1>4, <2>1 DEF HeadWaits, IsHead, Covered, Snr
<1>6. CASE ch[e] = None
  <2>1. from \in Covered(ch)
    BY DEF IsHead
  <2>2. Covered(rest) = {}
    BY <1>1, <1>2, <1>4, <1>6, <2>1 DEF Gapless, InSpan
  <2> QED  BY <2>2 DEF HeadWaits, IsHead
<1> QED  BY <1>2, <1>5, <1>6 DEF Ready, ChangeState

\* Adding the announced numbers that are not in the list as MISSING.
LEMMA ExtendKeeps ==
    ASSUME NEW ch, NEW next, NEW del, NEW tld, ListInv(ch, next, del, tld),
           1 <= next, NEW last \in 0..MaxSnr
    PROVE  ListInv(ExtendMissing(ch, next, last), next, del, tld)
<1> DEFINE new == ExtendMissing(ch, next, last)
           Added(s) == \/ Covered(ch) = {} /\ next <= s /\ s <= last
                       \/ Covered(ch) # {} /\ Before(ch, s) /\ next <= s
                       \/ Covered(ch) # {} /\ After(ch, s) /\ s <= last
<1>t. ListType(ch, next, del, tld)
  BY DEF ListInv
<1>1. \A s \in Snr : new[s] = IF Added(s) THEN Missing ELSE ch[s]
  BY DEF ExtendMissing
<1>2. new \in [Snr -> ChangeState]
  <2>1. \A s \in Snr : new[s] \in ChangeState
    BY <1>1, <1>t DEF ListType, ChangeState
  <2> QED  BY <2>1 DEF ExtendMissing
<1> HIDE DEF new
<1>3. Covered(new) = {s \in Snr : Added(s) \/ s \in Covered(ch)}
  BY <1>1 DEF Covered, None, Missing
<1>4. ListType(new, next, del, tld)
  BY <1>t, <1>2 DEF ListType
<1>5. Gapless(new)
  <2> SUFFICES ASSUME NEW u \in Snr, NEW lo \in Covered(new), NEW hi \in Covered(new),
                      lo <= u, u <= hi, u \notin Covered(new)
               PROVE  FALSE
    BY DEF Gapless, InSpan, Covered
  <2>1. ~ Added(u) /\ ch[u] = None /\ lo \in Snr /\ hi \in Snr
    BY <1>3 DEF Covered
  <2>2. CASE Covered(ch) = {}
    BY <2>1, <2>2, <1>3, <1>t DEF ListType, Snr
  <2>3. CASE Covered(ch) # {} /\ Before(ch, u)
    <3>1. lo \notin Covered(ch) /\ u < next
      BY <2>1, <2>3, <1>t DEF Before, Covered, ListType, Snr
    <3>2. After(ch, lo)
      BY <3>1, <2>1, <2>3, <1>3, <1>t DEF ListType, Snr
    <3> QED  BY <3>2, <2>1, <2>3 DEF Before, After, Covered, Snr
  <2>4. CASE Covered(ch) # {} /\ After(ch, u)
    <3>1. hi \notin Covered(ch) /\ last < u
      BY <2>1, <2>4 DEF After, Covered, Snr
    <3>2. Before(ch, hi)
      BY <3>1, <2>1, <2>4, <1>3 DEF Snr
    <3> QED  BY <3>2, <2>1, <2>4 DEF Before, After, Covered, Snr
  <2> QED  BY <2>1, <2>2, <2>3, <2>4, <1>t, OutsideSpan DEF ListInv, ListType
<1>6. Behind(new, next, del)
  <2> SUFFICES ASSUME NEW d \in del
               PROVE  d < next /\ \A t \in Covered(new) : d < t
    BY DEF Behind, Before
  <2>1. d \in Snr /\ d < next /\ \A u \in Covered(ch) : d < u
    BY <1>t DEF ListInv, Behind, Before, ListType
  <2>2. ASSUME NEW t \in Covered(new) PROVE d < t
    <3>1. t \in Snr /\ (Added(t) \/ t \in Covered(ch))
      BY <1>3
    <3>2. CASE next <= t
      BY <2>1, <3>1, <3>2, <1>t DEF ListType, Snr
    <3>3. CASE t \in Covered(ch)
      BY <2>1, <3>3
    <3>4. CASE Covered(ch) # {} /\ After(ch, t)
      BY <2>1, <3>1, <3>4 DEF After, Covered, Snr
    <3> QED  BY <3>1, <3>2, <3>3, <3>4
  <2> QED  BY <2>1, <2>2
<1>7. Accounted(new, next, del, tld)
  <2>1. \A t \in Snr : ch[t] = Received => new[t] = Received
    <3> SUFFICES ASSUME NEW t \in Snr, ch[t] = Received PROVE new[t] = Received
      OBVIOUS
    <3>1. t \in Covered(ch)
      BY DEF Covered, Received, None
    <3>2. ~ Added(t)
      BY <3>1 DEF Before, After, Snr
    <3> QED  BY <1>1, <3>2
  <2> QED  BY <2>1 DEF ListInv, Accounted
<1>8. GivenUpTold(new, tld) /\ LostTold(new, tld)
  BY <1>1 DEF ListInv, GivenUpTold, LostTold, Missing, Gap, Lost
<1>10. HeadWaits(new, next)
  <2> SUFFICES ASSUME NEW h \in Snr, IsHead(new, h), h < next PROVE new[h] = Received
    BY DEF HeadWaits
  <2>1. PICK t \in Covered(ch) : t <= h
    <3>1. h \in Covered(new)
      BY DEF IsHead
    <3>2. CASE h \in Covered(ch)
      BY <3>2 DEF Covered, Snr
    <3>3. CASE Covered(ch) # {} /\ After(ch, h)
      BY <3>3 DEF After, Covered, Snr
    <3> QED  BY <3>1, <3>2, <3>3, <1>3, <1>t DEF ListType, Snr
  <2>2. t \in Covered(new) /\ Covered(ch) \subseteq Covered(new)
    BY <2>1, <1>3 DEF Covered
  <2>3. t = h
    BY <2>1, <2>2 DEF IsHead, Covered, Snr
  <2>4. IsHead(ch, h)
    BY <2>1, <2>2, <2>3 DEF IsHead
  <2>5. ch[h] = Received
    BY <2>4 DEF ListInv, HeadWaits
  <2>6. ~ Added(h)
    BY <2>1, <2>3 DEF Before, After, Covered, Snr
  <2> QED  BY <1>1, <2>5, <2>6
<1>9. Anchored(new, next)
  <2> SUFFICES ASSUME NEW t \in Snr, t \in Covered(new)
               PROVE  \E h \in Covered(new) : h <= next
    BY DEF Anchored, IsTail
  <2>1. CASE Covered(ch) = {}
    <3>1. next \in Snr /\ Added(next)
      BY <2>1, <1>3, <1>t, ReaderAssumption DEF ListType, Snr
    <3> QED  BY <3>1, <1>3, <1>t DEF Snr
  <2>2. CASE Covered(ch) # {} /\ Before(ch, next)
    <3>1. next \in Snr
      BY <2>2, <1>t, ReaderAssumption DEF Before, Covered, ListType, Snr
    <3> QED  BY <2>2, <3>1, <1>3 DEF Snr
  <2>3. CASE ~ Before(ch, next)
    <3>1. PICK h \in Covered(ch) : ~ (next < h)
      BY <2>3 DEF Before
    <3> QED  BY <3>1, <1>3, <1>t DEF Covered, ListType, Snr
  <2> QED  BY <2>1, <2>2, <2>3
<1> QED  BY <1>4, <1>5, <1>6, <1>7, <1>8, <1>9, <1>10 DEF ListInv, new

-----------------------------------------------------------------------------
(* Types.                                                                  *)

\* The samples of a list can be counted.
LEMMA SamplesFinite ==
    ASSUME NEW ch, NEW from, NEW to
    PROVE  /\ Samples(ch, from, to) \in SUBSET Snr
           /\ Cardinality(Samples(ch, from, to)) \in Nat
<1>1. IsFiniteSet(Snr)
  BY ReaderAssumption, FS_Interval DEF Snr
<1>2. Samples(ch, from, to) \subseteq Snr
  BY DEF Samples
<1> QED  BY <1>1, <1>2, FS_Subset, FS_CardinalityType

\* An ACKNACK has the fields the encoder expects.
LEMMA AckNackType ==
    ASSUME acknacks \in 0..CountMod - 1, NEW base \in 0..MaxSnr + 1,
           NEW numbits \in Nat, NEW bits \in SUBSET Nat,
           SendAckNack(base, numbits, bits)
    PROVE  acknacks' \in 0..CountMod - 1 /\ rw_sent' \in SUBSET AckNacks
<1>1. NextCount(acknacks) \in 0..CountMod - 1
  BY ReaderAssumption DEF NextCount
<1> QED  BY <1>1 DEF SendAckNack, AckNacks

\* The ACKNACK that sfr_rel_do_ack_nl builds has the right type.
LEMMA DoAckType ==
    ASSUME acknacks \in 0..CountMod - 1, NEW ch, NEW next \in 0..MaxSnr + 1, NEW blocked,
           sfr_rel_do_ack_nl(ch, next, blocked)
    PROVE  acknacks' \in 0..CountMod - 1 /\ rw_sent' \in SUBSET AckNacks
<1> DEFINE counted == AckCounted(ch, next, blocked)
           n == Cardinality(counted)
           numbits == IF n < MaxBits THEN n ELSE MaxBits
           bits == {i \in 0..MaxBits - 1 :
                      \E s \in counted : /\ ch[s] = Missing
                                         /\ AckPosition(ch, next, blocked, s) = i}
<1>1. IsFiniteSet(Snr) /\ counted \subseteq Snr
  BY ReaderAssumption, FS_Interval DEF Snr, AckCounted, Covered
<1>2. n \in Nat
  BY <1>1, FS_Subset, FS_CardinalityType
<1>3. numbits \in Nat /\ bits \in SUBSET Nat
  BY <1>2, ReaderAssumption
<1>4. SendAckNack(next, numbits, bits)
  BY DEF sfr_rel_do_ack_nl
<1> HIDE DEF numbits, bits
<1> QED  BY <1>3, <1>4, AckNackType

-----------------------------------------------------------------------------
(* The invariant.                                                          *)

\* Without a proxy there is no list, and nothing counts as handed over.
Fresh == rw_cstate = "none" => rw_changes = Empty /\ delivered = {}

IInv ==
    /\ ReaderTypeOK
    /\ ListInv(rw_changes, rw_seqnr_next, delivered, told)
    /\ Fresh

\* The part of ReaderTypeOK that ListInv does not speak of.
RestType ==
    /\ rw_cstate \in {"none", "ready"}
    /\ rw_heartbeats \in BOOLEAN
    /\ rw_peer_alive \in BOOLEAN
    /\ rw_blocked \in BOOLEAN
    /\ rw_last_hb \in 0..CountMod - 1
    /\ rw_hbrsp_timer \in {"none", "alive", "hbrsp"}
    /\ hc_nchanges \in Nat
    /\ acknacks \in 0..CountMod - 1
    /\ rw_sent \in SUBSET AckNacks

\* The invariant, taken apart for the steps below.
LEMMA IInvParts ==
    IInv <=> RestType /\ Fresh /\ ListInv(rw_changes, rw_seqnr_next, delivered, told)
BY DEF IInv, ReaderTypeOK, RestType, ListInv, ListType

\* The empty list.
LEMMA EmptyKeeps ==
    ASSUME NEW next \in {0, 1}, NEW tld \in SUBSET Snr
    PROVE  ListInv(Empty, next, {}, tld)
<1>1. Empty \in [Snr -> ChangeState] /\ Covered(Empty) = {}
  BY DEF Empty, ChangeState, Covered
<1>2. \A s \in Snr : Empty[s] = None
  BY DEF Empty
<1> QED  BY <1>1, <1>2, ReaderAssumption
         DEF ListInv, ListType, Gapless, InSpan, Behind, Accounted, GivenUpTold, Anchored,
             LostTold, HeadWaits, IsHead, IsTail, None, Gap, Lost, Snr

\* No proxy yet.
LEMMA InitIInv == ReaderInit => IInv
<1> SUFFICES ASSUME ReaderInit PROVE IInv
  OBVIOUS
<1>1. ListInv(rw_changes, rw_seqnr_next, delivered, told)
  BY EmptyKeeps DEF ReaderInit
<1>2. 0 \in 0..CountMod - 1 /\ 0 \in Nat
  BY ReaderAssumption
<1>3. RestType /\ Fresh
  BY <1>2, Zenon DEF ReaderInit, RestType, Fresh
<1> QED  BY <1>1, <1>3, IInvParts

-----------------------------------------------------------------------------
(* One lemma per handler: the list invariant and the order of delivery.    *)

\* What every step keeps: the invariant, and the order of the samples handed
\* to the cache.
Kept ==
    /\ ListInv(rw_changes', rw_seqnr_next', delivered', told')
    /\ \A d \in delivered' \ delivered, x \in delivered : x < d

\* sfr_process_samples on the list a handler has made.
LEMMA ProcessStep ==
    ASSUME NEW ch, ListInv(ch, rw_seqnr_next, delivered, told'),
           hc_nchanges \in Nat, rw_blocked \in BOOLEAN,
           sfr_process_samples(ch, rw_seqnr_next)
    PROVE  Kept /\ hc_nchanges' \in Nat /\ rw_blocked' \in BOOLEAN
<1>1. PICK e \in Stops(ch, rw_seqnr_next, hc_nchanges) :
        /\ rw_changes' = Drop(ch, rw_seqnr_next, e)
        /\ rw_seqnr_next' = e
        /\ delivered' = delivered \cup Samples(ch, rw_seqnr_next, e)
        /\ hc_nchanges' = IF CacheAcks
                          THEN hc_nchanges + Cardinality(Samples(ch, rw_seqnr_next, e))
                          ELSE hc_nchanges
        /\ rw_blocked' = (rw_blocked \/ StopsBlocked(ch, rw_seqnr_next, e))
  BY DEF sfr_process_samples
<1>2. ListInv(rw_changes', rw_seqnr_next', delivered', told')
  BY <1>1, ProcessKeeps
<1>3. \A d \in delivered' \ delivered, x \in delivered : x < d
  BY <1>1, ProcessInOrder
<1>4. hc_nchanges' \in Nat
  BY <1>1, SamplesFinite
<1>5. rw_blocked' \in BOOLEAN
  BY <1>1 DEF StopsBlocked
<1> QED  BY <1>2, <1>3, <1>4, <1>5 DEF Kept

\* Only the list changes.
LEMMA ListStep ==
    ASSUME NEW ch, ListInv(ch, rw_seqnr_next, delivered, told'),
           rw_changes' = ch, UNCHANGED <<rw_seqnr_next, delivered>>
    PROVE  Kept
BY DEF Kept

\* sfr_rel_data.
LEMMA DataStep ==
    ASSUME IInv, NEW s \in Snr, NEW ignore \in BOOLEAN, sfr_rel_data(s, ignore)
    PROVE  Kept /\ hc_nchanges' \in Nat /\ rw_blocked' \in BOOLEAN
<1>1. told' = told \cup (IF ignore THEN {s} ELSE {})
  BY DEF sfr_rel_data
<1>2. ListInv(rw_changes, rw_seqnr_next, delivered, told')
  <2>1. (IF ignore THEN {s} ELSE {}) \in SUBSET Snr
    OBVIOUS
  <2> QED  BY <1>1, <2>1, MoreTold DEF IInv
<1>3. hc_nchanges \in Nat /\ rw_blocked \in BOOLEAN /\ rw_seqnr_next \in 0..MaxSnr + 1
  BY DEF IInv, ReaderTypeOK
<1> DEFINE st == IF ignore THEN Gap ELSE Received
           ch == AddChange(rw_changes, s, st)
<1>4. ASSUME rw_seqnr_next <= s, rw_changes[s] \in {None, Missing}
      PROVE  ListInv(ch, rw_seqnr_next, delivered, told')
  BY <1>1, <1>2, <1>4, AddKeeps DEF Gap, Received
<1>5. CASE DataIgnored(s) \/ DataRefused(s)
  BY <1>2, <1>3, <1>5, ListStep DEF DataIgnored, DataRefused, NoDelivery
<1>6. CASE DataDirect(s, ignore)
  <2>1. delivered' \subseteq delivered \cup {s} /\ (s \in delivered' \/ s \in told')
    BY <1>1, <1>6 DEF DataDirect
  <2>2. /\ s = rw_seqnr_next /\ rw_seqnr_next' = s + 1
        /\ rw_changes' = rw_changes /\ Covered(rw_changes) = {}
        /\ delivered \subseteq delivered'
    BY <1>6 DEF DataDirect
  <2>3. \A d \in delivered : d \in Snr /\ d < s
    BY <1>2, <2>2 DEF ListInv, ListType, Behind
  <2>4. ListType(rw_changes', rw_seqnr_next', delivered', told')
    BY <1>2, <2>1, <2>2, ReaderAssumption DEF ListInv, ListType, Snr
  <2>5. Gapless(rw_changes') /\ GivenUpTold(rw_changes', told') /\
          Anchored(rw_changes', rw_seqnr_next') /\ LostTold(rw_changes', told') /\
          HeadWaits(rw_changes', rw_seqnr_next')
    BY <1>2, <2>2 DEF ListInv, Gapless, GivenUpTold, Anchored, LostTold, HeadWaits, IsHead,
                      IsTail
  <2>6. Behind(rw_changes', rw_seqnr_next', delivered')
    BY <2>1, <2>2, <2>3 DEF Behind, Before, Snr
  <2>7. Accounted(rw_changes', rw_seqnr_next', delivered', told')
    BY <1>2, <2>1, <2>2 DEF ListInv, Accounted, Snr
  <2>8. hc_nchanges' \in Nat /\ rw_blocked' \in BOOLEAN
    BY <1>3, <1>6 DEF DataDirect
  <2> QED  BY <2>1, <2>3, <2>4, <2>5, <2>6, <2>7, <2>8 DEF Kept, ListInv
<1>7. CASE DataFirstNode(s, ignore)
  <2>1. rw_seqnr_next <= s /\ rw_changes[s] \in {None, Missing} /\ rw_changes' = ch
    BY <1>3, <1>7 DEF DataFirstNode, Covered, Snr
  <2> QED  BY <1>3, <1>4, <1>7, <2>1, ListStep DEF DataFirstNode
<1>8. CASE DataQueued(s, ignore)
  <2>0. rw_seqnr_next <= s
    BY <1>3, <1>8 DEF DataQueued, Snr
  <2>1. CASE rw_changes[s] \in {None, Missing} /\ HeadIn(ch, {Received, Gap, Lost})
               /\ rw_heartbeats
    <3>1. sfr_process_samples(ch, rw_seqnr_next)
      BY <1>8, <2>1 DEF DataQueued
    <3> QED  BY <1>3, <1>4, <2>0, <2>1, <3>1, ProcessStep
  <2>2. CASE /\ rw_changes[s] \in {None, Missing}
             /\ ~ (HeadIn(ch, {Received, Gap, Lost}) /\ rw_heartbeats)
    <3>1. rw_changes' = ch /\ UNCHANGED <<rw_seqnr_next, rw_blocked, hc_nchanges, delivered>>
      BY <1>8, <2>2 DEF DataQueued
    <3> QED  BY <1>3, <1>4, <2>0, <2>2, <3>1, ListStep
  <2>3. CASE rw_changes[s] \notin {None, Missing}
    BY <1>2, <1>3, <1>8, <2>3, ListStep DEF DataQueued, NoDelivery
  <2> QED  BY <2>1, <2>2, <2>3
<1> QED  BY <1>5, <1>6, <1>7, <1>8 DEF sfr_rel_data

\* sfr_rel_gap: the range of the GAP, then its bitmap.
LEMMA GapStep ==
    ASSUME IInv, NEW m \in Gaps, sfr_rel_gap(m)
    PROVE  Kept /\ hc_nchanges' \in Nat /\ rw_blocked' \in BOOLEAN
<1>1. GapRange(m) \in SUBSET Snr /\ m.bits \in SUBSET Snr
  BY ReaderAssumption DEF Gaps, GapRange, Snr
<1>2. told' = told \cup (GapRange(m) \cup m.bits)
  BY <1>1 DEF sfr_rel_gap
<1>3. ListInv(rw_changes, rw_seqnr_next, delivered, told')
  BY <1>1, <1>2, MoreTold DEF IInv
<1> DEFINE mid == GapSet(rw_changes, rw_seqnr_next, GapRange(m))
           ch == GapSet(mid, rw_seqnr_next, m.bits)
<1>4. ListInv(mid, rw_seqnr_next, delivered, told')
  BY <1>2, <1>3, GapKeeps
<1> HIDE DEF mid
<1>5. ListInv(ch, rw_seqnr_next, delivered, told')
  BY <1>2, <1>4, GapKeeps
<1>6. hc_nchanges \in Nat /\ rw_blocked \in BOOLEAN
  BY DEF IInv, ReaderTypeOK
<1>7. CASE HeadIn(ch, {Received, Gap, Lost})
  BY <1>5, <1>6, <1>7, ProcessStep DEF sfr_rel_gap, mid
<1>8. CASE ~ HeadIn(ch, {Received, Gap, Lost})
  BY <1>5, <1>6, <1>8, ListStep DEF sfr_rel_gap, mid
<1> QED  BY <1>7, <1>8

\* The list part of sfr_rel_heartbeat.
LEMMA HeartbeatStep ==
    ASSUME IInv, NEW m \in Heartbeats, HeartbeatList(m),
           told' = told \cup {s \in Snr : s < m.first}
    PROVE  Kept /\ hc_nchanges' \in Nat /\ rw_blocked' \in BOOLEAN
<1> DEFINE ch == MarkLost(rw_changes, m.first)
           jump == JumpsToHead(ch, m.first)
           from == IF jump THEN CHOOSE h \in Covered(ch) : IsHead(ch, h)
                           ELSE rw_seqnr_next
<1>1. PICK e \in IF jump THEN Stops(ch, from, hc_nchanges) ELSE {from} :
        LET rest == Drop(ch, from, e)
            next == IF e < m.first THEN m.first ELSE e
        IN  /\ rw_seqnr_next' = next
            /\ rw_changes' = IF next <= m.last
                             THEN ExtendMissing(rest, next, m.last) ELSE rest
            /\ delivered' = delivered \cup Samples(ch, from, e)
            /\ hc_nchanges' = IF CacheAcks
                              THEN hc_nchanges + Cardinality(Samples(ch, from, e))
                              ELSE hc_nchanges
            /\ rw_blocked' = (rw_blocked \/ (jump /\ StopsBlocked(ch, from, e)))
  BY DEF HeartbeatList
<1> DEFINE rest == Drop(ch, from, e)
           next == IF e < m.first THEN m.first ELSE e
           got == Samples(ch, from, e)
<1>2. m.first \in 1..MaxSnr + 1 /\ m.last \in 0..MaxSnr
  BY ReaderAssumption DEF Heartbeats, Snr
<1>3. \A s \in Snr : s < m.first => s \in told'
  OBVIOUS
<1>4. ListInv(ch, rw_seqnr_next, delivered, told')
  <2>1. ListInv(rw_changes, rw_seqnr_next, delivered, told')
    BY MoreTold DEF IInv
  <2> QED  BY <1>2, <1>3, <2>1, MarkLostKeeps
<1>l. \A s \in Snr : s < m.first => ch[s] # Missing
  BY DEF MarkLost, Lost, Missing
<1> HIDE DEF ch
<1>5. ListInv(ch, from, delivered, told')
  <2>1. CASE jump
    <3>1. IsHead(ch, from) /\ from \in Covered(ch)
      BY <2>1 DEF JumpsToHead
    <3>2. from <= m.first
      BY <2>1, <3>1 DEF JumpsToHead, IsHead, Covered, Snr
    <3>3. from \in Snr
      BY <3>1 DEF Covered
    <3>4. \A s \in Snr : s < from => s \in told'
      BY <1>2, <1>3, <3>2, <3>3 DEF Snr
    <3> HIDE DEF from
    <3> QED  BY <1>4, <3>1, <3>4, JumpKeeps
  <2>2. CASE ~ jump
    BY <1>4, <2>2
  <2> QED  BY <2>1, <2>2
<1>h. /\ jump => IsHead(ch, from) /\ from \in Snr
      /\ ~ jump => from = rw_seqnr_next /\ Drop(ch, from, from) = ch
  <2>1. Drop(ch, rw_seqnr_next, rw_seqnr_next) = ch
    BY <1>4 DEF Drop, ListInv, ListType, Snr
  <2> QED  BY <2>1 DEF JumpsToHead, Covered
<1> HIDE DEF from
<1>6. ListInv(rest, e, delivered \cup got, told')
  <2>1. CASE jump
    BY <1>1, <1>5, <2>1, ProcessKeeps
  <2>2. CASE ~ jump
    <3>1. e = from /\ from \in 0..MaxSnr + 1 /\ ch \in [Snr -> ChangeState]
      BY <1>1, <1>5, <2>2 DEF ListInv, ListType
    <3>2. rest = ch /\ got = {}
      BY <3>1 DEF Drop, Samples, Snr
    <3> QED  BY <1>5, <3>1, <3>2
  <2> QED  BY <2>1, <2>2
<1> HIDE DEF rest, got
<1>7. ListInv(rest, next, delivered \cup got, told')
  <2>1. e \in 0..MaxSnr + 1
    BY <1>6 DEF ListInv, ListType
  <2>2. CASE e < m.first
    <3>1. HeadWaits(rest, m.first)
      <4>1. CASE jump
        BY <1>1, <1>2, <1>4, <1>l, <1>h, <2>2, <4>1, StopsAtSample DEF rest, ListInv, ListType
      <4>2. CASE ~ jump
        <5>1. rest = ch /\ rw_seqnr_next < m.first
          BY <1>1, <1>h, <2>2, <4>2 DEF rest
        <5> QED  BY <1>2, <4>2, <5>1 DEF JumpsToHead, HeadWaits, IsHead, Covered, Snr
      <4> QED  BY <4>1, <4>2
    <3> QED  BY <1>2, <1>3, <1>6, <2>1, <2>2, <3>1, AdvanceKeeps
  <2>3. CASE ~ (e < m.first)
    BY <1>6, <2>3
  <2> QED  BY <2>2, <2>3
<1>8. 1 <= next
  BY <1>2, <1>6 DEF ListInv, ListType
<1>9. /\ rw_seqnr_next' = next
      /\ rw_changes' = IF next <= m.last THEN ExtendMissing(rest, next, m.last) ELSE rest
      /\ delivered' = delivered \cup got
      /\ hc_nchanges' = IF CacheAcks THEN hc_nchanges + Cardinality(got) ELSE hc_nchanges
      /\ rw_blocked' = (rw_blocked \/ (jump /\ StopsBlocked(ch, from, e)))
  BY <1>1 DEF rest, got
<1> HIDE DEF next
<1>10. ListInv(rw_changes', rw_seqnr_next', delivered', told')
  BY <1>2, <1>7, <1>8, <1>9, ExtendKeeps
<1>11. \A d \in delivered' \ delivered, x \in delivered : x < d
  BY <1>5, <1>9, ProcessInOrder DEF got
<1>12. hc_nchanges' \in Nat
  BY <1>9, SamplesFinite DEF got, IInv, ReaderTypeOK
<1>13. rw_blocked' \in BOOLEAN
  BY <1>9 DEF IInv, ReaderTypeOK
<1> QED  BY <1>10, <1>11, <1>12, <1>13 DEF Kept

\* The application takes a sample and the cache is unblocked.
LEMMA TakeStep ==
    ASSUME IInv, Take
    PROVE  Kept /\ hc_nchanges' \in Nat /\ rw_blocked' \in BOOLEAN
<1>0. hc_nchanges \in Nat /\ rw_blocked \in BOOLEAN /\ told' = told /\ hc_nchanges > 0
      /\ ListInv(rw_changes, rw_seqnr_next, delivered, told')
  BY DEF IInv, ReaderTypeOK, Take
<1>1. CASE ~ rw_blocked
  <2>1. /\ hc_nchanges' = hc_nchanges - 1
        /\ UNCHANGED <<rw_changes, rw_seqnr_next, delivered, rw_blocked>>
    BY <1>1 DEF Take
  <2>2. Kept
    BY <1>0, <2>1, ListStep
  <2> QED  BY <1>0, <2>1, <2>2
<1>2. CASE rw_blocked
  <2>1. PICK e \in Stops(rw_changes, rw_seqnr_next, hc_nchanges - 1) :
          LET got == Samples(rw_changes, rw_seqnr_next, e)
          IN  /\ rw_changes' = Drop(rw_changes, rw_seqnr_next, e)
              /\ rw_seqnr_next' = e
              /\ delivered' = delivered \cup got
              /\ hc_nchanges' = hc_nchanges - 1 + Cardinality(got)
              /\ rw_blocked' = StopsBlocked(rw_changes, rw_seqnr_next, e)
    BY <1>2 DEF Take
  <2>2. ListInv(rw_changes', rw_seqnr_next', delivered', told')
    BY <1>0, <2>1, ProcessKeeps
  <2>3. \A d \in delivered' \ delivered, x \in delivered : x < d
    BY <1>0, <2>1, ProcessInOrder
  <2>4. hc_nchanges' \in Nat
    BY <1>0, <2>1, SamplesFinite
  <2>5. rw_blocked' \in BOOLEAN
    BY <2>1 DEF StopsBlocked
  <2> QED  BY <2>2, <2>3, <2>4, <2>5 DEF Kept
<1> QED  BY <1>1, <1>2

\* Every step keeps the invariant and the order of delivery.
LEMMA NextStep ==
    ASSUME IInv, [ReaderNext]_rvars
    PROVE  IInv' /\ (\A d \in delivered' \ delivered, x \in delivered : x < d)
<1>0. RestType /\ Fresh /\ ListInv(rw_changes, rw_seqnr_next, delivered, told)
  BY IInvParts
<1>s. SUFFICES RestType' /\ Fresh' /\ Kept
  BY DEF IInv, ReaderTypeOK, RestType, ListInv, ListType, Kept
<1>n. ASSUME NoAckNack PROVE acknacks' \in 0..CountMod - 1 /\ rw_sent' \in SUBSET AckNacks
  BY <1>0, <1>n DEF NoAckNack, RestType
<1>i. ASSUME sfr_rel_init_acknack
      PROVE  acknacks' \in 0..CountMod - 1 /\ rw_sent' \in SUBSET AckNacks
  BY <1>0, <1>i, AckNackType, ReaderAssumption DEF sfr_rel_init_acknack, RestType
<1>a. ASSUME sfr_rel_alive
      PROVE  rw_peer_alive' \in BOOLEAN /\ rw_hbrsp_timer' \in {"none", "alive", "hbrsp"}
  BY <1>0, <1>a DEF sfr_rel_alive, RestType
<1>1. ASSUME NEW s \in Snr, NEW ignore \in BOOLEAN, sfr_rel_data(s, ignore)
      PROVE  RestType' /\ Fresh' /\ Kept
  <2>1. Kept /\ hc_nchanges' \in Nat /\ rw_blocked' \in BOOLEAN
    BY <1>1, DataStep
  <2>2. rw_cstate' = "ready" /\ UNCHANGED <<rw_heartbeats, rw_last_hb>>
        /\ NoAckNack /\ sfr_rel_alive
    BY <1>1 DEF sfr_rel_data
  <2> QED  BY <1>0, <1>n, <1>a, <2>1, <2>2 DEF RestType, Fresh
<1>2. ASSUME NEW m \in Gaps, sfr_rel_gap(m)
      PROVE  RestType' /\ Fresh' /\ Kept
  <2>1. Kept /\ hc_nchanges' \in Nat /\ rw_blocked' \in BOOLEAN
    BY <1>2, GapStep
  <2>2. rw_cstate' = "ready" /\ UNCHANGED <<rw_heartbeats, rw_last_hb>>
        /\ NoAckNack /\ sfr_rel_alive
    BY <1>2 DEF sfr_rel_gap
  <2> QED  BY <1>0, <1>n, <1>a, <2>1, <2>2 DEF RestType, Fresh
<1>3. ASSUME NEW m \in Heartbeats, sfr_rel_heartbeat(m)
      PROVE  RestType' /\ Fresh' /\ Kept
  <2>1. rw_cstate' = "ready"
    BY <1>3 DEF sfr_rel_heartbeat
  <2>2. CASE /\ sfr_rel_alive /\ NoAckNack /\ NoDelivery
             /\ UNCHANGED <<rw_blocked, rw_last_hb, rw_heartbeats, told>>
    <3>1. Kept
      BY <1>0, <2>2, ListStep DEF NoDelivery
    <3> QED  BY <1>0, <1>n, <1>a, <2>1, <2>2, <3>1 DEF RestType, Fresh, NoDelivery
  <2>3. CASE /\ rw_peer_alive' = TRUE
             /\ rw_last_hb' = m.count
             /\ rw_heartbeats' = TRUE
             /\ told' = told \cup {s \in Snr : s < m.first}
             /\ HeartbeatList(m)
             /\ HeartbeatAnswer(m)
    <3>1. Kept /\ hc_nchanges' \in Nat /\ rw_blocked' \in BOOLEAN
      BY <2>3, HeartbeatStep
    <3>2. rw_seqnr_next' \in 0..MaxSnr + 1
      BY <3>1 DEF Kept, ListInv, ListType
    <3>3. rw_last_hb' \in 0..CountMod - 1 /\ rw_peer_alive' \in BOOLEAN
          /\ rw_heartbeats' \in BOOLEAN
      BY <2>3 DEF Heartbeats
    <3>4. rw_hbrsp_timer' \in {"none", "alive", "hbrsp"}
      BY <1>0, <2>3 DEF HeartbeatAnswer, RestType
    <3>5. acknacks' \in 0..CountMod - 1 /\ rw_sent' \in SUBSET AckNacks
      <4>1. NoAckNack \/ sfr_rel_do_ack_nl(rw_changes', rw_seqnr_next', rw_blocked')
        BY <2>3 DEF HeartbeatAnswer
      <4> QED  BY <1>0, <1>n, <3>2, <4>1, DoAckType DEF RestType
    <3> QED  BY <2>1, <3>1, <3>3, <3>4, <3>5 DEF RestType, Fresh
  <2> QED  BY <1>3, <2>2, <2>3 DEF sfr_rel_heartbeat
<1>4. ASSUME sfr_rel_alive_to PROVE RestType' /\ Fresh' /\ Kept
  <2>1. Kept
    BY <1>0, <1>4, ListStep DEF sfr_rel_alive_to, NoDelivery
  <2> QED  BY <1>0, <1>4, <1>i, <2>1 DEF sfr_rel_alive_to, NoDelivery, RestType, Fresh
<1>5. ASSUME sfr_rel_do_ack PROVE RestType' /\ Fresh' /\ Kept
  <2>1. Kept
    BY <1>0, <1>5, ListStep DEF sfr_rel_do_ack, NoDelivery
  <2>2. acknacks' \in 0..CountMod - 1 /\ rw_sent' \in SUBSET AckNacks
    BY <1>0, <1>5, DoAckType DEF sfr_rel_do_ack, RestType, ListInv, ListType
  <2> QED  BY <1>0, <1>5, <2>1, <2>2 DEF sfr_rel_do_ack, NoDelivery, RestType, Fresh
<1>6. ASSUME Take PROVE RestType' /\ Fresh' /\ Kept
  <2>1. Kept /\ hc_nchanges' \in Nat /\ rw_blocked' \in BOOLEAN
    BY <1>6, TakeStep
  <2>2. NoAckNack /\ UNCHANGED <<rw_cstate, rw_heartbeats, rw_peer_alive, rw_last_hb,
                                   rw_hbrsp_timer, told>>
    BY <1>6 DEF Take
  <2>3. RestType'
    BY <1>0, <1>n, <2>1, <2>2 DEF RestType
  <2>4. Fresh'
    <3> SUFFICES ASSUME rw_cstate = "none" PROVE rw_changes' = Empty /\ delivered' = {}
      BY <2>2 DEF Fresh
    <3>1. rw_changes = Empty /\ delivered = {}
      BY <1>0 DEF Fresh
    <3>2. \A from, to : Drop(Empty, from, to) = Empty /\ Samples(Empty, from, to) = {}
      BY DEF Drop, Samples, Empty, None, Received
    <3>3. CASE rw_blocked
      BY <1>6, <3>1, <3>2, <3>3 DEF Take
    <3>4. CASE ~ rw_blocked
      BY <1>6, <3>1, <3>4 DEF Take
    <3> QED  BY <3>3, <3>4
  <2> QED  BY <2>1, <2>3, <2>4
<1>7. ASSUME sfr_rel_start PROVE RestType' /\ Fresh' /\ Kept
  <2>1. /\ rw_changes' = Empty /\ delivered' = {} /\ delivered = {}
        /\ rw_seqnr_next' = 1 /\ told' = told /\ rw_cstate' = "ready"
    BY <1>0, <1>7 DEF sfr_rel_start, Fresh
  <2>2. Kept
    BY <1>0, <2>1, EmptyKeeps DEF Kept, ListInv, ListType
  <2> QED  BY <1>0, <1>7, <1>i, <2>1, <2>2 DEF sfr_rel_start, RestType, Fresh
<1>8. ASSUME sfr_rel_reset PROVE RestType' /\ Fresh' /\ Kept
  <2>1. Kept
    BY <1>8, EmptyKeeps DEF Kept, sfr_rel_reset
  <2> QED  BY <1>0, <1>8, <1>i, <2>1 DEF sfr_rel_reset, RestType, Fresh
<1>9. ASSUME sfr_rel_finish PROVE RestType' /\ Fresh' /\ Kept
  <2>1. Kept
    BY <1>9, EmptyKeeps DEF Kept, sfr_rel_finish
  <2>2. 0 \in 0..CountMod - 1
    BY ReaderAssumption
  <2>3. rw_cstate' = "none" /\ rw_changes' = Empty /\ delivered' = {} /\ NoAckNack
    BY <1>9 DEF sfr_rel_finish
  <2> QED  BY <1>0, <1>9, <1>n, <2>1, <2>2, <2>3, Zenon DEF sfr_rel_finish, RestType, Fresh
<1>10. ASSUME UNCHANGED rvars PROVE RestType' /\ Fresh' /\ Kept
  BY <1>0, <1>10 DEF rvars, RestType, Fresh, Kept
<1> QED  BY <1>1, <1>2, <1>3, <1>4, <1>5, <1>6, <1>7, <1>8, <1>9, <1>10 DEF ReaderNext

-----------------------------------------------------------------------------
(* Theorems.                                                               *)

\* The inductive invariant holds in every state of the proxy.
THEOREM Invariance == ReaderSpec => []IInv
BY InitIInv, NextStep, PTL DEF ReaderSpec

\* Every handler of rtps_sfrr.c assigns values of the right type.
THEOREM TypeCorrect == ReaderSpec => []ReaderTypeOK
BY Invariance, PTL DEF IInv

\* No handler leaves a hole between two nodes of rw_changes.
THEOREM ListContiguous == ReaderSpec => []Contiguous
<1>1. IInv => Contiguous
  BY DEF IInv, ListInv, Gapless, Contiguous
<1> QED  BY <1>1, Invariance, PTL

\* A number in the cache is behind rw_seqnr_next and behind the whole list.
THEOREM NoSecondDelivery == ReaderSpec => []DeliveredBehind
<1>1. IInv => DeliveredBehind
  BY DEF IInv, ListInv, Behind, DeliveredBehind
<1> QED  BY <1>1, Invariance, PTL

\* rw_seqnr_next never passes a number that was not handed over, declared
\* unavailable or kept in the list.
THEOREM NothingLostSilently == ReaderSpec => []NoSilentLoss
<1>1. IInv => NoSilentLoss
  BY DEF IInv, ListInv, Accounted, NoSilentLoss
<1> QED  BY <1>1, Invariance, PTL

\* Only numbers that the writer declared unavailable are given up.
THEOREM OnlyToldGivenUp == ReaderSpec => []GivenUpWasTold
<1>1. IInv => GivenUpWasTold
  BY DEF IInv, ListInv, GivenUpTold, GivenUpWasTold
<1> QED  BY <1>1, Invariance, PTL

\* A list that ends in MISSING numbers starts at or before rw_seqnr_next.
THEOREM TailAnchored == ReaderSpec => []MissingTailAnchored
<1>1. IInv => MissingTailAnchored
  BY DEF IInv, ListInv, Anchored, MissingTailAnchored
<1> QED  BY <1>1, Invariance, PTL

\* Samples reach the reader's cache in the order of their numbers.
THEOREM InOrder == ReaderSpec => DeliveryInOrder
<1>1. IInv /\ [ReaderNext]_rvars =>
        [\A d \in delivered' \ delivered, x \in delivered : x < d]_rvars
  BY NextStep
<1> QED  BY <1>1, Invariance, PTL DEF ReaderSpec, DeliveryInOrder

-----------------------------------------------------------------------------
(* ACKNACKs.                                                               *)

\* A set of numbers has a smallest one.
LEMMA LeastExists ==
    ASSUME NEW T \in SUBSET Nat, NEW x \in T
    PROVE  \E i \in T : \A j \in T : i <= j
<1>0. IsWellFoundedOn(OpToRel(<, Nat), Nat)
  BY NatLessThanWellFounded
<1>1. \A i \in T, j \in T : <<j, i>> \in OpToRel(<, Nat) <=> j < i
  BY DEF OpToRel
<1>2. \E i \in T : \A j \in T : ~ (<<j, i>> \in OpToRel(<, Nat))
  BY <1>0, WFMin
<1>3. \E i \in T : \A j \in T : ~ (j < i)
  BY <1>1, <1>2, Zenon
<1>4. \A i \in T, j \in T : ~ (j < i) => i <= j
  BY SMT
<1> QED  BY <1>3, <1>4, Zenon

\* Every position of the bitmap up to the number of bits belongs to a counted
\* number.
LEMMA PositionTaken ==
    ASSUME NEW C \in SUBSET Snr, NEW i \in Nat, i < Cardinality(C)
    PROVE  \E c \in C : Cardinality({t \in C : t < c}) = i
<1> DEFINE UpTo(k) == {t \in C : t <= k}
           T == {k \in 0..MaxSnr : i < Cardinality(UpTo(k))}
<1>0. IsFiniteSet(Snr)
  BY ReaderAssumption, FS_Interval DEF Snr
<1>1. \A k : IsFiniteSet(UpTo(k)) /\ Cardinality(UpTo(k)) \in Nat
  <2>1. \A k : UpTo(k) \subseteq Snr
    OBVIOUS
  <2>2. \A k : IsFiniteSet(UpTo(k))
    BY <1>0, <2>1, FS_Subset
  <2> QED  BY <2>2, FS_CardinalityType
<1>2. MaxSnr \in T
  <2>1. \A t \in C : t <= MaxSnr
    BY DEF Snr
  <2>2. UpTo(MaxSnr) = C
    BY <2>1, Zenon
  <2> QED  BY <2>2, ReaderAssumption
<1>3. PICK k \in T : \A j \in T : k <= j
  <2>1. T \in SUBSET Nat
    BY ReaderAssumption
  <2> HIDE DEF T
  <2> QED  BY <2>1, <1>2, LeastExists
<1>4. k \in 0..MaxSnr /\ i < Cardinality(UpTo(k))
  BY <1>3
<1>5. k # 0
  <2>1. \A t \in C : ~ (t <= 0)
    BY DEF Snr
  <2>2. UpTo(0) = {}
    BY <2>1, Zenon
  <2>3. Cardinality(UpTo(0)) = 0
    BY <2>2, FS_EmptySet
  <2> QED  BY <2>3, <1>4
<1>6. k - 1 \in 0..MaxSnr /\ k - 1 \notin T
  BY <1>3, <1>4, <1>5, ReaderAssumption
<1> HIDE DEF UpTo
<1>7. ~ (i < Cardinality(UpTo(k - 1)))
  BY <1>6
<1>8. \A t \in C : t <= k <=> (t <= k - 1 \/ t = k)
  BY <1>4 DEF Snr
<1>9. k \in C
  <2> SUFFICES ASSUME k \notin C PROVE FALSE
    OBVIOUS
  <2>1. UpTo(k) = UpTo(k - 1)
    BY <1>8, Zenon DEF UpTo
  <2> QED  BY <1>4, <1>7, <2>1
<1>10. Cardinality(UpTo(k)) = Cardinality(UpTo(k - 1)) + 1
  <2>1. UpTo(k) = UpTo(k - 1) \cup {k}
    BY <1>8, <1>9, Zenon DEF UpTo
  <2>2. k \notin UpTo(k - 1)
    BY <1>4 DEF UpTo
  <2> QED  BY <1>1, <2>1, <2>2, FS_AddElement
<1>11. {t \in C : t < k} = UpTo(k - 1)
  <2>1. \A t \in C : t < k <=> t <= k - 1
    BY <1>4 DEF Snr
  <2> QED  BY <2>1, Zenon DEF UpTo
<1>12. Cardinality(UpTo(k - 1)) = i
  BY <1>1, <1>4, <1>7, <1>10
<1> QED  BY <1>9, <1>11, <1>12

\* Counted numbers that are not below next have positions that do not pass
\* them.
LEMMA PositionBound ==
    ASSUME NEW C \in SUBSET Snr, NEW next \in 0..MaxSnr + 1, \A t \in C : next <= t,
           NEW c \in C
    PROVE  next + Cardinality({t \in C : t < c}) <= c
<1> DEFINE L == {t \in C : t < c}
<1>1. next \in Int /\ c \in Int /\ c - 1 \in Int /\ next <= c
  BY ReaderAssumption DEF Snr
<1>2. IsFiniteSet(next..(c - 1)) /\ Cardinality(next..(c - 1)) = c - next
  <2> DEFINE d == c - 1
  <2>1. /\ IsFiniteSet(next..d)
        /\ Cardinality(next..d) = IF next > d THEN 0 ELSE d - next + 1
    <3>1. d \in Int
      BY <1>1
    <3> HIDE DEF d
    <3> QED  BY <1>1, <3>1, FS_Interval
  <2> QED  BY <1>1, <2>1
<1>3. L \subseteq next..(c - 1)
  <2> SUFFICES ASSUME NEW t \in C, t < c PROVE t \in next..(c - 1)
    OBVIOUS
  <2>1. t \in Nat /\ c \in Nat /\ next <= t
    BY DEF Snr
  <2> QED  BY <1>1, <2>1
<1>4. Cardinality(L) <= c - next /\ Cardinality(L) \in Nat
  <2>1. IsFiniteSet(L) /\ Cardinality(L) <= Cardinality(next..(c - 1))
    BY <1>2, <1>3, FS_Subset
  <2>2. Cardinality(L) \in Nat
    BY <2>1, FS_CardinalityType
  <2> QED  BY <1>2, <2>1, <2>2
<1> QED  BY <1>1, <1>4 DEF Snr

\* The numbers that an ACKNACK with base, numbits and bits acknowledges.
Acknowledged(base, numbits, bits) ==
    {s \in Snr : s < base \/ (base > 0 /\ s < base + numbits /\ s - base \notin bits)}

\* A KEEP_ALL reader counts no number below the base: a list that starts there
\* starts with a sample, where the walk ends.
LEMMA CountedAhead ==
    ASSUME CacheAcks, NEW ch, NEW next, NEW del, NEW tld, ListInv(ch, next, del, tld),
           NEW blocked, NEW c \in AckCounted(ch, next, blocked)
    PROVE  next <= c
<1>1. PICK h \in Covered(ch) : \A t \in Covered(ch) : h <= t
  <2>1. Covered(ch) \in SUBSET Nat /\ c \in Covered(ch)
    BY DEF Covered, AckCounted, Snr
  <2> QED  BY <2>1, LeastExists
<1>2. IsHead(ch, h) /\ h \in Snr
  BY <1>1 DEF IsHead, Covered
<1>3. ch[h] # Received
  <2>1. h <= c /\ \A t \in Covered(ch) : t <= c => ~ AckStop(ch, blocked, t)
    BY <1>1 DEF AckCounted
  <2> QED  BY <1>1, <2>1 DEF AckStop
<1>4. ~ (h < next)
  BY <1>2, <1>3 DEF ListInv, HeadWaits
<1> QED  BY <1>1, <1>2, <1>4 DEF AckCounted, Covered, ListInv, ListType, Snr

\* The ACKNACK that sfr_rel_do_ack_nl builds from a list of a KEEP_ALL reader
\* acknowledges what is unavailable and what rw_seqnr_next passed.
LEMMA AckKeeps ==
    ASSUME CacheAcks, NEW ch, NEW next, NEW del, NEW tld, ListInv(ch, next, del, tld),
           NEW blocked \in BOOLEAN, sfr_rel_do_ack_nl(ch, next, blocked),
           NEW m \in rw_sent', NEW s \in Acknowledged(m.base, m.numbits, m.bits)
    PROVE  s \in tld \/ (s < next /\ (s \in del \/ ch[s] = Received))
<1> DEFINE counted == AckCounted(ch, next, blocked)
           n == Cardinality(counted)
           bits == {i \in 0..MaxBits - 1 :
                      \E t \in counted : /\ ch[t] = Missing
                                         /\ AckPosition(ch, next, blocked, t) = i}
<1>t. ListType(ch, next, del, tld) /\ s \in Snr
  BY DEF ListInv, Acknowledged
<1>1. m.base = next /\ m.numbits = (IF n < MaxBits THEN n ELSE MaxBits) /\ m.bits = bits
  BY DEF sfr_rel_do_ack_nl, SendAckNack
<1>2. CASE s < next
  BY <1>2, <1>t DEF ListInv, Accounted
<1>3. CASE ~ (s < next)
  <2>1. counted \in SUBSET Snr /\ n \in Nat
    <3>1. IsFiniteSet(Snr) /\ counted \subseteq Snr
      BY ReaderAssumption, FS_Interval DEF Snr, AckCounted, Covered
    <3> QED  BY <3>1, FS_Subset, FS_CardinalityType
  <2> DEFINE i == s - next
  <2>2. i \in Nat /\ i < n /\ i < MaxBits /\ i \notin bits /\ i \in 0..MaxBits - 1
    <3>1. s < next + (IF n < MaxBits THEN n ELSE MaxBits) /\ i \notin bits
      BY <1>1, <1>3 DEF Acknowledged
    <3> HIDE DEF n, bits
    <3> QED  BY <1>3, <1>t, <2>1, <3>1, ReaderAssumption DEF ListType, Snr
  <2>3. PICK c \in counted : Cardinality({t \in counted : t < c}) = i
    <3> HIDE DEF counted, i
    <3> QED  BY <2>1, <2>2, PositionTaken
  <2>4. AckPosition(ch, next, blocked, c) = i
    BY <2>3 DEF AckPosition
  <2>5. ch[c] # Missing
    BY <2>2, <2>3, <2>4
  <2>6. ch[c] = Lost
    BY <2>5, <2>3, <1>t DEF AckCounted, AckStop, Covered, ListType, ChangeState, Snr
  <2>7. \A t \in counted : next <= t
    BY CountedAhead
  <2>8. next + i <= c
    <3> HIDE DEF counted, i
    <3> QED  BY <2>1, <2>3, <2>7, <1>t, PositionBound DEF ListType
  <2>9. s <= c /\ c \in Snr
    BY <2>1, <2>3, <2>8, <1>t DEF ListType, Snr
  <2> QED  BY <2>6, <2>9, <1>t DEF ListInv, LostTold
<1> QED  BY <1>2, <1>3

\* The same of the state: what the last ACKNACK acknowledged is settled.
LEMMA AckStep ==
    ASSUME CacheAcks, IInv, AckSound, [ReaderNext]_rvars, IInv'
    PROVE  AckSound'
<1>1. CASE rw_sent' = {}
  BY <1>1 DEF AckSound
<1>2. CASE sfr_rel_init_acknack
  BY <1>2 DEF sfr_rel_init_acknack, SendAckNack, AckSound, Snr
<1>3. CASE sfr_rel_do_ack_nl(rw_changes', rw_seqnr_next', rw_blocked')
  <2>1. ListInv(rw_changes', rw_seqnr_next', delivered', told') /\ rw_blocked' \in BOOLEAN
    BY DEF IInv, ReaderTypeOK
  <2>2. \A m \in rw_sent' : \A s \in Acknowledged(m.base, m.numbits, m.bits) :
          s \in told' \/ s \in delivered' \/ rw_changes'[s] = Received
    BY <1>3, <2>1, AckKeeps
  <2> QED  BY <2>2 DEF AckSound, Acknowledged, Settled
<1>4. CASE UNCHANGED rvars
  BY <1>4 DEF rvars, AckSound, Settled
<1>5. ReaderNext => rw_sent' = {} \/ sfr_rel_init_acknack
              \/ sfr_rel_do_ack_nl(rw_changes', rw_seqnr_next', rw_blocked')
  BY Zenon DEF ReaderNext, sfr_rel_data, sfr_rel_gap, sfr_rel_heartbeat, HeartbeatAnswer,
       sfr_rel_alive_to, sfr_rel_do_ack, Take, sfr_rel_start, sfr_rel_reset, sfr_rel_finish,
       NoAckNack, NoDelivery
<1> QED  BY <1>1, <1>2, <1>3, <1>4, <1>5

\* A KEEP_ALL reader acknowledges, by the base and by the zero bits of its
\* ACKNACKs, only what it received or what the writer declared unavailable:
\* the list can start above the base, and then the bits belong to other
\* numbers than the ones they were computed for, but only LOST numbers give
\* zero bits and everything below those is unavailable.
THEOREM AcksAreSound ==
    ASSUME CacheAcks
    PROVE  ReaderSpec => []AckSound
<1>1. ReaderInit => AckSound
  BY DEF ReaderInit, AckSound
<1> QED  BY <1>1, Invariance, AckStep, PTL DEF ReaderSpec

-----------------------------------------------------------------------------
(***************************************************************************)
(* The writer's proxy.                                                     *)
(***************************************************************************)

(* The inductive invariant of a list q.                                    *)

States == {None, Unsent, Underway, Requested, Acked}

ChangesType == [state : [Snr -> States], rel : SUBSET Snr, first : SUBSET Snr,
             towire : SUBSET Snr, unsent : 0..MaxSnr + 1]

\* The numbers are consecutive.
Unbroken(q) == \A s, t \in Listed(q) : \A u \in s..t : u \in Listed(q)

\* A node starts at the head, at every sample and behind every sample.
NodesStart(q) ==
    /\ q.first \subseteq Listed(q) /\ q.rel \subseteq Listed(q)
    /\ \A s \in Listed(q) : s \in q.rel \/ s - 1 \in q.rel \/ s - 1 \notin Listed(q) => s \in q.first

\* The numbers of a node have one state.
Uniform(q) == \A s \in Listed(q) \ q.first : q.state[s] = q.state[s - 1]

ChangesInv(q) ==
    /\ q \in ChangesType /\ Unbroken(q) /\ NodesStart(q) /\ Uniform(q)
    /\ q.unsent \in q.first \cup {Null, Freed}

\* UnsentReachable, of a list.
Reachable(q) ==
    q.unsent # Freed => \A s \in q.rel : q.state[s] = Unsent => q.unsent # Null /\ q.unsent <= s

-----------------------------------------------------------------------------
(* Numbers.                                                                *)

\* A set of numbers has a least element.
LEMMA LeastNumber ==
    ASSUME NEW T \in SUBSET Nat, T # {}
    PROVE  \E i \in T : \A j \in T : i <= j
<1> DEFINE R == OpToRel(<, Nat)
<1>1. IsWellFoundedOn(R, Nat)
  BY NatLessThanWellFounded
<1>2. \A i \in T, j \in T : j < i => <<j, i>> \in R
  BY DEF OpToRel
<1> HIDE DEF R
<1>3. \E i \in T : \A j \in T : ~ (<<j, i>> \in R)
  BY <1>1, WFMin
<1>4. \E i \in T : \A j \in T : ~ (j < i)
  BY <1>2, <1>3, Zenon
<1>5. \A i \in T, j \in T : ~ (j < i) => i <= j
  BY SMT
<1> QED  BY <1>4, <1>5, Zenon

\* A nonempty set of naturals has a least element, and Min chooses it.
LEMMA MinProps ==
    ASSUME NEW T \in SUBSET Nat, T # {}
    PROVE  Min(T) \in T /\ \A j \in T : Min(T) <= j
BY LeastNumber DEF Min

\* The least upper bound of a set of numbers is in the set.
LEMMA MaxProps ==
    ASSUME NEW T \in SUBSET Nat, T # {}, NEW b \in Nat, \A j \in T : j <= b
    PROVE  Max(T) \in T /\ \A j \in T : j <= Max(T)
<1> DEFINE B == {n \in Nat : \A j \in T : j <= n}
<1>1. B \in SUBSET Nat /\ B # {}
  OBVIOUS
<1>2. PICK m \in B : \A n \in B : m <= n
  <2> HIDE DEF B
  <2> QED  BY <1>1, LeastNumber
<1>3. m \in T
  <2> SUFFICES ASSUME m \notin T PROVE FALSE
    OBVIOUS
  <2>1. \A j \in T : j <= m /\ j # m /\ j \in Nat /\ m \in Nat
    OBVIOUS
  <2>2. m - 1 \in Nat
    <3>1. PICK j : j \in T
      OBVIOUS
    <3> HIDE DEF B
    <3> QED  BY <2>1, <3>1
  <2>4. \A j \in T : j <= m - 1
    <3> HIDE DEF B
    <3> QED  BY <2>1
  <2>3. m - 1 \in B
    BY <2>2, <2>4
  <2>5. m <= m - 1
    BY <2>3, <1>2
  <2>6. m \in Nat
    OBVIOUS
  <2> HIDE DEF B
  <2> QED  BY <2>5, <2>6
<1>4. \A j \in T : m >= j
  BY <1>2
<1>5. \E x \in T : \A y \in T : x >= y
  BY <1>3, <1>4
<1>6. Max(T) \in T /\ \A y \in T : Max(T) >= y
  BY <1>5, Zenon DEF Max
<1>7. \A x, y \in Nat : x >= y => y <= x
  OBVIOUS
<1> QED  BY <1>6, <1>7

\* Sequence numbers are the naturals from 1; the two non-pointers are none of them.
LEMMA Numbers ==
    /\ MaxSnr \in Nat /\ Snr \in SUBSET Nat /\ Null = 0 /\ Freed = MaxSnr + 1
    /\ \A s : s \in Snr <=> s \in Nat /\ 1 <= s /\ s <= MaxSnr
    /\ Null \notin Snr /\ Freed \notin Snr /\ Null # Freed
BY WriterAssumption DEF Snr, Null, Freed

\* The greatest of some sequence numbers is one of them.
LEMMA SnrMax ==
    ASSUME NEW T \in SUBSET Snr, T # {}
    PROVE  Max(T) \in T /\ \A j \in T : j <= Max(T)
BY MaxProps, Numbers

\* The least of some sequence numbers is one of them.
LEMMA SnrMin ==
    ASSUME NEW T \in SUBSET Snr, T # {}
    PROVE  Min(T) \in T /\ \A j \in T : Min(T) <= j
BY MinProps, Numbers

\* The five states of a sample are five values.
LEMMA StatesDiffer ==
    /\ None \in States /\ Unsent \in States /\ Underway \in States
    /\ Requested \in States /\ Acked \in States
    /\ None # Unsent /\ None # Underway /\ None # Requested /\ None # Acked
    /\ Unsent # Underway /\ Unsent # Requested /\ Unsent # Acked
    /\ Underway # Requested /\ Underway # Acked /\ Requested # Acked
BY DEF States, None, Unsent, Underway, Requested, Acked

\* The fields of a list of changes, and which numbers are on it.
LEMMA ListFields ==
    ASSUME NEW q \in ChangesType
    PROVE  /\ q.state \in [Snr -> States] /\ q.rel \in SUBSET Snr /\ q.first \in SUBSET Snr
           /\ q.towire \in SUBSET Snr /\ q.unsent \in 0..MaxSnr + 1
           /\ Listed(q) \in SUBSET Snr
           /\ \A s : s \in Listed(q) <=> s \in Snr /\ q.state[s] # None
BY DEF ChangesType, Listed

\* A record with fields of their types is a list.
LEMMA ListRecord ==
    ASSUME NEW a \in [Snr -> States], NEW r \in SUBSET Snr, NEW f \in SUBSET Snr,
           NEW w \in SUBSET Snr, NEW u \in 0..MaxSnr + 1, NEW k,
           k = [state |-> a, rel |-> r, first |-> f, towire |-> w, unsent |-> u]
    PROVE  /\ k \in ChangesType /\ k.state = a /\ k.rel = r /\ k.first = f /\ k.towire = w
           /\ k.unsent = u
BY DEF ChangesType

-----------------------------------------------------------------------------
(* Nodes.                                                                  *)

\* The node that holds a listed number starts at the last first number that is not after it.
LEMMA NodeFacts ==
    ASSUME NEW q, ChangesInv(q), NEW s \in Listed(q)
    PROVE  /\ NodeStart(q, s) \in q.first /\ NodeStart(q, s) <= s
           /\ \A f \in q.first : f <= s => f <= NodeStart(q, s)
<1> DEFINE F == {f \in q.first : f <= s}
           m == Min(Listed(q))
<1>1. /\ q.first \in SUBSET Snr /\ Listed(q) \in SUBSET Snr /\ Snr \in SUBSET Nat
  BY ListFields, Numbers DEF ChangesInv
<1>2. m \in Listed(q) /\ \A t \in Listed(q) : m <= t
  BY <1>1, SnrMin
<1> HIDE DEF m
<1>n. m \in Nat /\ \A t \in Listed(q) : t \in Nat /\ m <= t
  BY <1>1, <1>2
<1>3. m - 1 \notin Listed(q)
  BY <1>n
<1>4. m \in F
  BY <1>1, <1>2, <1>3 DEF ChangesInv, NodesStart
<1>5. F \in SUBSET Snr /\ F # {} /\ NodeStart(q, s) = Max(F)
  BY <1>1, <1>4 DEF NodeStart
<1>6. Max(F) \in F /\ \A f \in F : f <= Max(F)
  <2> HIDE DEF F
  <2> QED  BY <1>5, SnrMax
<1> QED  BY <1>5, <1>6

\* Every number of a node has the state of its first number.
LEMMA UniformNode ==
    ASSUME NEW q, ChangesInv(q), NEW s \in Listed(q)
    PROVE  q.state[s] = q.state[NodeStart(q, s)]
<1> DEFINE T == {t \in Listed(q) : q.state[t] # q.state[NodeStart(q, t)]}
<1>1. /\ q.first \in SUBSET Snr /\ Listed(q) \in SUBSET Snr /\ Snr \in SUBSET Nat
  BY ListFields, Numbers DEF ChangesInv
<1> SUFFICES ASSUME T # {} PROVE FALSE
  OBVIOUS
<1>2. PICK m \in T : \A t \in T : m <= t
  <2>1. T \in SUBSET Nat
    BY <1>1
  <2> HIDE DEF T
  <2> QED  BY <2>1, LeastNumber
<1>m. m \in Listed(q) /\ m \in Nat /\ q.state[m] # q.state[NodeStart(q, m)]
      /\ \A t \in Listed(q) : t < m => q.state[t] = q.state[NodeStart(q, t)]
  <2>1. m \in Listed(q) /\ m \in Nat /\ q.state[m] # q.state[NodeStart(q, m)]
    BY <1>1, <1>2
  <2>2. ASSUME NEW t \in Listed(q), t < m PROVE t \notin T
    <3>1. t \in Nat
      BY <1>1
    <3> HIDE DEF T
    <3> QED  BY <1>2, <2>1, <2>2, <3>1
  <2> QED  BY <2>1, <2>2
<1> HIDE DEF T
<1>3. /\ NodeStart(q, m) \in q.first /\ NodeStart(q, m) <= m
      /\ \A f \in q.first : f <= m => f <= NodeStart(q, m)
  BY <1>m, NodeFacts
<1>4. m \notin q.first
  <2>1. NodeStart(q, m) \in Nat
    BY <1>1, <1>3
  <2> SUFFICES ASSUME m \in q.first PROVE NodeStart(q, m) = m
    BY <1>m
  <2>2. m <= NodeStart(q, m)
    BY <1>3, <1>m
  <2> QED  BY <2>1, <2>2, <1>3, <1>m
<1>5. m - 1 \in Listed(q) /\ q.state[m] = q.state[m - 1]
  BY <1>m, <1>4 DEF ChangesInv, NodesStart, Uniform
<1>6. /\ NodeStart(q, m - 1) \in q.first /\ NodeStart(q, m - 1) <= m - 1
      /\ \A f \in q.first : f <= m - 1 => f <= NodeStart(q, m - 1)
  BY <1>5, NodeFacts
<1>7. NodeStart(q, m - 1) = NodeStart(q, m)
  <2> DEFINE a == NodeStart(q, m)
             b == NodeStart(q, m - 1)
  <2>1. a \in q.first /\ a <= m /\ (\A f \in q.first : f <= m => f <= a)
        /\ b \in q.first /\ b <= m - 1 /\ (\A f \in q.first : f <= m - 1 => f <= b)
        /\ a \in Nat /\ b \in Nat /\ m \in Nat
    BY <1>1, <1>3, <1>6, <1>m
  <2> HIDE DEF a, b
  <2>2. a # m
    BY <2>1, <1>4
  <2>3. a <= b /\ b <= a
    BY <2>1, <2>2
  <2> QED  BY <2>1, <2>3 DEF a, b
<1>8. q.state[m - 1] = q.state[NodeStart(q, m - 1)]
  BY <1>m, <1>5
<1> QED  BY <1>5, <1>7, <1>8, <1>m

-----------------------------------------------------------------------------
(* What the operations do to a list.                                       *)

\* No change of k is requested unless one of q was.
NothingAsked(q, k) ==
    (\E t \in Snr : k.state[t] = Requested) => \E t \in Snr : q.state[t] = Requested

\* The empty list of changes is a well-formed one.
LEMMA EmptyListInv ==
    /\ ChangesInv(EmptyList) /\ Reachable(EmptyList) /\ Listed(EmptyList) = {}
    /\ EmptyList.rel = {} /\ EmptyList.unsent = Null
    /\ \A t \in Snr : EmptyList.state[t] = None
<1> DEFINE a == [s \in Snr |-> None]
<1>1. a \in [Snr -> States] /\ Null \in 0..MaxSnr + 1 /\ \A t \in Snr : a[t] = None
  BY StatesDiffer, Numbers
<1> HIDE DEF a
<1>2. EmptyList = [state |-> a, rel |-> {}, first |-> {}, towire |-> {}, unsent |-> Null]
  BY DEF EmptyList, a
<1>3. /\ EmptyList \in ChangesType /\ EmptyList.state = a /\ EmptyList.rel = {}
      /\ EmptyList.first = {} /\ EmptyList.unsent = Null
  BY <1>1, <1>2 DEF ChangesType
<1>4. Listed(EmptyList) = {}
  BY <1>1, <1>3 DEF Listed
<1> QED  BY <1>1, <1>3, <1>4 DEF ChangesInv, Unbroken, NodesStart, Uniform, Reachable

\* Adding a sample behind the list (sfw_rel_new_change) keeps it well formed and its unsent
\* samples reachable.
LEMMA AddSampleInv ==
    ASSUME NEW q, ChangesInv(q), NEW s \in Snr, \A t \in Listed(q) : t < s, NEW k, k = AddSample(q, s)
    PROVE  /\ ChangesInv(k) /\ (Reachable(q) => Reachable(k)) /\ k.rel = q.rel \cup {s}
           /\ \A t \in Listed(k) : t <= s
           /\ NothingAsked(q, k)
<1> DEFINE L == Listed(q)
           tail == Max(L)
           skipped == IF L = {} THEN {} ELSE (tail + 1)..(s - 1)
           x == IF tail \in q.rel THEN Unsent ELSE q.state[tail]
           a == [t \in Snr |-> CASE t = s -> Unsent
                                 [] t \in skipped -> x
                                 [] OTHER -> q.state[t]]
           r == q.rel \cup {s}
           f == q.first \cup {s} \cup (IF skipped # {} /\ tail \in q.rel THEN {tail + 1} ELSE {})
           w == q.towire \cup {s}
           u == IF q.unsent = Null THEN s ELSE q.unsent
<1>1. k = [state |-> a, rel |-> r, first |-> f, towire |-> w, unsent |-> u]
  BY DEF AddSample
<1>q. /\ q.state \in [Snr -> States] /\ q.rel \in SUBSET Snr /\ q.first \in SUBSET Snr
      /\ q.towire \in SUBSET Snr /\ q.unsent \in 0..MaxSnr + 1
      /\ L \in SUBSET Snr /\ Snr \in SUBSET Nat /\ s \in Nat
      /\ \A t : t \in L <=> t \in Snr /\ q.state[t] # None
      /\ Unbroken(q) /\ NodesStart(q) /\ Uniform(q) /\ q.unsent \in q.first \cup {Null, Freed}
  BY ListFields, Numbers DEF ChangesInv
<1>2. L # {} => tail \in L /\ \A t \in L : t <= tail
  BY <1>q, SnrMax
<1>h. \A t \in L : t < s
  OBVIOUS
<1> HIDE DEF L, tail
<1>3. /\ \A t : t \in skipped <=> L # {} /\ t \in Nat /\ tail < t /\ t < s
      /\ skipped \in SUBSET Snr /\ s \notin skipped /\ \A t \in L : t \notin skipped /\ t # s
  <2>1. \A t : t \in skipped <=> L # {} /\ t \in Nat /\ tail < t /\ t < s
    <3>1. CASE L = {}
      BY <3>1
    <3>2. CASE L # {}
      <4>1. tail \in Nat /\ s \in Nat
        BY <3>2, <1>2, <1>q
      <4> QED  BY <4>1, <3>2
    <3> QED  BY <3>1, <3>2
  <2>2. ASSUME NEW t \in skipped PROVE t \in Snr /\ t # s /\ t \notin L
    <3>1. L # {} /\ t \in Nat /\ tail < t /\ t < s
      BY <2>1
    <3>2. tail \in Nat /\ 1 <= tail /\ s <= MaxSnr /\ \A v \in L : v \in Nat /\ v <= tail
      BY <3>1, <1>2, <1>q, Numbers
    <3> QED  BY <3>1, <3>2, <1>q, Numbers
  <2>3. \A t \in L : t # s
    BY <1>h, <1>q
  <2> HIDE DEF skipped
  <2> QED  BY <2>1, <2>2, <2>3
<1>4. L # {} => x \in States /\ x # None
  BY <1>2, <1>q, StatesDiffer
<1> HIDE DEF skipped
<1>5. /\ a \in [Snr -> States] /\ a[s] = Unsent
      /\ \A t \in skipped : a[t] = x
      /\ \A t \in Snr : t # s /\ t \notin skipped => a[t] = q.state[t]
  <2>1. \A t \in skipped : x \in States
    BY <1>3, <1>4
  <2> HIDE DEF x
  <2> QED  BY <2>1, <1>3, <1>q, StatesDiffer
<1>x. /\ tail \in q.rel => x = Unsent
      /\ tail \notin q.rel => x = q.state[tail]
  OBVIOUS
<1>f. /\ f \in SUBSET Snr /\ q.first \subseteq f /\ s \in f
      /\ \A t \in f : t \in q.first \/ t = s \/ t \in skipped
      /\ skipped # {} /\ tail \in q.rel => tail + 1 \in f
  <2>1. ASSUME skipped # {} PROVE tail + 1 \in skipped
    <3>1. PICK t : t \in skipped
      BY <2>1
    <3>2. L # {} /\ t \in Nat /\ tail < t /\ t < s /\ tail \in Nat /\ s \in Nat
      BY <3>1, <1>3, <1>2, <1>q
    <3>3. tail + 1 \in Nat /\ tail < tail + 1 /\ tail + 1 < s
      BY <3>2
    <3> QED  BY <3>2, <3>3, <1>3
  <2> QED  BY <2>1, <1>3, <1>q
<1>6. r \in SUBSET Snr /\ w \in SUBSET Snr /\ u \in 0..MaxSnr + 1
  BY <1>q, Numbers
<1>r. r = q.rel \cup {s} /\ u = IF q.unsent = Null THEN s ELSE q.unsent
  OBVIOUS
<1> HIDE DEF x, a, f, r, w, u
<1>7. /\ k \in ChangesType /\ k.state = a /\ k.rel = r /\ k.first = f /\ k.unsent = u
  BY <1>1, <1>5, <1>6, <1>f, ListRecord
<1>8. \A t : t \in Listed(k) <=> t \in L \/ t \in skipped \/ t = s
  <2>1. \A t : t \in Listed(k) <=> t \in Snr /\ a[t] # None
    BY <1>7, ListFields
  <2> QED  BY <2>1, <1>3, <1>4, <1>5, <1>q, StatesDiffer
<1>9. Unbroken(k)
  <2> SUFFICES ASSUME NEW b \in Listed(k), NEW e \in Listed(k), NEW t \in b..e PROVE t \in Listed(k)
    BY DEF Unbroken
  <2>1. t \in Nat /\ b \in Nat /\ b <= t /\ t <= e /\ e <= s /\ e \in Nat
    <3>1. ASSUME NEW v \in Listed(k) PROVE v \in Nat /\ v <= s
      <4>1. v \in L \/ v \in skipped \/ v = s
        BY <1>8
      <4>2. s \in Nat /\ (v \in L => v \in Nat /\ v < s) /\ (v \in skipped => v \in Nat /\ v < s)
        BY <1>3, <1>h, <1>q
      <4> QED  BY <4>1, <4>2
    <3> QED  BY <3>1
  <2>2. CASE t = s
    BY <2>2, <1>8
  <2>3. CASE t # s /\ L = {}
    BY <2>1, <2>3, <1>8, <1>3
  <2>4. CASE t # s /\ L # {} /\ tail < t
    BY <2>1, <2>4, <1>8, <1>3, <1>q
  <2>5. CASE t # s /\ L # {} /\ ~(tail < t)
    <3>t. tail \in L /\ tail \in Nat /\ t <= tail /\ tail < s /\ s \in Nat
      <4>1. tail \in L /\ tail < s /\ ~ (tail < t)
        BY <2>5, <1>2, <1>h, Zenon
      <4>2. tail \in Nat /\ s \in Nat
        BY <4>1, <1>q
      <4> QED  BY <2>1, <4>1, <4>2
    <3>1. b \in L
      <4>1. b <= tail /\ b # s
        BY <2>1, <3>t
      <4>2. b \notin skipped
        BY <4>1, <2>1, <3>t, <1>3
      <4> QED  BY <4>1, <4>2, <1>8
    <3>2. t \in b..tail /\ tail \in L
      BY <2>1, <3>t
    <3>3. t \in L
      BY <3>1, <3>2, <1>q DEF Unbroken, L
    <3> QED  BY <3>3, <1>8
  <2> QED  BY <2>2, <2>3, <2>4, <2>5
<1>10. NodesStart(k)
  <2>1. k.first \subseteq Listed(k) /\ k.rel \subseteq Listed(k)
    BY <1>7, <1>8, <1>f, <1>r, <1>q DEF NodesStart, L
  <2>2. ASSUME NEW t \in Listed(k), t \in k.rel \/ t - 1 \in k.rel \/ t - 1 \notin Listed(k)
        PROVE  t \in f
    <3>1. CASE t = s
      BY <3>1, <1>f
    <3>2. CASE t \in skipped
      <4>1. t \in Nat /\ tail < t /\ t < s /\ tail \in L /\ L # {} /\ tail \in Nat
        BY <3>2, <1>3, <1>2, <1>q
      <4>2. t \notin L
        BY <3>2, <1>3
      <4>3. t \notin q.rel /\ t # s /\ t - 1 # s
        BY <4>1, <4>2, <1>q DEF NodesStart, L
      <4>4. CASE t - 1 = tail
        <5>1. t - 1 \in q.rel
          BY <2>2, <4>3, <4>4, <4>1, <1>7, <1>8, <1>r
        <5>2. tail + 1 = t
          BY <4>1, <4>4
        <5> QED  BY <5>1, <5>2, <4>4, <3>2, <1>f
      <4>5. CASE t - 1 # tail
        <5>1. t - 1 \in skipped
          <6>1. t - 1 \in Nat /\ tail < t - 1 /\ t - 1 < s
            BY <4>1, <4>5, <1>q
          <6> QED  BY <6>1, <4>1, <1>3
        <5>2. t - 1 \in Listed(k) /\ t - 1 \notin q.rel
          BY <5>1, <1>8, <1>3, <1>q DEF NodesStart, L
        <5> QED  BY <5>2, <2>2, <4>3, <1>7, <1>r
      <4> QED  BY <4>4, <4>5
    <3>3. CASE t \in L
      <4>1. t # s /\ t < s /\ t \in Nat /\ s \in Nat
        BY <3>3, <1>h, <1>3, <1>q
      <4>2. t \in q.rel \/ t - 1 \in q.rel \/ t - 1 \notin L
        BY <2>2, <4>1, <1>7, <1>8, <1>r, <1>q
      <4>3. t \in q.first
        BY <3>3, <4>2, <1>q DEF NodesStart, L
      <4> QED  BY <4>3, <1>f
    <3> QED  BY <3>1, <3>2, <3>3, <1>8
  <2> QED  BY <2>1, <2>2, <1>7 DEF NodesStart
<1>11. Uniform(k)
  <2> SUFFICES ASSUME NEW t \in Listed(k), t \notin f PROVE a[t] = a[t - 1]
    BY <1>7 DEF Uniform
  <2>0. t # s
    BY <1>f
  <2>1. CASE t \in skipped
    <3>1. t \in Nat /\ tail < t /\ t < s /\ tail \in L /\ tail \in Nat
      BY <2>1, <1>3, <1>2, <1>q
    <3>2. CASE t - 1 = tail
      <4>1. tail + 1 = t
        BY <3>1, <3>2
      <4>2. tail \notin q.rel
        BY <4>1, <2>1, <1>f
      <4>3. a[tail] = q.state[tail]
        BY <3>1, <1>3, <1>5, <1>q
      <4> QED  BY <2>1, <3>2, <4>2, <4>3, <1>5, <1>x
    <3>3. CASE t - 1 # tail
      <4>1. t - 1 \in skipped
        <5>1. t - 1 \in Nat /\ tail < t - 1 /\ t - 1 < s
          BY <3>1, <3>3, <1>q
        <5> QED  BY <5>1, <3>1, <1>3
      <4> QED  BY <4>1, <2>1, <1>5
    <3> QED  BY <3>2, <3>3
  <2>2. CASE t \in L
    <3>1. t \notin q.first
      BY <1>f
    <3>2. q.state[t] = q.state[t - 1] /\ t - 1 \in L
      BY <2>2, <3>1, <1>q DEF Uniform, NodesStart, L
    <3> QED  BY <2>2, <3>2, <1>3, <1>5, <1>q
  <2> QED  BY <2>0, <2>1, <2>2, <1>8
<1>12. ChangesInv(k)
  BY <1>7, <1>9, <1>10, <1>11, <1>f, <1>r, <1>q DEF ChangesInv
<1>13. Reachable(q) => Reachable(k)
  <2> SUFFICES ASSUME Reachable(q), u # Freed, NEW t \in r, a[t] = Unsent PROVE u # Null /\ u <= t
    BY <1>7 DEF Reachable
  <2>1. CASE t = s
    <3>1. u # Null
      BY <1>r, Numbers
    <3>2. u \in Snr => u <= s
      <4>1. \A v \in q.first : v < s
        BY <1>h, <1>q DEF NodesStart, L
      <4> QED  BY <4>1, <1>r, <1>q, Numbers
    <3> QED  BY <2>1, <3>1, <3>2, <1>r, <1>q, Numbers
  <2>2. CASE t # s
    <3>1. t \in q.rel /\ t \in L /\ q.state[t] = Unsent
      BY <2>2, <1>r, <1>3, <1>5, <1>q DEF NodesStart, L
    <3>2. q.unsent # Null /\ q.unsent <= t
      BY <3>1, <1>r, Numbers DEF Reachable
    <3> QED  BY <3>2, <1>r
  <2> QED  BY <2>1, <2>2
<1>14. \A t \in Listed(k) : t <= s
  BY <1>8, <1>3, <1>h, <1>q, Numbers
<1>15. NothingAsked(q, k)
  <2> SUFFICES ASSUME NEW t \in Snr, a[t] = Requested PROVE \E v \in Snr : q.state[v] = Requested
    BY <1>7 DEF NothingAsked
  <2>1. CASE t \in skipped
    BY <2>1, <1>2, <1>3, <1>5, <1>x, <1>q, StatesDiffer
  <2>2. CASE t \notin skipped
    BY <2>2, <1>5, StatesDiffer
  <2> QED  BY <2>1, <2>2
<1> QED  BY <1>7, <1>12, <1>13, <1>14, <1>15, <1>r
\* The invariant of a list, one fact at a time.
LEMMA ListFacts ==
    ASSUME NEW q, ChangesInv(q)
    PROVE  /\ q \in ChangesType
           /\ q.state \in [Snr -> States] /\ q.rel \in SUBSET Snr /\ q.first \in SUBSET Snr
           /\ q.towire \in SUBSET Snr /\ q.unsent \in 0..MaxSnr + 1
           /\ Listed(q) \in SUBSET Snr
           /\ \A t \in Snr : t \in Listed(q) <=> q.state[t] # None
           /\ \A t \in Listed(q) : t \in Snr /\ t \in Nat /\ 1 <= t /\ t <= MaxSnr
           /\ \A b, e \in Listed(q), t \in Nat : b <= t /\ t <= e => t \in Listed(q)
           /\ \A t \in q.first : t \in Listed(q)
           /\ \A t \in q.rel : t \in Listed(q) /\ t \in q.first
           /\ \A t \in Listed(q) : t - 1 \in q.rel => t \in q.first
           /\ \A t \in Listed(q) : t - 1 \notin Listed(q) => t \in q.first
           /\ \A t \in Listed(q) : t \notin q.first => t - 1 \in Listed(q) /\ q.state[t] = q.state[t - 1]
           /\ q.unsent = Null \/ q.unsent = Freed \/ q.unsent \in q.first
           /\ q.unsent # Null /\ q.unsent # Freed => q.unsent \in q.first
<1>1. /\ q \in ChangesType /\ Unbroken(q) /\ NodesStart(q) /\ Uniform(q)
      /\ q.unsent \in q.first \cup {Null, Freed}
  BY DEF ChangesInv
<1>2. /\ q.state \in [Snr -> States] /\ q.rel \in SUBSET Snr /\ q.first \in SUBSET Snr
      /\ q.towire \in SUBSET Snr /\ q.unsent \in 0..MaxSnr + 1
      /\ Listed(q) \in SUBSET Snr
      /\ \A s : s \in Listed(q) <=> s \in Snr /\ q.state[s] # None
  BY <1>1, ListFields
<1>3. \A t \in Listed(q) : t \in Snr /\ t \in Nat /\ 1 <= t /\ t <= MaxSnr
  BY <1>2, Numbers
<1>4. \A b, e \in Listed(q), t \in Nat : b <= t /\ t <= e => t \in Listed(q)
  <2> TAKE b, e \in Listed(q), t \in Nat
  <2> HAVE b <= t /\ t <= e
  <2>1. t \in b..e
    BY <1>3
  <2> QED  BY <2>1, <1>1 DEF Unbroken
<1>5. /\ \A t \in q.first : t \in Listed(q)
      /\ \A t \in q.rel : t \in Listed(q) /\ t \in q.first
      /\ \A t \in Listed(q) : t - 1 \in q.rel => t \in q.first
      /\ \A t \in Listed(q) : t - 1 \notin Listed(q) => t \in q.first
  BY <1>1, Zenon DEF NodesStart
<1>6. \A t \in Listed(q) : t \notin q.first => t - 1 \in Listed(q) /\ q.state[t] = q.state[t - 1]
  BY <1>1, <1>5, Zenon DEF Uniform
<1> QED  BY <1>1, <1>2, <1>3, <1>4, <1>5, <1>6

\* The other way round.
LEMMA ListBuild ==
    ASSUME NEW k \in ChangesType,
           \A b, e \in Listed(k), t \in Nat : b <= t /\ t <= e => t \in Listed(k),
           k.first \subseteq Listed(k), k.rel \subseteq Listed(k),
           \A t \in Listed(k) : t \in k.rel \/ t - 1 \in k.rel \/ t - 1 \notin Listed(k) => t \in k.first,
           \A t \in Listed(k) : t \notin k.first => k.state[t] = k.state[t - 1],
           k.unsent = Null \/ k.unsent = Freed \/ k.unsent \in k.first
    PROVE  ChangesInv(k)
<1>1. Unbroken(k)
  <2> SUFFICES ASSUME NEW b \in Listed(k), NEW e \in Listed(k), NEW t \in b..e PROVE t \in Listed(k)
    BY DEF Unbroken
  <2>1. b \in Nat /\ e \in Nat
    BY ListFields, Numbers
  <2>2. t \in Nat /\ b <= t /\ t <= e
    BY <2>1
  <2> QED  BY <2>2
<1> QED  BY <1>1 DEF ChangesInv, NodesStart, Uniform
\* Where the gap in front of a sample starts, and what lies behind it.
LEMMA GapBefore ==
    ASSUME NEW q, ChangesInv(q), NEW s \in q.rel, NEW p, p = s - 1, p \in Listed(q), p \notin q.rel
    PROVE  /\ NodeStart(q, p) \in q.first /\ NodeStart(q, p) \in Nat /\ NodeStart(q, p) < s
           /\ \A t \in q.rel : t < s => t < NodeStart(q, p)
<1> DEFINE n == NodeStart(q, p)
<1>1. n \in q.first /\ n <= p /\ \A f \in q.first : f <= p => f <= n
  BY NodeFacts
<1> HIDE DEF n
<1>2. n \in Listed(q) /\ n \in Nat /\ p \in Nat /\ s \in Nat /\ s \in Listed(q)
  BY <1>1, ListFacts
<1>3. ASSUME NEW t \in q.rel, t < s PROVE t < n
  <2>1. t \in q.first /\ t \in Listed(q) /\ t \in Nat
    BY ListFacts
  <2>2. t <= n
    BY <2>1, <1>1, <1>2, <1>3
  <2>3. t + 1 \in q.first
    <3>1. t + 1 \in Nat /\ t <= t + 1 /\ t + 1 <= s /\ (t + 1) - 1 = t
      BY <2>1, <1>2, <1>3
    <3>2. t + 1 \in Listed(q)
      BY <3>1, <2>1, <1>2, ListFacts
    <3> QED  BY <3>1, <3>2, ListFacts
  <2>4. t # p
    OBVIOUS
  <2>5. t + 1 <= p
    BY <2>1, <2>4, <1>2, <1>3
  <2>6. t + 1 <= n
    BY <2>3, <2>5, <1>1
  <2> QED  BY <2>1, <2>6, <1>2
<1>4. n < s
  BY <1>1, <1>2
<1> QED  BY <1>1, <1>2, <1>3, <1>4 DEF n

\* The number behind s, if there is one.
LEMMA NextNumber ==
    ASSUME NEW q, ChangesInv(q), NEW s \in Listed(q)
    PROVE  /\ s + 1 \in Listed(q) => MinOr({t \in Listed(q) : t > s}, Null) = s + 1
           /\ s + 1 \notin Listed(q) => MinOr({t \in Listed(q) : t > s}, Null) = Null
<1> DEFINE R == {t \in Listed(q) : t > s}
<1>1. /\ Listed(q) \in SUBSET Snr /\ s \in Nat /\ \A t \in Listed(q) : t \in Nat
      /\ \A b, e \in Listed(q), t \in Nat : b <= t /\ t <= e => t \in Listed(q)
  BY ListFacts
<1>2. ASSUME NEW t \in R PROVE s + 1 \in Listed(q) /\ s + 1 <= t
  <2>1. s + 1 \in Nat /\ s <= s + 1 /\ s + 1 <= t
    BY <1>1
  <2> QED  BY <2>1, <1>1
<1>3. CASE R = {}
  <2>1. s + 1 \notin Listed(q)
    BY <1>3, <1>1
  <2> QED  BY <2>1, <1>3 DEF MinOr
<1>4. CASE R # {}
  <2>1. R \in SUBSET Snr
    BY <1>1
  <2>2. s + 1 \in R
    <3>1. s + 1 \in Listed(q)
      BY <1>2, <1>4
    <3> QED  BY <3>1, <1>1
  <2> HIDE DEF R
  <2>3. Min(R) \in R /\ \A t \in R : Min(R) <= t
    BY <1>4, <2>1, SnrMin
  <2>4. Min(R) <= s + 1 /\ s + 1 <= Min(R) /\ Min(R) \in Nat
    <3>1. Min(R) \in Snr
      BY <2>1, <2>3
    <3> QED  BY <3>1, <2>2, <2>3, <1>2, Numbers
  <2>5. Min(R) = s + 1
    BY <2>4, <1>1
  <2>6. MinOr(R, Null) = s + 1
    BY <2>5, <1>4 DEF MinOr
  <2>7. s + 1 \in Listed(q)
    BY <2>2, <1>2
  <2> QED  BY <2>6, <2>7 DEF R
<1> QED  BY <1>3, <1>4

\* Turning a sample into a gap (sfw_rel_rem_change) keeps the list well formed and its unsent
\* samples reachable.
LEMMA RemoveSampleInv ==
    ASSUME NEW q, ChangesInv(q), NEW s \in q.rel, NEW k, k = RemoveSample(q, s)
    PROVE  /\ ChangesInv(k) /\ (Reachable(q) => Reachable(k)) /\ k.rel = q.rel \ {s}
           /\ Listed(k) \subseteq Listed(q)
           /\ NothingAsked(q, k)
<1> DEFINE L == Listed(q)
           next == MinOr({t \in L : t > s}, Null)
           nextGap == next # Null /\ next \notin q.rel
           prevGap == s - 1 \in L /\ s - 1 \notin q.rel
           start == IF prevGap THEN NodeStart(q, s - 1) ELSE s
           x == IF nextGap THEN q.state[next]
                ELSE IF prevGap THEN q.state[s - 1] ELSE q.state[s]
           r == q.rel \ {s}
           head == {t \in L : \A v \in r : t < v}
           y == IF q.unsent = s THEN MinOr({t \in r : t > s}, Null)
                ELSE IF nextGap /\ prevGap /\ q.unsent = start THEN Freed
                ELSE IF nextGap /\ q.unsent = next THEN start
                ELSE q.unsent
           a == [t \in Snr |-> IF t \in head THEN None
                               ELSE IF start <= t /\ t <= s THEN x
                               ELSE q.state[t]]
           f == ((q.first \ {s, next}) \cup {start}
                    \cup (IF nextGap THEN {} ELSE {next} \cap Snr)) \ head
           w == q.towire \ {s}
           u == IF y \in head THEN Freed ELSE y
<1>1. k = [state |-> a, rel |-> r, first |-> f, towire |-> w, unsent |-> u]
  BY DEF RemoveSample
<1>q. /\ q.state \in [Snr -> States] /\ q.rel \in SUBSET Snr /\ q.first \in SUBSET Snr
      /\ q.towire \in SUBSET Snr /\ q.unsent \in 0..MaxSnr + 1
      /\ L \in SUBSET Snr
      /\ \A t \in Snr : t \in L <=> q.state[t] # None
      /\ \A t \in L : t \in Snr /\ t \in Nat /\ 1 <= t /\ t <= MaxSnr
      /\ \A b, e \in L, t \in Nat : b <= t /\ t <= e => t \in L
      /\ \A t \in q.first : t \in L
      /\ \A t \in q.rel : t \in L /\ t \in q.first
      /\ \A t \in L : t - 1 \in q.rel => t \in q.first
      /\ \A t \in L : t - 1 \notin L => t \in q.first
      /\ \A t \in L : t \notin q.first => t - 1 \in L /\ q.state[t] = q.state[t - 1]
      /\ q.unsent = Null \/ q.unsent = Freed \/ q.unsent \in q.first
  BY ListFacts
<1>s. s \in L /\ s \in Nat /\ s \in q.first /\ s \in Snr
  BY <1>q
<1>n. (s + 1 \in L => next = s + 1) /\ (s + 1 \notin L => next = Null)
  BY <1>s, NextNumber
<1>p. prevGap => /\ start \in q.first /\ start \in Nat /\ start < s
                 /\ \A t \in q.rel : t < s => t < start
  BY GapBefore
<1>2. /\ start \in q.first /\ start \in Nat /\ start <= s /\ start \in L
      /\ \A t \in q.rel : t < s => t < start
      /\ ~ prevGap => start = s
  BY <1>p, <1>s, <1>q
<1>3. /\ nextGap => s + 1 \in L /\ s + 1 \notin q.rel /\ next = s + 1 /\ x = q.state[s + 1]
      /\ s + 1 \in L /\ ~ nextGap => next = s + 1 /\ s + 1 \in q.rel /\ s + 1 \in q.first
      /\ s + 1 \notin L => next = Null
  BY <1>n, <1>s, <1>q, Numbers
<1>4. \E t \in L : x = q.state[t]
  BY <1>n, <1>s
<1>b. nextGap \in BOOLEAN /\ prevGap \in BOOLEAN
  OBVIOUS
<1>g. prevGap <=> s - 1 \in L /\ s - 1 \notin q.rel
  OBVIOUS
<1> HIDE DEF L, next, nextGap, prevGap, start, x
<1>h. /\ head \in SUBSET L /\ r = q.rel \ {s}
      /\ \A t \in L : t \in head <=> \A v \in r : t < v
      /\ \A t \in r : t \in L /\ t \notin head
  <2>1. \A t \in r : ~ (t < t)
    BY <1>q
  <2> QED  BY <2>1, <1>q
<1>y. /\ q.unsent = s => y = MinOr({t \in r : t > s}, Null)
      /\ q.unsent # s /\ nextGap /\ prevGap /\ q.unsent = start => y = Freed
      /\ q.unsent # s /\ ~ (prevGap /\ q.unsent = start) /\ nextGap /\ q.unsent = next => y = start
      /\ q.unsent # s /\ ~ (nextGap /\ prevGap /\ q.unsent = start) /\ ~ (nextGap /\ q.unsent = next) => y = q.unsent
  BY <1>b
<1> HIDE DEF r
<1> HIDE DEF head
<1>5. /\ a \in [Snr -> States]
      /\ \A t \in head : a[t] = None
      /\ \A t \in L \ head : start <= t /\ t <= s => a[t] = x
      /\ \A t \in Snr \ head : ~ (start <= t /\ t <= s) => a[t] = q.state[t]
      /\ \A t \in Snr \ L : a[t] = None
  <2>1. x \in States
    BY <1>4, <1>q
  <2>2. ASSUME NEW t \in Snr, start <= t, t <= s PROVE t \in L
    <3>1. t \in Nat
      BY Numbers
    <3> QED  BY <3>1, <2>2, <1>2, <1>s, <1>q
  <2>3. \A t \in Snr \ L : q.state[t] = None /\ t \notin head
    BY <1>q, <1>h
  <2>4. head \in SUBSET Snr
    BY <1>h, <1>q
  <2>5. \A t \in Snr : a[t] \in States
    BY <2>1, <1>q, StatesDiffer
  <2>6. a \in [Snr -> States]
    BY <2>5
  <2> QED  BY <2>2, <2>3, <2>4, <2>6, <1>q
<1>f. /\ f \in SUBSET (L \ head)
      /\ start \notin head => start \in f
      /\ \A t \in q.first : t \notin head /\ t # s /\ t # s + 1 => t \in f
      /\ s + 1 \in L /\ s + 1 \notin head /\ ~ nextGap => s + 1 \in f
  <2>1. ~ nextGap /\ next \in Snr => next \in L
    BY <1>3, Numbers
  <2>2. \A t \in q.first : t # s + 1 => t # next
    BY <1>3, <1>q, Numbers
  <2> QED  BY <2>1, <2>2, <1>2, <1>3, <1>q, <1>b
<1> HIDE DEF a, f
<1>r. r \in SUBSET Snr /\ w \in SUBSET Snr
  BY <1>h, <1>q
<1>u. u = IF y \in head THEN Freed ELSE y
  OBVIOUS
<1> HIDE DEF y, w, u
<1>m. q.unsent = s => \/ y = Null /\ \A t \in r : ~ (t > s)
                      \/ y \in r /\ y > s /\ \A t \in r : t > s => y <= t
  <2> DEFINE M == {t \in r : t > s}
  <2>1. M \in SUBSET Snr
    BY <1>r
  <2>2. M # {} => Min(M) \in M /\ \A t \in M : Min(M) <= t
    <3> HIDE DEF M
    <3> QED  BY <2>1, SnrMin
  <2> QED  BY <2>2, <1>y DEF MinOr
<1>z. y = Null \/ y = Freed \/ y \in head \/ y \in f
  <2> SUFFICES ASSUME y # Null, y # Freed, y \notin head PROVE y \in f
    OBVIOUS
  <2>1. CASE q.unsent = s
    <3>1. y \in r /\ y \in q.rel /\ y # s
      BY <2>1, <1>m, <1>h
    <3>2. y \in q.first /\ y \in L
      BY <3>1, <1>q
    <3>3. y = s + 1 => ~ nextGap
      BY <3>1, <1>3
    <3> QED  BY <3>1, <3>2, <3>3, <1>f
  <2>2. CASE q.unsent # s /\ y = start
    BY <2>2, <1>f
  <2>3. CASE q.unsent # s /\ y # start
    <3>1. y = q.unsent /\ ~ (nextGap /\ q.unsent = next)
      BY <2>3, <1>y, <1>b
    <3>2. y \in q.first /\ y \in L
      BY <3>1, <1>q
    <3>3. y = s + 1 => ~ nextGap
      BY <3>1, <3>2, <1>3
    <3> QED  BY <2>3, <3>1, <3>2, <3>3, <1>f
  <2> QED  BY <2>1, <2>2, <2>3
<1>7. /\ k \in ChangesType /\ k.state = a /\ k.rel = r /\ k.first = f /\ k.unsent = u
  <2>1. f \in SUBSET Snr
    BY <1>f, <1>q
  <2>2. u \in 0..MaxSnr + 1
    <3>1. Null \in 0..MaxSnr + 1 /\ Freed \in 0..MaxSnr + 1 /\ \A t \in Snr : t \in 0..MaxSnr + 1
      BY Numbers
    <3> QED  BY <1>z, <1>u, <2>1, <3>1
  <2> QED  BY <1>1, <1>5, <1>r, <2>1, <2>2, ListRecord
<1>8. \A t : t \in Listed(k) <=> t \in L /\ t \notin head
  <2>1. \A t : t \in Listed(k) <=> t \in Snr /\ a[t] # None
    BY <1>7, ListFields
  <2>2. ASSUME NEW t \in L, t \notin head PROVE a[t] # None
    <3>1. CASE start <= t /\ t <= s
      BY <3>1, <2>2, <1>4, <1>5, <1>q
    <3>2. CASE ~ (start <= t /\ t <= s)
      BY <3>2, <2>2, <1>5, <1>q
    <3> QED  BY <3>1, <3>2
  <2> QED  BY <2>1, <2>2, <1>5, <1>q
\* The head that is left is a sample.
<1>9. ASSUME NEW t \in L, t \notin head, NEW p, p = t - 1, p \in head PROVE t \in r
  <2>1. PICK v \in r : ~ (t < v)
    BY <1>9, <1>h
  <2>2. p < v /\ v \in Nat /\ t \in Nat
    BY <1>9, <1>h, <1>q
  <2>3. t = v
    BY <2>1, <2>2, <1>9
  <2> QED  BY <2>3
<1>10. ASSUME NEW b \in Listed(k), NEW e \in Listed(k), NEW t \in Nat, b <= t, t <= e PROVE t \in Listed(k)
  <2>1. b \in L /\ e \in L /\ t \in L /\ b \notin head
    BY <1>8, <1>10, <1>q
  <2>2. PICK v \in r : ~ (b < v)
    BY <2>1, <1>h
  <2>3. ~ (t < v)
    <3>1. b \in Nat /\ v \in Nat
      BY <2>1, <1>q, <1>h
    <3> QED  BY <3>1, <2>2, <1>10
  <2> QED  BY <2>1, <2>3, <1>8, <1>h
<1>11. f \subseteq Listed(k) /\ r \subseteq Listed(k)
  BY <1>f, <1>h, <1>8
<1>12. ASSUME NEW t \in Listed(k), t \in r \/ t - 1 \in r \/ t - 1 \notin Listed(k) PROVE t \in f
  <2>1. t \in L /\ t \notin head /\ t \in Nat
    BY <1>8, <1>q
  <2>2. CASE t \in r
    <3>1. t \in q.rel /\ t # s /\ t \in q.first
      BY <2>2, <1>h, <1>q
    <3>2. t = s + 1 => ~ nextGap
      BY <3>1, <1>3
    <3> QED  BY <2>1, <3>1, <3>2, <1>f
  <2>3. CASE t - 1 \in r
    <3>1. t - 1 \in q.rel /\ t - 1 # s
      BY <2>3, <1>h
    <3>2. t \in q.first /\ t # s + 1
      BY <2>1, <3>1, <1>q, <1>s
    <3>3. t = s => start = s
      BY <3>1, <1>2, <1>g
    <3> QED  BY <2>1, <3>2, <3>3, <1>f
  <2>4. CASE t - 1 \notin L
    <3>1. t \in q.first /\ t # s + 1
      <4>1. t = s + 1 => t - 1 = s
        BY <1>s
      <4> QED  BY <4>1, <2>1, <2>4, <1>q, <1>s
    <3>2. t = s => start = s
      BY <2>4, <1>2, <1>g
    <3> QED  BY <2>1, <3>1, <3>2, <1>f
  <2>5. CASE t - 1 \in head
    BY <2>1, <2>5, <2>2, <1>9
  <2> QED  BY <2>2, <2>3, <2>4, <2>5, <1>8, <1>12
<1>13. ASSUME NEW t \in Listed(k), t \notin f PROVE a[t] = a[t - 1]
  <2>1. t \in L /\ t \notin head /\ t \in Nat /\ t \in Snr
    BY <1>8, <1>q
  <2>2. t - 1 \in Listed(k)
    BY <1>12, <1>13
  <2>3. t - 1 \in L /\ t - 1 \notin head /\ t - 1 \in Snr /\ t - 1 \in Nat
    BY <2>2, <1>8, <1>q
  <2>4. t # start
    BY <1>13, <1>f, <2>1
  <2>5. CASE start <= t /\ t <= s
    <3>1. start <= t - 1 /\ t - 1 <= s
      BY <2>1, <2>4, <2>5, <1>2, <1>s
    <3> QED  BY <2>1, <2>3, <2>5, <3>1, <1>5
  <2>6. CASE t = s + 1
    <3>1. nextGap
      BY <2>6, <2>1, <1>13, <1>f, <1>b
    <3>2. t - 1 = s /\ start <= s /\ s <= s /\ ~ (t <= s)
      BY <2>6, <1>s, <1>2
    <3>3. a[t - 1] = x
      BY <3>2, <2>3, <1>5
    <3>4. a[t] = q.state[t]
      BY <3>2, <2>1, <1>5
    <3> QED  BY <3>1, <3>3, <3>4, <1>3, <2>6
  <2>7. CASE ~ (start <= t /\ t <= s) /\ t # s + 1
    <3>1. ~ (start <= t - 1 /\ t - 1 <= s) /\ t # s
      BY <2>7, <2>1, <1>s, <1>2
    <3>2. t \notin q.first
      BY <3>1, <2>7, <2>1, <1>13, <1>f
    <3>3. q.state[t] = q.state[t - 1]
      BY <3>2, <2>1, <1>q
    <3> QED  BY <3>1, <3>3, <2>7, <2>1, <2>3, <1>5
  <2> QED  BY <2>5, <2>6, <2>7
<1>14. u = Null \/ u = Freed \/ u \in f
  BY <1>z, <1>u
<1>15. ChangesInv(k)
  BY <1>7, <1>10, <1>11, <1>12, <1>13, <1>14, ListBuild
<1>16. Reachable(q) => Reachable(k)
  <2> SUFFICES ASSUME Reachable(q), u # Freed, NEW t \in r, a[t] = Unsent PROVE u # Null /\ u <= t
    BY <1>7 DEF Reachable
  <2>1. t \in q.rel /\ t # s /\ t \in L /\ t \notin head /\ t \in Snr /\ t \in Nat
    BY <1>h, <1>q
  <2>2. ~ (start <= t /\ t <= s)
    <3> SUFFICES ASSUME start <= t, t <= s PROVE FALSE
      OBVIOUS
    <3>1. t < s
      BY <2>1, <1>s
    <3>2. t < start
      BY <2>1, <3>1, <1>2
    <3> QED  BY <3>2, <2>1, <1>2
  <2>3. q.state[t] = Unsent
    BY <2>1, <2>2, <1>5
  <2>4. u = y /\ y # Freed
    BY <1>u
  <2>5. q.unsent # Freed
    <3> SUFFICES ASSUME q.unsent = Freed PROVE y = q.unsent
      BY <2>4
    <3>1. q.unsent # s /\ q.unsent # start /\ q.unsent # next
      BY <1>s, <1>2, <1>3, <1>q, Numbers
    <3> QED  BY <3>1, <1>y, <1>b
  <2>6. q.unsent # Null /\ q.unsent <= t /\ q.unsent \in Nat
    <3>1. q.unsent # Null /\ q.unsent <= t
      BY <2>1, <2>3, <2>5 DEF Reachable
    <3> QED  BY <3>1, <2>5, <1>q
  <2>7. CASE q.unsent = s
    <3>1. t > s
      BY <2>1, <2>6, <2>7, <1>s
    <3>2. y \in r /\ y <= t
      BY <3>1, <2>7, <1>m
    <3> QED  BY <3>2, <2>4, <1>r, Numbers
  <2>8. CASE q.unsent # s /\ y = start
    <3>1. start # Null
      BY <1>2, <1>q, Numbers
    <3>2. start <= t
      <4>1. (nextGap /\ q.unsent = next) \/ y = q.unsent
        BY <2>8, <2>4, <1>y, <1>b
      <4>2. nextGap /\ q.unsent = next => s + 1 <= t
        BY <2>6, <1>3
      <4> QED  BY <4>1, <4>2, <2>6, <2>8, <2>1, <1>2, <1>s
    <3> QED  BY <3>1, <3>2, <2>8, <2>4
  <2>9. CASE q.unsent # s /\ y # start
    <3>1. y = q.unsent
      BY <2>9, <2>4, <1>y, <1>b
    <3> QED  BY <3>1, <2>4, <2>6
  <2> QED  BY <2>7, <2>8, <2>9
<1>17. NothingAsked(q, k)
  <2> SUFFICES ASSUME NEW t \in Snr, a[t] = Requested PROVE \E v \in Snr : q.state[v] = Requested
    BY <1>7 DEF NothingAsked
  <2>1. t \in L /\ t \notin head
    BY <1>5, StatesDiffer
  <2>2. CASE start <= t /\ t <= s
    BY <2>1, <2>2, <1>4, <1>5, <1>q
  <2>3. CASE ~ (start <= t /\ t <= s)
    BY <2>1, <2>3, <1>5
  <2> QED  BY <2>2, <2>3
<1>18. Listed(k) \subseteq L
  BY <1>8
<1> QED  BY <1>7, <1>15, <1>16, <1>17, <1>18, <1>h DEF L

\* The list a proxy builds from the cache when it starts is well formed and holds exactly the
\* cache.
LEMMA ReplayInv ==
    ASSUME NEW cache \in SUBSET Snr, NEW k, k = Replay(cache)
    PROVE  /\ ChangesInv(k) /\ Reachable(k) /\ k.rel = cache
           /\ \A b \in Nat : (\A c \in cache : c <= b) => \A t \in Listed(k) : t <= b
           /\ \A t \in Snr : k.state[t] # Requested
<1>1. CASE cache = {}
  <2>1. k = EmptyList
    BY <1>1 DEF Replay
  <2> QED  BY <2>1, <1>1, EmptyListInv, StatesDiffer
<1>2. CASE cache # {}
  <2> DEFINE lo == Min(cache)
             hi == Max(cache)
             all == lo..hi
             a == [s \in Snr |-> IF s \in all THEN Unsent ELSE None]
             f == {s \in all : s \in cache \/ s - 1 \in cache}
  <2>1. k = [state |-> a, rel |-> cache, first |-> f, towire |-> cache, unsent |-> lo]
    BY <1>2 DEF Replay
  <2>2. /\ lo \in cache /\ hi \in cache
        /\ \A c \in cache : lo <= c /\ c <= hi
    BY <1>2, SnrMin, SnrMax
  <2> HIDE DEF lo, hi
  <2>n. /\ lo \in Nat /\ hi \in Nat /\ 1 <= lo /\ hi <= MaxSnr /\ MaxSnr \in Nat
        /\ \A c \in cache : c \in Nat /\ c \in Snr
    BY <2>2, Numbers
  <2>3. /\ \A t : t \in all <=> t \in Nat /\ lo <= t /\ t <= hi
        /\ all \in SUBSET Snr
        /\ cache \subseteq all
    <3>1. \A t : t \in all <=> t \in Nat /\ lo <= t /\ t <= hi
      BY <2>n
    <3>2. ASSUME NEW t \in all PROVE t \in Snr
      BY <3>1, <2>n, Numbers
    <3> HIDE DEF all
    <3> QED  BY <3>1, <3>2, <2>2, <2>n
  <2> HIDE DEF all
  <2>4. /\ a \in [Snr -> States] /\ \A t \in Snr : a[t] = IF t \in all THEN Unsent ELSE None
    BY StatesDiffer
  <2>f. f \in SUBSET all /\ \A t \in all : t \in f <=> t \in cache \/ t - 1 \in cache
    OBVIOUS
  <2> HIDE DEF a, f
  <2>5. k \in ChangesType /\ k.state = a /\ k.rel = cache /\ k.first = f /\ k.unsent = lo
    <3>1. f \in SUBSET Snr /\ lo <= hi
      BY <2>f, <2>3, <2>2
    <3>2. lo \in 0..MaxSnr + 1
      BY <3>1, <2>n
    <3> QED  BY <2>1, <2>4, <3>1, <3>2, ListRecord
  <2>6. \A t : t \in Listed(k) <=> t \in all
    <3>1. \A t : t \in Listed(k) <=> t \in Snr /\ a[t] # None
      BY <2>5, ListFields
    <3> QED  BY <3>1, <2>3, <2>4, StatesDiffer
  <2>7. ASSUME NEW b \in Listed(k), NEW e \in Listed(k), NEW t \in Nat, b <= t, t <= e PROVE t \in Listed(k)
    <3>1. b \in Nat /\ e \in Nat /\ lo <= b /\ e <= hi
      BY <2>6, <2>3
    <3>2. lo <= t /\ t <= hi
      BY <3>1, <2>7, <2>n
    <3> QED  BY <3>2, <2>6, <2>3
  <2>8. ASSUME NEW t \in Listed(k), t \in cache \/ t - 1 \in cache \/ t - 1 \notin Listed(k) PROVE t \in f
    <3>1. t \in all /\ t \in Nat /\ lo <= t /\ t <= hi
      BY <2>6, <2>3
    <3>2. CASE t = lo
      BY <3>1, <3>2, <2>2, <2>f
    <3>3. CASE t # lo
      <4>1. t - 1 \in Nat /\ lo <= t - 1 /\ t - 1 <= hi
        BY <3>1, <3>3, <2>n
      <4>2. t - 1 \in Listed(k)
        BY <4>1, <2>3, <2>6
      <4> QED  BY <4>2, <3>1, <2>8, <2>f
    <3> QED  BY <3>2, <3>3
  <2>9. ASSUME NEW t \in Listed(k), t \notin f PROVE a[t] = a[t - 1]
    <3>1. t - 1 \in Listed(k)
      BY <2>8, <2>9
    <3> QED  BY <3>1, <2>6, <2>3, <2>4
  <2>10. f \subseteq Listed(k) /\ cache \subseteq Listed(k) /\ lo \in f
    BY <2>f, <2>3, <2>6, <2>2
  <2>11. ChangesInv(k)
    BY <2>5, <2>7, <2>8, <2>9, <2>10, ListBuild
  <2>12. Reachable(k)
    BY <2>5, <2>2, <2>n, Numbers DEF Reachable
  <2>13. ASSUME NEW b \in Nat, \A c \in cache : c <= b, NEW t \in Listed(k) PROVE t <= b
    <3>1. t \in Nat /\ t <= hi /\ hi <= b
      BY <2>6, <2>3, <2>2, <2>13
    <3> QED  BY <3>1, <2>n
  <2>14. \A t \in Snr : k.state[t] # Requested
    BY <2>4, <2>5, StatesDiffer
  <2> QED  BY <2>5, <2>11, <2>12, <2>13, <2>14
<1> QED  BY <1>1, <1>2

\* Freeing the acknowledged nodes at the head of the list keeps the rest of it well formed.
LEMMA DropPrefixInv ==
    ASSUME NEW q, ChangesInv(q), NEW gone, gone = AckedPrefix(q), NEW k, k = DropPrefix(q, gone)
    PROVE  /\ ChangesInv(k) /\ (Reachable(q) => Reachable(k)) /\ k.rel = q.rel \ gone
           /\ Listed(k) \subseteq Listed(q)
           /\ gone \subseteq Listed(q)
           /\ NothingAsked(q, k)
           /\ Listed(k) = {} => \A t \in Snr : k.state[t] # Requested
<1> DEFINE L == Listed(q)
           left == L \ gone
           a == [s \in Snr |-> IF s \in gone THEN None ELSE q.state[s]]
           r == q.rel \ gone
           f == q.first \ gone
           w == q.towire \ gone
           u == IF q.unsent \in gone THEN MinOr(left, Null) ELSE q.unsent
<1>1. k = [state |-> a, rel |-> r, first |-> f, towire |-> w, unsent |-> u]
  BY DEF DropPrefix
<1>q. /\ q.state \in [Snr -> States] /\ q.rel \in SUBSET Snr /\ q.first \in SUBSET Snr
      /\ q.towire \in SUBSET Snr /\ q.unsent \in 0..MaxSnr + 1
      /\ L \in SUBSET Snr
      /\ \A t \in Snr : t \in L <=> q.state[t] # None
      /\ \A t \in L : t \in Snr /\ t \in Nat /\ 1 <= t /\ t <= MaxSnr
      /\ \A b, e \in L, t \in Nat : b <= t /\ t <= e => t \in L
      /\ \A t \in q.first : t \in L
      /\ \A t \in q.rel : t \in L /\ t \in q.first
      /\ \A t \in L : t - 1 \in q.rel => t \in q.first
      /\ \A t \in L : t - 1 \notin L => t \in q.first
      /\ \A t \in L : t \notin q.first => t - 1 \in L /\ q.state[t] = q.state[t - 1]
      /\ q.unsent = Null \/ q.unsent = Freed \/ q.unsent \in q.first
  BY ListFacts
<1>g. /\ gone \in SUBSET L
      /\ \A t \in L : t \in gone <=> \A v \in L : v <= t => q.state[v] = Acked
  BY DEF AckedPrefix
<1> HIDE DEF L
<1>2. /\ a \in [Snr -> States] /\ \A t \in gone : a[t] = None
      /\ \A t \in Snr \ gone : a[t] = q.state[t]
  BY <1>g, <1>q, StatesDiffer
<1>3. r \in SUBSET Snr /\ f \in SUBSET Snr /\ w \in SUBSET Snr
  BY <1>q
<1>r. r = q.rel \ gone /\ f = q.first \ gone /\ left = L \ gone
      /\ u = IF q.unsent \in gone THEN MinOr(left, Null) ELSE q.unsent
  OBVIOUS
<1>4. left \in SUBSET Snr
  BY <1>q
<1> HIDE DEF left
<1>5. q.unsent \in gone => \/ u = Null /\ left = {}
                           \/ u \in left /\ \A t \in left : u <= t
  BY <1>4, SnrMin DEF MinOr
<1> HIDE DEF a, r, f, w, u
<1>6. k \in ChangesType /\ k.state = a /\ k.rel = r /\ k.first = f /\ k.unsent = u
  <2>1. u \in 0..MaxSnr + 1
    <3>1. Null \in 0..MaxSnr + 1 /\ \A t \in Snr : t \in 0..MaxSnr + 1
      BY Numbers
    <3> QED  BY <3>1, <1>5, <1>r, <1>4, <1>q
  <2> QED  BY <1>1, <1>2, <1>3, <2>1, ListRecord
<1>7. \A t : t \in Listed(k) <=> t \in L /\ t \notin gone
  <2>1. \A t : t \in Listed(k) <=> t \in Snr /\ a[t] # None
    BY <1>6, ListFields
  <2> QED  BY <2>1, <1>2, <1>g, <1>q
\* What is acknowledged does not end inside of a node.
<1>8. ASSUME NEW t \in L, t \notin gone, NEW p, p = t - 1, p \in gone PROVE t \in q.first
  <2> SUFFICES ASSUME t \notin q.first PROVE FALSE
    OBVIOUS
  <2>1. p \in L /\ q.state[t] = q.state[p] /\ p \in Nat /\ t \in Nat
    BY <1>8, <1>q
  <2>2. \A v \in L : v <= p => q.state[v] = Acked
    BY <2>1, <1>8, <1>g
  <2>3. q.state[p] = Acked
    BY <2>1, <2>2
  <2>4. ASSUME NEW v \in L, v <= t PROVE q.state[v] = Acked
    <3>1. v \in Nat /\ (v <= p \/ v = t)
      BY <2>1, <2>4, <1>8, <1>q
    <3> QED  BY <3>1, <2>1, <2>2, <2>3
  <2> QED  BY <2>4, <1>8, <1>g
<1>9. ASSUME NEW b \in Listed(k), NEW e \in Listed(k), NEW t \in Nat, b <= t, t <= e PROVE t \in Listed(k)
  <2>1. b \in L /\ e \in L /\ t \in L /\ b \notin gone
    BY <1>7, <1>9, <1>q
  <2>2. PICK v \in L : v <= b /\ q.state[v] # Acked
    BY <2>1, <1>g
  <2>3. v <= t
    <3>1. b \in Nat /\ v \in Nat
      BY <2>1, <1>q
    <3> QED  BY <3>1, <2>2, <1>9
  <2> QED  BY <2>1, <2>2, <2>3, <1>7, <1>g
<1>10. f \subseteq Listed(k) /\ r \subseteq Listed(k)
  BY <1>7, <1>r, <1>q
<1>11. ASSUME NEW t \in Listed(k), t \in r \/ t - 1 \in r \/ t - 1 \notin Listed(k) PROVE t \in f
  <2>1. t \in L /\ t \notin gone
    BY <1>7
  <2>2. t \in q.rel \/ t - 1 \in q.rel \/ t - 1 \notin L \/ t - 1 \in gone
    BY <1>11, <1>7, <1>r
  <2>3. t \in q.first
    BY <2>1, <2>2, <1>8, <1>q
  <2> QED  BY <2>1, <2>3, <1>r
<1>12. ASSUME NEW t \in Listed(k), t \notin f PROVE a[t] = a[t - 1]
  <2>1. t - 1 \in Listed(k)
    BY <1>11, <1>12
  <2>2. t \in L /\ t \notin gone /\ t - 1 \in L /\ t - 1 \notin gone /\ t \notin q.first
    BY <2>1, <1>7, <1>12, <1>r
  <2> QED  BY <2>2, <1>2, <1>q
<1>13. u = Null \/ u = Freed \/ u \in f
  <2>1. CASE q.unsent \in gone
    <3> SUFFICES ASSUME u \in left, \A t \in left : u <= t PROVE u \in f
      BY <2>1, <1>5
    <3>1. u \in Listed(k) /\ u \in Nat /\ \A t \in Listed(k) : t \in Nat /\ u <= t
      BY <1>7, <1>r, <1>q
    <3>2. u - 1 \notin Listed(k)
      BY <3>1
    <3> QED  BY <3>1, <3>2, <1>11
  <2>2. CASE q.unsent \notin gone
    BY <2>2, <1>r, <1>q
  <2> QED  BY <2>1, <2>2
<1>14. ChangesInv(k)
  BY <1>6, <1>9, <1>10, <1>11, <1>12, <1>13, ListBuild
<1>15. Reachable(q) => Reachable(k)
  <2> SUFFICES ASSUME Reachable(q), u # Freed, NEW t \in r, a[t] = Unsent PROVE u # Null /\ u <= t
    BY <1>6 DEF Reachable
  <2>1. t \in q.rel /\ t \notin gone /\ t \in left /\ q.state[t] = Unsent
    BY <1>r, <1>2, <1>q
  <2>2. CASE q.unsent \in gone
    <3>1. u \in left /\ u <= t
      BY <2>1, <2>2, <1>5
    <3> QED  BY <3>1, <1>4, Numbers
  <2>3. CASE q.unsent \notin gone
    BY <2>1, <2>3, <1>r DEF Reachable
  <2> QED  BY <2>2, <2>3
<1>16. NothingAsked(q, k)
  BY <1>2, <1>6, StatesDiffer DEF NothingAsked
<1>17. Listed(k) \subseteq L /\ gone \subseteq L
  BY <1>7, <1>g
<1>18. ASSUME Listed(k) = {}, NEW t \in Snr PROVE k.state[t] # Requested
  <2>1. k.state[t] = None
    BY <1>18, <1>6, ListFields
  <2> QED  BY <2>1, StatesDiffer
<1> QED  BY <1>6, <1>14, <1>15, <1>16, <1>17, <1>18, <1>r DEF L

\* Adding a gap for numbers the cache skipped keeps the list well formed.
LEMMA ImplicitGapInv ==
    ASSUME NEW q, ChangesInv(q), NEW from \in Nat, NEW to \in Snr, from < to,
           Listed(q) # {} => from = Max(Listed(q)) + 1,
           NEW k, k = AddImplicitGap(q, from, to)
    PROVE  /\ ChangesInv(k) /\ (Reachable(q) => Reachable(k)) /\ k.rel = q.rel
           /\ \A t \in Listed(k) : t \in Listed(q) \/ t <= to
           /\ NothingAsked(q, k)
<1> DEFINE L == Listed(q)
           tail == Max(L)
           join == L # {} /\ tail \notin q.rel /\ q.state[tail] = Unsent
           start == IF join THEN NodeStart(q, tail) ELSE Max({from, 1})
           a == [s \in Snr |-> IF from <= s /\ s <= to THEN Unsent ELSE q.state[s]]
           f == q.first \cup {start}
           u == IF q.unsent = Null /\ ~ join THEN start ELSE q.unsent
<1>1. k = [q EXCEPT !.state = a, !.first = f, !.unsent = u]
  BY DEF AddImplicitGap
<1>q. /\ q.state \in [Snr -> States] /\ q.rel \in SUBSET Snr /\ q.first \in SUBSET Snr
      /\ q.towire \in SUBSET Snr /\ q.unsent \in 0..MaxSnr + 1
      /\ L \in SUBSET Snr
      /\ \A t \in Snr : t \in L <=> q.state[t] # None
      /\ \A t \in L : t \in Snr /\ t \in Nat /\ 1 <= t /\ t <= MaxSnr
      /\ \A b, e \in L, t \in Nat : b <= t /\ t <= e => t \in L
      /\ \A t \in q.first : t \in L
      /\ \A t \in q.rel : t \in L /\ t \in q.first
      /\ \A t \in L : t - 1 \in q.rel => t \in q.first
      /\ \A t \in L : t - 1 \notin L => t \in q.first
      /\ \A t \in L : t \notin q.first => t - 1 \in L /\ q.state[t] = q.state[t - 1]
      /\ q.unsent = Null \/ q.unsent = Freed \/ q.unsent \in q.first
  BY ListFacts
<1>ty. q \in ChangesType
  BY DEF ChangesInv
<1>2. L # {} => tail \in L /\ (\A t \in L : t <= tail) /\ from = tail + 1
  BY <1>q, SnrMax
<1>j. /\ join => start \in q.first
      /\ ~ join => start = Max({from, 1})
      /\ join <=> L # {} /\ tail \notin q.rel /\ q.state[tail] = Unsent
  BY <1>2, NodeFacts
<1>m. Max({from, 1}) = IF from = 0 THEN 1 ELSE from
  <2> DEFINE T == {from, 1}
  <2>1. T \in SUBSET Nat /\ T # {} /\ from + 1 \in Nat /\ \A t \in T : t <= from + 1
    OBVIOUS
  <2>2. from \in T /\ 1 \in T /\ \A t \in T : t = from \/ t = 1
    OBVIOUS
  <2> HIDE DEF T
  <2>3. Max(T) \in T /\ \A t \in T : t <= Max(T)
    BY <2>1, MaxProps
  <2>4. from <= Max(T) /\ 1 <= Max(T) /\ (Max(T) = from \/ Max(T) = 1)
    BY <2>2, <2>3
  <2>5. Max(T) = IF from = 0 THEN 1 ELSE from
    BY <2>4
  <2> QED  BY <2>5 DEF T
<1> HIDE DEF L, tail, join, start
<1>t. to \in Nat /\ 1 <= to /\ to <= MaxSnr /\ MaxSnr \in Nat
  BY Numbers
<1>n. \A t \in L : t \in Nat /\ t < from
  BY <1>2, <1>q
<1>3. ~ join => /\ start \in Nat /\ start \in Snr /\ from <= start /\ start <= to
                /\ (start = from \/ (start = 1 /\ from = 0))
  <2>1. CASE from = 0
    BY <2>1, <1>j, <1>m, <1>t, Numbers
  <2>2. CASE from # 0
    <3>1. from <= MaxSnr /\ 1 <= from
      BY <2>2, <1>t
    <3> QED  BY <3>1, <2>2, <1>j, <1>m, <1>t, Numbers
  <2> QED  BY <2>1, <2>2
<1>4. /\ a \in [Snr -> States]
      /\ \A t \in Snr : from <= t /\ t <= to => a[t] = Unsent
      /\ \A t \in Snr : ~ (from <= t /\ t <= to) => a[t] = q.state[t]
      /\ \A t \in L : a[t] = q.state[t]
  <2>1. \A t \in L : ~ (from <= t /\ t <= to) /\ t \in Snr
    BY <1>n, <1>q
  <2> QED  BY <2>1, <1>q, StatesDiffer
<1>f. f = q.first \cup {start} /\ u = IF q.unsent = Null /\ ~ join THEN start ELSE q.unsent
  OBVIOUS
<1> HIDE DEF a, f, u
<1>5. f \in SUBSET Snr /\ u \in 0..MaxSnr + 1
  <2>1. start \in Snr /\ start \in 0..MaxSnr + 1
    BY <1>3, <1>j, <1>q, Numbers
  <2> QED  BY <2>1, <1>f, <1>q
<1>6. k \in ChangesType /\ k.state = a /\ k.rel = q.rel /\ k.first = f /\ k.unsent = u
  BY <1>1, <1>4, <1>5, <1>ty DEF ChangesType
<1>7. \A t : t \in Listed(k) <=> t \in L \/ (t \in Snr /\ from <= t /\ t <= to)
  <2>1. \A t : t \in Listed(k) <=> t \in Snr /\ a[t] # None
    BY <1>6, ListFields
  <2> QED  BY <2>1, <1>4, <1>q, StatesDiffer
<1>8. ASSUME NEW b \in Listed(k), NEW e \in Listed(k), NEW t \in Nat, b <= t, t <= e PROVE t \in Listed(k)
  <2>0. b \in Nat /\ e \in Nat /\ 1 <= b /\ e <= MaxSnr
    BY <1>7, <1>q, Numbers
  <2>1. t \in Snr
    BY <2>0, <1>8, <1>t, Numbers
  <2>2. e <= to
    BY <2>0, <1>7, <1>n, <1>t
  <2>3. CASE from <= t
    BY <2>0, <2>1, <2>2, <2>3, <1>7, <1>8, <1>t
  <2>4. CASE t < from
    <3>1. b \in L
      BY <2>0, <2>4, <1>7, <1>8
    <3>2. tail \in L /\ t <= tail
      BY <3>1, <2>4, <1>2, <1>q
    <3> QED  BY <3>1, <3>2, <1>7, <1>8, <1>q
  <2> QED  BY <2>3, <2>4
<1>9. f \subseteq Listed(k) /\ q.rel \subseteq Listed(k)
  BY <1>7, <1>f, <1>q, <1>3, <1>j
<1>10. ASSUME NEW t \in Listed(k), t \in q.rel \/ t - 1 \in q.rel \/ t - 1 \notin Listed(k) PROVE t \in f
  <2>1. CASE t \in L
    BY <2>1, <1>10, <1>7, <1>f, <1>q
  <2>2. CASE t \notin L
    <3>1. t \in Snr /\ t \in Nat /\ from <= t /\ t <= to /\ t \notin q.rel /\ 1 <= t
      BY <2>2, <1>7, <1>q, Numbers
    <3>2. CASE t - 1 \in q.rel
      <4>1. L # {} /\ t - 1 \in L /\ t - 1 < from
        BY <3>2, <1>q, <1>n
      <4>2. t = from /\ tail = t - 1 /\ ~ join
        <5>1. t = from
          BY <4>1, <3>1
        <5>2. from = tail + 1 /\ tail \in Nat
          BY <4>1, <1>2, <1>q
        <5> QED  BY <5>1, <5>2, <3>2, <1>j
      <4> QED  BY <4>2, <3>1, <1>3, <1>f
    <3>3. CASE t - 1 \notin Listed(k)
      <4>1. t = from \/ (t = 1 /\ from = 0)
        <5> SUFFICES ASSUME t # from, ~ (t = 1 /\ from = 0) PROVE FALSE
          OBVIOUS
        <5>1. t - 1 \in Nat /\ 1 <= t - 1 /\ t - 1 <= MaxSnr /\ from <= t - 1 /\ t - 1 <= to
          BY <3>1, <1>t
        <5> QED  BY <5>1, <3>3, <1>7, Numbers
      <4>2. L = {}
        <5> SUFFICES ASSUME L # {} PROVE t - 1 \in L
          BY <3>3, <1>7
        <5>1. tail \in L /\ from = tail + 1 /\ tail \in Nat
          BY <1>2, <1>q
        <5>2. t - 1 = tail
          BY <5>1, <4>1
        <5> QED  BY <5>1, <5>2
      <4>3. (start = from \/ (start = 1 /\ from = 0)) /\ start \in Nat /\ 1 <= start
        BY <4>2, <1>3, <1>j, Numbers
      <4>4. t = start
        BY <4>1, <4>3, <3>1
      <4> QED  BY <4>4, <1>f
    <3> QED  BY <3>1, <3>2, <3>3, <1>10
  <2> QED  BY <2>1, <2>2
<1>11. ASSUME NEW t \in Listed(k), t \notin f PROVE a[t] = a[t - 1]
  <2>1. t - 1 \in Listed(k)
    BY <1>10, <1>11
  <2>2. CASE t \in L
    <3>1. t \notin q.first
      BY <1>11, <1>f
    <3> QED  BY <2>2, <3>1, <1>4, <1>q
  <2>3. CASE t \notin L /\ t - 1 \notin L
    BY <2>1, <2>3, <1>7, <1>4
  <2>4. CASE t \notin L /\ t - 1 \in L
    <3>1. L # {} /\ t \in Snr /\ t \in Nat /\ from <= t /\ t <= to /\ t - 1 < from
      BY <2>4, <1>7, <1>n, Numbers
    <3>2. tail \in Nat /\ from = tail + 1
      BY <3>1, <1>2, <1>q
    <3>3. t = from /\ tail = t - 1
      BY <3>1, <3>2
    <3>4. join
      <4> SUFFICES ASSUME ~ join PROVE FALSE
        OBVIOUS
      <4>1. start = from
        BY <3>2, <1>3
      <4> QED  BY <4>1, <3>3, <1>11, <1>f
    <3> QED  BY <3>1, <3>3, <3>4, <2>4, <1>4, <1>j
  <2> QED  BY <2>2, <2>3, <2>4
<1>12. u = Null \/ u = Freed \/ u \in f
  BY <1>f, <1>q
<1>13. ChangesInv(k)
  BY <1>6, <1>8, <1>9, <1>10, <1>11, <1>12, ListBuild
<1>14. Reachable(q) => Reachable(k)
  <2> SUFFICES ASSUME Reachable(q), u # Freed, NEW t \in q.rel, a[t] = Unsent PROVE u # Null /\ u <= t
    BY <1>6 DEF Reachable
  <2>1. q.state[t] = Unsent
    BY <1>4, <1>q
  <2>2. q.unsent # Null \/ q.unsent = Freed
    BY <2>1 DEF Reachable
  <2>3. u = q.unsent
    BY <2>2, <1>f, Numbers
  <2> QED  BY <2>1, <2>3 DEF Reachable
<1>15. NothingAsked(q, k)
  <2>1. \A t \in Snr : a[t] = Requested => q.state[t] = Requested
    BY <1>4, StatesDiffer
  <2> QED  BY <2>1, <1>6 DEF NothingAsked
<1> QED  BY <1>6, <1>7, <1>13, <1>14, <1>15 DEF L

\* List k is q with state new for the numbers in todo.
Restated(q, todo, new, k) ==
    /\ k \in ChangesType /\ k.rel = q.rel /\ k.first = q.first
    /\ \A t \in todo : k.state[t] = new
    /\ \A t \in Snr \ todo : k.state[t] = q.state[t]

\* What a repair or a restart does to the states of nodes.
LEMMA RestateInv ==
    ASSUME NEW q, ChangesInv(q), NEW todo \in SUBSET Listed(q), NEW new \in States \ {None},
           \A t \in Listed(q) \ q.first : t \in todo <=> t - 1 \in todo,
           NEW k, Restated(q, todo, new, k),
           k.unsent = Null \/ k.unsent = Freed \/ k.unsent \in q.first
    PROVE  ChangesInv(k) /\ Listed(k) = Listed(q)
<1> DEFINE L == Listed(q)
<1>k. /\ k \in ChangesType /\ k.rel = q.rel /\ k.first = q.first
      /\ \A t \in todo : k.state[t] = new
      /\ \A t \in Snr \ todo : k.state[t] = q.state[t]
  BY DEF Restated
<1>q. /\ L \in SUBSET Snr
      /\ \A t \in Snr : t \in L <=> q.state[t] # None
      /\ \A b, e \in L, t \in Nat : b <= t /\ t <= e => t \in L
      /\ \A t \in q.first : t \in L
      /\ \A t \in q.rel : t \in L /\ t \in q.first
      /\ \A t \in L : t - 1 \in q.rel => t \in q.first
      /\ \A t \in L : t - 1 \notin L => t \in q.first
      /\ \A t \in L : t \notin q.first => t - 1 \in L /\ q.state[t] = q.state[t - 1]
  BY ListFacts
<1>h. \A t \in L \ q.first : t \in todo <=> t - 1 \in todo
  OBVIOUS
<1>t. todo \in SUBSET L
  OBVIOUS
<1> HIDE DEF L
<1>4. Listed(k) = L
  <2>1. \A t : t \in Listed(k) <=> t \in Snr /\ k.state[t] # None
    BY <1>k, ListFields
  <2>2. \A t : t \in Listed(k) <=> t \in L
    BY <2>1, <1>k, <1>q, <1>t
  <2> QED  BY <2>2, Zenon
<1>5. ASSUME NEW t \in L, t \notin q.first PROVE k.state[t] = k.state[t - 1]
  <2>1. t - 1 \in L /\ q.state[t] = q.state[t - 1] /\ (t \in todo <=> t - 1 \in todo)
    BY <1>5, <1>q, <1>h
  <2> QED  BY <2>1, <1>k, <1>q
<1>6. ChangesInv(k)
  <2>1. /\ \A b, e \in Listed(k), t \in Nat : b <= t /\ t <= e => t \in Listed(k)
        /\ k.first \subseteq Listed(k) /\ k.rel \subseteq Listed(k)
        /\ \A t \in Listed(k) : t \in k.rel \/ t - 1 \in k.rel \/ t - 1 \notin Listed(k) => t \in k.first
    BY <1>4, <1>k, <1>q
  <2>2. \A t \in Listed(k) : t \notin k.first => k.state[t] = k.state[t - 1]
    BY <1>4, <1>5, <1>k
  <2>3. k.unsent = Null \/ k.unsent = Freed \/ k.unsent \in k.first
    BY <1>k
  <2> QED  BY <2>1, <2>2, <2>3, <1>k, ListBuild
<1> QED  BY <1>4, <1>6 DEF L

\* Sending makes the numbers in todo CS_UNDERWAY.
LEMMA SentInv ==
    ASSUME NEW q, ChangesInv(q), NEW todo \in SUBSET Listed(q),
           \A t \in Listed(q) \ q.first : t \in todo <=> t - 1 \in todo,
           NEW k, Restated(q, todo, Underway, k), k.unsent = Null \/ k.unsent = q.unsent,
           k.unsent = Null /\ Reachable(q) => \A t \in q.rel : q.state[t] = Unsent => t \in todo
    PROVE  /\ ChangesInv(k) /\ (Reachable(q) => Reachable(k)) /\ k.rel = q.rel /\ Listed(k) = Listed(q)
           /\ \A t \in Snr : k.state[t] = Requested => q.state[t] = Requested /\ t \notin todo
<1>q. /\ q.unsent = Null \/ q.unsent = Freed \/ q.unsent \in q.first
      /\ q.rel \in SUBSET Snr /\ Listed(q) \in SUBSET Snr
  BY ListFacts
<1>1. /\ k \in ChangesType /\ k.rel = q.rel /\ k.first = q.first
      /\ \A t \in todo : k.state[t] = Underway
      /\ \A t \in Snr \ todo : k.state[t] = q.state[t]
      /\ Underway \in States \ {None}
  BY StatesDiffer DEF Restated
<1>2. k.unsent = Null \/ k.unsent = Freed \/ k.unsent \in q.first
  BY <1>q
<1>4. ChangesInv(k) /\ Listed(k) = Listed(q)
  <2>1. Underway \in States \ {None}
    BY <1>1
  <2> QED  BY <1>2, <2>1, RestateInv
<1>5. Reachable(q) => Reachable(k)
  <2> SUFFICES ASSUME Reachable(q), k.unsent # Freed, NEW t \in q.rel, k.state[t] = Unsent
               PROVE  k.unsent # Null /\ k.unsent <= t
    BY <1>1 DEF Reachable
  <2>1. t \notin todo /\ q.state[t] = Unsent
    BY <1>1, <1>q, StatesDiffer
  <2>2. k.unsent # Null /\ k.unsent = q.unsent
    BY <2>1
  <2> QED  BY <2>1, <2>2 DEF Reachable
<1>6. \A t \in Snr : k.state[t] = Requested => q.state[t] = Requested /\ t \notin todo
  BY <1>1, <1>q, StatesDiffer
<1> QED  BY <1>1, <1>4, <1>5, <1>6

\* A restart for a volatile reader makes what was sent CS_UNSENT again.
LEMMA RestartListInv ==
    ASSUME NEW q, ChangesInv(q), NEW k, k = RestartList(q)
    PROVE  /\ ChangesInv(k) /\ k.rel = q.rel /\ Listed(k) = Listed(q)
           /\ \A t \in Snr : k.state[t] # Requested
<1> DEFINE again == {s \in Listed(q) : q.state[s] \in {Requested, Underway}}
           u == MinOr(again, Null)
           a == [s \in Snr |-> IF s \in again THEN Unsent ELSE q.state[s]]
           h == [q EXCEPT !.state = a, !.towire = q.towire, !.unsent = u]
<1>q. /\ q \in ChangesType /\ q.state \in [Snr -> States] /\ Listed(q) \in SUBSET Snr
      /\ \A t \in Snr : t \in Listed(q) <=> q.state[t] # None
      /\ \A t \in Listed(q) : t \in Nat
      /\ \A t \in Listed(q) : t \notin q.first => t - 1 \in Listed(q) /\ q.state[t] = q.state[t - 1]
      /\ q.towire \in SUBSET Snr
  BY ListFacts
<1>1. k = h
  <2>1. [q EXCEPT !.state = [s \in Snr |-> IF s \in again THEN Unsent ELSE q.state[s]], !.unsent = u] = h
    BY <1>q DEF ChangesType
  <2> QED  BY <2>1 DEF RestartList
<1>2. \A t \in Listed(q) \ q.first : t \in again <=> t - 1 \in again
  BY <1>q
<1>3. again \in SUBSET Listed(q) /\ again \in SUBSET Snr
  BY <1>q
<1>a. \A t \in Snr : q.state[t] = Requested => t \in again
  BY <1>q, StatesDiffer
<1> HIDE DEF again
<1>4. u = Null \/ (u \in again /\ \A t \in again : u <= t)
  BY <1>3, SnrMin DEF MinOr
<1> HIDE DEF u
<1>5. u = Null \/ u \in q.first
  <2> SUFFICES ASSUME u \in again, u \notin q.first, \A t \in again : u <= t PROVE FALSE
    BY <1>4
  <2>1. u - 1 \in again /\ u \in Nat
    BY <1>2, <1>3, <1>q
  <2>2. u <= u - 1
    BY <2>1
  <2> QED  BY <2>1, <2>2
<1>6. u \in 0..MaxSnr + 1
  <2>1. u = Null \/ u \in Snr
    BY <1>3, <1>4
  <2> QED  BY <2>1, Numbers
<1>7. Restated(q, again, Unsent, h) /\ h.unsent = u
  <2>1. Unsent \in States /\ again \in SUBSET Snr /\ q \in ChangesType /\ q.towire \in SUBSET Snr
    BY StatesDiffer, <1>q, <1>3
  <2>2. a \in [Snr -> States] /\ (\A t \in again : a[t] = Unsent) /\ \A t \in Snr \ again : a[t] = q.state[t]
    BY <2>1, <1>q
  <2> HIDE DEF a
  <2>3. h \in ChangesType /\ h.state = a /\ h.rel = q.rel /\ h.first = q.first /\ h.unsent = u
    BY <1>6, <2>1, <2>2 DEF ChangesType
  <2> HIDE DEF h
  <2> QED  BY <2>2, <2>3 DEF Restated
<1> HIDE DEF h
<1>8. /\ k \in ChangesType /\ k.rel = q.rel /\ k.first = q.first
      /\ \A t \in again : k.state[t] = Unsent
      /\ \A t \in Snr \ again : k.state[t] = q.state[t]
      /\ Unsent \in States \ {None}
      /\ k.unsent = Null \/ k.unsent = Freed \/ k.unsent \in q.first
  BY <1>1, <1>5, <1>7, StatesDiffer DEF Restated
<1>9. ChangesInv(k) /\ Listed(k) = Listed(q)
  <2>1. Restated(q, again, Unsent, k)
    BY <1>1, <1>7
  <2>2. Unsent \in States \ {None}
    BY <1>8
  <2> QED  BY <1>2, <1>3, <1>8, <2>1, <2>2, RestateInv
<1>10. \A t \in Snr : k.state[t] # Requested
  BY <1>8, <1>a, StatesDiffer
<1> QED  BY <1>8, <1>9, <1>10
\* What the verdict on a number can be.  A gap that is requested beyond the
\* bitmap has a number in the bitmap that is requested.
LEMMA Verdict ==
    ASSUME NEW q, ChangesInv(q), NEW m \in AckNackMsg, NEW s \in Listed(q)
    PROVE  /\ AckVerdict(q, m, s) \in {Acked, Requested, q.state[s]}
           /\ AckVerdict(q, m, s) = Requested => q.state[s] = Requested \/ AckRequested(q, m) # {}
<1> DEFINE max == m.base + m.numbits
           beyond == /\ s \notin q.rel /\ m.numbits > 0
                     /\ max - 1 \in Node(q, s) /\ m.numbits - 1 \in m.bits
           asked == IF s < max THEN s - m.base \in m.bits ELSE beyond
           v == IF q.state[s] = Acked \/ s < m.base THEN Acked
                ELSE IF asked THEN Requested
                ELSE IF s < max THEN Acked ELSE q.state[s]
<1>1. AckVerdict(q, m, s) = v
  BY DEF AckVerdict
<1>m. m.base \in Nat /\ m.numbits \in Nat /\ s \in Nat
  BY ListFacts, WriterAssumption DEF AckNackMsg
<1>2. v \in {Acked, Requested, q.state[s]}
  <2> HIDE DEF asked
  <2> QED  OBVIOUS
<1>3. ASSUME v = Requested, q.state[s] # Requested PROVE AckRequested(q, m) # {}
  <2>1. q.state[s] # Acked /\ ~ (s < m.base) /\ asked
    <3> HIDE DEF asked
    <3> QED  BY <1>3, StatesDiffer
  <2>2. CASE s < max
    <3>1. s - m.base \in m.bits /\ m.base <= s
      BY <2>1, <2>2, <1>m
    <3>2. s \in AckRequested(q, m)
      BY <2>1, <2>2, <3>1 DEF AckRequested
    <3> QED  BY <3>2
  <2>3. CASE ~ (s < max)
    <3> DEFINE e == max - 1
    <3>1. e \in Node(q, s) /\ m.numbits > 0 /\ m.numbits - 1 \in m.bits
      <4>1. beyond
        BY <2>1, <2>3
      <4> QED  BY <4>1
    <3>2. e \in Listed(q) /\ NodeStart(q, e) = NodeStart(q, s)
      BY <3>1 DEF Node
    <3>3. m.base <= e /\ e < max /\ e - m.base = m.numbits - 1
      BY <1>m, <3>1
    <3> HIDE DEF e
    <3>4. q.state[e] # Acked
      <4>1. q.state[e] = q.state[NodeStart(q, e)] /\ q.state[s] = q.state[NodeStart(q, s)]
        BY <3>2, UniformNode
      <4> QED  BY <4>1, <3>2, <2>1
    <3>5. e \in AckRequested(q, m)
      BY <3>1, <3>2, <3>3, <3>4 DEF AckRequested
    <3> QED  BY <3>5
  <2> QED  BY <2>2, <2>3
<1> HIDE DEF v
<1> QED  BY <1>1, <1>2, <1>3

\* Marking what an ACKNACK acknowledges and asks for keeps the list well formed.
LEMMA AckListInv ==
    ASSUME NEW q, ChangesInv(q), NEW m \in AckNackMsg, NEW k, k = AckList(q, m)
    PROVE  /\ ChangesInv(k) /\ (Reachable(q) => Reachable(k)) /\ k.rel = q.rel /\ Listed(k) = Listed(q)
           /\ \A t \in Snr : k.state[t] = Requested =>
                  q.state[t] = Requested \/ AckRequested(q, m) # {}
<1> DEFINE L == Listed(q)
           a == [s \in Snr |-> IF s \in L THEN AckVerdict(q, m, s) ELSE None]
           new == {s \in L \ q.rel : s - 1 \in L /\ AckVerdict(q, m, s) # AckVerdict(q, m, s - 1)}
           f == q.first \cup new
           w == q.towire \cup (AckRequested(q, m) \cap q.rel)
<1>1. k = [q EXCEPT !.state = a, !.first = f, !.towire = w]
  BY DEF AckList
<1>q. /\ q.state \in [Snr -> States] /\ q.rel \in SUBSET Snr /\ q.first \in SUBSET Snr
      /\ q.towire \in SUBSET Snr /\ q.unsent \in 0..MaxSnr + 1 /\ q \in ChangesType
      /\ L \in SUBSET Snr
      /\ \A t \in Snr : t \in L <=> q.state[t] # None
      /\ \A b, e \in L, t \in Nat : b <= t /\ t <= e => t \in L
      /\ \A t \in q.first : t \in L
      /\ \A t \in q.rel : t \in L /\ t \in q.first
      /\ \A t \in L : t - 1 \in q.rel => t \in q.first
      /\ \A t \in L : t - 1 \notin L => t \in q.first
      /\ q.unsent = Null \/ q.unsent = Freed \/ q.unsent \in q.first
  BY ListFacts
<1>v. \A t \in L : /\ AckVerdict(q, m, t) \in {Acked, Requested, q.state[t]}
                   /\ AckVerdict(q, m, t) = Requested => q.state[t] = Requested \/ AckRequested(q, m) # {}
  BY Verdict
<1> HIDE DEF L
<1>2. /\ a \in [Snr -> States] /\ \A t \in Snr \ L : a[t] = None
      /\ \A t \in L : a[t] = AckVerdict(q, m, t) /\ a[t] # None
  <2>1. \A t \in L : AckVerdict(q, m, t) \in States /\ AckVerdict(q, m, t) # None
    BY <1>v, <1>q, StatesDiffer
  <2> QED  BY <2>1, <1>q, StatesDiffer
<1>3. /\ f \in SUBSET L /\ q.first \subseteq f /\ w \in SUBSET Snr /\ f \in SUBSET Snr
      /\ \A t \in L : t \notin f => t \notin q.rel /\ t - 1 \in L /\ AckVerdict(q, m, t) = AckVerdict(q, m, t - 1)
  BY <1>q
<1> HIDE DEF a, f, w
<1>4. k \in ChangesType /\ k.state = a /\ k.rel = q.rel /\ k.first = f /\ k.unsent = q.unsent
  BY <1>1, <1>2, <1>3, <1>q DEF ChangesType
<1>5. Listed(k) = L
  <2>1. \A t : t \in Listed(k) <=> t \in Snr /\ a[t] # None
    BY <1>4, ListFields
  <2>2. \A t : t \in Listed(k) <=> t \in L
    BY <2>1, <1>2, <1>q
  <2> QED  BY <2>2, Zenon
<1>6. ChangesInv(k)
  <2>1. \A b, e \in Listed(k), t \in Nat : b <= t /\ t <= e => t \in Listed(k)
    BY <1>5, <1>q
  <2>2. k.first \subseteq Listed(k) /\ k.rel \subseteq Listed(k)
    BY <1>3, <1>4, <1>5, <1>q
  <2>3. \A t \in Listed(k) : t \in k.rel \/ t - 1 \in k.rel \/ t - 1 \notin Listed(k) => t \in k.first
    BY <1>3, <1>4, <1>5, <1>q
  <2>4. \A t \in Listed(k) : t \notin k.first => k.state[t] = k.state[t - 1]
    BY <1>2, <1>3, <1>4, <1>5
  <2>5. k.unsent = Null \/ k.unsent = Freed \/ k.unsent \in k.first
    BY <1>3, <1>4, <1>q
  <2> QED  BY <1>4, <2>1, <2>2, <2>3, <2>4, <2>5, ListBuild
<1>7. Reachable(q) => Reachable(k)
  <2> SUFFICES ASSUME Reachable(q), q.unsent # Freed, NEW t \in q.rel, a[t] = Unsent
               PROVE  q.unsent # Null /\ q.unsent <= t
    BY <1>4 DEF Reachable
  <2>1. q.state[t] = Unsent
    BY <1>2, <1>v, <1>q, StatesDiffer
  <2> QED  BY <2>1 DEF Reachable
<1>8. ASSUME NEW t \in Snr, a[t] = Requested PROVE q.state[t] = Requested \/ AckRequested(q, m) # {}
  BY <1>8, <1>2, <1>v, StatesDiffer
<1> QED  BY <1>4, <1>5, <1>6, <1>7, <1>8 DEF L
-----------------------------------------------------------------------------
(* The inductive invariant.                                                *)

Scalars ==
    /\ rr_cstate \in {"none", "ready"}
    /\ rr_tstate \in {"idle", "pushing", "announcing"}
    /\ rr_astate \in {"waiting", "repairing"}
    /\ rr_active \in BOOLEAN /\ rr_peer_alive \in BOOLEAN
    /\ rr_nack_timer \in BOOLEAN /\ rh_timer \in BOOLEAN
    /\ rr_new_snr \in 0..MaxSnr + 1
    /\ rr_last_ack \in 0..CountMod - 1
    /\ heartbeats \in 0..CountMod - 1

\* The cache and the list agree on the samples that are waited for.
Agree ==
    /\ hc_last \in 0..MaxSnr
    /\ hc_cache \subseteq Snr /\ \A s \in hc_cache : s <= hc_last
    /\ hc_wack \subseteq hc_cache
    /\ ChangesInv(rr_changes)
    /\ \A s \in Listed(rr_changes) : s <= hc_last
    /\ rr_changes.rel = hc_wack
    /\ rr_cstate = "none" => rr_changes = EmptyList

\* Something of list q is requested.
Asked(q) == \E s \in Snr : q.state[s] = Requested

\* What is requested is sent by the call that is due, or by the one that the
\* next HEARTBEAT makes due.
RepairDue ==
    Asked(rr_changes) =>
        rr_astate = "repairing" /\ (rr_active \/ (rh_timer /\ rr_tstate = "announcing"))

WriterInv == Scalars /\ Agree /\ RepairDue /\ HeartbeatSparesSamples

\* A proxy starts with the inductive invariant, its unsent samples reachable.
LEMMA InitInv == WriterInit => WriterInv /\ Reachable(rr_changes)
<1> SUFFICES ASSUME WriterInit PROVE WriterInv /\ Reachable(rr_changes)
  OBVIOUS
<1>1. /\ hc_last = 0 /\ hc_cache = {} /\ hc_wack = {} /\ rr_changes = EmptyList
      /\ rr_cstate = "none" /\ rr_sent = {}
  BY DEF WriterInit
<1>2. Scalars
  <2>1. 0 \in 0..CountMod - 1 /\ 0 \in 0..MaxSnr + 1
    BY WriterAssumption
  <2> QED  BY <2>1 DEF WriterInit, Scalars
<1>3. Agree /\ Reachable(rr_changes)
  BY <1>1, EmptyListInv, Numbers DEF Agree
<1>4. RepairDue
  BY <1>1, EmptyListInv, StatesDiffer DEF RepairDue, Asked
<1>5. HeartbeatSparesSamples
  BY <1>1 DEF HeartbeatSparesSamples
<1> QED  BY <1>2, <1>3, <1>4, <1>5 DEF WriterInv

-----------------------------------------------------------------------------
(* What is sent.                                                           *)

\* None of the submessages is a HEARTBEAT.
Quiet(msgs) == \A m \in msgs : m.type # "HB"

\* Samples and gaps on the wire are no heartbeats.
LEMMA GapsAreQuiet ==
    /\ Quiet({})
    /\ \A q, T : Quiet(GapFor(q, T))
    /\ \A q, D, T : Quiet({DataMsg(s) : s \in D} \cup GapFor(q, T))
    /\ \A m : Quiet(ImmediateGap(m))
<1>1. \A a, b, c : GapMsg(a, b, c).type # "HB"
  BY DEF GapMsg
<1>2. \A s : DataMsg(s).type # "HB"
  BY DEF DataMsg
<1>3. \A q, T : Quiet(GapFor(q, T))
  BY <1>1 DEF GapFor, Quiet
<1>4. \A m : Quiet(ImmediateGap(m))
  BY <1>1 DEF ImmediateGap, Quiet
<1>5. \A q, D, T : Quiet({DataMsg(s) : s \in D} \cup GapFor(q, T))
  BY <1>2, <1>3 DEF Quiet
<1>6. Quiet({})
  BY DEF Quiet
<1> QED  BY <1>3, <1>4, <1>5, <1>6

\* A step that sends no heartbeat cannot make one that skips a sample.
LEMMA QuietSpares ==
    ASSUME NEW msgs, Quiet(msgs), Send(msgs)
    PROVE  HeartbeatSparesSamples' /\ heartbeats' = heartbeats
BY DEF Send, Quiet, HeartbeatSparesSamples

\* The oldest sample of the cache.
LEMMA CacheMinFirst ==
    ASSUME Agree
    PROVE  CacheMin \in Nat /\ \A s \in hc_wack : CacheMin <= s
<1>1. hc_cache \in SUBSET Snr /\ hc_wack \subseteq hc_cache /\ hc_last \in Nat
  BY Numbers DEF Agree
<1>2. CASE hc_cache = {}
  BY <1>1, <1>2 DEF CacheMin, MinOr
<1>3. CASE hc_cache # {}
  <2>1. Min(hc_cache) \in hc_cache /\ \A s \in hc_cache : Min(hc_cache) <= s
    BY <1>1, <1>3, SnrMin
  <2>2. CacheMin = Min(hc_cache)
    BY <1>3 DEF CacheMin, MinOr
  <2> QED  BY <1>1, <2>1, <2>2, Numbers
<1> QED  BY <1>2, <1>3

\* A heartbeat whose first number is not after any waited-for sample skips none.
LEMMA HeartbeatSpares ==
    ASSUME NEW first, NEW last, NEW final, NEW liveliness, heartbeats \in 0..CountMod - 1,
           SendHeartbeat(first, last, final, liveliness),
           hc_wack' = hc_wack, \A s \in hc_wack : first <= s
    PROVE  HeartbeatSparesSamples' /\ heartbeats' \in 0..CountMod - 1
<1>1. rr_sent' = {HeartbeatMsg(first, last, final, liveliness)}
  BY DEF SendHeartbeat
<1>2. HeartbeatMsg(first, last, final, liveliness).first = first
  BY DEF HeartbeatMsg
<1>3. HeartbeatSparesSamples'
  BY <1>1, <1>2 DEF HeartbeatSparesSamples
<1>4. heartbeats' = (heartbeats + 1) % CountMod /\ heartbeats \in Int /\ CountMod \in Nat \ {0}
  BY WriterAssumption DEF SendHeartbeat
<1>5. heartbeats' \in 0..CountMod - 1
  BY <1>4
<1> QED  BY <1>3, <1>5
-----------------------------------------------------------------------------
(* Steps of the cache.                                                     *)

\* What leaves the cache leaves the list.
LEMMA RemoveFromListInv ==
    ASSUME Agree, NEW victim, victim = {} \/ \E c : victim = {c},
           NEW k, k = RemoveFromList(rr_changes, victim)
    PROVE  /\ ChangesInv(k) /\ (Reachable(rr_changes) => Reachable(k))
           /\ k.rel = hc_wack \ victim
           /\ Listed(k) \subseteq Listed(rr_changes)
           /\ Asked(k) => Asked(rr_changes)
<1> DEFINE q == rr_changes
<1>1. ChangesInv(q) /\ q.rel = hc_wack
  BY DEF Agree
<1>2. \A t \in hc_wack : t \in Listed(q)
  BY <1>1, ListFacts
<1>3. CASE victim = {} \/ victim \cap hc_wack \cap Listed(q) = {}
  <2>1. k = q
    BY <1>3 DEF RemoveFromList
  <2>2. hc_wack \ victim = hc_wack
    BY <1>2, <1>3
  <2> QED  BY <2>1, <2>2, <1>1
<1>4. CASE ~ (victim = {} \/ victim \cap hc_wack \cap Listed(q) = {})
  <2>1. PICK c : victim = {c}
    BY <1>4
  <2>2. (CHOOSE s \in victim : TRUE) = c
    BY <2>1
  <2>3. k = RemoveSample(q, c)
    BY <1>4, <2>2 DEF RemoveFromList
  <2>4. c \in q.rel
    BY <1>1, <1>4, <2>1
  <2> HIDE DEF q
  <2>5. /\ ChangesInv(k) /\ (Reachable(q) => Reachable(k)) /\ k.rel = q.rel \ {c}
        /\ Listed(k) \subseteq Listed(q) /\ NothingAsked(q, k)
    BY <1>1, <2>3, <2>4, RemoveSampleInv
  <2>6. Asked(k) => Asked(q)
    BY <2>5 DEF NothingAsked, Asked
  <2> QED  BY <1>1, <2>1, <2>5, <2>6 DEF q
<1> QED  BY <1>3, <1>4

\* A sample that is added removes at most one other.
LEMMA VictimIsOne ==
    ASSUME NEW victim \in Victims
    PROVE  victim = {} \/ \E c : victim = {c}
BY DEF Victims

\* Adding a sample to the cache, and removing the one it replaces, keeps the invariant.
LEMMA AddStep ==
    ASSUME WriterInv, NEW victim \in Victims, hc_add(victim)
    PROVE  WriterInv' /\ (Reachable(rr_changes) => Reachable(rr_changes'))
<1> DEFINE s == hc_last + 1
           k == RemoveFromList(rr_changes, victim)
<1>1. Scalars /\ Agree /\ RepairDue
  BY DEF WriterInv
<1>2. /\ hc_last' = s /\ hc_last < MaxSnr /\ rr_cstate' = rr_cstate /\ rr_astate' = rr_astate
      /\ Send({})
      /\ UNCHANGED <<rr_cstate, rr_astate, rr_peer_alive, rr_new_snr, rr_last_ack, rr_nack_timer>>
  BY DEF hc_add
<1>3. HeartbeatSparesSamples' /\ heartbeats' = heartbeats
  BY <1>2, GapsAreQuiet, QuietSpares
<1>4. /\ hc_last \in Nat /\ s \in Nat /\ s \in Snr /\ hc_last' \in 0..MaxSnr /\ hc_last <= s /\ hc_last < s
  BY <1>1, <1>2, Numbers DEF Agree
<1>c. /\ hc_cache \subseteq Snr /\ (\A t \in hc_cache : t <= hc_last) /\ hc_wack \subseteq hc_cache
  BY <1>1 DEF Agree
<1>l. \A t \in hc_cache : t <= s
  BY <1>4, <1>c, Numbers
<1>5. CASE rr_cstate = "ready"
  <2>1. /\ hc_cache' = (hc_cache \ victim) \cup {s}
        /\ hc_wack' = (hc_wack \ victim) \cup {s}
        /\ rr_changes' = AddSample(k, s)
        /\ StartSending
    BY <1>5 DEF hc_add
  <2>2. /\ ChangesInv(k) /\ (Reachable(rr_changes) => Reachable(k))
        /\ k.rel = hc_wack \ victim
        /\ Listed(k) \subseteq Listed(rr_changes)
        /\ Asked(k) => Asked(rr_changes)
    BY <1>1, VictimIsOne, RemoveFromListInv
  <2> HIDE DEF k
  <2>3. \A t \in Listed(k) : t < s
    <3>1. \A t \in Listed(k) : t \in Nat /\ t <= hc_last
      <4>1. \A t \in Listed(k) : t \in Nat
        BY <2>2, ListFacts
      <4> QED  BY <4>1, <2>2, <1>1 DEF Agree
    <3> QED  BY <3>1, <1>4
  <2> HIDE DEF s
  <2>4. /\ ChangesInv(rr_changes') /\ (Reachable(k) => Reachable(rr_changes'))
        /\ rr_changes'.rel = k.rel \cup {s} /\ (\A t \in Listed(rr_changes') : t <= s)
        /\ NothingAsked(k, rr_changes')
    BY <2>1, <2>2, <2>3, <1>4, AddSampleInv
  <2>5. Agree'
    <3>1. hc_cache' \subseteq Snr /\ (\A t \in hc_cache' : t <= s) /\ hc_wack' \subseteq hc_cache'
      <4>1. s <= s /\ s \in Snr
        BY <1>4
      <4>2. \A t \in hc_cache' : t = s \/ t \in hc_cache
        BY <2>1
      <4> QED  BY <4>1, <4>2, <2>1, <1>c, <1>l
    <3>2. rr_changes'.rel = hc_wack'
      BY <2>1, <2>2, <2>4
    <3>3. rr_cstate' # "none"
      BY <1>2, <1>5
    <3> QED  BY <3>1, <3>2, <3>3, <2>4, <1>2, <1>4 DEF Agree
  <2>6. Asked(rr_changes') => Asked(rr_changes)
    BY <2>2, <2>4 DEF NothingAsked, Asked
  <2>7. RepairDue'
    BY <2>1, <2>6, <1>1, <1>2 DEF RepairDue, StartSending, sfw_announce
  <2>8. Scalars'
    BY <2>1, <1>1, <1>2, <1>3 DEF Scalars, StartSending, sfw_announce
  <2> QED  BY <1>3, <2>2, <2>4, <2>5, <2>7, <2>8 DEF WriterInv
<1>6. CASE rr_cstate # "ready"
  <2>1. /\ hc_cache' = IF Durable THEN (hc_cache \ victim) \cup {s} ELSE hc_cache \ victim
        /\ UNCHANGED <<hc_wack, rr_changes, rr_tstate, rr_active, rh_timer>>
    BY <1>6 DEF hc_add
  <2>2. rr_changes = EmptyList /\ hc_wack = {}
    BY <1>1, <1>6, EmptyListInv DEF Scalars, Agree
  <2>3. hc_cache' \subseteq Snr /\ \A t \in hc_cache' : t <= s
    BY <2>1, <1>4, <1>c, <1>l
  <2> HIDE DEF s
  <2>4. Agree'
    BY <2>1, <2>2, <2>3, <1>1, <1>2, <1>4, EmptyListInv DEF Agree
  <2>5. RepairDue' /\ Scalars'
    BY <2>1, <1>1, <1>2, <1>3 DEF RepairDue, Scalars
  <2> QED  BY <2>1, <2>4, <2>5, <1>3 DEF WriterInv
<1> QED  BY <1>5, <1>6

\* The expiry of a sample keeps the invariant.
LEMMA LifespanStep ==
    ASSUME WriterInv, hc_check_lifespan
    PROVE  WriterInv' /\ (Reachable(rr_changes) => Reachable(rr_changes'))
<1> DEFINE V == {Min(hc_cache)}
<1>1. Scalars /\ Agree /\ RepairDue
  BY DEF WriterInv
<1>2. /\ hc_cache' = hc_cache \ V /\ hc_wack' = hc_wack \ V
      /\ rr_changes' = RemoveFromList(rr_changes, V)
      /\ Send({})
      /\ UNCHANGED <<hc_last, rr_cstate, rr_tstate, rr_astate, rr_active, rr_peer_alive,
                     rr_new_snr, rr_last_ack, rr_nack_timer, rh_timer>>
  BY DEF hc_check_lifespan
<1>3. HeartbeatSparesSamples' /\ heartbeats' = heartbeats
  BY <1>2, GapsAreQuiet, QuietSpares
<1>v. V = {} \/ \E c : V = {c}
  OBVIOUS
<1> HIDE DEF V
<1>4. /\ ChangesInv(rr_changes') /\ (Reachable(rr_changes) => Reachable(rr_changes'))
      /\ rr_changes'.rel = hc_wack \ V
      /\ Listed(rr_changes') \subseteq Listed(rr_changes)
      /\ Asked(rr_changes') => Asked(rr_changes)
  BY <1>1, <1>2, <1>v, RemoveFromListInv
<1>5. rr_cstate = "none" => rr_changes' = EmptyList
  <2> SUFFICES ASSUME rr_cstate = "none" PROVE rr_changes' = rr_changes /\ rr_changes = EmptyList
    OBVIOUS
  <2>1. rr_changes = EmptyList /\ hc_wack = {}
    BY <1>1, EmptyListInv DEF Agree
  <2> QED  BY <2>1, <1>2 DEF RemoveFromList
<1>6. Agree'
  BY <1>1, <1>2, <1>4, <1>5 DEF Agree
<1>7. RepairDue' /\ Scalars'
  BY <1>1, <1>2, <1>3, <1>4 DEF RepairDue, Scalars
<1> QED  BY <1>3, <1>4, <1>6, <1>7 DEF WriterInv
-----------------------------------------------------------------------------
(* Steps of sending.                                                       *)

\* Sending a set of whole nodes keeps the list well formed and leaves no unsent sample behind it.
LEMMA TransmitInv ==
    ASSUME WriterInv, NEW todo \in SUBSET Listed(rr_changes),
           \A t \in Listed(rr_changes) \ rr_changes.first : t \in todo <=> t - 1 \in todo,
           rr_tstate = "pushing" /\ Reachable(rr_changes) =>
               \A t \in rr_changes.rel : rr_changes.state[t] = Unsent => t \in todo,
           rr_tstate # "pushing" /\ Reachable(rr_changes) /\ rr_changes.unsent = Null =>
               \A t \in rr_changes.rel : rr_changes.state[t] = Unsent => t \in todo,
           Transmit(rr_changes, todo)
    PROVE  /\ ChangesInv(rr_changes') /\ (Reachable(rr_changes) => Reachable(rr_changes'))
           /\ rr_changes'.rel = rr_changes.rel /\ Listed(rr_changes') = Listed(rr_changes)
           /\ \A t \in Snr : rr_changes'.state[t] = Requested => rr_changes.state[t] = Requested /\ t \notin todo
           /\ rr_tstate' = "announcing" /\ rh_timer' = TRUE
           /\ HeartbeatSparesSamples' /\ heartbeats' = heartbeats
<1> DEFINE q == rr_changes
           data == todo \cap q.rel \cap q.towire
           gaps == {s \in todo \ q.rel : q.state[s] # Underway}
           a == [s \in Snr |-> IF s \in todo THEN Underway ELSE q.state[s]]
           w == q.towire \ data
           u == IF rr_tstate = "pushing" THEN Null ELSE q.unsent
           k == [q EXCEPT !.state = a, !.towire = w, !.unsent = u]
<1>1. /\ Send({DataMsg(s) : s \in data} \cup GapFor(q, gaps))
      /\ rr_changes' = k
      /\ sfw_announce
  BY DEF Transmit
<1>2. HeartbeatSparesSamples' /\ heartbeats' = heartbeats
  <2> HIDE DEF data, gaps
  <2> QED  BY <1>1, GapsAreQuiet, QuietSpares
<1>q. /\ ChangesInv(q) /\ q \in ChangesType /\ q.state \in [Snr -> States] /\ q.towire \in SUBSET Snr
      /\ q.unsent \in 0..MaxSnr + 1 /\ Listed(q) \in SUBSET Snr
  <2>1. ChangesInv(q)
    BY DEF WriterInv, Agree
  <2> QED  BY <2>1, ListFacts
<1>3. Restated(q, todo, Underway, k) /\ k.unsent = u
  <2>1. a \in [Snr -> States] /\ (\A t \in todo : a[t] = Underway) /\ \A t \in Snr \ todo : a[t] = q.state[t]
    BY <1>q, StatesDiffer
  <2>2. w \in SUBSET Snr /\ u \in 0..MaxSnr + 1
    BY <1>q, Numbers
  <2> HIDE DEF a, w, u
  <2>3. k \in ChangesType /\ k.state = a /\ k.rel = q.rel /\ k.first = q.first /\ k.unsent = u
    BY <1>q, <2>1, <2>2 DEF ChangesType
  <2> HIDE DEF k
  <2> QED  BY <2>1, <2>3 DEF Restated
<1>4. k.unsent = Null \/ k.unsent = q.unsent
  BY <1>3
<1>5. k.unsent = Null /\ Reachable(q) => \A t \in q.rel : q.state[t] = Unsent => t \in todo
  BY <1>3
<1> HIDE DEF k
<1>6. /\ ChangesInv(k) /\ (Reachable(q) => Reachable(k)) /\ k.rel = q.rel /\ Listed(k) = Listed(q)
      /\ \A t \in Snr : k.state[t] = Requested => q.state[t] = Requested /\ t \notin todo
  BY <1>q, <1>3, <1>4, <1>5, SentInv
<1> QED  BY <1>1, <1>2, <1>6 DEF sfw_announce

\* Sending what is unsent or requested keeps the invariant.
LEMMA SendStep ==
    ASSUME WriterInv, rtps_send_changes
    PROVE  WriterInv' /\ (Reachable(rr_changes) => Reachable(rr_changes'))
<1> DEFINE q == rr_changes
<1>1. Scalars /\ Agree /\ RepairDue
  BY DEF WriterInv
<1>2. /\ SendPushed \/ SendRequested \/ SendNothing
      /\ rr_active' = FALSE
      /\ UNCHANGED <<cacheVars, rr_cstate, rr_peer_alive, rr_new_snr, rr_last_ack, rr_nack_timer>>
  BY DEF rtps_send_changes
<1>q. /\ ChangesInv(q) /\ Listed(q) \in SUBSET Snr
      /\ \A t \in Snr : t \in Listed(q) <=> q.state[t] # None
      /\ \A t \in Listed(q) : t \in Nat
      /\ \A t \in q.first : t \in Listed(q)
      /\ \A t \in q.rel : t \in Listed(q)
      /\ \A t \in Listed(q) : t \notin q.first => t - 1 \in Listed(q) /\ q.state[t] = q.state[t - 1]
      /\ q.unsent = Null \/ q.unsent = Freed \/ q.unsent \in q.first
  <2>1. ChangesInv(q)
    BY <1>1 DEF Agree
  <2> QED  BY <2>1, ListFacts
<1>e. rr_cstate = "none" => Listed(q) = {}
  BY <1>1, EmptyListInv DEF Agree
<1>l. q = rr_changes
  OBVIOUS
<1>3. CASE SendPushed
  <2> DEFINE todo == IF q.unsent = Null THEN {} ELSE {s \in Listed(q) : s >= q.unsent}
  <2>1. /\ rr_tstate = "pushing" /\ Listed(q) # {} /\ q.unsent # Freed
        /\ Transmit(q, todo) /\ rr_astate' = rr_astate
    BY <1>3 DEF SendPushed
  <2>2. todo \in SUBSET Listed(q)
    OBVIOUS
  <2>3. \A t \in Listed(q) \ q.first : t \in todo <=> t - 1 \in todo
    <3>1. CASE q.unsent = Null
      BY <3>1
    <3>2. CASE q.unsent # Null
      <4>1. q.unsent \in q.first /\ q.unsent \in Nat
        BY <2>1, <3>2, <1>q
      <4> SUFFICES ASSUME NEW t \in Listed(q), t \notin q.first PROVE t >= q.unsent <=> t - 1 >= q.unsent
        BY <3>2, <1>q
      <4>2. t \in Nat /\ t # q.unsent
        BY <4>1, <1>q
      <4> HIDE DEF q
      <4> QED  BY <4>1, <4>2
    <3> QED  BY <3>1, <3>2
  <2>4. Reachable(q) => \A t \in q.rel : q.state[t] = Unsent => t \in todo
    <3> SUFFICES ASSUME Reachable(q), NEW t \in q.rel, q.state[t] = Unsent PROVE t \in todo
      OBVIOUS
    <3>1. q.unsent # Null /\ q.unsent <= t
      BY <2>1 DEF Reachable
    <3>2. q.unsent \in Nat /\ t \in Nat /\ t \in Listed(q)
      BY <2>1, <3>1, <1>q
    <3>3. t >= q.unsent
      <4> HIDE DEF q
      <4> QED  BY <3>1, <3>2
    <3> QED  BY <3>1, <3>2, <3>3
  <2> HIDE DEF todo
  <2>5. /\ ChangesInv(rr_changes') /\ (Reachable(q) => Reachable(rr_changes'))
        /\ rr_changes'.rel = q.rel /\ Listed(rr_changes') = Listed(q)
        /\ \A t \in Snr : rr_changes'.state[t] = Requested => q.state[t] = Requested /\ t \notin todo
        /\ rr_tstate' = "announcing" /\ rh_timer' = TRUE
        /\ HeartbeatSparesSamples' /\ heartbeats' = heartbeats
    BY <2>1, <2>2, <2>3, <2>4, TransmitInv
  <2>6. Agree'
    BY <1>1, <1>2, <1>e, <2>1, <2>5 DEF Agree, cacheVars
  <2>7. RepairDue' /\ Scalars'
    BY <1>1, <1>2, <2>1, <2>5 DEF RepairDue, Asked, Scalars
  <2> QED  BY <2>5, <2>6, <2>7 DEF WriterInv
<1>4. CASE SendRequested
  <2> DEFINE todo == {s \in Listed(q) : q.state[s] = Requested}
  <2>1. /\ rr_tstate # "pushing"
        /\ IF todo # {} THEN Transmit(q, todo)
           ELSE Send({}) /\ UNCHANGED <<rr_changes, rr_tstate, rh_timer>>
        /\ rr_astate' \in {rr_astate, "waiting"}
    BY <1>4 DEF SendRequested
  <2>2. todo \in SUBSET Listed(q) /\ \A t \in Snr : q.state[t] = Requested => t \in todo
    BY <1>q, StatesDiffer
  <2>3. \A t \in Listed(q) \ q.first : t \in todo <=> t - 1 \in todo
    BY <1>q
  <2> HIDE DEF todo
  <2>4. CASE todo # {}
    <3>1. Transmit(q, todo)
      BY <2>1, <2>4
    <3>2. Reachable(q) /\ q.unsent = Null => \A t \in q.rel : q.state[t] = Unsent => t \in todo
      BY Numbers DEF Reachable
    <3>5. /\ ChangesInv(rr_changes') /\ (Reachable(q) => Reachable(rr_changes'))
          /\ rr_changes'.rel = q.rel /\ Listed(rr_changes') = Listed(q)
          /\ \A t \in Snr : rr_changes'.state[t] = Requested => q.state[t] = Requested /\ t \notin todo
          /\ rr_tstate' = "announcing" /\ rh_timer' = TRUE
          /\ HeartbeatSparesSamples' /\ heartbeats' = heartbeats
      BY <2>1, <2>2, <2>3, <3>1, <3>2, TransmitInv
    <3>6. rr_cstate # "none"
      BY <1>e, <2>2, <2>4
    <3>7. Agree'
      BY <1>1, <1>2, <3>5, <3>6 DEF Agree, cacheVars
    <3>8. RepairDue' /\ Scalars'
      BY <1>1, <1>2, <2>1, <2>2, <3>5 DEF RepairDue, Asked, Scalars
    <3> QED  BY <3>5, <3>7, <3>8 DEF WriterInv
  <2>5. CASE todo = {}
    <3>1. Send({}) /\ UNCHANGED <<rr_changes, rr_tstate, rh_timer>>
      BY <2>1, <2>5
    <3>2. HeartbeatSparesSamples' /\ heartbeats' = heartbeats
      BY <3>1, GapsAreQuiet, QuietSpares
    <3>3. ~ Asked(rr_changes')
      BY <2>2, <2>5, <3>1 DEF Asked
    <3>4. Agree'
      BY <1>1, <1>2, <3>1 DEF Agree, cacheVars
    <3>5. RepairDue' /\ Scalars'
      BY <1>1, <1>2, <2>1, <3>1, <3>2, <3>3 DEF RepairDue, Scalars
    <3> QED  BY <3>1, <3>2, <3>4, <3>5 DEF WriterInv
  <2> QED  BY <2>4, <2>5
<1>5. CASE SendNothing
  <2>1. /\ Send({}) /\ UNCHANGED <<rr_changes, rr_tstate, rr_astate, rh_timer>>
        /\ Listed(q) = {} \/ rr_astate # "repairing"
    BY <1>5 DEF SendNothing
  <2>2. HeartbeatSparesSamples' /\ heartbeats' = heartbeats
    BY <2>1, GapsAreQuiet, QuietSpares
  <2>3. ~ Asked(rr_changes')
    BY <1>1, <1>q, <2>1, StatesDiffer DEF Asked, RepairDue
  <2>4. Agree'
    BY <1>1, <1>2, <2>1 DEF Agree, cacheVars
  <2>5. RepairDue' /\ Scalars'
    BY <1>1, <1>2, <2>1, <2>2, <2>3 DEF RepairDue, Scalars
  <2> QED  BY <2>1, <2>2, <2>4, <2>5 DEF WriterInv
<1> QED  BY <1>2, <1>3, <1>4, <1>5

\* The heartbeat timer keeps the invariant.
LEMMA HeartbeatTimerStep ==
    ASSUME WriterInv, sfw_heartbeat_to
    PROVE  WriterInv' /\ rr_changes' = rr_changes
<1> DEFINE q == rr_changes
<1>1. Scalars /\ Agree /\ RepairDue
  BY DEF WriterInv
<1>2. UNCHANGED <<cacheVars, rr_cstate, rr_changes, rr_tstate, rr_astate, rr_peer_alive,
                  rr_new_snr, rr_last_ack, rr_nack_timer>>
  BY DEF sfw_heartbeat_to
<1>3. Agree'
  BY <1>1, <1>2 DEF Agree, cacheVars
<1>4. CASE rr_cstate = "ready" /\ rr_tstate = "announcing"
  <2>1. rr_active' = TRUE /\ rh_timer' = rh_timer
    BY <1>4 DEF sfw_heartbeat_to
  <2>2. HeartbeatSparesSamples' /\ heartbeats' \in 0..CountMod - 1
    <3>1. hc_wack' = hc_wack /\ heartbeats \in 0..CountMod - 1
      BY <1>1, <1>2 DEF cacheVars, Scalars
    <3>w. \A s \in hc_wack : s \in Nat
      BY <1>1, Numbers DEF Agree
    <3>2. CASE Listed(q) = {}
      <4>1. SendHeartbeat(0, 0, FALSE, FALSE)
        BY <1>4, <3>2 DEF sfw_heartbeat_to
      <4>2. \A s \in hc_wack : 0 <= s
        BY <3>w
      <4> QED  BY <3>1, <4>1, <4>2, HeartbeatSpares
    <3>3. CASE Listed(q) # {}
      <4> DEFINE low == Min({CacheMin, Min(Listed(q))})
      <4>1. SendHeartbeat(low, Min({hc_last, Max(Listed(q))}), FALSE, FALSE)
        BY <1>4, <3>3 DEF sfw_heartbeat_to
      <4>2. \A s \in hc_wack : low <= s
        <5> DEFINE T == {CacheMin, Min(Listed(q))}
        <5>1. CacheMin \in Nat /\ \A s \in hc_wack : CacheMin <= s
          BY <1>1, CacheMinFirst
        <5>2. ChangesInv(q)
          BY <1>1 DEF Agree
        <5>3. Listed(q) \in SUBSET Snr
          BY <5>2, ListFacts
        <5>4. Min(Listed(q)) \in Nat
          BY <5>3, <3>3, SnrMin, Numbers
        <5>5. T \in SUBSET Nat /\ T # {} /\ CacheMin \in T
          BY <5>1, <5>4
        <5>6. low = Min(T)
          OBVIOUS
        <5> HIDE DEF T, low
        <5>7. low \in Nat /\ low <= CacheMin
          BY <5>5, <5>6, MinProps
        <5> QED  BY <5>1, <5>7, <3>w
      <4> HIDE DEF low
      <4> QED  BY <3>1, <4>1, <4>2, HeartbeatSpares
    <3> QED  BY <3>2, <3>3
  <2>3. RepairDue' /\ Scalars'
    BY <1>1, <1>2, <2>1, <2>2 DEF RepairDue, Scalars
  <2> QED  BY <1>2, <1>3, <2>2, <2>3 DEF WriterInv
<1>5. CASE ~ (rr_cstate = "ready" /\ rr_tstate = "announcing")
  <2>1. rh_timer' = FALSE /\ rr_active' = rr_active /\ Send({})
    BY <1>5 DEF sfw_heartbeat_to
  <2>2. HeartbeatSparesSamples' /\ heartbeats' = heartbeats
    BY <2>1, GapsAreQuiet, QuietSpares
  <2>3. rr_cstate # "ready" => ~ Asked(q)
    BY <1>1, EmptyListInv, StatesDiffer DEF Agree, Asked, Scalars
  <2>4. RepairDue' /\ Scalars'
    BY <1>1, <1>2, <1>5, <2>1, <2>2, <2>3 DEF RepairDue, Scalars
  <2> QED  BY <1>2, <1>3, <2>2, <2>4 DEF WriterInv
<1> QED  BY <1>4, <1>5
\* Polling the reader makes the proxy active and leaves the list alone.
LEMMA SendAliveInv ==
    ASSUME Scalars, Agree, sfw_rel_send_alive, hc_wack' = hc_wack
    PROVE  /\ HeartbeatSparesSamples' /\ heartbeats' \in 0..CountMod - 1
           /\ rr_active' = TRUE
           /\ rr_tstate' \in {rr_tstate, "pushing"}
<1>1. CacheMin \in Nat /\ \A s \in hc_wack : CacheMin <= s
  BY CacheMinFirst
<1>2. heartbeats \in 0..CountMod - 1
  BY DEF Scalars
<1>3. CASE hc_cache # {} /\ rr_changes.unsent # Null
  <2>1. Send({}) /\ rr_tstate' = "pushing" /\ rr_active' = TRUE
    BY <1>3 DEF sfw_rel_send_alive
  <2> QED  BY <1>2, <2>1, GapsAreQuiet, QuietSpares
<1>4. CASE ~ (hc_cache # {} /\ rr_changes.unsent # Null)
  <2>1. /\ rr_tstate' = rr_tstate /\ rr_active' = TRUE
        /\ IF hc_cache = {} THEN SendHeartbeat(CacheMin, CacheMin, TRUE, TRUE)
           ELSE SendHeartbeat(CacheMin, hc_last, FALSE, FALSE)
    BY <1>4 DEF sfw_rel_send_alive
  <2>2. CASE hc_cache = {}
    <3>1. SendHeartbeat(CacheMin, CacheMin, TRUE, TRUE)
      BY <2>1, <2>2
    <3> QED  BY <1>1, <1>2, <2>1, <3>1, HeartbeatSpares
  <2>3. CASE hc_cache # {}
    <3>1. SendHeartbeat(CacheMin, hc_last, FALSE, FALSE)
      BY <2>1, <2>3
    <3> QED  BY <1>1, <1>2, <2>1, <3>1, HeartbeatSpares
  <2> QED  BY <2>2, <2>3
<1> QED  BY <1>3, <1>4

\* The timer that repeats a heartbeat until the reader answers keeps the invariant.
LEMMA AliveStep ==
    ASSUME WriterInv, sfw_rel_alive_to
    PROVE  WriterInv' /\ rr_changes' = rr_changes
<1>1. Scalars /\ Agree /\ RepairDue
  BY DEF WriterInv
<1>2. /\ sfw_rel_send_alive
      /\ UNCHANGED <<cacheVars, rr_cstate, rr_changes, rr_astate, rr_peer_alive,
                     rr_new_snr, rr_last_ack, rr_nack_timer, rh_timer>>
  BY DEF sfw_rel_alive_to
<1>3. /\ HeartbeatSparesSamples' /\ heartbeats' \in 0..CountMod - 1
      /\ rr_active' = TRUE /\ rr_tstate' \in {rr_tstate, "pushing"}
  BY <1>1, <1>2, SendAliveInv DEF cacheVars
<1>4. Agree'
  BY <1>1, <1>2 DEF Agree, cacheVars
<1>5. RepairDue' /\ Scalars'
  BY <1>1, <1>2, <1>3 DEF RepairDue, Scalars
<1> QED  BY <1>2, <1>3, <1>4, <1>5 DEF WriterInv

-----------------------------------------------------------------------------
(* Steps of the life of the proxy.                                         *)

\* Replaying the cache into a new or restarted proxy makes the list agree with it.
LEMMA ReplayCacheInv ==
    ASSUME Scalars, Agree, ReplayCache, hc_last' = hc_last, hc_cache' = hc_cache, rr_cstate' # "none"
    PROVE  /\ Agree' /\ Reachable(rr_changes') /\ ~ Asked(rr_changes')
           /\ rr_tstate' \in {"idle", "announcing"} /\ rh_timer' \in BOOLEAN
<1>1. rr_changes' = Replay(hc_cache) /\ hc_wack' = hc_cache
  BY DEF ReplayCache
<1>2. hc_cache \in SUBSET Snr /\ hc_last \in Nat /\ \A c \in hc_cache : c <= hc_last
  BY Numbers DEF Agree
<1>3. /\ ChangesInv(rr_changes') /\ Reachable(rr_changes') /\ rr_changes'.rel = hc_cache
      /\ \A b \in Nat : (\A c \in hc_cache : c <= b) => \A t \in Listed(rr_changes') : t <= b
      /\ \A t \in Snr : rr_changes'.state[t] # Requested
  BY <1>1, <1>2, ReplayInv
<1>4. \A t \in Listed(rr_changes') : t <= hc_last
  BY <1>2, <1>3
<1>5. Agree'
  BY <1>1, <1>3, <1>4 DEF Agree
<1>6. rr_tstate' \in {"idle", "announcing"} /\ rh_timer' \in BOOLEAN
  BY DEF ReplayCache, sfw_announce, Scalars
<1> QED  BY <1>3, <1>5, <1>6 DEF Asked

\* Starting the proxy keeps the invariant.
LEMMA StartStep ==
    ASSUME WriterInv, sfw_rel_start
    PROVE  WriterInv' /\ (Reachable(rr_changes) => Reachable(rr_changes'))
<1>1. Scalars /\ Agree /\ RepairDue
  BY DEF WriterInv
<1>2. /\ rr_cstate = "none" /\ rr_cstate' = "ready"
      /\ rr_nack_timer' = (rr_changes'.unsent # Null)
      /\ Send({})
      /\ UNCHANGED <<hc_last, hc_cache, rr_astate, rr_active, rr_peer_alive, rr_last_ack>>
  BY DEF sfw_rel_start
<1>3. HeartbeatSparesSamples' /\ heartbeats' = heartbeats
  BY <1>2, GapsAreQuiet, QuietSpares
<1>4. /\ Agree' /\ (Reachable(rr_changes) => Reachable(rr_changes')) /\ ~ Asked(rr_changes')
      /\ rr_tstate' \in {"idle", "announcing"} /\ rh_timer' \in BOOLEAN
      /\ rr_new_snr' \in 0..MaxSnr + 1
  <2>1. CASE Durable
    <3>1. ReplayCache /\ rr_new_snr' = 1
      BY <2>1 DEF sfw_rel_start
    <3>2. rr_new_snr' \in 0..MaxSnr + 1
      BY <3>1, Numbers
    <3> QED  BY <3>1, <3>2, <1>1, <1>2, ReplayCacheInv
  <2>2. CASE ~ Durable
    <3>1. /\ rr_new_snr' = hc_last + 1 /\ rr_tstate' = "idle"
          /\ UNCHANGED <<rr_changes, hc_wack, rh_timer>>
      BY <2>2 DEF sfw_rel_start
    <3>2. rr_new_snr' \in 0..MaxSnr + 1
      BY <3>1, <1>1, Numbers DEF Agree
    <3>3. Agree'
      BY <3>1, <1>1, <1>2 DEF Agree
    <3>4. ~ Asked(rr_changes')
      BY <3>1, <1>1, <1>2, EmptyListInv, StatesDiffer DEF Agree, Asked
    <3> QED  BY <3>1, <3>2, <3>3, <3>4, <1>1 DEF Scalars
  <2> QED  BY <2>1, <2>2
<1>5. Scalars' /\ RepairDue'
  BY <1>1, <1>2, <1>3, <1>4 DEF Scalars, RepairDue
<1> QED  BY <1>3, <1>4, <1>5 DEF WriterInv

\* Restarting the proxy keeps the invariant; only a durable one gets its unsent samples back.
LEMMA RestartInv ==
    ASSUME WriterInv, rr_cstate = "ready", NEW alive_timer \in BOOLEAN, sfw_restart(alive_timer),
           rr_last_ack' \in 0..CountMod - 1
    PROVE  WriterInv' /\ (Durable => Reachable(rr_changes'))
<1>1. Scalars /\ Agree /\ RepairDue
  BY DEF WriterInv
<1>2. /\ rr_astate' = "waiting" /\ rr_peer_alive' = FALSE
      /\ rr_nack_timer' = (alive_timer \/ rr_changes'.unsent # Null)
      /\ Send({})
      /\ UNCHANGED <<hc_last, hc_cache, rr_cstate>>
  BY DEF sfw_restart
<1>3. HeartbeatSparesSamples' /\ heartbeats' = heartbeats
  BY <1>2, GapsAreQuiet, QuietSpares
<1>4. /\ Agree' /\ (Durable => Reachable(rr_changes')) /\ ~ Asked(rr_changes')
      /\ rr_tstate' \in {"idle", "announcing"} /\ rh_timer' \in BOOLEAN
      /\ rr_active' \in BOOLEAN
      /\ rr_new_snr' \in 0..MaxSnr + 1
  <2>1. CASE Durable
    <3>1. ReplayCache /\ rr_new_snr' = 1 /\ rr_active' = FALSE
      BY <2>1 DEF sfw_restart
    <3>2. rr_new_snr' \in 0..MaxSnr + 1
      BY <3>1, Numbers
    <3> QED  BY <3>1, <3>2, <1>1, <1>2, ReplayCacheInv
  <2>2. CASE ~ Durable
    <3>1. /\ rr_new_snr' = 0 /\ rr_changes' = RestartList(rr_changes) /\ rr_tstate' = "idle"
          /\ UNCHANGED <<hc_wack, rr_active, rh_timer>>
      BY <2>2 DEF sfw_restart
    <3>2. rr_new_snr' \in 0..MaxSnr + 1
      BY <3>1, Numbers
    <3>3. /\ ChangesInv(rr_changes') /\ rr_changes'.rel = rr_changes.rel
          /\ Listed(rr_changes') = Listed(rr_changes)
          /\ \A t \in Snr : rr_changes'.state[t] # Requested
      BY <3>1, <1>1, RestartListInv DEF Agree
    <3>4. Agree'
      BY <3>1, <3>3, <1>1, <1>2 DEF Agree
    <3> QED  BY <2>2, <3>1, <3>2, <3>3, <3>4, <1>1 DEF Scalars, Asked
  <2> QED  BY <2>1, <2>2
<1>5. Scalars' /\ RepairDue'
  BY <1>1, <1>2, <1>3, <1>4 DEF Scalars, RepairDue
<1> QED  BY <1>3, <1>4, <1>5 DEF WriterInv

\* Finishing the proxy keeps the invariant.
LEMMA FinishStep ==
    ASSUME WriterInv, sfw_rel_finish
    PROVE  WriterInv' /\ Reachable(rr_changes')
<1>1. Scalars /\ Agree
  BY DEF WriterInv
<1>2. /\ rr_changes' = EmptyList /\ rr_cstate' = "none" /\ Send({}) /\ hc_last' = hc_last
      /\ hc_wack' = hc_wack \ rr_changes.rel
      /\ hc_cache' \subseteq hc_cache
  BY DEF sfw_rel_finish, change_delete_enqueued
<1>3. HeartbeatSparesSamples' /\ heartbeats' = heartbeats
  BY <1>2, GapsAreQuiet, QuietSpares
<1>4. hc_wack' = {}
  BY <1>1, <1>2 DEF Agree
<1>5. Agree'
  BY <1>1, <1>2, <1>4, EmptyListInv DEF Agree
<1>6. ~ Asked(rr_changes') /\ Reachable(rr_changes')
  BY <1>2, EmptyListInv, StatesDiffer DEF Asked
<1>7. Scalars'
  <2>1. 0 \in 0..MaxSnr + 1 /\ 0 \in 0..CountMod - 1
    BY WriterAssumption
  <2> QED  BY <1>1, <1>2, <1>3, <2>1 DEF sfw_rel_finish, Scalars
<1> QED  BY <1>3, <1>5, <1>6, <1>7 DEF WriterInv, RepairDue

-----------------------------------------------------------------------------
(* ACKNACK.                                                                *)

\* An ACKNACK that passed the checks at the start of its handler keeps the invariant.
LEMMA AckProcessedStep ==
    ASSUME WriterInv, NEW m \in AckNackMsg, rr_cstate = "ready", AckProcessed(m),
           rr_peer_alive' = TRUE, rr_cstate' = rr_cstate, rr_last_ack' \in 0..CountMod - 1
    PROVE  WriterInv' /\ (Reachable(rr_changes) => Reachable(rr_changes'))
<1> DEFINE q == rr_changes
           end == IF Listed(q) = {} THEN rr_new_snr ELSE Max(Listed(q)) + 1
           known == IF m.base + m.numbits >= end /\ hc_last > end
                    THEN AddImplicitGap(q, end, hc_last) ELSE q
           acked == AckList(known, m)
           repair == AckRequested(known, m) # {}
           gone == AckedPrefix(acked)
           left == DropPrefix(acked, gone)
           done == Listed(left) = {} /\ AckGapBits(m) = 0
<1>1. Scalars /\ Agree /\ RepairDue
  BY DEF WriterInv
<1>2. /\ rr_changes' = left
      /\ hc_wack' = hc_wack \ (gone \cap acked.rel)
      /\ hc_cache' = IF Durable THEN hc_cache
                     ELSE hc_cache \ (gone \cap acked.rel \cap hc_wack)
      /\ rr_new_snr' = IF gone # {} /\ Listed(left) = {} THEN Max(gone) ELSE rr_new_snr
      /\ Send(ImmediateGap(m))
      /\ rr_active' = (rr_active \/ repair \/ AckGapBits(m) > 0)
      /\ rr_tstate' = IF done THEN "idle" ELSE rr_tstate
      /\ rr_astate' = IF done THEN "waiting" ELSE IF repair THEN "repairing" ELSE rr_astate
      /\ rr_nack_timer' = (rr_nack_timer /\ rr_peer_alive /\ ~ done)
      /\ rh_timer' = (rh_timer /\ ~ done)
      /\ hc_last' = hc_last
  BY DEF AckProcessed
<1>3. HeartbeatSparesSamples' /\ heartbeats' = heartbeats
  BY <1>2, GapsAreQuiet, QuietSpares
<1>q. /\ ChangesInv(q) /\ q.rel = hc_wack /\ \A t \in Listed(q) : t <= hc_last
  BY <1>1 DEF Agree
<1>4. /\ ChangesInv(known) /\ (Reachable(q) => Reachable(known)) /\ known.rel = q.rel
      /\ \A t \in Listed(known) : t <= hc_last
      /\ NothingAsked(q, known)
  <2>1. CASE m.base + m.numbits >= end /\ hc_last > end
    <3>1. end \in Nat
      <4>1. CASE Listed(q) = {}
        BY <4>1, <1>1 DEF Scalars
      <4>2. CASE Listed(q) # {}
        <5>1. Listed(q) \in SUBSET Snr
          BY <1>q, ListFacts
        <5>2. Max(Listed(q)) \in Nat
          BY <5>1, <4>2, SnrMax, Numbers
        <5> QED  BY <5>2, <4>2
      <4> QED  BY <4>1, <4>2
    <3>2. Listed(q) # {} => end = Max(Listed(q)) + 1
      OBVIOUS
    <3>3. known = AddImplicitGap(q, end, hc_last) /\ hc_last > end
      BY <2>1
    <3> HIDE DEF end, known, q
    <3>4. hc_last \in Snr /\ end < hc_last
      <4>1. hc_last \in 0..MaxSnr
        BY <1>1 DEF Agree
      <4> QED  BY <4>1, <3>1, <3>3, Numbers
    <3>5. /\ ChangesInv(known) /\ (Reachable(q) => Reachable(known)) /\ known.rel = q.rel
          /\ \A t \in Listed(known) : t \in Listed(q) \/ t <= hc_last
          /\ NothingAsked(q, known)
      BY <1>q, <3>1, <3>2, <3>3, <3>4, ImplicitGapInv
    <3> QED  BY <3>5, <1>q
  <2>2. CASE ~ (m.base + m.numbits >= end /\ hc_last > end)
    <3>1. known = q
      BY <2>2
    <3> HIDE DEF known
    <3> QED  BY <3>1, <1>q DEF NothingAsked
  <2> QED  BY <2>1, <2>2
<1>r. repair <=> AckRequested(known, m) # {}
  OBVIOUS
<1> HIDE DEF known
<1>5. /\ ChangesInv(acked) /\ (Reachable(known) => Reachable(acked)) /\ acked.rel = known.rel
      /\ Listed(acked) = Listed(known)
      /\ \A t \in Snr : acked.state[t] = Requested =>
             known.state[t] = Requested \/ AckRequested(known, m) # {}
  BY <1>4, AckListInv
<1> HIDE DEF acked, repair
<1>6. /\ ChangesInv(left) /\ (Reachable(acked) => Reachable(left)) /\ left.rel = acked.rel \ gone
      /\ Listed(left) \subseteq Listed(acked) /\ gone \subseteq Listed(acked)
      /\ NothingAsked(acked, left)
      /\ Listed(left) = {} => \A t \in Snr : left.state[t] # Requested
  <2>1. gone = AckedPrefix(acked) /\ left = DropPrefix(acked, gone)
    OBVIOUS
  <2> HIDE DEF gone, left
  <2> QED  BY <1>5, <2>1, DropPrefixInv
<1>d. done <=> Listed(left) = {} /\ AckGapBits(m) = 0
  OBVIOUS
<1> HIDE DEF gone, left, done
<1>7. Agree'
  <2>1. hc_cache \subseteq Snr /\ (\A s \in hc_cache : s <= hc_last) /\ hc_wack \subseteq hc_cache
        /\ hc_last \in 0..MaxSnr
    BY <1>1 DEF Agree
  <2>2. acked.rel = hc_wack
    BY <1>q, <1>4, <1>5
  <2>3. left.rel = hc_wack'
    BY <1>2, <1>6, <2>2
  <2>4. hc_wack' \subseteq hc_cache' /\ hc_cache' \subseteq hc_cache
    BY <1>2, <2>1, <2>2
  <2>5. \A t \in Listed(left) : t <= hc_last
    BY <1>4, <1>5, <1>6
  <2> QED  BY <1>2, <1>6, <2>1, <2>3, <2>4, <2>5 DEF Agree
<1>8. Asked(left) => /\ Asked(q) \/ repair
                     /\ ~ done
  BY <1>4, <1>5, <1>6, <1>r, <1>d DEF Asked, NothingAsked
<1>9. RepairDue'
  <2> SUFFICES ASSUME Asked(left)
               PROVE  rr_astate' = "repairing" /\ (rr_active' \/ (rh_timer' /\ rr_tstate' = "announcing"))
    BY <1>2 DEF RepairDue
  <2>1. ~ done /\ (Asked(q) \/ repair)
    BY <1>8
  <2>2. CASE repair
    BY <2>1, <2>2, <1>2
  <2>3. CASE ~ repair
    <3>1. rr_astate = "repairing" /\ (rr_active \/ (rh_timer /\ rr_tstate = "announcing"))
      BY <2>1, <2>3, <1>1 DEF RepairDue
    <3>2. rr_astate' = rr_astate /\ rr_tstate' = rr_tstate
      BY <2>1, <2>3, <1>2
    <3>3. (rr_active => rr_active') /\ (rh_timer => rh_timer')
      BY <2>1, <1>2
    <3> QED  BY <3>1, <3>2, <3>3
  <2> QED  BY <2>2, <2>3
<1>10. Scalars'
  <2>1. rr_new_snr' \in 0..MaxSnr + 1
    <3>1. gone \in SUBSET Snr
      BY <1>5, <1>6, ListFacts
    <3>2. CASE gone # {} /\ Listed(left) = {}
      <4>1. Max(gone) \in Snr
        BY <3>1, <3>2, SnrMax
      <4> QED  BY <4>1, <3>2, <1>2, Numbers
    <3>3. CASE ~ (gone # {} /\ Listed(left) = {})
      BY <3>3, <1>1, <1>2 DEF Scalars
    <3> QED  BY <3>2, <3>3
  <2>2. rr_active' \in BOOLEAN /\ rr_nack_timer' \in BOOLEAN /\ rh_timer' \in BOOLEAN
    BY <1>2
  <2>3. rr_tstate' \in {"idle", "pushing", "announcing"} /\ rr_astate' \in {"waiting", "repairing"}
    BY <1>1, <1>2 DEF Scalars
  <2> QED  BY <1>1, <1>3, <2>1, <2>2, <2>3 DEF Scalars
<1>11. Reachable(q) => Reachable(rr_changes')
  BY <1>2, <1>4, <1>5, <1>6
<1> QED  BY <1>3, <1>7, <1>9, <1>10, <1>11 DEF WriterInv

\* An ACKNACK, whether it is dropped, restarts the proxy or is processed, keeps the invariant.
LEMMA AckNackStep ==
    ASSUME WriterInv, NEW m \in AckNackMsg, sfw_rel_acknack(m)
    PROVE  WriterInv' /\ (Reachable(rr_changes) => Reachable(rr_changes'))
<1>1. Scalars /\ Agree /\ RepairDue /\ rr_cstate = "ready"
  BY DEF WriterInv, sfw_rel_acknack
<1>m. m.count \in 0..CountMod - 1
  BY DEF AckNackMsg
<1>2. CASE m.count = rr_last_ack
  <2>1. /\ Send({})
        /\ UNCHANGED <<cacheVars, rr_cstate, rr_changes, rr_tstate, rr_astate, rr_active,
                       rr_peer_alive, rr_new_snr, rr_last_ack, rr_nack_timer, rh_timer>>
    BY <1>2 DEF sfw_rel_acknack
  <2>2. HeartbeatSparesSamples' /\ heartbeats' = heartbeats
    BY <2>1, GapsAreQuiet, QuietSpares
  <2>3. Agree'
    BY <1>1, <2>1 DEF Agree, cacheVars
  <2>4. RepairDue' /\ Scalars'
    BY <1>1, <2>1, <2>2 DEF RepairDue, Scalars
  <2> QED  BY <2>1, <2>2, <2>3, <2>4 DEF WriterInv
<1>3. CASE m.count # rr_last_ack
  <2>1. /\ rr_last_ack' = m.count
        /\ \/ AckRestarts(m)
           \/ /\ AckWakesUp(m) \/ AckZero(m) \/ AckProcessed(m)
              /\ rr_peer_alive' = TRUE
              /\ UNCHANGED rr_cstate
    BY <1>3 DEF sfw_rel_acknack
  <2>l. rr_last_ack' \in 0..CountMod - 1
    BY <1>m, <2>1
  <2>2. CASE AckRestarts(m)
    <3>1. Durable /\ sfw_restart(rr_nack_timer /\ rr_peer_alive)
      BY <2>2 DEF AckRestarts
    <3>2. (rr_nack_timer /\ rr_peer_alive) \in BOOLEAN
      OBVIOUS
    <3> QED  BY <1>1, <2>l, <3>1, <3>2, RestartInv
  <2>3. CASE AckProcessed(m) /\ rr_peer_alive' = TRUE /\ rr_cstate' = rr_cstate
    BY <1>1, <2>l, <2>3, AckProcessedStep
  <2>4. CASE AckWakesUp(m) /\ rr_peer_alive' = TRUE /\ rr_cstate' = rr_cstate
    <3>1. /\ Send({}) /\ rr_tstate' = "pushing" /\ rr_active' = TRUE /\ rr_nack_timer' = FALSE
          /\ UNCHANGED <<cacheVars, rr_changes, rr_astate, rr_new_snr, rh_timer>>
      BY <2>4 DEF AckWakesUp
    <3>2. HeartbeatSparesSamples' /\ heartbeats' = heartbeats
      BY <3>1, GapsAreQuiet, QuietSpares
    <3>3. Agree'
      BY <1>1, <2>4, <3>1 DEF Agree, cacheVars
    <3>4. RepairDue' /\ Scalars'
      BY <1>1, <2>4, <2>l, <3>1, <3>2 DEF RepairDue, Scalars
    <3> QED  BY <3>1, <3>2, <3>3, <3>4 DEF WriterInv
  <2>5. CASE AckZero(m) /\ rr_peer_alive' = TRUE /\ rr_cstate' = rr_cstate
    <3>1. /\ IF rr_tstate = "idle" THEN sfw_rel_send_alive
             ELSE Send({}) /\ UNCHANGED <<rr_tstate, rr_active>>
          /\ rr_nack_timer' = (rr_nack_timer /\ rr_peer_alive)
          /\ UNCHANGED <<cacheVars, rr_changes, rr_astate, rr_new_snr, rh_timer>>
      BY <2>5 DEF AckZero
    <3>2. /\ HeartbeatSparesSamples' /\ heartbeats' \in 0..CountMod - 1
          /\ \/ rr_active' = TRUE /\ rr_tstate' \in {rr_tstate, "pushing"}
             \/ rr_tstate' = rr_tstate /\ rr_active' = rr_active
      <4>1. CASE rr_tstate = "idle"
        <5>1. sfw_rel_send_alive /\ hc_wack' = hc_wack
          BY <3>1, <4>1 DEF cacheVars
        <5> QED  BY <1>1, <5>1, SendAliveInv
      <4>2. CASE rr_tstate # "idle"
        <5>1. Send({}) /\ rr_tstate' = rr_tstate /\ rr_active' = rr_active
          BY <3>1, <4>2
        <5>2. HeartbeatSparesSamples' /\ heartbeats' = heartbeats
          BY <5>1, GapsAreQuiet, QuietSpares
        <5> QED  BY <1>1, <5>1, <5>2 DEF Scalars
      <4> QED  BY <4>1, <4>2
    <3>3. Agree'
      BY <1>1, <2>5, <3>1 DEF Agree, cacheVars
    <3>u. /\ rr_nack_timer' \in BOOLEAN
          /\ UNCHANGED <<rr_changes, rr_astate, rr_new_snr, rh_timer>>
      BY <3>1
    <3>4. RepairDue'
      BY <1>1, <3>u, <3>2 DEF RepairDue
    <3>5. Scalars'
      BY <1>1, <2>5, <2>l, <3>u, <3>2 DEF Scalars
    <3> QED  BY <3>u, <3>2, <3>3, <3>4, <3>5 DEF WriterInv
  <2> QED  BY <2>1, <2>2, <2>3, <2>4, <2>5
<1> QED  BY <1>2, <1>3
-----------------------------------------------------------------------------
(* Theorems.                                                               *)

\* Every step keeps the invariant, and the unsent samples reachable where no volatile proxy
\* restarts.
LEMMA WriterNextStep ==
    ASSUME WriterInv, [WriterNext]_wvars
    PROVE  WriterInv' /\ ((Durable \/ ~ Restarts) /\ Reachable(rr_changes) => Reachable(rr_changes'))
<1>1. CASE \E victim \in Victims : hc_add(victim)
  BY <1>1, AddStep
<1>2. CASE hc_check_lifespan
  BY <1>2, LifespanStep
<1>3. CASE rtps_send_changes
  BY <1>3, SendStep
<1>4. CASE sfw_heartbeat_to
  BY <1>4, HeartbeatTimerStep
<1>5. CASE sfw_rel_alive_to
  BY <1>5, AliveStep
<1>6. CASE sfw_rel_start
  BY <1>6, StartStep
<1>7. CASE rtps_matched_reader_restart
  <2>1. Restarts /\ rr_cstate = "ready" /\ sfw_restart(rr_nack_timer) /\ rr_last_ack' = rr_last_ack
    BY <1>7 DEF rtps_matched_reader_restart
  <2>2. rr_nack_timer \in BOOLEAN /\ rr_last_ack' \in 0..CountMod - 1
    BY <2>1 DEF WriterInv, Scalars
  <2>3. WriterInv' /\ (Durable => Reachable(rr_changes'))
    BY <2>1, <2>2, RestartInv
  <2> QED  BY <2>1, <2>3
<1>8. CASE sfw_rel_finish
  BY <1>8, FinishStep
<1>9. CASE \E m \in AckNackMsg : sfw_rel_acknack(m)
  BY <1>9, AckNackStep
<1>10. CASE UNCHANGED wvars
  <2>1. Scalars' /\ Agree' /\ RepairDue' /\ HeartbeatSparesSamples' /\ rr_changes' = rr_changes
    BY <1>10 DEF wvars, WriterInv, Scalars, Agree, RepairDue, HeartbeatSparesSamples
  <2> QED  BY <2>1 DEF WriterInv
<1> QED  BY <1>1, <1>2, <1>3, <1>4, <1>5, <1>6, <1>7, <1>8, <1>9, <1>10 DEF WriterNext

\* The inductive invariant holds in every reachable state.
LEMMA WriterInvariant == WriterSpec => []WriterInv
<1>1. WriterInit => WriterInv
  BY InitInv
<1>2. WriterInv /\ [WriterNext]_wvars => WriterInv'
  BY WriterNextStep
<1> QED  BY <1>1, <1>2, PTL DEF WriterSpec

\* Every variable of the writer and of its proxy keeps its type: the cache
\* waits only for samples that it holds, the numbers of the list and the
\* submessage counts stay in range (sfw_rel_acknack, sfw_send_heartbeat).
THEOREM SfWriterTypeOK == WriterSpec => []WriterTypeOK
<1>1. WriterInv => WriterTypeOK
  <2> SUFFICES ASSUME WriterInv PROVE WriterTypeOK
    OBVIOUS
  <2>1. Scalars /\ Agree /\ ChangesInv(rr_changes)
    BY DEF WriterInv, Agree
  <2>2. hc_cache \subseteq 1..hc_last
    <3>1. \A s \in hc_cache : s \in Nat /\ 1 <= s /\ s <= hc_last /\ hc_last \in Nat
      BY <2>1, Numbers DEF Agree
    <3> QED  BY <3>1
  <2>3. /\ rr_changes.state \in [Snr -> States] /\ rr_changes.first \subseteq Snr
        /\ rr_changes.unsent \in 0..MaxSnr + 1
    BY <2>1, ListFacts
  <2> QED  BY <2>1, <2>2, <2>3 DEF WriterTypeOK, Scalars, Agree, States
<1> QED  BY <1>1, WriterInvariant, PTL

\* The list of a proxy covers consecutive numbers and has a node at its head,
\* at every sample and behind every sample, whatever is added, expires, is
\* replayed, sent, restarted and acknowledged (RANGE_CHECK in rtps_sfrw.c).
THEOREM WriterListWellFormed == WriterSpec => []ListWellFormed
<1>1. WriterInv => ListWellFormed
  <2> SUFFICES ASSUME WriterInv PROVE ListWellFormed
    OBVIOUS
  <2> DEFINE q == rr_changes
  <2>1. ChangesInv(q)
    BY DEF WriterInv, Agree
  <2> HIDE DEF q
  <2>2. Unbroken(q) /\ NodesStart(q)
    BY <2>1 DEF ChangesInv
  <2>3. \A s \in Listed(q) : s = Min(Listed(q)) => s - 1 \notin Listed(q)
    <3> SUFFICES ASSUME NEW s \in Listed(q), s = Min(Listed(q)), s - 1 \in Listed(q) PROVE FALSE
      OBVIOUS
    <3>1. Listed(q) \in SUBSET Snr /\ s \in Nat
      BY <2>1, ListFacts
    <3>2. s <= s - 1
      BY <3>1, SnrMin
    <3> QED  BY <3>1, <3>2
  <2>4. /\ \A s, t \in Listed(q) : \A u \in s..t : u \in Listed(q)
        /\ q.first \subseteq Listed(q) /\ q.rel \subseteq Listed(q)
        /\ \A s \in Listed(q) :
              s \in q.rel \/ s - 1 \in q.rel \/ s = Min(Listed(q)) => s \in q.first
    BY <2>2, <2>3 DEF Unbroken, NodesStart
  <2> QED  BY <2>4 DEF q, ListWellFormed
<1> QED  BY <1>1, WriterInvariant, PTL

\* A sample whose acknowledgement the cache waits for is in the list of the
\* proxy, where sfw_rel_acknack finds it.
THEOREM WriterWaitedForIsQueued == WriterSpec => []WaitedForIsQueued
<1>1. WriterInv => WaitedForIsQueued
  BY DEF WriterInv, Agree, WaitedForIsQueued
<1> QED  BY <1>1, WriterInvariant, PTL

\* A change that an ACKNACK asked for is going to be repaired: the proxy is in
\* the repairing state and is queued for rtps_send_changes, or the HEARTBEAT
\* timer runs, which queues it.
THEOREM WriterRepairScheduled == WriterSpec => []RepairScheduled
<1>1. WriterInv => RepairScheduled
  BY DEF WriterInv, RepairDue, Asked, RepairScheduled
<1> QED  BY <1>1, WriterInvariant, PTL

\* No HEARTBEAT declares a sample unavailable that the reader still has to
\* acknowledge (sfw_send_heartbeat, sfw_rel_send_alive).
THEOREM WriterHeartbeatSparesSamples == WriterSpec => []HeartbeatSparesSamples
<1>1. WriterInv => HeartbeatSparesSamples
  BY DEF WriterInv
<1> QED  BY <1>1, WriterInvariant, PTL

\* A sample that was never sent is at or behind rr_unsent_changes, as long as
\* the pointer points to a node.  The operator's restart of a volatile proxy
\* resets the pointer to what was sent before and is excluded.
THEOREM WriterUnsentReachable ==
    ASSUME Durable \/ ~ Restarts
    PROVE  WriterSpec => []UnsentReachable
<1>1. WriterInit => WriterInv /\ Reachable(rr_changes)
  BY InitInv
<1>2. WriterInv /\ Reachable(rr_changes) /\ [WriterNext]_wvars => (WriterInv /\ Reachable(rr_changes))'
  BY WriterNextStep
<1>3. Reachable(rr_changes) => UnsentReachable
  BY DEF Reachable, UnsentReachable
<1> QED  BY <1>1, <1>2, <1>3, PTL DEF WriterSpec
=============================================================================
