------------------------- MODULE FragReliableProofs -------------------------
(***************************************************************************)
(* Proofs about FragReliable: what the readers of a participant keep true  *)
(* of the contexts in which they reassemble a sample, for any number of    *)
(* readers, fragments and messages.                                        *)
(***************************************************************************)
EXTENDS FragReliable, FiniteSetTheorems, WellFoundedInduction, TLAPS

-----------------------------------------------------------------------------
(* The inductive invariant.                                                *)

States == {"none", "part", "received", "lost"}

Context == [nrefs : Nat, first_na : 0..Total, num_na : 0..Total,
            got : SUBSET Fragments, buf : SUBSET Fragments]

\* What the readers keep: their states st, contexts cx, context records fs and
\* buffers handed to the cache bs.
ReaderType(st, cx, fs, bs) ==
    /\ st \in [R -> States]
    /\ cx \in [R -> R \cup {Null}]
    /\ fs \in [R -> Context]
    /\ bs \in [R -> SUBSET Fragments]

\* A context that is in use says what is missing, and its buffer has the rest.
Sound(fip) == Exact(fip) /\ fip.got \subseteq fip.buf

Users(cx, c) == {r \in R : cx[r] = c}

\* A context belongs to a sample in reassembly; it is counted; and it is still
\* used by the reader that made it, unless that one is done.
Contexts(st, cx, fs) ==
    /\ \A r \in R : st[r] = "part" <=> cx[r] # Null
    /\ \A r \in R : cx[r] # Null => /\ Sound(fs[cx[r]])
                                    /\ \/ cx[cx[r]] = cx[r]
                                       \/ st[cx[r]] \in {"received", "lost"}
    /\ \A c \in R : fs[c].nrefs = Cardinality(Users(cx, c))

Whole(st, bs) == \A r \in R : st[r] = "received" => bs[r] = Fragments

ReaderInv(st, cx, fs, bs) ==
    ReaderType(st, cx, fs, bs) /\ Contexts(st, cx, fs) /\ Whole(st, bs)

WriterType ==
    /\ proxy \in [R -> {"unsent", "requested", "underway", "acked", "removed"}]
    /\ nfrags \in [R -> 0..Total]
    /\ wack \in 0..2

\* The messages under way.
Message(m) ==
    \/ /\ m.type = "datafrag" /\ m.to \subseteq R
       /\ {m.first, m.last} \subseteq Fragments /\ m.first <= m.last
    \/ m.type = "hbfrag" /\ m.to \in R /\ m.last_frag \in Fragments
    \/ m.type = "nackfrag" /\ m.from \in R /\ m.frags # {} /\ m.frags \subseteq Fragments
    \/ m.type = "acknack" /\ m.from \in R /\ m.acked \in BOOLEAN

FragInv ==
    /\ WriterType
    /\ \A m \in net : Message(m)
    /\ ReaderInv(state, ctx, fi, out)
    /\ room \in [R -> BOOLEAN]
    /\ fill \in 0..MaxFill

-----------------------------------------------------------------------------
(* Numbers, fragments and readers.                                         *)

\* A set of numbers has a least element.
LEMMA LeastNumber ==
    ASSUME NEW T \in SUBSET Nat, T # {}
    PROVE  \E i \in T : \A j \in T : i <= j
<1> DEFINE Less == OpToRel(<, Nat)
<1>1. IsWellFoundedOn(Less, Nat)
  BY NatLessThanWellFounded
<1>2. \A i \in T, j \in T : j < i => <<j, i>> \in Less
  BY DEF OpToRel
<1> HIDE DEF Less
<1>3. \E i \in T : \A j \in T : ~ (<<j, i>> \in Less)
  BY <1>1, WFMin
<1>4. \E i \in T : \A j \in T : ~ (j < i)
  BY <1>2, <1>3, Zenon
<1>5. \A i \in T, j \in T : ~ (j < i) => i <= j
  BY SMT
<1> QED  BY <1>4, <1>5, Zenon

\* A nonempty set of naturals has a least element, and Min chooses it.
LEMMA MinProps ==
    ASSUME NEW T \in SUBSET Nat, T # {}
    PROVE  Min(T) \in T /\ \A j \in T : Min(T) <= j
BY LeastNumber DEF Min

\* The least upper bound of a set of numbers is in the set.
LEMMA MaxProps ==
    ASSUME NEW T \in SUBSET Nat, T # {}, NEW b \in Nat, \A j \in T : j <= b
    PROVE  Max(T) \in T /\ \A j \in T : j <= Max(T)
<1> DEFINE B == {n \in Nat : \A j \in T : j <= n}
<1>1. B \in SUBSET Nat /\ B # {}
  OBVIOUS
<1>2. PICK m \in B : \A n \in B : m <= n
  <2> HIDE DEF B
  <2> QED  BY <1>1, LeastNumber
<1>3. m \in T
  <2> SUFFICES ASSUME m \notin T PROVE FALSE
    OBVIOUS
  <2>1. \A j \in T : j <= m /\ j # m /\ j \in Nat /\ m \in Nat
    OBVIOUS
  <2>2. m - 1 \in Nat
    <3>1. PICK j : j \in T
      OBVIOUS
    <3> HIDE DEF B
    <3> QED  BY <2>1, <3>1
  <2>4. \A j \in T : j <= m - 1
    <3> HIDE DEF B
    <3> QED  BY <2>1
  <2>3. m - 1 \in B
    BY <2>2, <2>4
  <2>5. m <= m - 1
    BY <2>3, <1>2
  <2>6. m \in Nat
    OBVIOUS
  <2> HIDE DEF B
  <2> QED  BY <2>5, <2>6
<1>4. \A j \in T : m >= j
  BY <1>2
<1>5. \E x \in T : \A y \in T : x >= y
  BY <1>3, <1>4
<1>6. Max(T) \in T /\ \A y \in T : Max(T) >= y
  BY <1>5, Zenon DEF Max
<1>7. \A x, y \in Nat : x >= y => y <= x
  OBVIOUS
<1> QED  BY <1>6, <1>7

\* The fragments of a sample.
LEMMA FragmentNumbers ==
    /\ Total \in Nat /\ 1 <= Total
    /\ Fragments \in SUBSET Nat
    /\ \A f : f \in Fragments <=> f \in Nat /\ 1 <= f /\ f <= Total
BY FragInfoAssumption DEF Fragments

LEMMA FragmentsFinite ==
    /\ IsFiniteSet(Fragments) /\ Cardinality(Fragments) = Total
    /\ \A S \in SUBSET Fragments : /\ IsFiniteSet(S) /\ Cardinality(S) \in 0..Total
                                   /\ Cardinality(S) = 0 <=> S = {}
<1>1. IsFiniteSet(Fragments) /\ Cardinality(Fragments) = Total
  BY FragmentNumbers, FS_Interval DEF Fragments
<1>2. ASSUME NEW S \in SUBSET Fragments
      PROVE  /\ IsFiniteSet(S) /\ Cardinality(S) \in 0..Total
             /\ Cardinality(S) = 0 <=> S = {}
  <2>1. IsFiniteSet(S) /\ Cardinality(S) <= Total
    BY <1>1, FS_Subset
  <2>2. Cardinality(S) \in Nat
    BY <2>1, FS_CardinalityType
  <2>3. Cardinality(S) = 0 <=> S = {}
    BY <2>1, FS_EmptySet, Zenon
  <2>4. Cardinality(S) \in 0..Total
    BY <2>1, <2>2, FragmentNumbers
  <2> QED  BY <2>1, <2>3, <2>4
<1> QED  BY <1>1, <1>2

\* There are finitely many readers, and Null is none of them.
LEMMA ReadersFinite ==
    /\ IsFiniteSet(R) /\ Null \notin R
    /\ Len(Readers) \in Nat
    /\ \A n \in 1..Len(Readers) : Readers[n] \in R
<1>1. Readers \in Seq(R) /\ Null \notin R
  BY FragReliableAssumption DEF R
<1>2. Len(Readers) \in Nat /\ DOMAIN Readers = 1..Len(Readers)
  BY <1>1
<1>3. IsFiniteSet(DOMAIN Readers)
  BY <1>2, FS_Interval
<1>4. Readers \in Surjection(DOMAIN Readers, R)
  BY <1>1, <1>2 DEF R, Range, Surjection
<1>5. IsFiniteSet(R)
  BY <1>3, <1>4, FS_Surjection
<1> QED  BY <1>1, <1>2, <1>5

-----------------------------------------------------------------------------
(* Contexts.                                                               *)

\* NextClear finds the first clear bit.
LEMMA ClearBit ==
    ASSUME NEW got \in SUBSET Fragments, NEW i \in 0..Total
    PROVE  /\ NextClear(got, i) \in i..Total
           /\ NextClear(got, i) + 1 \notin got
           /\ \A j \in i..Total : j + 1 \notin got => NextClear(got, i) <= j
<1> DEFINE T == {j \in i..Total : j + 1 \notin got}
<1>1. T \in SUBSET Nat
  BY FragmentNumbers
<1>2. Total \in T
  BY FragmentNumbers
<1> HIDE DEF T
<1>3. Min(T) \in T /\ \A j \in T : Min(T) <= j
  BY <1>1, <1>2, MinProps
<1> QED  BY <1>3 DEF NextClear, T

\* It is determined by that.
LEMMA ClearBitIs ==
    ASSUME NEW got \in SUBSET Fragments, NEW n \in 0..Total, n + 1 \notin got,
           \A j \in 0..Total : j < n => j + 1 \in got
    PROVE  n = NextClear(got, 0)
<1>1. 0 \in 0..Total /\ Total \in Nat
  BY FragmentNumbers
<1>2. /\ NextClear(got, 0) \in 0..Total /\ NextClear(got, 0) + 1 \notin got
      /\ NextClear(got, 0) <= n
  BY <1>1, ClearBit
<1> QED  BY <1>1, <1>2

\* A new context has nothing.
LEMMA CreateSound ==
    rfraginfo_create \in Context /\ Sound(rfraginfo_create) /\ rfraginfo_create.nrefs = 1
<1>1. rfraginfo_create \in Context
  BY FragmentNumbers DEF rfraginfo_create, Context
<1>2. Cardinality(Fragments \ {}) = Total
  BY FragmentsFinite
<1>3. 0 = NextClear({}, 0)
  BY FragmentNumbers, ClearBitIs
<1> QED  BY <1>1, <1>2, <1>3 DEF rfraginfo_create, Sound, Exact

\* One fragment is marked.
LEMMA MarkOneSound ==
    ASSUME NEW fip \in Context, Sound(fip), NEW f \in Fragments
    PROVE  /\ MarkOne(fip, f) \in Context /\ Sound(MarkOne(fip, f))
           /\ MarkOne(fip, f).nrefs = fip.nrefs
<1>1. CASE f \in fip.got
  BY <1>1 DEF MarkOne
<1>2. CASE f \notin fip.got
  <2> DEFINE got == fip.got \cup {f}
             moves == fip.num_na > 1 /\ fip.first_na = f - 1
             first == IF moves THEN NextClear(got, f) ELSE fip.first_na
             new == MarkOne(fip, f)
  <2>0. /\ fip.got \in SUBSET Fragments /\ fip.buf \in SUBSET Fragments
        /\ fip.num_na \in 0..Total /\ fip.first_na \in 0..Total /\ fip.nrefs \in Nat
        /\ Total \in Nat /\ f \in Nat /\ 1 <= f /\ f <= Total
    BY FragmentNumbers DEF Context
  <2>1. new = [fip EXCEPT !.got = got, !.buf = fip.buf \cup {f}, !.num_na = fip.num_na - 1,
                          !.first_na = first]
    BY <1>2 DEF MarkOne
  <2>2. /\ new.got = got /\ new.buf = fip.buf \cup {f} /\ new.num_na = fip.num_na - 1
        /\ new.first_na = first /\ new.nrefs = fip.nrefs
    BY <2>1 DEF Context
  <2>3. Fragments \ got = (Fragments \ fip.got) \ {f} /\ f \in Fragments \ fip.got
    BY <1>2
  <2>4. fip.num_na = Cardinality(Fragments \ fip.got)
    BY DEF Sound, Exact
  <2>5. new.num_na = Cardinality(Fragments \ got)
    <3>1. IsFiniteSet(Fragments \ fip.got)
      BY FragmentsFinite
    <3>2. Cardinality((Fragments \ fip.got) \ {f}) = Cardinality(Fragments \ fip.got) - 1
      BY <2>3, <3>1, FS_RemoveElement
    <3> HIDE DEF got, new
    <3> QED  BY <2>2, <2>3, <2>4, <3>2
  <2>6. got \in SUBSET Fragments
    BY <2>0
  <2>7. new.num_na \in 0..Total
    BY <2>5, FragmentsFinite
  <2>8. first \in 0..Total
    <3>1. f \in 0..Total
      BY <2>0
    <3>2. NextClear(got, f) \in f..Total
      BY <2>6, <3>1, ClearBit
    <3> QED  BY <2>0, <3>2
  <2>9. new \in Context
    <3>1. new = [nrefs |-> fip.nrefs, first_na |-> first, num_na |-> fip.num_na - 1,
                 got |-> got, buf |-> fip.buf \cup {f}]
      BY <2>1 DEF Context
    <3>2. fip.num_na - 1 \in 0..Total
      BY <2>2, <2>7
    <3> HIDE DEF first, got, new
    <3> QED  BY <2>0, <2>6, <2>8, <3>1, <3>2 DEF Context
  <2>10. ASSUME new.num_na > 0 PROVE first = NextClear(got, 0)
    <3>0. fip.num_na > 1 /\ fip.num_na > 0
      BY <2>0, <2>2, <2>10
    <3>1. fip.first_na = NextClear(fip.got, 0)
      BY <3>0 DEF Sound, Exact
    <3>2. /\ fip.first_na + 1 \notin fip.got
          /\ \A j \in 0..Total : j + 1 \notin fip.got => fip.first_na <= j
      BY <2>0, <3>1, ClearBit
    <3>3. CASE fip.first_na = f - 1
      <4>1. f \in 0..Total /\ first = NextClear(got, f)
        BY <2>0, <3>0, <3>3
      <4>2. /\ first \in f..Total /\ first + 1 \notin got
            /\ \A j \in f..Total : j + 1 \notin got => first <= j
        BY <2>6, <4>1, ClearBit
      <4>3. ASSUME NEW j \in 0..Total, j < first PROVE j + 1 \in got
        <5>1. CASE j < f - 1
          <6>1. ~ (fip.first_na <= j)
            BY <2>0, <3>3, <5>1
          <6> QED  BY <3>2, <6>1
        <5>2. CASE j = f - 1
          BY <2>0, <5>2
        <5>3. CASE j >= f
          <6>1. j \in f..Total /\ ~ (first <= j)
            BY <2>0, <4>2, <4>3, <5>3
          <6> QED  BY <4>2, <6>1
        <5> QED  BY <2>0, <5>1, <5>2, <5>3
      <4> HIDE DEF first, got
      <4> QED  BY <2>6, <2>8, <4>2, <4>3, ClearBitIs
    <3>4. CASE fip.first_na # f - 1
      <4>1. first = fip.first_na /\ first + 1 \notin got
        BY <2>0, <3>2, <3>4
      <4>2. \A j \in 0..Total : j < first => j + 1 \in got
        BY <2>0, <3>2, <4>1
      <4> HIDE DEF first, got
      <4> QED  BY <2>6, <2>8, <4>1, <4>2, ClearBitIs
    <3> QED  BY <3>3, <3>4
  <2>11. new.got \subseteq new.buf
    BY <2>2 DEF Sound
  <2> HIDE DEF new, first
  <2> QED  BY <2>2, <2>5, <2>9, <2>10, <2>11 DEF Sound, Exact, new
<1> QED  BY <1>1, <1>2

\* The loop of mark_fragment, up to fragment n.
Marking(g, fip, first, n) ==
    g = [f \in first - 1..n |-> IF f < first THEN fip ELSE MarkOne(g[f - 1], f)]

LEMMA MarkingExists ==
    ASSUME NEW fip, NEW first \in Fragments, NEW last \in Fragments, first <= last
    PROVE  \E g : Marking(g, fip, first, last)
<1>0. first \in Nat /\ last \in Nat /\ 1 <= first
  BY FragmentNumbers
<1> DEFINE T == {n \in first - 1..last : ~ \E g : Marking(g, fip, first, n)}
<1> SUFFICES ASSUME T # {} PROVE FALSE
  BY <1>0
<1>1. PICK n \in T : \A k \in T : n <= k
  <2>1. T \in SUBSET Nat
    BY <1>0
  <2> HIDE DEF T
  <2> QED  BY <2>1, LeastNumber
<1>2. n \in Nat /\ first - 1 <= n /\ n <= last /\ ~ \E g : Marking(g, fip, first, n)
  BY <1>0
<1>3. CASE n = first - 1
  <2> DEFINE g == [f \in first - 1..n |-> fip]
  <2>1. Marking(g, fip, first, n)
    BY <1>0, <1>3 DEF Marking
  <2> QED  BY <1>2, <2>1
<1>4. CASE n # first - 1
  <2>1. n - 1 \in first - 1..last /\ ~ (n <= n - 1)
    BY <1>0, <1>2, <1>4
  <2>2. PICK h : Marking(h, fip, first, n - 1)
    BY <1>1, <2>1
  <2> DEFINE g == [f \in first - 1..n |-> IF f = n THEN MarkOne(h[n - 1], n) ELSE h[f]]
  <2>3. \A f \in first - 1..n : f # n => f \in first - 1..n - 1
    BY <1>0, <1>2
  <2>4. \A f \in first - 1..n : f >= first => f - 1 \in first - 1..n /\ f - 1 # n
    BY <1>0, <1>2
  <2>5. \A f \in first - 1..n - 1 : h[f] = IF f < first THEN fip ELSE MarkOne(h[f - 1], f)
    BY <2>2 DEF Marking
  <2>6. ASSUME NEW f \in first - 1..n
        PROVE  g[f] = IF f < first THEN fip ELSE MarkOne(g[f - 1], f)
    <3>1. CASE f < first
      <4>1. f # n
        BY <1>0, <1>2, <1>4, <3>1
      <4> QED  BY <2>3, <2>5, <3>1, <4>1
    <3>2. CASE ~ (f < first)
      <4>1. g[f - 1] = h[f - 1]
        BY <1>0, <1>2, <2>4, <3>2
      <4>2. CASE f = n
        BY <3>2, <4>1, <4>2
      <4>3. CASE f # n
        <5>1. g[f] = h[f]
          BY <4>3
        <5> HIDE DEF g
        <5> QED  BY <2>3, <2>5, <3>2, <4>1, <4>3, <5>1
      <4> QED  BY <4>2, <4>3
    <3> QED  BY <3>1, <3>2
  <2>7. g = [f \in first - 1..n |-> g[f]]
    OBVIOUS
  <2>8. Marking(g, fip, first, n)
    <3> HIDE DEF g
    <3> QED  BY <2>6, <2>7 DEF Marking
  <2> QED  BY <1>2, <2>8
<1> QED  BY <1>3, <1>4

\* mark_fragment keeps a context sound.
LEMMA MarkSound ==
    ASSUME NEW fip \in Context, Sound(fip),
           NEW first \in Fragments, NEW last \in Fragments, first <= last
    PROVE  /\ mark_fragment(fip, first, last) \in Context
           /\ Sound(mark_fragment(fip, first, last))
           /\ mark_fragment(fip, first, last).nrefs = fip.nrefs
<1>0. first \in Nat /\ last \in Nat /\ 1 <= first
  BY FragmentNumbers
<1>1. PICK g : Marking(g, fip, first, last) /\ mark_fragment(fip, first, last) = g[last]
  <2>1. PICK h : Marking(h, fip, first, last)
    BY MarkingExists
  <2> QED  BY <2>1 DEF mark_fragment, Marking
<1> DEFINE good(f) == g[f] \in Context /\ Sound(g[f]) /\ g[f].nrefs = fip.nrefs
           T == {f \in first - 1..last : ~ good(f)}
<1> SUFFICES ASSUME T # {} PROVE FALSE
  BY <1>0, <1>1
<1>2. PICK n \in T : \A k \in T : n <= k
  <2>1. T \in SUBSET Nat
    BY <1>0
  <2> HIDE DEF T
  <2> QED  BY <2>1, LeastNumber
<1>3. n \in Nat /\ n \in first - 1..last /\ ~ good(n)
  BY <1>0
<1>4. g[n] = IF n < first THEN fip ELSE MarkOne(g[n - 1], n)
  BY <1>1, <1>3 DEF Marking
<1>5. CASE n < first
  BY <1>3, <1>4, <1>5
<1>6. CASE ~ (n < first)
  <2>1. n - 1 \in first - 1..last /\ ~ (n <= n - 1) /\ n \in Fragments
    BY <1>0, <1>3, <1>6, FragmentNumbers
  <2>2. good(n - 1)
    BY <1>2, <2>1
  <2> QED  BY <1>3, <1>4, <1>6, <2>1, <2>2, MarkOneSound
<1> QED  BY <1>5, <1>6

\* A context that misses nothing has the whole sample.
LEMMA CompleteIsWhole ==
    ASSUME NEW fip \in Context, Sound(fip), fip.num_na = 0
    PROVE  fip.got = Fragments /\ fip.buf = Fragments
<1>1. fip.got \subseteq Fragments /\ fip.buf \subseteq Fragments /\ fip.got \subseteq fip.buf
  BY DEF Context, Sound
<1>2. Fragments \ fip.got = {}
  BY FragmentsFinite DEF Sound, Exact
<1> QED  BY <1>1, <1>2

\* The last fragment of a sample that the cache refused is missing again.
LEMMA IgnoreSound ==
    ASSUME NEW fip \in Context, Sound(fip), fip.num_na = 0, NEW last \in Fragments
    PROVE  /\ ignore_last_fragment(fip, last) \in Context
           /\ Sound(ignore_last_fragment(fip, last))
           /\ ignore_last_fragment(fip, last).nrefs = fip.nrefs
<1> DEFINE new == ignore_last_fragment(fip, last)
           got == Fragments \ {last}
<1>0. last \in Nat /\ 1 <= last /\ last <= Total /\ Total \in Nat
  BY FragmentNumbers
<1>1. fip.got = Fragments /\ fip.buf = Fragments
  BY CompleteIsWhole
<1>2. new = [nrefs |-> fip.nrefs, first_na |-> last - 1, num_na |-> 1,
             got |-> fip.got \ {last}, buf |-> fip.buf]
  <2>1. new = [fip EXCEPT !.num_na = 1, !.got = fip.got \ {last}, !.first_na = last - 1]
    BY DEF ignore_last_fragment
  <2> HIDE DEF new
  <2> QED  BY <2>1 DEF Context
<1>3. last - 1 \in 0..Total /\ 1 \in 0..Total /\ fip.nrefs \in Nat
  BY <1>0 DEF Context
<1>4. new \in Context
  BY <1>1, <1>2, <1>3 DEF Context
<1>5. Cardinality(Fragments \ got) = 1
  <2>1. Fragments \ got = {last}
    OBVIOUS
  <2> QED  BY <2>1, FS_Singleton
<1>6. last - 1 = NextClear(got, 0)
  <2>1. got \in SUBSET Fragments /\ (last - 1) + 1 \notin got
    BY <1>0
  <2>2. \A j \in 0..Total : j < last - 1 => j + 1 \in got
    BY <1>0, FragmentNumbers
  <2> HIDE DEF got
  <2> QED  BY <1>3, <2>1, <2>2, ClearBitIs
<1>7. got \subseteq Fragments
  OBVIOUS
<1> HIDE DEF got
<1>8. /\ new.num_na = 1 /\ new.got = got /\ new.first_na = last - 1 /\ new.buf = Fragments
      /\ new.nrefs = fip.nrefs
  BY <1>1, <1>2 DEF got
<1> HIDE DEF new
<1>9. Sound(new)
  BY <1>5, <1>6, <1>7, <1>8 DEF Sound, Exact
<1> QED  BY <1>4, <1>8, <1>9 DEF new

-----------------------------------------------------------------------------
(* Readers join, fill and leave contexts.                                  *)

\* The users of a context can be counted.
LEMMA UsersCounted ==
    ASSUME NEW cx \in [R -> R \cup {Null}], NEW c
    PROVE  /\ IsFiniteSet(Users(cx, c)) /\ Cardinality(Users(cx, c)) \in Nat
           /\ Cardinality(Users(cx, c)) <= Cardinality(R)
           /\ Cardinality(Users(cx, c)) = 0 <=> Users(cx, c) = {}
<1>1. Users(cx, c) \in SUBSET R
  BY DEF Users
<1>2. IsFiniteSet(Users(cx, c)) /\ Cardinality(Users(cx, c)) <= Cardinality(R)
  BY <1>1, ReadersFinite, FS_Subset
<1>3. Cardinality(Users(cx, c)) \in Nat
  BY <1>2, FS_CardinalityType
<1>4. Cardinality(Users(cx, c)) = 0 <=> Users(cx, c) = {}
  BY <1>2, FS_EmptySet, Zenon
<1> QED  BY <1>2, <1>3, <1>4

\* A reader joins context c: its own new one, or one that is in use.
LEMMA JoinContext ==
    ASSUME NEW st, NEW cx, NEW fs, NEW bs, ReaderInv(st, cx, fs, bs),
           NEW r \in R, st[r] = "none", NEW c \in R, c = r \/ \E q \in R : cx[q] = c,
           NEW fs2 \in [R -> Context], Sound(fs2[c]),
           fs2[c].nrefs = Cardinality(Users(cx, c)) + 1,
           \A d \in R : d # c => fs2[d] = fs[d]
    PROVE  ReaderInv([st EXCEPT ![r] = "part"], [cx EXCEPT ![r] = c], fs2, bs)
<1> DEFINE st2 == [st EXCEPT ![r] = "part"]
           cx2 == [cx EXCEPT ![r] = c]
<1>0. /\ st \in [R -> States] /\ cx \in [R -> R \cup {Null}] /\ bs \in [R -> SUBSET Fragments]
      /\ Contexts(st, cx, fs) /\ Whole(st, bs) /\ Null \notin R
  BY ReadersFinite DEF ReaderInv, ReaderType
<1>1. cx[r] = Null
  BY <1>0 DEF Contexts
<1>2. /\ st2[r] = "part" /\ cx2[r] = c
      /\ \A q \in R : q # r => st2[q] = st[q] /\ cx2[q] = cx[q]
  BY <1>0
<1>3. st2 \in [R -> States] /\ cx2 \in [R -> R \cup {Null}]
  BY <1>0 DEF States
<1> HIDE DEF st2, cx2
<1>4. \A q \in R : st2[q] = "part" <=> cx2[q] # Null
  BY <1>0, <1>2 DEF Contexts
<1>5. ASSUME NEW q \in R, cx2[q] # Null
      PROVE  /\ Sound(fs2[cx2[q]])
             /\ cx2[cx2[q]] = cx2[q] \/ st2[cx2[q]] \in {"received", "lost"}
  <2>1. CASE q = r
    <3>1. CASE c = r
      BY <1>2, <2>1, <3>1
    <3>2. CASE c # r
      <4>1. PICK p \in R : cx[p] = c
        BY <3>2
      <4>2. cx[c] = c \/ st[c] \in {"received", "lost"}
        BY <1>0, <4>1 DEF Contexts
      <4> QED  BY <1>2, <2>1, <3>2, <4>2
    <3> QED  BY <3>1, <3>2
  <2>2. CASE q # r
    <3>1. cx2[q] = cx[q] /\ cx[q] \in R
      BY <1>0, <1>2, <1>5, <2>2
    <3>2. Sound(fs[cx[q]]) /\ (cx[cx[q]] = cx[q] \/ st[cx[q]] \in {"received", "lost"})
      BY <1>0, <1>5, <3>1 DEF Contexts
    <3>3. cx[q] # r
      BY <1>1, <3>1, <3>2, <1>0
    <3> QED  BY <1>2, <3>1, <3>2, <3>3
  <2> QED  BY <2>1, <2>2
<1>6. ASSUME NEW d \in R PROVE fs2[d].nrefs = Cardinality(Users(cx2, d))
  <2>1. CASE d = c
    <3>1. Users(cx2, c) = Users(cx, c) \cup {r} /\ r \notin Users(cx, c)
      BY <1>0, <1>1, <1>2 DEF Users
    <3>2. Cardinality(Users(cx, c) \cup {r}) = Cardinality(Users(cx, c)) + 1
      BY <1>0, <3>1, UsersCounted, FS_AddElement
    <3> QED  BY <2>1, <3>1, <3>2
  <2>2. CASE d # c
    <3>1. Users(cx2, d) = Users(cx, d)
      BY <1>0, <1>1, <1>2, <2>2 DEF Users
    <3> QED  BY <1>0, <2>2, <3>1 DEF Contexts
  <2> QED  BY <2>1, <2>2
<1>7. Whole(st2, bs)
  BY <1>0, <1>2 DEF Whole
<1>8. ReaderInv(st2, cx2, fs2, bs)
  BY <1>0, <1>3, <1>4, <1>5, <1>6, <1>7 DEF ReaderInv, ReaderType, Contexts
<1> QED  BY <1>8 DEF st2, cx2

\* The record of a context changes.
LEMMA ChangeContext ==
    ASSUME NEW st, NEW cx, NEW fs, NEW bs, ReaderInv(st, cx, fs, bs),
           NEW c \in R, NEW fip \in Context, Sound(fip), fip.nrefs = fs[c].nrefs
    PROVE  ReaderInv(st, cx, [fs EXCEPT ![c] = fip], bs)
<1> DEFINE fs2 == [fs EXCEPT ![c] = fip]
<1>0. ReaderType(st, cx, fs, bs) /\ Contexts(st, cx, fs) /\ Whole(st, bs)
  BY DEF ReaderInv
<1>1. fs2 \in [R -> Context] /\ \A d \in R : fs2[d] = IF d = c THEN fip ELSE fs[d]
  BY <1>0 DEF ReaderType
<1> HIDE DEF fs2
<1>2. \A q \in R : cx[q] # Null => cx[q] \in R
  BY <1>0 DEF ReaderType
<1>3. Contexts(st, cx, fs2)
  <2>1. \A q \in R : cx[q] # Null => Sound(fs2[cx[q]])
    BY <1>0, <1>1, <1>2 DEF Contexts
  <2>2. \A d \in R : fs2[d].nrefs = Cardinality(Users(cx, d))
    BY <1>0, <1>1 DEF Contexts
  <2> QED  BY <1>0, <2>1, <2>2 DEF Contexts
<1>4. ReaderInv(st, cx, fs2, bs)
  BY <1>0, <1>1, <1>3 DEF ReaderInv, ReaderType
<1> QED  BY <1>4 DEF fs2

\* A reader is done with its sample and gives up its context.
LEMMA LeaveContext ==
    ASSUME NEW st, NEW cx, NEW fs, NEW bs, ReaderInv(st, cx, fs, bs),
           NEW r \in R, NEW c \in R, cx[r] = c, NEW v \in {"received", "lost"},
           NEW b \in SUBSET Fragments, v = "received" => b = Fragments
    PROVE  ReaderInv([st EXCEPT ![r] = v], [cx EXCEPT ![r] = Null],
                     [fs EXCEPT ![c].nrefs = @ - 1], [bs EXCEPT ![r] = b])
<1> DEFINE st2 == [st EXCEPT ![r] = v]
           cx2 == [cx EXCEPT ![r] = Null]
           fs2 == [fs EXCEPT ![c].nrefs = @ - 1]
           bs2 == [bs EXCEPT ![r] = b]
<1>0. /\ st \in [R -> States] /\ cx \in [R -> R \cup {Null}] /\ fs \in [R -> Context]
      /\ bs \in [R -> SUBSET Fragments]
      /\ Contexts(st, cx, fs) /\ Whole(st, bs) /\ Null \notin R
  BY ReadersFinite DEF ReaderInv, ReaderType
<1>1. fs[c].nrefs = Cardinality(Users(cx, c)) /\ r \in Users(cx, c)
  BY <1>0 DEF Contexts, Users
<1>2. Cardinality(Users(cx, c)) \in Nat /\ Cardinality(Users(cx, c)) # 0
  BY <1>0, <1>1, UsersCounted
<1>3. Users(cx2, c) = Users(cx, c) \ {r}
  BY <1>0 DEF Users
<1>4. Cardinality(Users(cx2, c)) = Cardinality(Users(cx, c)) - 1
  <2>0. IsFiniteSet(Users(cx, c))
    BY <1>0, UsersCounted
  <2>1. Cardinality(Users(cx, c) \ {r}) = Cardinality(Users(cx, c)) - 1
    BY <1>1, <2>0, FS_RemoveElement
  <2> HIDE DEF cx2
  <2> QED  BY <1>3, <2>1
<1>5. /\ \A d \in R : d # c => fs2[d] = fs[d]
      /\ fs2[c] = [fs[c] EXCEPT !.nrefs = @ - 1]
  BY <1>0
<1>6. fs2[c] \in Context /\ fs2[c].nrefs = fs[c].nrefs - 1 /\ (Sound(fs[c]) => Sound(fs2[c]))
  <2>1. fs[c] \in Context /\ fs[c].nrefs - 1 \in Nat
    BY <1>0, <1>1, <1>2
  <2>2. /\ fs2[c].nrefs = fs[c].nrefs - 1 /\ fs2[c].num_na = fs[c].num_na
        /\ fs2[c].first_na = fs[c].first_na /\ fs2[c].got = fs[c].got
        /\ fs2[c].buf = fs[c].buf
    BY <1>5, <2>1 DEF Context
  <2>3. fs2[c] \in Context
    BY <1>5, <2>1 DEF Context
  <2> HIDE DEF fs2
  <2> QED  BY <2>2, <2>3 DEF Sound, Exact
<1>7. /\ st2[r] = v /\ cx2[r] = Null /\ bs2[r] = b
      /\ \A q \in R : q # r => st2[q] = st[q] /\ cx2[q] = cx[q] /\ bs2[q] = bs[q]
  BY <1>0
<1>8. st2 \in [R -> States] /\ cx2 \in [R -> R \cup {Null}] /\ bs2 \in [R -> SUBSET Fragments]
  BY <1>0 DEF States
<1>9. fs2 \in [R -> Context]
  <2>1. fs2 = [d \in R |-> fs2[d]]
    BY <1>0
  <2>2. \A d \in R : fs2[d] \in Context
    <3> HIDE DEF fs2
    <3> QED  BY <1>0, <1>5, <1>6
  <2> HIDE DEF fs2
  <2> QED  BY <2>1, <2>2
<1> HIDE DEF st2, cx2, fs2, bs2
<1>10. \A q \in R : st2[q] = "part" <=> cx2[q] # Null
  BY <1>0, <1>7 DEF Contexts
<1>11. ASSUME NEW q \in R, cx2[q] # Null
       PROVE  /\ Sound(fs2[cx2[q]])
              /\ cx2[cx2[q]] = cx2[q] \/ st2[cx2[q]] \in {"received", "lost"}
  <2>1. q # r /\ cx2[q] = cx[q] /\ cx[q] \in R
    BY <1>0, <1>7, <1>11
  <2>2. Sound(fs[cx[q]]) /\ (cx[cx[q]] = cx[q] \/ st[cx[q]] \in {"received", "lost"})
    BY <1>0, <1>11, <2>1 DEF Contexts
  <2>3. Sound(fs2[cx[q]])
    BY <1>5, <1>6, <2>1, <2>2
  <2>4. CASE cx[q] = r
    BY <1>7, <2>1, <2>3, <2>4
  <2>5. CASE cx[q] # r
    BY <1>7, <2>1, <2>2, <2>3, <2>5
  <2> QED  BY <2>4, <2>5
<1>12. ASSUME NEW d \in R PROVE fs2[d].nrefs = Cardinality(Users(cx2, d))
  <2>1. CASE d = c
    BY <1>1, <1>4, <1>6, <2>1
  <2>2. CASE d # c
    <3>1. Users(cx2, d) = Users(cx, d)
      BY <1>0, <1>7, <2>2 DEF Users
    <3> QED  BY <1>0, <1>5, <2>2, <3>1 DEF Contexts
  <2> QED  BY <2>1, <2>2
<1>13. Whole(st2, bs2)
  BY <1>0, <1>7 DEF Whole
<1>14. ReaderInv(st2, cx2, fs2, bs2)
  BY <1>8, <1>9, <1>10, <1>11, <1>12, <1>13 DEF ReaderInv, ReaderType, Contexts
<1> QED  BY <1>14 DEF st2, cx2, fs2, bs2

\* The other contexts stay in use, and so does this one if it had more users.
LEMMA StillUsed ==
    ASSUME NEW st, NEW cx, NEW fs, NEW bs, ReaderInv(st, cx, fs, bs),
           NEW r \in R, NEW c \in R, cx[r] = c,
           NEW d \in R, d # c \/ fs[c].nrefs # 1, NEW q \in R, cx[q] = d
    PROVE  \E p \in R : [cx EXCEPT ![r] = Null][p] = d
<1> DEFINE cx2 == [cx EXCEPT ![r] = Null]
<1>0. cx \in [R -> R \cup {Null}] /\ Contexts(st, cx, fs)
  BY DEF ReaderInv, ReaderType
<1>1. cx2 \in [R -> R \cup {Null}] /\ \A p \in R : p # r => cx2[p] = cx[p]
  BY <1>0
<1>2. CASE d # c
  BY <1>1, <1>2
<1>3. CASE d = c
  <2>1. fs[c].nrefs = Cardinality(Users(cx, c)) /\ r \in Users(cx, c)
    BY <1>0 DEF Contexts, Users
  <2>2. IsFiniteSet(Users(cx, c)) /\ Cardinality(Users(cx, c)) # 1
    BY <1>0, <1>3, <2>1, UsersCounted
  <2>3. Users(cx, c) # {r}
    BY <2>2, FS_Singleton
  <2>4. PICK p \in Users(cx, c) : p # r
    BY <2>1, <2>3
  <2>5. p \in R /\ cx[p] = c
    BY <2>4 DEF Users
  <2> QED  BY <1>1, <1>3, <2>4, <2>5
<1> QED  BY <1>2, <1>3

\* A reader without context learns that the sample is lost.
LEMMA LoseNothing ==
    ASSUME NEW st, NEW cx, NEW fs, NEW bs, ReaderInv(st, cx, fs, bs),
           NEW r \in R, cx[r] = Null
    PROVE  ReaderInv([st EXCEPT ![r] = "lost"], cx, fs, bs)
<1> DEFINE st2 == [st EXCEPT ![r] = "lost"]
<1>0. /\ ReaderType(st, cx, fs, bs) /\ Contexts(st, cx, fs) /\ Whole(st, bs)
      /\ st \in [R -> States]
  BY DEF ReaderInv, ReaderType
<1>1. st2[r] = "lost" /\ \A q \in R : q # r => st2[q] = st[q]
  BY <1>0
<1>2. st2 \in [R -> States]
  BY <1>0 DEF States
<1> HIDE DEF st2
<1>3. \A q \in R : cx[q] # Null => cx[q] \in R
  BY <1>0 DEF ReaderType
<1>4. Contexts(st2, cx, fs)
  <2>1. \A q \in R : st2[q] = "part" <=> cx[q] # Null
    BY <1>0, <1>1 DEF Contexts
  <2>2. \A q \in R : cx[q] # Null => cx[cx[q]] = cx[q] \/ st2[cx[q]] \in {"received", "lost"}
    BY <1>0, <1>1, <1>3 DEF Contexts
  <2> QED  BY <1>0, <2>1, <2>2 DEF Contexts
<1>5. Whole(st2, bs)
  BY <1>0, <1>1 DEF Whole
<1>6. ReaderInv(st2, cx, fs, bs)
  BY <1>0, <1>2, <1>4, <1>5 DEF ReaderInv, ReaderType
<1> QED  BY <1>6 DEF st2

-----------------------------------------------------------------------------
(* A DATA_FRAG at the readers, one after the other.                        *)

Progress == [state : [R -> States], ctx : [R -> R \cup {Null}], fi : [R -> Context],
             out : [R -> SUBSET Fragments], finfo : R \cup {Null}]

\* The context handed on to the next reader is in use.
Serving(s) ==
    /\ s \in Progress
    /\ ReaderInv(s.state, s.ctx, s.fi, s.out)
    /\ s.finfo # Null => \E q \in R : s.ctx[q] = s.finfo

\* A reader takes the context for the fragment.
LEMMA TakeContextKeeps ==
    ASSUME NEW s, Serving(s), NEW r \in R, s.state[r] \in {"none", "part"}
    PROVE  LET t == TakeContext(s, r)
           IN  /\ t \in Progress /\ t.state = s.state /\ t.out = s.out /\ t.ctx[r] \in R
               /\ ReaderInv([s.state EXCEPT ![r] = "part"], t.ctx, t.fi, s.out)
               /\ t.finfo # Null => \E q \in R : t.ctx[q] = t.finfo
<1> DEFINE t == TakeContext(s, r)
           st == [s.state EXCEPT ![r] = "part"]
<1>0. /\ s.state \in [R -> States] /\ s.ctx \in [R -> R \cup {Null}] /\ s.fi \in [R -> Context]
      /\ s.out \in [R -> SUBSET Fragments] /\ s.finfo \in R \cup {Null}
      /\ Contexts(s.state, s.ctx, s.fi) /\ Null \notin R /\ s \in Progress
  BY ReadersFinite DEF Serving, Progress, ReaderInv
<1>1. CASE s.ctx[r] # Null
  <2>1. t = s
    BY <1>1 DEF TakeContext
  <2>2. s.state[r] = "part"
    BY <1>0, <1>1 DEF Contexts
  <2>3. st = s.state
    BY <1>0, <2>2
  <2>4. s.ctx[r] \in R
    BY <1>0, <1>1
  <2> HIDE DEF t, st
  <2>5. /\ t \in Progress /\ t.state = s.state /\ t.out = s.out /\ t.ctx[r] \in R
        /\ ReaderInv(st, t.ctx, t.fi, s.out)
        /\ t.finfo # Null => \E q \in R : t.ctx[q] = t.finfo
    BY <1>0, <2>1, <2>3, <2>4 DEF Serving
  <2> QED  BY <2>5 DEF t, st
<1>2. CASE s.ctx[r] = Null /\ s.finfo # Null
  <2> DEFINE c == s.finfo
             fip == [s.fi[c] EXCEPT !.nrefs = @ + 1]
             fs == [s.fi EXCEPT ![c] = fip]
             cx == [s.ctx EXCEPT ![r] = c]
  <2>0. c \in R /\ s.state[r] = "none" /\ \E q \in R : s.ctx[q] = c
    BY <1>0, <1>2 DEF Contexts, Serving
  <2>1. t = [s EXCEPT !.ctx[r] = c, !.fi[c].nrefs = @ + 1]
    BY <1>2 DEF TakeContext
  <2>2. /\ t.ctx = cx /\ t.fi = fs /\ t.state = s.state /\ t.out = s.out /\ t.finfo = c
        /\ t = [state |-> s.state, ctx |-> cx, fi |-> fs, out |-> s.out, finfo |-> c]
    BY <2>1 DEF Progress, Serving
  <2>3. s.fi[c] \in Context /\ s.fi[c].nrefs = Cardinality(Users(s.ctx, c)) /\ Sound(s.fi[c])
    BY <1>0, <2>0 DEF Contexts
  <2>4. /\ fip.nrefs = s.fi[c].nrefs + 1 /\ fip.num_na = s.fi[c].num_na
        /\ fip.first_na = s.fi[c].first_na /\ fip.got = s.fi[c].got /\ fip.buf = s.fi[c].buf
        /\ fip \in Context
    BY <2>3 DEF Context
  <2> HIDE DEF fip
  <2>5. Sound(fip)
    BY <2>3, <2>4 DEF Sound, Exact
  <2>6. fs \in [R -> Context] /\ fs[c] = fip /\ \A d \in R : d # c => fs[d] = s.fi[d]
    BY <1>0, <2>0, <2>4
  <2>7. cx \in [R -> R \cup {Null}] /\ cx[r] = c
    BY <1>0, <2>0
  <2>8. ReaderInv(st, cx, fs, s.out)
    <3> HIDE DEF fs, c
    <3> QED  BY <2>0, <2>3, <2>4, <2>5, <2>6, JoinContext DEF Serving
  <2>9. t \in Progress
    <3> HIDE DEF t, fs, cx
    <3> QED  BY <1>0, <2>0, <2>2, <2>6, <2>7 DEF Progress
  <2>10. \E q \in R : cx[q] = c
    BY <2>7
  <2>11. /\ t \in Progress /\ t.state = s.state /\ t.out = s.out /\ t.ctx[r] \in R
         /\ ReaderInv(st, t.ctx, t.fi, s.out)
         /\ t.finfo # Null => \E q \in R : t.ctx[q] = t.finfo
    <3> HIDE DEF t, st, fs, cx
    <3> QED  BY <2>0, <2>2, <2>7, <2>8, <2>9, <2>10
  <2> QED  BY <2>11 DEF t, st
<1>3. CASE s.ctx[r] = Null /\ s.finfo = Null
  <2> DEFINE fs == [s.fi EXCEPT ![r] = rfraginfo_create]
             cx == [s.ctx EXCEPT ![r] = r]
  <2>0. s.state[r] = "none"
    BY <1>0, <1>3 DEF Contexts
  <2>1. t = [s EXCEPT !.ctx[r] = r, !.fi[r] = rfraginfo_create, !.finfo = r]
    BY <1>3 DEF TakeContext
  <2>2. /\ t.ctx = cx /\ t.fi = fs /\ t.state = s.state /\ t.out = s.out /\ t.finfo = r
        /\ t = [state |-> s.state, ctx |-> cx, fi |-> fs, out |-> s.out, finfo |-> r]
    BY <2>1 DEF Progress, Serving
  <2>3. Users(s.ctx, r) = {}
    <3> SUFFICES ASSUME NEW q \in R, s.ctx[q] = r PROVE FALSE
      BY DEF Users
    <3>1. s.ctx[r] = r \/ s.state[r] \in {"received", "lost"}
      BY <1>0 DEF Contexts
    <3> QED  BY <1>0, <1>3, <2>0, <3>1
  <2>4. Cardinality(Users(s.ctx, r)) + 1 = 1
    <3>1. Cardinality(Users(s.ctx, r)) = 0
      BY <2>3, FS_EmptySet
    <3> QED  BY <3>1
  <2>5. fs \in [R -> Context] /\ fs[r] = rfraginfo_create /\ \A d \in R : d # r => fs[d] = s.fi[d]
    BY <1>0, CreateSound
  <2>6. cx \in [R -> R \cup {Null}] /\ cx[r] = r
    BY <1>0
  <2>7. ReaderInv(st, cx, fs, s.out)
    <3> HIDE DEF fs
    <3> QED  BY <2>0, <2>4, <2>5, CreateSound, JoinContext DEF Serving
  <2>8. t \in Progress
    <3> HIDE DEF t, fs, cx
    <3> QED  BY <1>0, <2>2, <2>5, <2>6 DEF Progress
  <2>9. /\ t \in Progress /\ t.state = s.state /\ t.out = s.out /\ t.ctx[r] \in R
        /\ ReaderInv(st, t.ctx, t.fi, s.out)
        /\ t.finfo # Null => \E q \in R : t.ctx[q] = t.finfo
    <3> HIDE DEF t, st, fs, cx
    <3> QED  BY <2>2, <2>6, <2>7, <2>8
  <2> QED  BY <2>9 DEF t, st
<1> QED  BY <1>0, <1>1, <1>2, <1>3

\* A reader handles a DATA_FRAG.
LEMMA FragmentKeeps ==
    ASSUME NEW s, Serving(s), NEW r \in R, NEW m,
           m.first \in Fragments, m.last \in Fragments, m.first <= m.last
    PROVE  Serving(sfr_fragment(s, r, m))
<1> DEFINE w == sfr_fragment(s, r, m)
<1>1. CASE s.state[r] \notin {"none", "part"}
  BY <1>1 DEF sfr_fragment
<1>2. CASE s.state[r] \in {"none", "part"}
  <2> DEFINE t == TakeContext(s, r)
             c == t.ctx[r]
             fip == mark_fragment(t.fi[c], m.first, m.last)
             st == [t.state EXCEPT ![r] = "part"]
             fs == [t.fi EXCEPT ![c] = fip]
             u == [t EXCEPT !.fi[c] = fip, !.state[r] = "part"]
  <2>1. /\ t \in Progress /\ c \in R
        /\ ReaderInv(st, t.ctx, t.fi, t.out)
        /\ t.finfo # Null => \E q \in R : t.ctx[q] = t.finfo
    <3>1. /\ t \in Progress /\ t.state = s.state /\ t.out = s.out /\ t.ctx[r] \in R
          /\ ReaderInv([s.state EXCEPT ![r] = "part"], t.ctx, t.fi, s.out)
          /\ t.finfo # Null => \E q \in R : t.ctx[q] = t.finfo
      BY <1>2, TakeContextKeeps
    <3> HIDE DEF t
    <3> QED  BY <3>1
  <2>2. w = IF fip.num_na > 0 THEN u
            ELSE IF ~room[r] THEN [u EXCEPT !.fi[c] = ignore_last_fragment(fip, m.last)]
            ELSE rfraginfo_delete([u EXCEPT !.out[r] = fip.buf, !.state[r] = "received",
                                            !.finfo = IF fip.nrefs = 1 THEN Null ELSE @], r)
    BY <1>2 DEF sfr_fragment
  <2> HIDE DEF t, w
  <2>3. /\ t.state \in [R -> States] /\ t.ctx \in [R -> R \cup {Null}] /\ t.fi \in [R -> Context]
        /\ t.out \in [R -> SUBSET Fragments] /\ t.finfo \in R \cup {Null}
        /\ t = [state |-> t.state, ctx |-> t.ctx, fi |-> t.fi, out |-> t.out, finfo |-> t.finfo]
    BY <2>1 DEF Progress
  <2>4. t.fi[c] \in Context /\ Sound(t.fi[c])
    BY <2>1, <2>3, ReadersFinite DEF ReaderInv, Contexts
  <2>5. fip \in Context /\ Sound(fip) /\ fip.nrefs = t.fi[c].nrefs
    BY <2>4, MarkSound
  <2> HIDE DEF c, fip
  <2>0. u = [t EXCEPT !.fi[c] = fip, !.state[r] = "part"]
    OBVIOUS
  <2> HIDE DEF u
  <2>6. /\ u = [state |-> st, ctx |-> t.ctx, fi |-> fs, out |-> t.out, finfo |-> t.finfo]
        /\ u.state = st /\ u.ctx = t.ctx /\ u.fi = fs /\ u.out = t.out /\ u.finfo = t.finfo
    BY <2>0, <2>1 DEF Progress
  <2>7. ReaderInv(st, t.ctx, fs, t.out)
    <3> HIDE DEF st
    <3> QED  BY <2>1, <2>5, ChangeContext
  <2>8. fs[c] = fip /\ fs \in [R -> Context]
    BY <2>1, <2>3, <2>5
  <2>9. st \in [R -> States]
    BY <2>3 DEF States
  <2>10. CASE fip.num_na > 0
    <3>1. w = u
      BY <2>2, <2>10
    <3> HIDE DEF st, fs
    <3>2. /\ w \in Progress /\ w.state = st /\ w.ctx = t.ctx /\ w.fi = fs /\ w.out = t.out
          /\ w.finfo = t.finfo
      BY <2>3, <2>6, <2>8, <2>9, <3>1 DEF Progress
    <3>3. Serving(w)
      BY <2>1, <2>7, <3>2 DEF Serving
    <3> QED  BY <3>3 DEF w
  <2>11. fip.num_na \in Nat
    BY <2>5, FragmentNumbers DEF Context
  <2>12. CASE ~ (fip.num_na > 0) /\ ~room[r]
    <3> DEFINE new == ignore_last_fragment(fip, m.last)
               fs2 == [fs EXCEPT ![c] = new]
    <3>0. fip.num_na = 0
      BY <2>11, <2>12
    <3>1. new \in Context /\ Sound(new) /\ new.nrefs = fip.nrefs
      BY <2>5, <3>0, IgnoreSound
    <3>2. w = [u EXCEPT !.fi[c] = new]
      BY <2>2, <2>12
    <3> HIDE DEF st, fs, new
    <3>3. w = [state |-> st, ctx |-> t.ctx, fi |-> fs2, out |-> t.out, finfo |-> t.finfo]
      BY <2>6, <3>2
    <3>4. ReaderInv(st, t.ctx, fs2, t.out)
      BY <2>1, <2>7, <2>8, <3>1, ChangeContext
    <3>5. fs2 \in [R -> Context]
      BY <2>1, <2>8, <3>1
    <3> HIDE DEF fs2
    <3>6. /\ w \in Progress /\ w.state = st /\ w.ctx = t.ctx /\ w.fi = fs2 /\ w.out = t.out
          /\ w.finfo = t.finfo
      BY <2>3, <2>9, <3>3, <3>5 DEF Progress
    <3>7. Serving(w)
      BY <2>1, <3>4, <3>6 DEF Serving
    <3> QED  BY <3>7 DEF w
  <2>13. CASE ~ (fip.num_na > 0) /\ room[r]
    <3> DEFINE fin == IF fip.nrefs = 1 THEN Null ELSE t.finfo
               st2 == [st EXCEPT ![r] = "received"]
               bs2 == [t.out EXCEPT ![r] = fip.buf]
               cx2 == [t.ctx EXCEPT ![r] = Null]
               fs2 == [fs EXCEPT ![c].nrefs = @ - 1]
               v == [u EXCEPT !.out[r] = fip.buf, !.state[r] = "received",
                              !.finfo = IF fip.nrefs = 1 THEN Null ELSE @]
    <3>0. fip.num_na = 0
      BY <2>11, <2>13
    <3>1. fip.buf = Fragments /\ fip.buf \in SUBSET Fragments
      BY <2>5, <3>0, CompleteIsWhole
    <3>2. w = rfraginfo_delete(v, r)
      BY <2>2, <2>13
    <3>3. v = [state |-> st2, ctx |-> t.ctx, fi |-> fs, out |-> bs2, finfo |-> fin]
      <4> HIDE DEF st, fs
      <4>1. u \in Progress
        BY <2>3, <2>6, <2>8, <2>9 DEF Progress
      <4>2. v = [u EXCEPT !.out[r] = fip.buf, !.state[r] = "received",
                          !.finfo = IF fip.nrefs = 1 THEN Null ELSE @]
        OBVIOUS
      <4> HIDE DEF v
      <4> QED  BY <2>6, <4>1, <4>2 DEF Progress
    <3> HIDE DEF st, fs, v
    <3>4. t.ctx[r] = c
      BY DEF c
    <3>5. w = [state |-> st2, ctx |-> cx2, fi |-> fs2, out |-> bs2, finfo |-> fin]
      <4> HIDE DEF st2, bs2, fin
      <4>1. v.ctx[r] = c /\ v.ctx = t.ctx /\ v.fi = fs
        BY <3>3, <3>4
      <4>2. w = [v EXCEPT !.fi[c].nrefs = @ - 1, !.ctx[r] = Null]
        BY <3>2, <4>1 DEF rfraginfo_delete
      <4> QED  BY <3>3, <4>2
    <3>6. /\ ReaderInv(st2, cx2, fs2, bs2)
          /\ \A d \in R : (d # c \/ fs[c].nrefs # 1) /\ (\E q \in R : t.ctx[q] = d)
                => \E q \in R : cx2[q] = d
      <4>1. "received" \in {"received", "lost"}
        OBVIOUS
      <4>2. ReaderInv(st2, cx2, fs2, bs2)
        BY <2>1, <2>7, <3>1, <3>4, <4>1, LeaveContext
      <4>3. \A d \in R : (d # c \/ fs[c].nrefs # 1) /\ (\E q \in R : t.ctx[q] = d)
                => \E q \in R : cx2[q] = d
        BY <2>1, <2>7, <3>4, StillUsed
      <4> QED  BY <4>2, <4>3
    <3>7. fin \in R \cup {Null} /\ (fin # Null => fip.nrefs # 1 /\ fin = t.finfo /\ fin \in R)
      BY <2>3
    <3> HIDE DEF st2, cx2, fs2, bs2, fin
    <3>8. fin # Null => \E q \in R : cx2[q] = fin
      BY <2>1, <2>8, <3>6, <3>7
    <3>9. /\ w \in Progress /\ w.state = st2 /\ w.ctx = cx2 /\ w.fi = fs2 /\ w.out = bs2
          /\ w.finfo = fin
      BY <3>5, <3>6, <3>7 DEF Progress, ReaderInv, ReaderType
    <3>10. Serving(w)
      BY <3>6, <3>8, <3>9 DEF Serving
    <3> QED  BY <3>10 DEF w
  <2> QED  BY <2>10, <2>12, <2>13
<1> QED  BY <1>1, <1>2

\* The loop of submsg_rx_data_frag, up to the n-th reader.
Handing(g, s0, m, n) ==
    g = [k \in 0..n |->
            IF k = 0 THEN s0
            ELSE IF Readers[k] \in m.to THEN sfr_fragment(g[k - 1], Readers[k], m)
                 ELSE g[k - 1]]

LEMMA HandingExists ==
    ASSUME NEW s0, NEW m
    PROVE  \E g : Handing(g, s0, m, Len(Readers))
<1> DEFINE N == Len(Readers)
           Step(s, k) == IF Readers[k] \in m.to THEN sfr_fragment(s, Readers[k], m) ELSE s
           T == {n \in 0..N : ~ \E g : Handing(g, s0, m, n)}
<1>0. N \in Nat
  BY ReadersFinite
<1> HIDE DEF N
<1>1. ASSUME NEW g, NEW n \in Nat, g = [k \in 0..n |-> IF k = 0 THEN s0 ELSE Step(g[k - 1], k)]
      PROVE  Handing(g, s0, m, n)
  BY <1>1 DEF Handing
<1>2. ASSUME NEW g, NEW n \in Nat, Handing(g, s0, m, n)
      PROVE  \A k \in 0..n : g[k] = IF k = 0 THEN s0 ELSE Step(g[k - 1], k)
  BY <1>2 DEF Handing
<1> HIDE DEF Step
<1> SUFFICES ASSUME T # {} PROVE FALSE
  BY <1>0 DEF N
<1>3. PICK n \in T : \A k \in T : n <= k
  <2>1. T \in SUBSET Nat
    BY <1>0
  <2> HIDE DEF T
  <2> QED  BY <2>1, LeastNumber
<1>4. n \in Nat /\ n <= N /\ ~ \E g : Handing(g, s0, m, n)
  BY <1>0
<1>5. CASE n = 0
  <2> DEFINE g == [k \in 0..n |-> s0]
  <2>1. g = [k \in 0..n |-> IF k = 0 THEN s0 ELSE Step(g[k - 1], k)]
    BY <1>5
  <2> HIDE DEF g
  <2>2. Handing(g, s0, m, n)
    BY <1>1, <1>4, <2>1
  <2> QED  BY <1>4, <2>2
<1>6. CASE n # 0
  <2>1. n - 1 \in 0..N /\ n - 1 \in Nat /\ ~ (n <= n - 1)
    BY <1>0, <1>4, <1>6
  <2>2. PICK h : Handing(h, s0, m, n - 1)
    BY <1>3, <2>1
  <2> DEFINE g == [k \in 0..n |-> IF k = n THEN Step(h[n - 1], n) ELSE h[k]]
  <2>3. \A k \in 0..n - 1 : h[k] = IF k = 0 THEN s0 ELSE Step(h[k - 1], k)
    BY <1>2, <2>1, <2>2
  <2>4. ASSUME NEW k \in 0..n
        PROVE  g[k] = IF k = 0 THEN s0 ELSE Step(g[k - 1], k)
    <3>1. CASE k = 0
      <4>1. g[k] = h[0] /\ 0 \in 0..n - 1
        BY <1>4, <1>6, <3>1
      <4> HIDE DEF g
      <4> QED  BY <2>3, <3>1, <4>1
    <3>2. CASE k # 0
      <4>1. g[k - 1] = h[k - 1]
        BY <1>4, <3>2
      <4>2. CASE k = n
        BY <3>2, <4>1, <4>2
      <4>3. CASE k # n
        <5>1. g[k] = h[k] /\ k \in 0..n - 1
          BY <1>4, <4>3
        <5> HIDE DEF g
        <5> QED  BY <2>3, <3>2, <4>1, <5>1
      <4> QED  BY <4>2, <4>3
    <3> QED  BY <3>1, <3>2
  <2>5. g = [k \in 0..n |-> g[k]]
    OBVIOUS
  <2> HIDE DEF g
  <2>6. g = [k \in 0..n |-> IF k = 0 THEN s0 ELSE Step(g[k - 1], k)]
    BY <2>4, <2>5
  <2>7. Handing(g, s0, m, n)
    BY <1>1, <1>4, <2>6
  <2> QED  BY <1>4, <2>7
<1> QED  BY <1>5, <1>6

\* A DATA_FRAG is handled by all of its readers.
LEMMA ReceiveKeeps ==
    ASSUME ReaderInv(state, ctx, fi, out), NEW m,
           m.first \in Fragments, m.last \in Fragments, m.first <= m.last,
           submsg_rx_data_frag(m)
    PROVE  ReaderInv(state', ctx', fi', out')
<1> DEFINE s0 == [state |-> state, ctx |-> ctx, fi |-> fi, out |-> out, finfo |-> Null]
           N == Len(Readers)
<1>0. N \in Nat
  BY ReadersFinite
<1>1. PICK g : /\ Handing(g, s0, m, N)
               /\ state' = g[N].state /\ ctx' = g[N].ctx /\ fi' = g[N].fi /\ out' = g[N].out
  <2>1. PICK h : Handing(h, s0, m, N)
    BY HandingExists
  <2> QED  BY <2>1 DEF submsg_rx_data_frag, Handing
<1>2. Serving(s0)
  BY DEF Serving, Progress, ReaderInv, ReaderType
<1> HIDE DEF s0, N
<1>3. \A k \in 0..N : g[k] = IF k = 0 THEN s0
                             ELSE IF Readers[k] \in m.to THEN sfr_fragment(g[k - 1], Readers[k], m)
                             ELSE g[k - 1]
  BY <1>1 DEF Handing
<1> DEFINE T == {k \in 0..N : ~ Serving(g[k])}
<1>4. T = {}
  <2> SUFFICES ASSUME T # {} PROVE FALSE
    OBVIOUS
  <2>1. PICK n \in T : \A k \in T : n <= k
    <3>1. T \in SUBSET Nat
      BY <1>0
    <3> HIDE DEF T
    <3> QED  BY <3>1, LeastNumber
  <2>2. n \in Nat /\ n <= N /\ ~ Serving(g[n])
    BY <1>0
  <2>3. n # 0
    BY <1>0, <1>2, <1>3, <2>2
  <2>4. n - 1 \in 0..N /\ ~ (n <= n - 1)
    BY <1>0, <2>2, <2>3
  <2>5. Serving(g[n - 1])
    BY <2>1, <2>4
  <2>6. Readers[n] \in R
    BY <2>2, <2>3, ReadersFinite DEF N
  <2>7. Serving(sfr_fragment(g[n - 1], Readers[n], m))
    BY <2>5, <2>6, FragmentKeeps
  <2>8. g[n] = sfr_fragment(g[n - 1], Readers[n], m) \/ g[n] = g[n - 1]
    BY <1>0, <1>3, <2>2, <2>3
  <2> QED  BY <2>2, <2>5, <2>7, <2>8
<1>5. Serving(g[N])
  BY <1>0, <1>4
<1> QED  BY <1>1, <1>5 DEF Serving

-----------------------------------------------------------------------------
(* The messages that are sent.                                             *)

\* What is sent are fragments of the sample.
LEMMA FragsSent ==
    ASSUME NEW to \in SUBSET R, NEW frags \in SUBSET Fragments, NEW m \in DataFrags(to, frags)
    PROVE  Message(m)
<1> DEFINE T(f) == {g \in f..(f + PerMsg - 1) : f..g \subseteq frags}
<1>1. PICK f \in frags : m = DataFrag(to, f, Max(T(f)))
  BY DEF DataFrags
<1>2. PerMsg \in Nat /\ PerMsg >= 1 /\ Total \in Nat /\ f \in Nat /\ f \in Fragments
  BY FragReliableAssumption, FragmentNumbers
<1>3. ASSUME NEW g \in T(f) PROVE g \in Fragments /\ f <= g /\ g \in Nat
  <2>1. g \in f..g
    BY <1>2
  <2> QED  BY <1>2, <2>1, FragmentNumbers
<1>4. f \in T(f)
  <2>1. f..f \subseteq frags
    BY <1>2
  <2> QED  BY <1>2, <2>1
<1> HIDE DEF T
<1>5. T(f) \in SUBSET Nat /\ \A g \in T(f) : g <= Total
  BY <1>3, FragmentNumbers
<1>6. Max(T(f)) \in T(f)
  BY <1>2, <1>4, <1>5, MaxProps
<1>7. Max(T(f)) \in Fragments /\ f <= Max(T(f))
  BY <1>3, <1>6
<1> DEFINE last == Max(T(f))
<1> HIDE DEF last
<1>8. m = [type |-> "datafrag", to |-> to, first |-> f, last |-> last]
  BY <1>1 DEF DataFrag, last
<1> QED  BY <1>2, <1>7, <1>8 DEF Message, last

\* The state of the loop in sfr_rel_hbfrag before turn i: the set that is built
\* has an element, and none past i.
Requesting(a, i) ==
    /\ a \in [ofs : Int, bits : SUBSET Nat, sets : {{}}]
    /\ \/ a.ofs = -1
       \/ a.ofs \in Nat /\ a.ofs < i /\ a.bits # {} /\ \A k \in a.bits : a.ofs + k < i

\* One turn of the loop.
LEMMA NackTurnKeeps ==
    ASSUME Total < NackBits, NEW i \in Nat, i < Total, NEW a, Requesting(a, i), NEW got
    PROVE  Requesting(NackTurn(a, i, got), i + 1)
<1> DEFINE open == a.ofs # -1
           set == i + 1 \notin got
           ofs == IF set /\ ~open THEN i ELSE a.ofs
           bits == IF ~set THEN a.bits ELSE IF open THEN a.bits \cup {i - ofs} ELSE {0}
           b == NackTurn(a, i, got)
<1>0. /\ a.ofs \in Int /\ a.bits \in SUBSET Nat /\ a.sets = {} /\ Total \in Nat /\ NackBits \in Nat
      /\ a \in [ofs : Int, bits : SUBSET Nat, sets : {{}}]
      /\ \/ a.ofs = -1
         \/ a.ofs \in Nat /\ a.ofs < i /\ a.bits # {} /\ \A k \in a.bits : a.ofs + k < i
  BY FragmentNumbers, FragReliableAssumption DEF Requesting
<1>1. CASE ofs = -1
  <2>1. b = a /\ a.ofs = -1
    BY <1>0, <1>1 DEF NackTurn
  <2> HIDE DEF b
  <2>2. Requesting(b, i + 1)
    BY <1>0, <2>1 DEF Requesting
  <2> QED  BY <2>2 DEF b
<1>2. CASE ofs # -1
  <2>1. ofs \in Nat /\ ofs <= i
    BY <1>0, <1>2
  <2>2. ~ (i - ofs + 1 >= NackBits)
    <3> HIDE DEF ofs
    <3> QED  BY <1>0, <2>1
  <2>3. b = [a EXCEPT !.ofs = ofs, !.bits = bits]
    BY <1>2, <2>2 DEF NackTurn
  <2>4. bits \in SUBSET Nat /\ bits # {} /\ \A k \in bits : ofs + k < i + 1
    <3>1. CASE ~set
      <4>1. ofs = a.ofs /\ bits = a.bits
        BY <3>1
      <4> HIDE DEF ofs, bits
      <4> QED  BY <1>0, <1>2, <4>1
    <3>2. CASE set /\ open
      <4>1. ofs = a.ofs /\ bits = a.bits \cup {i - ofs}
        BY <3>2
      <4> HIDE DEF ofs, bits
      <4> QED  BY <1>0, <1>2, <2>1, <4>1
    <3>3. CASE set /\ ~open
      <4>1. ofs = i /\ bits = {0}
        BY <3>3
      <4> HIDE DEF ofs, bits
      <4> QED  BY <4>1
    <3> QED  BY <3>1, <3>2, <3>3
  <2> HIDE DEF b, ofs, bits
  <2>5. b = [ofs |-> ofs, bits |-> bits, sets |-> {}]
    BY <1>0, <2>3
  <2>6. Requesting(b, i + 1)
    BY <2>1, <2>4, <2>5 DEF Requesting
  <2> QED  BY <2>6 DEF b
<1> QED  BY <1>1, <1>2

\* The loop of sfr_rel_hbfrag, before turn n.
Turning(g, first, n, got) ==
    g = [i \in first..n |-> IF i = first THEN [ofs |-> -1, bits |-> {}, sets |-> {}]
                            ELSE NackTurn(g[i - 1], i - 1, got)]

LEMMA TurningExists ==
    ASSUME NEW first \in Nat, NEW total \in Nat, first <= total, NEW got
    PROVE  \E g : Turning(g, first, total, got)
<1> DEFINE T == {n \in first..total : ~ \E g : Turning(g, first, n, got)}
           a0 == [ofs |-> -1, bits |-> {}, sets |-> {}]
<1> SUFFICES ASSUME T # {} PROVE FALSE
  OBVIOUS
<1>1. PICK n \in T : \A k \in T : n <= k
  <2>1. T \in SUBSET Nat
    OBVIOUS
  <2> HIDE DEF T
  <2> QED  BY <2>1, LeastNumber
<1>2. n \in Nat /\ first <= n /\ n <= total /\ ~ \E g : Turning(g, first, n, got)
  OBVIOUS
<1>3. ASSUME NEW g, NEW k \in Nat,
             g = [i \in first..k |-> IF i = first THEN a0 ELSE NackTurn(g[i - 1], i - 1, got)]
      PROVE  Turning(g, first, k, got)
  BY <1>3 DEF Turning
<1>4. ASSUME NEW g, NEW k \in Nat, Turning(g, first, k, got)
      PROVE  \A i \in first..k : g[i] = IF i = first THEN a0 ELSE NackTurn(g[i - 1], i - 1, got)
  BY <1>4 DEF Turning
<1> HIDE DEF a0
<1>5. CASE n = first
  <2> DEFINE g == [i \in first..n |-> a0]
  <2>1. g = [i \in first..n |-> IF i = first THEN a0 ELSE NackTurn(g[i - 1], i - 1, got)]
    BY <1>5
  <2> HIDE DEF g
  <2>2. Turning(g, first, n, got)
    BY <1>2, <1>3, <2>1
  <2> QED  BY <1>2, <2>2
<1>6. CASE n # first
  <2>1. n - 1 \in first..total /\ n - 1 \in Nat /\ ~ (n <= n - 1)
    BY <1>2, <1>6
  <2>2. PICK h : Turning(h, first, n - 1, got)
    BY <1>1, <2>1
  <2> DEFINE g == [i \in first..n |-> IF i = n THEN NackTurn(h[n - 1], n - 1, got) ELSE h[i]]
  <2>3. \A i \in first..n - 1 : h[i] = IF i = first THEN a0 ELSE NackTurn(h[i - 1], i - 1, got)
    BY <1>4, <2>1, <2>2
  <2>4. ASSUME NEW i \in first..n
        PROVE  g[i] = IF i = first THEN a0 ELSE NackTurn(g[i - 1], i - 1, got)
    <3>1. CASE i = first
      <4>1. g[i] = h[first] /\ first \in first..n - 1
        BY <1>2, <1>6, <3>1
      <4> HIDE DEF g
      <4> QED  BY <2>3, <3>1, <4>1
    <3>2. CASE i # first
      <4>1. g[i - 1] = h[i - 1]
        BY <1>2, <3>2
      <4>2. CASE i = n
        BY <3>2, <4>1, <4>2
      <4>3. CASE i # n
        <5>1. g[i] = h[i] /\ i \in first..n - 1
          BY <1>2, <4>3
        <5> HIDE DEF g
        <5> QED  BY <2>3, <3>2, <4>1, <5>1
      <4> QED  BY <4>2, <4>3
    <3> QED  BY <3>1, <3>2
  <2>5. g = [i \in first..n |-> g[i]]
    OBVIOUS
  <2> HIDE DEF g
  <2>6. g = [i \in first..n |-> IF i = first THEN a0 ELSE NackTurn(g[i - 1], i - 1, got)]
    BY <2>4, <2>5
  <2>7. Turning(g, first, n, got)
    BY <1>2, <1>3, <2>6
  <2> QED  BY <1>2, <2>7
<1> QED  BY <1>5, <1>6

\* The bitmaps of a sample that fits in one of them name fragments of it.
LEMMA NackSetsAreFragments ==
    ASSUME Total < NackBits, NEW first \in Nat, NEW total \in Nat, first <= total,
           total <= Total, NEW got, NEW fs \in NackSets(first, total, got)
    PROVE  fs # {} /\ fs \subseteq Fragments
<1>1. PICK g : /\ Turning(g, first, total, got)
               /\ NackSets(first, total, got) =
                    g[total].sets \cup
                      (IF g[total].ofs = -1 THEN {}
                       ELSE {{g[total].ofs + 1 + k : k \in g[total].bits}})
  <2> DEFINE h == CHOOSE g : Turning(g, first, total, got)
  <2>1. Turning(h, first, total, got)
    BY TurningExists
  <2>2. h = CHOOSE g : g = [i \in first..total |->
                             IF i = first THEN [ofs |-> -1, bits |-> {}, sets |-> {}]
                             ELSE NackTurn(g[i - 1], i - 1, got)]
    BY DEF Turning
  <2> HIDE DEF h
  <2>3. NackSets(first, total, got) =
          h[total].sets \cup (IF h[total].ofs = -1 THEN {}
                              ELSE {{h[total].ofs + 1 + k : k \in h[total].bits}})
    BY <2>2, Zenon DEF NackSets
  <2> QED  BY <2>1, <2>3
<1>2. \A i \in first..total : g[i] = IF i = first THEN [ofs |-> -1, bits |-> {}, sets |-> {}]
                                     ELSE NackTurn(g[i - 1], i - 1, got)
  BY <1>1 DEF Turning
<1> DEFINE T == {i \in first..total : ~ Requesting(g[i], i)}
<1>3. T = {}
  <2> SUFFICES ASSUME T # {} PROVE FALSE
    OBVIOUS
  <2>1. PICK n \in T : \A k \in T : n <= k
    <3>1. T \in SUBSET Nat
      OBVIOUS
    <3> HIDE DEF T
    <3> QED  BY <3>1, LeastNumber
  <2>2. n \in Nat /\ n \in first..total /\ ~ Requesting(g[n], n) /\ Total \in Nat
    BY FragmentNumbers
  <2>3. CASE n = first
    <3>1. g[n] = [ofs |-> -1, bits |-> {}, sets |-> {}]
      BY <1>2, <2>2, <2>3
    <3> QED  BY <2>2, <3>1 DEF Requesting
  <2>4. CASE n # first
    <3>1. n - 1 \in first..total /\ ~ (n <= n - 1) /\ n - 1 \in Nat /\ n - 1 < Total
      BY <2>2, <2>4
    <3>2. Requesting(g[n - 1], n - 1)
      BY <2>1, <3>1
    <3>3. Requesting(NackTurn(g[n - 1], n - 1, got), (n - 1) + 1)
      BY <3>1, <3>2, NackTurnKeeps
    <3>4. g[n] = NackTurn(g[n - 1], n - 1, got) /\ (n - 1) + 1 = n
      BY <1>2, <2>2, <2>4
    <3> QED  BY <2>2, <3>3, <3>4
  <2> QED  BY <2>3, <2>4
<1>4. Requesting(g[total], total)
  BY <1>3
<1> DEFINE a == g[total]
<1>5. fs \in a.sets \cup (IF a.ofs = -1 THEN {} ELSE {{a.ofs + 1 + k : k \in a.bits}})
  BY <1>1
<1>6. Requesting(a, total)
  BY <1>4
<1> HIDE DEF a
<1>7. a.sets = {} /\ a.bits \in SUBSET Nat
  BY <1>6 DEF Requesting
<1>8. a.ofs # -1 /\ fs = {a.ofs + 1 + k : k \in a.bits}
  BY <1>5, <1>7
<1>9. a.ofs \in Nat /\ a.bits # {} /\ \A k \in a.bits : a.ofs + k < total
  BY <1>6, <1>8 DEF Requesting
<1>10. ASSUME NEW k \in a.bits PROVE a.ofs + 1 + k \in Fragments
  <2>1. k \in Nat /\ a.ofs + k < total /\ Total \in Nat
    BY <1>7, <1>9, FragmentNumbers
  <2> QED  BY <1>9, <2>1, FragmentNumbers
<1> QED  BY <1>8, <1>9, <1>10

-----------------------------------------------------------------------------
(* The steps.                                                              *)

\* Messages are replaced by messages.
LEMMA ExchangeKeeps ==
    ASSUME \A m \in net : Message(m), NEW x, NEW ms, \A m \in ms : Message(m), NEW lossy,
           Exchange(x, ms, lossy)
    PROVE  \A m \in net' : Message(m)
<1>1. PICK kept \in IF lossy THEN SUBSET ms ELSE {ms} : net' = (net \ x) \cup kept
  BY DEF Exchange
<1>2. kept \subseteq ms
  BY <1>1
<1> QED  BY <1>1, <1>2

\* A first burst is a part of the sample.
LEMMA BurstIsPart == Min({Burst, Total}) \in Fragments
<1>1. {Burst, Total} \in SUBSET Nat /\ Burst >= 1
  BY FragReliableAssumption, FragmentNumbers
<1>2. Min({Burst, Total}) \in {Burst, Total} /\ \A j \in {Burst, Total} : Min({Burst, Total}) <= j
  BY <1>1, MinProps
<1> QED  BY <1>1, <1>2, FragmentNumbers

\* Writer steps leave the readers alone, and reader steps the writer.
LEMMA ReadersUnchanged ==
    ASSUME ReaderInv(state, ctx, fi, out), UNCHANGED readerVars
    PROVE  ReaderInv(state', ctx', fi', out')
BY DEF readerVars

LEMMA SendDataKeeps ==
    ASSUME FragInv, NEW r \in R, sfw_rel_send_data(r, TRUE)
    PROVE  FragInv'
<1> DEFINE to == IF wack > 1 THEN R ELSE {r}
           b == Min({Burst, Total})
<1>0. WriterType /\ \A m \in net : Message(m)
  BY DEF FragInv
<1>1. b \in Fragments /\ b \in Nat /\ b <= Total /\ Total \in Nat
  BY BurstIsPart, FragmentNumbers
<1> HIDE DEF b
<1>2. proxy' \in [R -> {"unsent", "requested", "underway", "acked", "removed"}]
  BY <1>0 DEF sfw_rel_send_data, WriterType
<1>3. CASE SendsData(r)
  <2>1. /\ Exchange({}, DataFrags(to, 1..b), TRUE)
        /\ nfrags' = [nfrags EXCEPT ![r] = IF @ = 0 THEN b ELSE @] /\ wack' = 0
    BY <1>3 DEF sfw_rel_send_data, b
  <2>2. to \in SUBSET R /\ 1..b \in SUBSET Fragments
    BY <1>1, FragmentNumbers
  <2> HIDE DEF to
  <2>3. \A m \in DataFrags(to, 1..b) : Message(m)
    BY <2>2, FragsSent
  <2>4. \A m \in net' : Message(m)
    BY <1>0, <2>1, <2>3, ExchangeKeeps
  <2>5. WriterType'
    BY <1>0, <1>1, <1>2, <2>1 DEF WriterType
  <2>6. (\A m \in net : Message(m))'
    BY <2>4 DEF Message
  <2> QED  BY <2>5, <2>6, ReadersUnchanged DEF FragInv, sfw_rel_send_data, cacheVars
<1>4. CASE ~ SendsData(r)
  <2>1. UNCHANGED <<net, nfrags, wack>>
    BY <1>4 DEF sfw_rel_send_data
  <2>2. WriterType'
    BY <1>0, <1>2, <2>1 DEF WriterType
  <2>3. (\A m \in net : Message(m))'
    BY <1>0, <2>1 DEF Message
  <2> QED  BY <2>2, <2>3, ReadersUnchanged DEF FragInv, sfw_rel_send_data, cacheVars
<1> QED  BY <1>3, <1>4

\* What a step that only exchanges messages has to show.
LEMMA OnlyMessages ==
    ASSUME FragInv, \A m \in net' : Message(m), UNCHANGED <<writerVars, readerVars, cacheVars>>
    PROVE  FragInv'
<1>1. ReaderInv(state', ctx', fi', out')
  BY ReadersUnchanged DEF FragInv
<1>2. WriterType'
  BY DEF FragInv, WriterType, writerVars
<1>3. (\A m \in net : Message(m))'
  BY DEF Message
<1> QED  BY <1>1, <1>2, <1>3 DEF FragInv, cacheVars

LEMMA HeartbeatKeeps ==
    ASSUME FragInv, NEW r \in R, sfw_send_heartbeat(r, TRUE)
    PROVE  FragInv'
<1> DEFINE h == [type |-> "hbfrag", to |-> r, last_frag |-> nfrags[r]]
<1>1. nfrags[r] \in Fragments
  BY FragmentNumbers DEF FragInv, WriterType, sfw_send_heartbeat
<1>2. Message(h)
  BY <1>1 DEF Message
<1> HIDE DEF h
<1>3. Exchange({}, {h}, TRUE)
  BY DEF sfw_send_heartbeat, h
<1>4. \A m \in net' : Message(m)
  BY <1>2, <1>3, ExchangeKeeps DEF FragInv
<1> QED  BY <1>4, OnlyMessages DEF sfw_send_heartbeat

LEMMA NackFragKeeps ==
    ASSUME FragInv, NEW m \in net, sfw_rel_nackfrag(m, TRUE)
    PROVE  FragInv'
<1> DEFINE frags == {f \in m.frags : f <= nfrags[m.from]}
<1>1. Message(m) /\ m.type = "nackfrag"
  BY DEF FragInv, sfw_rel_nackfrag
<1>2. {m.from} \in SUBSET R /\ frags \in SUBSET Fragments
  BY <1>1 DEF Message
<1>3. Exchange({m}, DataFrags({m.from}, frags), TRUE)
  BY DEF sfw_rel_nackfrag
<1> HIDE DEF frags
<1>4. \A k \in DataFrags({m.from}, frags) : Message(k)
  BY <1>2, FragsSent
<1>5. \A k \in net' : Message(k)
  BY <1>3, <1>4, ExchangeKeeps DEF FragInv
<1> QED  BY <1>5, OnlyMessages DEF sfw_rel_nackfrag

LEMMA AckNackKeeps ==
    ASSUME FragInv, NEW m \in net, sfw_rel_acknack(m)
    PROVE  FragInv'
<1>1. (\A k \in net : Message(k))'
  BY DEF FragInv, sfw_rel_acknack, Message
<1>2. Min({wack + 1, 2}) \in 0..2
  <2>1. {wack + 1, 2} \in SUBSET Nat /\ wack + 1 >= 0
    BY DEF FragInv, WriterType
  <2>2. Min({wack + 1, 2}) \in {wack + 1, 2} /\ \A j \in {wack + 1, 2} : Min({wack + 1, 2}) <= j
    BY <2>1, MinProps
  <2> DEFINE w == Min({wack + 1, 2})
  <2>3. w \in Nat /\ w <= 2
    BY <2>1, <2>2
  <2> QED  BY <2>3
<1>3. WriterType'
  <2>1. CASE UNCHANGED writerVars
    BY <2>1 DEF FragInv, WriterType, writerVars
  <2>2. CASE /\ proxy' = [proxy EXCEPT ![m.from] = "acked"]
             /\ nfrags' = [nfrags EXCEPT ![m.from] = 0] /\ UNCHANGED wack
    <3>1. 0 \in 0..Total
      BY FragmentNumbers
    <3> QED  BY <2>2, <3>1 DEF FragInv, WriterType
  <2>3. CASE /\ proxy' = [proxy EXCEPT ![m.from] = IF @ = "unsent" THEN @ ELSE "requested"]
             /\ wack' = Min({wack + 1, 2}) /\ UNCHANGED nfrags
    BY <1>2, <2>3 DEF FragInv, WriterType
  <2> QED  BY <2>1, <2>2, <2>3 DEF sfw_rel_acknack
<1> QED  BY <1>1, <1>3, ReadersUnchanged DEF FragInv, sfw_rel_acknack, cacheVars

LEMMA RemChangeKeeps ==
    ASSUME FragInv, sfw_rel_rem_change
    PROVE  FragInv'
<1>1. WriterType'
  BY FragmentNumbers DEF FragInv, WriterType, sfw_rel_rem_change
<1>2. (\A k \in net : Message(k))'
  BY DEF FragInv, sfw_rel_rem_change, Message
<1> QED  BY <1>1, <1>2, ReadersUnchanged DEF FragInv, sfw_rel_rem_change, cacheVars

LEMMA ReceiveDataFragKeeps ==
    ASSUME FragInv, NEW m \in net, NEW again \in BOOLEAN, ReceiveDataFrag(m, again)
    PROVE  FragInv'
<1>1. /\ m.type = "datafrag" /\ m.first \in Fragments /\ m.last \in Fragments
      /\ m.first <= m.last
  BY DEF FragInv, ReceiveDataFrag, Message
<1>2. ReaderInv(state', ctx', fi', out')
  BY <1>1, ReceiveKeeps DEF FragInv, ReceiveDataFrag
<1>3. (\A k \in net : Message(k))'
  <2>1. net' \subseteq net
    BY DEF ReceiveDataFrag
  <2> QED  BY <2>1 DEF FragInv, Message
<1>4. WriterType'
  BY DEF FragInv, WriterType, ReceiveDataFrag, writerVars
<1> QED  BY <1>2, <1>3, <1>4 DEF FragInv, ReceiveDataFrag, cacheVars

LEMMA HbFragKeeps ==
    ASSUME Total < NackBits, FragInv, NEW m \in net, sfr_rel_hbfrag(m, TRUE)
    PROVE  FragInv'
<1> DEFINE r == m.to
           fip == fi[ctx[r]]
           sets == IF state[r] = "part" THEN NackSets(fip.first_na, Total, fip.got)
                   ELSE IF state[r] = "none" THEN NackSets(0, m.last_frag, {}) ELSE {}
           ms == {[type |-> "nackfrag", from |-> r, frags |-> fs] : fs \in sets}
<1>1. Message(m) /\ m.type = "hbfrag" /\ ReaderInv(state, ctx, fi, out)
  BY DEF FragInv, sfr_rel_hbfrag
<1>2. r \in R /\ m.last_frag \in Nat /\ 0 <= m.last_frag /\ m.last_frag <= Total /\ Total \in Nat
  BY <1>1, FragmentNumbers DEF Message
<1>3. Exchange({m}, ms, TRUE)
  BY DEF sfr_rel_hbfrag
<1>4. ASSUME NEW fs \in sets PROVE fs # {} /\ fs \subseteq Fragments
  <2>1. CASE state[r] = "part"
    <3>1. ctx[r] \in R
      BY <1>1, <1>2, <2>1 DEF ReaderInv, ReaderType, Contexts
    <3>2. fip.first_na \in 0..Total
      BY <1>1, <3>1 DEF ReaderInv, ReaderType, Context
    <3>3. fip.first_na \in Nat /\ fip.first_na <= Total /\ Total <= Total
      BY <1>2, <3>2
    <3>4. fs \in NackSets(fip.first_na, Total, fip.got)
      BY <1>4, <2>1
    <3> HIDE DEF fip
    <3> QED  BY <1>2, <3>3, <3>4, NackSetsAreFragments
  <2>2. CASE state[r] = "none"
    <3>1. fs \in NackSets(0, m.last_frag, {}) /\ 0 \in Nat
      BY <1>4, <2>2
    <3> QED  BY <1>2, <3>1, NackSetsAreFragments
  <2>3. state[r] = "part" \/ state[r] = "none"
    BY <1>4
  <2> QED  BY <2>1, <2>2, <2>3
<1> HIDE DEF sets
<1>5. \A k \in ms : Message(k)
  BY <1>2, <1>4 DEF Message
<1> HIDE DEF ms
<1>6. \A k \in net' : Message(k)
  BY <1>3, <1>5, ExchangeKeeps DEF FragInv
<1> QED  BY <1>6, OnlyMessages DEF sfr_rel_hbfrag

LEMMA DoAckKeeps ==
    ASSUME FragInv, NEW r \in R, sfr_rel_do_ack(r, TRUE)
    PROVE  FragInv'
<1> DEFINE a == [type |-> "acknack", from |-> r, acked |-> state[r] \in {"received", "lost"}]
<1>1. Message(a)
  BY DEF Message
<1>2. Exchange({}, {a}, TRUE)
  BY DEF sfr_rel_do_ack
<1> HIDE DEF a
<1>3. \A k \in net' : Message(k)
  BY <1>1, <1>2, ExchangeKeeps DEF FragInv
<1> QED  BY <1>3, OnlyMessages DEF sfr_rel_do_ack

LEMMA MarkLostKeeps ==
    ASSUME FragInv, NEW r \in R, MarkLost(r)
    PROVE  FragInv'
<1>1. ReaderInv(state, ctx, fi, out) /\ Null \notin R
  BY ReadersFinite DEF FragInv
<1>2. ReaderInv(state', ctx', fi', out')
  <2> DEFINE s == [state |-> [state EXCEPT ![r] = "lost"], ctx |-> ctx, fi |-> fi]
             c == ctx[r]
  <2>1. CASE ctx[r] = Null
    <3>1. state' = [state EXCEPT ![r] = "lost"] /\ ctx' = ctx /\ fi' = fi /\ out' = out
      BY <2>1 DEF MarkLost
    <3> QED  BY <1>1, <2>1, <3>1, LoseNothing
  <2>2. CASE ctx[r] # Null
    <3>0. c \in R /\ out[r] \in SUBSET Fragments /\ [out EXCEPT ![r] = out[r]] = out
      BY <1>1, <2>2 DEF ReaderInv, ReaderType
    <3>1. /\ state' = rfraginfo_delete(s, r).state /\ ctx' = rfraginfo_delete(s, r).ctx
          /\ fi' = rfraginfo_delete(s, r).fi /\ out' = out
      BY <2>2 DEF MarkLost
    <3> DEFINE t == rfraginfo_delete(s, r)
    <3>2. t = [s EXCEPT !.fi[c].nrefs = @ - 1, !.ctx[r] = Null]
      BY DEF rfraginfo_delete
    <3> HIDE DEF t, c
    <3>3. /\ t.state = [state EXCEPT ![r] = "lost"] /\ t.ctx = [ctx EXCEPT ![r] = Null]
          /\ t.fi = [fi EXCEPT ![c].nrefs = @ - 1]
      BY <3>2
    <3>4. ctx[r] = c /\ "lost" \in {"received", "lost"} /\ "lost" # "received"
      BY DEF c
    <3>5. ReaderInv([state EXCEPT ![r] = "lost"], [ctx EXCEPT ![r] = Null],
                    [fi EXCEPT ![c].nrefs = @ - 1], [out EXCEPT ![r] = out[r]])
      BY <1>1, <3>0, <3>4, LeaveContext
    <3> QED  BY <3>0, <3>1, <3>3, <3>5 DEF t
  <2> QED  BY <2>1, <2>2
<1>3. (\A k \in net : Message(k))'
  BY DEF FragInv, MarkLost, Message
<1>4. WriterType'
  BY DEF FragInv, WriterType, MarkLost, writerVars
<1> QED  BY <1>2, <1>3, <1>4 DEF FragInv, MarkLost, cacheVars

\* The application and the other samples of a cache.
LEMMA CacheKeeps ==
    ASSUME FragInv, NEW r \in R, FillCache(r) \/ TakeSamples(r)
    PROVE  FragInv'
<1>1. UNCHANGED <<writerVars, net, readerVars>>
  BY DEF FillCache, TakeSamples
<1>2. WriterType' /\ (\A k \in net : Message(k))'
  BY <1>1 DEF FragInv, WriterType, writerVars, Message
<1>3. PICK b \in BOOLEAN : room' = [room EXCEPT ![r] = b]
  BY DEF FillCache, TakeSamples
<1>4. room' \in [R -> BOOLEAN]
  <2>1. room \in [R -> BOOLEAN]
    BY DEF FragInv
  <2> QED  BY <1>3, <2>1
<1>5. fill' \in 0..MaxFill
  BY FragReliableAssumption DEF FragInv, FillCache, TakeSamples
<1> QED  BY <1>1, <1>2, <1>4, <1>5, ReadersUnchanged DEF FragInv

LEMMA InitFrag == Init => FragInv
<1> SUFFICES ASSUME Init PROVE FragInv
  OBVIOUS
<1> DEFINE free == [rfraginfo_create EXCEPT !.nrefs = 0]
<1>1. free \in Context /\ free.nrefs = 0
  BY FragmentNumbers DEF rfraginfo_create, Context
<1>2. Null \notin R /\ IsFiniteSet(R)
  BY ReadersFinite
<1>3. fi = [r \in R |-> free]
  BY DEF Init
<1> HIDE DEF free
<1>4. ReaderType(state, ctx, fi, out)
  BY <1>1, <1>3 DEF Init, ReaderType, States
<1>5. \A c \in R : Users(ctx, c) = {}
  BY <1>2 DEF Init, Users
<1>6. \A c \in R : fi[c].nrefs = Cardinality(Users(ctx, c))
  BY <1>1, <1>3, <1>5, FS_EmptySet
<1>7. Contexts(state, ctx, fi)
  BY <1>6 DEF Init, Contexts
<1>8. Whole(state, out)
  BY DEF Init, Whole
<1>9. Min({Cardinality(R), 2}) \in 0..2
  <2>1. {Cardinality(R), 2} \in SUBSET Nat
    BY <1>2, FS_CardinalityType
  <2>2. /\ Min({Cardinality(R), 2}) \in {Cardinality(R), 2}
        /\ \A j \in {Cardinality(R), 2} : Min({Cardinality(R), 2}) <= j
    BY <2>1, MinProps
  <2> DEFINE w == Min({Cardinality(R), 2})
  <2>3. w \in Nat /\ w <= 2
    BY <2>1, <2>2
  <2> QED  BY <2>3
<1>10. WriterType
  BY <1>9, FragmentNumbers DEF Init, WriterType
<1>11. 0 \in 0..MaxFill
  BY FragReliableAssumption
<1> QED  BY <1>4, <1>7, <1>8, <1>10, <1>11 DEF FragInv, ReaderInv, Init

LEMMA StepFrag ==
    ASSUME Total < NackBits, FragInv, [Next]_vars
    PROVE  FragInv'
<1>1. CASE UNCHANGED vars
  <2>1. UNCHANGED <<writerVars, readerVars, cacheVars>> /\ net' = net
    BY <1>1 DEF vars, writerVars, readerVars, cacheVars
  <2>2. \A m \in net' : Message(m)
    BY <2>1 DEF FragInv
  <2> QED  BY <2>1, <2>2, OnlyMessages
<1>2. CASE \E r \in R : \/ sfw_rel_send_data(r, TRUE) \/ sfw_send_heartbeat(r, TRUE)
                        \/ sfr_rel_do_ack(r, TRUE) \/ MarkLost(r)
                        \/ FillCache(r) \/ TakeSamples(r)
  BY <1>2, SendDataKeeps, HeartbeatKeeps, DoAckKeeps, MarkLostKeeps, CacheKeeps
<1>3. CASE \E m \in net : \/ sfw_rel_nackfrag(m, TRUE) \/ sfw_rel_acknack(m)
                          \/ \E again \in BOOLEAN : ReceiveDataFrag(m, again)
                          \/ sfr_rel_hbfrag(m, TRUE)
  BY <1>3, NackFragKeeps, AckNackKeeps, ReceiveDataFragKeeps, HbFragKeeps
<1>4. CASE sfw_rel_rem_change
  BY <1>4, RemChangeKeeps
<1> QED  BY <1>1, <1>2, <1>3, <1>4 DEF Next

\* The invariant, for samples whose fragments fit in the bitmap of one
\* NACK_FRAG.  (sfr_rel_hbfrag numbers the fragments of a full bitmap from 0.)
THEOREM FragInvariant ==
    ASSUME Total < NackBits
    PROVE  Spec => []FragInv
<1>1. Init => FragInv
  BY InitFrag
<1>2. FragInv /\ [Next]_vars => FragInv'
  BY StepFrag
<1> QED  BY <1>1, <1>2, PTL DEF Spec

\* Every variable keeps its type: num_na and nrefs never pass below 0
\* (mark_fragment, rfraginfo_delete), and nrefs counts at most all readers.
THEOREM FragTypeOK ==
    ASSUME Total < NackBits
    PROVE  Spec => []TypeOK
<1>1. ASSUME FragInv PROVE TypeOK
  <2>1. /\ ReaderType(state, ctx, fi, out) /\ Contexts(state, ctx, fi) /\ WriterType
        /\ \A m \in net : Message(m)
    BY <1>1 DEF FragInv, ReaderInv
  <2> DEFINE C == [nrefs : 0..Cardinality(R), first_na : 0..Total, num_na : 0..Total,
                   got : SUBSET Fragments, buf : SUBSET Fragments]
  <2>2. ASSUME NEW c \in R PROVE fi[c] \in C
    <3>1. fi[c].nrefs \in 0..Cardinality(R)
      <4>1. /\ Cardinality(Users(ctx, c)) \in Nat
            /\ Cardinality(Users(ctx, c)) <= Cardinality(R)
        BY <2>1, UsersCounted DEF ReaderType
      <4>2. Cardinality(R) \in Nat
        BY ReadersFinite, FS_CardinalityType
      <4>3. fi[c].nrefs = Cardinality(Users(ctx, c))
        BY <2>1 DEF Contexts
      <4> QED  BY <4>1, <4>2, <4>3
    <3>2. fi[c] \in Context
      BY <2>1 DEF ReaderType
    <3> QED  BY <3>1, <3>2 DEF Context
  <2>3. fi \in [R -> C]
    <3> HIDE DEF C
    <3> QED  BY <2>1, <2>2 DEF ReaderType
  <2>4. ASSUME NEW m \in net
        PROVE  \/ m.type = "datafrag" /\ m.to \subseteq R
                  /\ {m.first, m.last} \subseteq Fragments
               \/ m.type = "hbfrag" /\ m.to \in R /\ m.last_frag \in Fragments
               \/ m.type = "nackfrag" /\ m.from \in R /\ m.frags \subseteq 0..Total
               \/ m.type = "acknack" /\ m.from \in R /\ m.acked \in BOOLEAN
    <3>1. Fragments \subseteq 0..Total
      BY FragmentNumbers
    <3>2. Message(m)
      BY <2>1
    <3> QED  BY <3>1, <3>2 DEF Message
  <2> QED  BY <1>1, <2>1, <2>3, <2>4 DEF TypeOK, FragInv, ReaderType, WriterType, States
<1> QED  BY <1>1, FragInvariant, PTL

\* A reader hands a sample to its cache only with every fragment in the buffer,
\* for any number of readers that share it, whatever was lost, sent again or
\* refused by a full cache.
THEOREM SamplesAreWhole ==
    ASSUME Total < NackBits
    PROVE  Spec => []DeliveredWhole
<1>1. FragInv => DeliveredWhole
  BY DEF FragInv, ReaderInv, Whole, DeliveredWhole
<1> QED  BY <1>1, FragInvariant, PTL

\* The bitmap, the count and the first missing fragment of a context agree
\* after any sequence of fragments, full caches and readers.
THEOREM ContextsExact ==
    ASSUME Total < NackBits
    PROVE  Spec => []ContextExact
<1>1. FragInv => ContextExact
  BY DEF FragInv, ReaderInv, Contexts, Sound, ContextExact
<1> QED  BY <1>1, FragInvariant, PTL

\* The reference count of a context is the number of readers that use it.
THEOREM ContextsCounted ==
    ASSUME Total < NackBits
    PROVE  Spec => []ContextCounted
<1>1. FragInv => ContextCounted
  BY DEF FragInv, ReaderInv, Contexts, Users, ContextCounted
<1> QED  BY <1>1, FragInvariant, PTL

\* A NACK_FRAG requests at least one fragment, and only fragments that exist.
THEOREM NacksNameFragments ==
    ASSUME Total < NackBits
    PROVE  Spec => []NackNamesFragments
<1>1. FragInv => NackNamesFragments
  BY DEF FragInv, Message, NackNamesFragments
<1> QED  BY <1>1, FragInvariant, PTL
=============================================================================
