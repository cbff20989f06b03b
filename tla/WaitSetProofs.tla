--------------------------- MODULE WaitSetProofs ---------------------------
(***************************************************************************)
(* Proofs about WaitSet, for any threads and conditions and any length of  *)
(* the queue of deferred checks.                                           *)
(***************************************************************************)
EXTENDS WaitSet, FiniteSetTheorems, WellFoundedInduction, TLAPS

-----------------------------------------------------------------------------
(* The inductive invariant.                                                *)

\* The thread that looks at the conditions holds the wait set's lock.
LockHeld == \A t \in Threads : thread[t].at \in {"scan", "sleep"} <=> ws.lock = t

\* nwaiting counts the threads that sleep or did so.
Counted ==
    /\ ws.nwaiting = Cardinality({t \in Threads : thread[t].counted})
    /\ \A t \in Threads :
           /\ thread[t].at \in {"sleep", "asleep", "woken"} => thread[t].counted
           /\ thread[t].at \in {"idle", "set"} => ~thread[t].counted

Distinct(q) == \A i, j \in DOMAIN q : q[i] = q[j] => i = j

\* The wait set's list holds what is attached, and last is its end.
ListIntact ==
    /\ Distinct(ws.list)
    /\ ws.list # <<>> => ws.last = Last(ws.list)
    /\ \A c \in Conds : cond[c].waitset <=> Contains(ws.list, c)

\* A read condition lives as long as its reader lists it, and after that until
\* it is detached.
Lives ==
    /\ Distinct(reader.conditions)
    /\ \A c \in Conds :
           /\ Contains(reader.conditions, c) => cond[c].live
           /\ ~cond[c].live => ~cond[c].waitset
           /\ c \in ReadConds /\ cond[c].live /\ ~Contains(reader.conditions, c)
                  => cond[c].waitset

\* The core thread holds the reader's lock while it goes through the reader's
\* conditions, and no deferred check gets lost at the tail of the queue.
CoreShape ==
    /\ reader.lock <=> core.at = "wakeup"
    /\ core.at = "wakeup" <=> core.cp > 0
    /\ core.at = "check" => core.cond \in ReadConds
    /\ ~deferred.stale

\* Thread t sleeps, or will without another look at c.
Covered(t, c) ==
    \/ thread[t].at \in {"asleep", "sleep"}
    \/ /\ thread[t].at = "scan" /\ ~thread[t].found
       /\ \E i \in DOMAIN ws.list : i < thread[t].cp /\ ws.list[i] = c

\* NoLostWakeup already holds from the moment at which the thread looks.
NothingMissed ==
    \A t \in Threads, c \in ReadConds : Covered(t, c) /\ Triggers(c) => CheckUnderway(c)

\* The parts about types and lists, and what it says of who holds what.
ShapeInv == TypeOK /\ LockHeld /\ Counted /\ ListIntact /\ Lives /\ CoreShape
WaitInv == ShapeInv /\ NothingMissed

-----------------------------------------------------------------------------
(* Lists.                                                                  *)

\* A set of numbers has a least element.
LEMMA LeastExists ==
    ASSUME NEW T \in SUBSET Nat, T # {}
    PROVE  \E i \in T : \A j \in T : i <= j
<1> DEFINE R == OpToRel(<, Nat)
<1>0. IsWellFoundedOn(R, Nat)
  BY NatLessThanWellFounded
<1>2. \A i \in T, j \in T : j < i => <<j, i>> \in R
  BY DEF OpToRel
<1> HIDE DEF R
<1>1. \E i \in T : \A j \in T : ~ (<<j, i>> \in R)
  BY <1>0, WFMin
<1>3. \E i \in T : \A j \in T : ~ (j < i)
  BY <1>1, <1>2, Zenon
<1>4. \A i \in T, j \in T : ~ (j < i) => i <= j
  BY SMT
<1> QED  BY <1>3, <1>4, Zenon

\* Every rank up to the size of a set of positions is taken.
LEMMA RankExists ==
    ASSUME NEW n \in Nat, NEW I \in SUBSET (1..n), NEW k \in 1..Cardinality(I)
    PROVE  \E i \in I : Rank(I, i) = k
<1> DEFINE T == {i \in 0..n : Rank(I, i) >= k}
<1>0. /\ \A J \in SUBSET (1..n) : IsFiniteSet(J) /\ Cardinality(J) \in Nat
      /\ \A i : {j \in I : j <= i} \in SUBSET (1..n)
  <2>1. IsFiniteSet(1..n)
    BY FS_Interval
  <2>2. \A J \in SUBSET (1..n) : IsFiniteSet(J)
    BY <2>1, FS_Subset
  <2> QED  BY <2>2, FS_CardinalityType
<1>1. /\ \A i : IsFiniteSet({j \in I : j <= i}) /\ Rank(I, i) \in Nat
      /\ Cardinality(I) \in Nat /\ k \in Nat /\ 0 < k /\ k <= Cardinality(I)
  BY <1>0 DEF Rank
<1>2. n \in T
  <2>1. \A j \in I : j <= n
    OBVIOUS
  <2>2. {j \in I : j <= n} = I
    BY <2>1, Zenon
  <2>3. Rank(I, n) = Cardinality(I)
    BY <2>2 DEF Rank
  <2> QED  BY <2>3, <1>1
<1>3. PICK i \in T : \A j \in T : i <= j
  <2>1. T \in SUBSET Nat
    BY SMT
  <2> HIDE DEF T
  <2> QED  BY <2>1, <1>2, LeastExists
<1>4. i \in 0..n /\ Rank(I, i) >= k
  BY <1>3
<1>5. i # 0
  <2>1. \A j \in I : ~ (j <= 0)
    BY SMT
  <2>2. {j \in I : j <= 0} = {}
    BY <2>1, Zenon
  <2>3. Rank(I, 0) = 0
    BY <2>2, FS_EmptySet DEF Rank
  <2> QED  BY <2>3, <1>1, <1>4
<1>6. i - 1 \in 0..n /\ i - 1 \notin T
  BY <1>3, <1>4, <1>5, SMT
<1>7. Rank(I, i - 1) \in Nat /\ Rank(I, i) \in Nat /\ Rank(I, i - 1) < k
  <2>1. Rank(I, i - 1) \in Nat /\ Rank(I, i) \in Nat
    BY <1>1, Zenon
  <2>2. ~ (Rank(I, i - 1) >= k)
    BY <1>6, Zenon
  <2> QED  BY <1>1, <2>1, <2>2
<1> DEFINE L == {j \in I : j <= i - 1}
<1>8. IsFiniteSet(L) /\ Cardinality(L) = Rank(I, i - 1)
  BY <1>1 DEF Rank
<1>9. \A j \in I : j <= i <=> (j <= i - 1 \/ j = i)
  BY <1>4, SMT
<1>10. CASE i \in I
  <2>1. {j \in I : j <= i} = L \cup {i}
    BY <1>9, <1>10, Zenon
  <2>2. i \notin L
    BY <1>4, SMT
  <2>3. Cardinality(L \cup {i}) = Cardinality(L) + 1
    BY <1>8, <2>2, FS_AddElement, Zenon
  <2>4. Rank(I, i) = Rank(I, i - 1) + 1
    BY <1>8, <2>1, <2>3 DEF Rank
  <2> QED  BY <1>1, <1>4, <1>7, <1>10, <2>4
<1>11. CASE i \notin I
  <2>1. {j \in I : j <= i} = L
    BY <1>9, <1>11, Zenon
  <2>2. Rank(I, i) = Rank(I, i - 1)
    BY <2>1 DEF Rank
  <2> QED  BY <1>1, <1>4, <1>7, <2>2
<1> QED  BY <1>10, <1>11

\* What is at some positions of a sequence is a sequence of its elements.
LEMMA PositionsType ==
    ASSUME NEW S, NEW q \in Seq(S), NEW I \in SUBSET DOMAIN q
    PROVE  /\ Positions(q, I) \in Seq(S)
           /\ \A k \in DOMAIN Positions(q, I) : \E i \in I : Positions(q, I)[k] = q[i]
<1>1. Len(q) \in Nat /\ DOMAIN q = 1..Len(q)
  OBVIOUS
<1>2. IsFiniteSet(I) /\ Cardinality(I) \in Nat
  <2>1. IsFiniteSet(1..Len(q))
    BY <1>1, FS_Interval
  <2> QED  BY <1>1, <2>1, FS_Subset, FS_CardinalityType
<1>3. \A k \in 1..Cardinality(I) : \E i \in I : Rank(I, i) = k
  BY <1>1, RankExists
<1>4. \A k \in 1..Cardinality(I) : (CHOOSE i \in I : Rank(I, i) = k) \in I
  BY <1>3
<1>5. \A k \in 1..Cardinality(I) : q[CHOOSE i \in I : Rank(I, i) = k] \in S
  BY <1>1, <1>4
<1>6. DOMAIN Positions(q, I) = 1..Cardinality(I)
      /\ \A k \in 1..Cardinality(I) : Positions(q, I)[k] = q[CHOOSE i \in I : Rank(I, i) = k]
  BY DEF Positions
<1>7. Positions(q, I) \in [1..Cardinality(I) -> S]
  BY <1>5, <1>6 DEF Positions
<1> QED  BY <1>2, <1>4, <1>6, <1>7

\* Two positions do not have the same rank.
LEMMA RankInjective ==
    ASSUME NEW n \in Nat, NEW I \in SUBSET (1..n), NEW i \in I, NEW j \in I,
           Rank(I, i) = Rank(I, j)
    PROVE  i = j
<1>0. IsFiniteSet(1..n)
  BY FS_Interval
<1>1. ASSUME NEW a \in I, NEW b \in I, a < b PROVE Rank(I, a) # Rank(I, b)
  <2> DEFINE A == {k \in I : k <= a}
             B == {k \in I : k <= b}
  <2>1. \A k \in I : k <= a => k <= b
    BY <1>1
  <2>2. b \in B /\ b \notin A
    BY <1>1
  <2>3. A \in SUBSET B /\ B \in SUBSET (1..n)
    BY <2>1
  <2>4. IsFiniteSet(B)
    BY <1>0, <2>3, FS_Subset
  <2>5. Cardinality(A) # Cardinality(B)
    BY <2>2, <2>3, <2>4, FS_Subset
  <2> QED  BY <2>5 DEF Rank
<1> QED  BY <1>1

\* Removing c from a list leaves the others, each as often as it was there, and
\* the last of them in its place.
LEMMA WithoutProperties ==
    ASSUME NEW S, NEW q \in Seq(S), NEW c
    PROVE  /\ Without(q, c) \in Seq(S)
           /\ \A d : Contains(Without(q, c), d) <=> Contains(q, d) /\ d # c
           /\ Distinct(q) => Distinct(Without(q, c))
           /\ q # <<>> /\ Last(q) # c =>
                  Without(q, c) # <<>> /\ Last(Without(q, c)) = Last(q)
<1> DEFINE n == Len(q)
           I == {i \in DOMAIN q : q[i] # c}
           w == Positions(q, I)
           at(k) == CHOOSE i \in I : Rank(I, i) = k
<1>1. n \in Nat /\ DOMAIN q = 1..n /\ I \in SUBSET (1..n) /\ I \in SUBSET DOMAIN q
  OBVIOUS
<1>2. /\ w \in Seq(S)
      /\ \A k \in DOMAIN w : \E i \in I : w[k] = q[i]
  BY <1>1, PositionsType
<1>3. IsFiniteSet(I) /\ Cardinality(I) \in Nat
  <2>1. IsFiniteSet(1..n)
    BY <1>1, FS_Interval
  <2> QED  BY <1>1, <2>1, FS_Subset, FS_CardinalityType
<1>4. DOMAIN w = 1..Cardinality(I) /\ \A k \in DOMAIN w : w[k] = q[at(k)]
  BY DEF Positions
<1>5. \A k \in DOMAIN w : at(k) \in I /\ Rank(I, at(k)) = k
  <2>1. \A k \in 1..Cardinality(I) : \E i \in I : Rank(I, i) = k
    BY <1>1, RankExists
  <2> QED  BY <1>4, <2>1
<1>6. \A i \in I : Rank(I, i) \in DOMAIN w /\ at(Rank(I, i)) = i
  <2> SUFFICES ASSUME NEW i \in I PROVE Rank(I, i) \in DOMAIN w /\ at(Rank(I, i)) = i
    OBVIOUS
  <2> DEFINE J == {j \in I : j <= i}
  <2>1. J \in SUBSET I /\ i \in J
    BY <1>1
  <2>2. IsFiniteSet(J) /\ Cardinality(J) \in Nat /\ Cardinality(J) <= Cardinality(I)
    BY <1>3, <2>1, FS_Subset, FS_CardinalityType
  <2>3. Cardinality(J) # 0
    BY <2>1, <2>2, FS_EmptySet
  <2>4. Rank(I, i) \in 1..Cardinality(I)
    BY <1>3, <2>2, <2>3 DEF Rank
  <2>5. at(Rank(I, i)) \in I /\ Rank(I, at(Rank(I, i))) = Rank(I, i)
    BY <1>4, <1>5, <2>4
  <2> HIDE DEF at, I
  <2> QED  BY <1>1, <1>4, <2>4, <2>5, RankInjective
<1>7. w = Without(q, c)
  BY DEF Without
<1>8. ASSUME NEW d PROVE Contains(w, d) <=> Contains(q, d) /\ d # c
  <2>1. DOMAIN w = 1..Len(w)
    BY <1>2
  <2>2. ASSUME Contains(w, d) PROVE Contains(q, d) /\ d # c
    <3>1. PICK k \in DOMAIN w : w[k] = d
      BY <2>1, <2>2 DEF Contains
    <3>2. PICK i \in I : w[k] = q[i]
      BY <1>2
    <3> QED  BY <1>1, <3>1, <3>2 DEF Contains
  <2>3. ASSUME Contains(q, d), d # c PROVE Contains(w, d)
    <3>1. PICK i \in DOMAIN q : q[i] = d
      BY <1>1, <2>3 DEF Contains
    <3>2. i \in I
      BY <2>3, <3>1
    <3>3. Rank(I, i) \in DOMAIN w /\ w[Rank(I, i)] = q[i]
      BY <1>4, <1>6, <3>2
    <3> QED  BY <2>1, <3>1, <3>3 DEF Contains
  <2> QED  BY <2>2, <2>3
<1>9. ASSUME Distinct(q) PROVE Distinct(w)
  <2> SUFFICES ASSUME NEW k \in DOMAIN w, NEW l \in DOMAIN w, w[k] = w[l] PROVE k = l
    BY DEF Distinct
  <2>1. at(k) \in DOMAIN q /\ at(l) \in DOMAIN q /\ q[at(k)] = q[at(l)]
    BY <1>4, <1>5
  <2>2. at(k) = at(l)
    BY <1>9, <2>1 DEF Distinct
  <2> QED  BY <1>5, <2>2
<1>10. ASSUME q # <<>>, Last(q) # c PROVE w # <<>> /\ Last(w) = Last(q)
  <2>1. n \in DOMAIN q /\ n \in I
    BY <1>1, <1>10 DEF Last
  <2>2. {j \in I : j <= n} = I
    <3>1. \A j \in I : j <= n
      BY <1>1
    <3> QED  BY <3>1, Zenon
  <2>3. Rank(I, n) = Cardinality(I)
    BY <2>2 DEF Rank
  <2>4. Cardinality(I) \in DOMAIN w /\ at(Cardinality(I)) = n
    BY <1>6, <2>1, <2>3
  <2>5. Len(w) = Cardinality(I)
    BY <1>2, <1>3, <1>4
  <2>6. w[Cardinality(I)] = q[n]
    BY <1>4, <2>4
  <2>7. w # <<>>
    BY <1>4, <2>4
  <2> QED  BY <2>5, <2>6, <2>7 DEF Last
<1> HIDE DEF w
<1> QED  BY <1>2, <1>7, <1>8, <1>9, <1>10

\* What Append adds to a list, and when the list stays without duplicates.
LEMMA AppendProps ==
    ASSUME NEW S, NEW q \in Seq(S), NEW c \in S
    PROVE  /\ Append(q, c) \in Seq(S) /\ Append(q, c) # <<>> /\ Last(Append(q, c)) = c
           /\ \A d : Contains(Append(q, c), d) <=> Contains(q, d) \/ d = c
           /\ Distinct(q) /\ ~Contains(q, c) => Distinct(Append(q, c))
<1> DEFINE w == Append(q, c)
<1>1. /\ w \in Seq(S) /\ Len(w) = Len(q) + 1 /\ Len(q) \in Nat
      /\ DOMAIN q = 1..Len(q) /\ DOMAIN w = 1..(Len(q) + 1)
      /\ w[Len(q) + 1] = c /\ \A i \in 1..Len(q) : w[i] = q[i]
  OBVIOUS
<1>2. w # <<>>
  BY <1>1
<1> HIDE DEF w
<1>3. \A d : Contains(w, d) <=> Contains(q, d) \/ d = c
  BY <1>1 DEF Contains
<1>4. Distinct(q) /\ ~Contains(q, c) => Distinct(w)
  BY <1>1 DEF Distinct, Contains
<1> QED  BY <1>1, <1>2, <1>3, <1>4 DEF w, Last

\* What Tail takes from a list.
LEMMA TailProps ==
    ASSUME NEW S, NEW q \in Seq(S), q # <<>>
    PROVE  /\ Tail(q) \in Seq(S) /\ Head(q) \in S
           /\ \A d : Contains(q, d) <=> Contains(Tail(q), d) \/ d = Head(q)
<1> DEFINE w == Tail(q)
<1>1. /\ w \in Seq(S) /\ Len(w) = Len(q) - 1 /\ Len(q) \in Nat /\ Len(q) > 0
      /\ Head(q) = q[1] /\ q[1] \in S /\ \A i \in 1..(Len(q) - 1) : w[i] = q[i + 1]
  OBVIOUS
<1> HIDE DEF w
<1>2. ASSUME NEW d PROVE Contains(q, d) <=> Contains(w, d) \/ d = Head(q)
  <2>1. ASSUME NEW i \in 1..Len(q), q[i] = d PROVE Contains(w, d) \/ d = Head(q)
    <3>1. CASE i = 1
      BY <1>1, <2>1, <3>1
    <3>2. CASE i # 1
      <4>1. i - 1 \in 1..(Len(q) - 1) /\ w[i - 1] = q[(i - 1) + 1] /\ (i - 1) + 1 = i
        BY <1>1, <3>2
      <4> QED  BY <1>1, <2>1, <4>1 DEF Contains
    <3> QED  BY <3>1, <3>2
  <2>2. Contains(w, d) => Contains(q, d)
    BY <1>1 DEF Contains
  <2>3. d = Head(q) => Contains(q, d)
    BY <1>1 DEF Contains
  <2> QED  BY <2>1, <2>2, <2>3 DEF Contains
<1> QED  BY <1>1, <1>2 DEF w

\* The reader's conditions at first: each is listed once.
LEMMA InitialConditions ==
    /\ SetToSeq(ReadConds) \in Seq(ReadConds)
    /\ Distinct(SetToSeq(ReadConds))
    /\ \A c \in ReadConds : Contains(SetToSeq(ReadConds), c)
<1> DEFINE n == Cardinality(ReadConds)
           q == SetToSeq(ReadConds)
<1>1. n \in Nat /\ ExistsBijection(1..n, ReadConds)
  BY WaitSetAssumption, FS_CardinalityType
<1>2. \E f \in [1..n -> ReadConds] : IsInjective(f)
  BY <1>1 DEF ExistsBijection, Bijection, Injection
<1>3. q \in [1..n -> ReadConds] /\ IsInjective(q)
  BY <1>2 DEF SetToSeq
<1>4. q \in Injection(1..n, ReadConds)
  BY <1>3 DEF Injection
<1>5. q \in Surjection(1..n, ReadConds)
  <2>1. Cardinality(1..n) = n
    BY <1>1, FS_Interval
  <2> HIDE DEF q
  <2> QED  BY <1>4, <2>1, WaitSetAssumption, FS_Injection
<1> HIDE DEF q
<1>6. q \in Seq(ReadConds) /\ Len(q) = n
  BY <1>1, <1>3
<1>7. \A c \in ReadConds : Contains(q, c)
  BY <1>5, <1>6 DEF Surjection, Contains
<1> QED  BY <1>3, <1>6, <1>7 DEF Distinct, IsInjective, q

-----------------------------------------------------------------------------
(* Types and lists.                                                        *)

WsType == [list : Seq(Conds), last : Conds \cup {Null}, lock : Threads \cup {Null},
           nwaiting : 0..Cardinality(Threads)]
CondType == [waitset : BOOLEAN, deferred : BOOLEAN, value : BOOLEAN, live : BOOLEAN]
ReaderType == [lock : BOOLEAN, conditions : Seq(ReadConds), data : BOOLEAN, alive : BOOLEAN]
DeferType == [checks : Seq(ReadConds), stale : BOOLEAN]
CoreType(n) == [at : {"idle", "wakeup", "check"}, cp : 0..(n + 1), cond : ReadConds \cup {Null}]
ThreadType == [at : {"idle", "scan", "sleep", "asleep", "woken", "set"},
               cp : Nat, found : BOOLEAN, counted : BOOLEAN]

\* The type invariant, one conjunct per variable.
LEMMA Types ==
    TypeOK <=> /\ ws \in WsType
               /\ cond \in [Conds -> CondType]
               /\ reader \in ReaderType
               /\ deferred \in DeferType
               /\ core \in CoreType(Len(reader.conditions))
               /\ thread \in [Threads -> ThreadType]
BY DEF TypeOK, WsType, CondType, ReaderType, DeferType, CoreType, ThreadType

\* The same in the next state.
LEMMA TypesPrime ==
    TypeOK' <=> /\ ws' \in WsType
                /\ cond' \in [Conds -> CondType]
                /\ reader' \in ReaderType
                /\ deferred' \in DeferType
                /\ core' \in CoreType(Len(reader'.conditions))
                /\ thread' \in [Threads -> ThreadType]
BY DEF TypeOK, WsType, CondType, ReaderType, DeferType, CoreType, ThreadType

\* The lists and counts start in shape.
LEMMA ShapeInit == Init => ShapeInv
<1> SUFFICES ASSUME Init PROVE ShapeInv
  OBVIOUS
<1>1. ws \in WsType /\ ws.list = <<>> /\ ws.lock = Null /\ ws.nwaiting = 0
  <2>1. 0 \in 0..Cardinality(Threads)
    BY WaitSetAssumption, FS_CardinalityType
  <2> QED  BY <2>1 DEF Init, WsType
<1>2. cond \in [Conds -> CondType] /\ \A c \in Conds : ~cond[c].waitset /\ cond[c].live
  BY DEF Init, CondType
<1>3. reader \in ReaderType /\ reader.conditions = SetToSeq(ReadConds) /\ reader.lock = FALSE
  BY InitialConditions DEF Init, ReaderType
<1>4. deferred \in DeferType /\ ~deferred.stale
  BY DEF Init, DeferType
<1>5. core \in CoreType(Len(reader.conditions)) /\ core.at = "idle" /\ core.cp = 0
  <2>1. Len(reader.conditions) \in Nat
    BY <1>3 DEF ReaderType
  <2>2. 0 \in 0..(Len(reader.conditions) + 1)
    BY <2>1
  <2> QED  BY <2>2 DEF Init, CoreIdle, CoreType
<1>6. /\ thread \in [Threads -> ThreadType]
      /\ \A t \in Threads : thread[t].at = "idle" /\ ~thread[t].counted
  BY DEF Init, Idle, ThreadType
<1>7. TypeOK
  BY <1>1, <1>2, <1>3, <1>4, <1>5, <1>6, Types
<1>8. LockHeld
  BY <1>1, <1>6, WaitSetAssumption DEF LockHeld
<1>9. Counted
  <2>1. {t \in Threads : thread[t].counted} = {}
    BY <1>6
  <2> QED  BY <1>1, <1>6, <2>1, FS_EmptySet DEF Counted
<1>10. ListIntact
  BY <1>1, <1>2 DEF ListIntact, Distinct, Contains
<1>11. Lives
  BY <1>2, <1>3, InitialConditions DEF Lives
<1>12. CoreShape
  BY <1>3, <1>4, <1>5 DEF CoreShape
<1> QED  BY <1>7, <1>8, <1>9, <1>10, <1>11, <1>12 DEF ShapeInv

\* Who only waits or sets a guard condition leaves the lists alone.
LEMMA SameLists ==
    ASSUME ListIntact, Lives, CoreShape, ws'.list = ws.list, ws'.last = ws.last,
           UNCHANGED <<reader, deferred, core>>,
           \A c \in Conds : /\ cond'[c].waitset <=> cond[c].waitset
                            /\ cond'[c].live <=> cond[c].live
    PROVE  ListIntact' /\ Lives' /\ CoreShape'
BY DEF ListIntact, Lives, CoreShape

\* The others leave those alone who wait, or wake the sleepers up; what a
\* thread does that does not wait is its own affair.
LEMMA SameWaiters ==
    ASSUME LockHeld, Counted, ws'.lock = ws.lock, ws'.nwaiting = ws.nwaiting,
           \A t \in Threads :
               \/ thread'[t] = thread[t]
               \/ /\ thread[t].at = "asleep" /\ thread'[t].at = "woken"
                  /\ thread'[t].counted <=> thread[t].counted
               \/ /\ thread[t].at \in {"idle", "set"} /\ thread'[t].at \in {"idle", "set"}
                  /\ ~thread'[t].counted
    PROVE  LockHeld' /\ Counted'
<1>1. LockHeld'
  BY DEF LockHeld
<1>2. {t \in Threads : thread'[t].counted} = {t \in Threads : thread[t].counted}
  BY DEF Counted
<1>3. Counted'
  BY <1>2 DEF Counted
<1> QED  BY <1>1, <1>3

\* Signalling the condition variable leaves no thread asleep and changes nothing else of a thread.
LEMMA SignalProps ==
    ASSUME thread \in [Threads -> ThreadType]
    PROVE  /\ Signal \in [Threads -> ThreadType]
           /\ \A t \in Threads :
                  /\ Signal[t].at # "asleep"
                  /\ \/ Signal[t] = thread[t]
                     \/ /\ thread[t].at = "asleep" /\ Signal[t].at = "woken"
                        /\ Signal[t].counted <=> thread[t].counted
<1>1. \A t \in Threads : [thread[t] EXCEPT !.at = "woken"] \in ThreadType
  BY DEF ThreadType
<1>2. Signal \in [Threads -> ThreadType]
  BY <1>1 DEF Signal
<1>3. ASSUME NEW t \in Threads, thread[t].at = "asleep"
      PROVE  Signal[t].at = "woken" /\ (Signal[t].counted <=> thread[t].counted)
  BY <1>3 DEF Signal, ThreadType
<1>4. ASSUME NEW t \in Threads, thread[t].at # "asleep" PROVE Signal[t] = thread[t]
  BY <1>4 DEF Signal
<1> QED  BY <1>2, <1>3, <1>4

\* Changing one thread changes the number of those that are counted.
LEMMA CountOne ==
    ASSUME Counted, NEW t \in Threads,
           thread \in [Threads -> ThreadType], thread' \in [Threads -> ThreadType],
           \A u \in Threads \ {t} : thread'[u] = thread[u],
           thread'[t].at \in {"sleep", "asleep", "woken"} => thread'[t].counted,
           thread'[t].at \in {"idle", "set"} => ~thread'[t].counted,
           ws'.nwaiting = IF thread[t].counted
                          THEN IF thread'[t].counted THEN ws.nwaiting ELSE ws.nwaiting - 1
                          ELSE IF thread'[t].counted THEN ws.nwaiting + 1 ELSE ws.nwaiting
    PROVE  Counted' /\ ws'.nwaiting \in 0..Cardinality(Threads)
<1> DEFINE K == {u \in Threads : thread[u].counted}
           L == {u \in Threads : thread'[u].counted}
<1>1. IsFiniteSet(K) /\ IsFiniteSet(L)
  BY WaitSetAssumption, FS_Subset
<1>2. ws.nwaiting = Cardinality(K)
  BY DEF Counted
<1>3. ws'.nwaiting = Cardinality(L)
  <2>1. CASE thread[t].counted /\ thread'[t].counted
    <3>1. L = K
      BY <2>1
    <3> QED  BY <1>2, <2>1, <3>1
  <2>2. CASE thread[t].counted /\ ~thread'[t].counted
    <3>1. L = K \ {t} /\ t \in K
      BY <2>2
    <3>2. Cardinality(K \ {t}) = Cardinality(K) - 1
      BY <1>1, <3>1, FS_RemoveElement
    <3> QED  BY <1>2, <2>2, <3>1, <3>2
  <2>3. CASE ~thread[t].counted /\ thread'[t].counted
    <3>1. L = K \cup {t} /\ t \notin K
      BY <2>3
    <3>2. Cardinality(K \cup {t}) = Cardinality(K) + 1
      BY <1>1, <3>1, FS_AddElement
    <3> QED  BY <1>2, <2>3, <3>1, <3>2
  <2>4. CASE ~thread[t].counted /\ ~thread'[t].counted
    <3>1. L = K
      BY <2>4
    <3> QED  BY <1>2, <2>4, <3>1
  <2> QED  BY <2>1, <2>2, <2>3, <2>4
<1>4. Counted'
  BY <1>3 DEF Counted
<1>5. Cardinality(L) \in 0..Cardinality(Threads)
  <2>1. Cardinality(L) <= Cardinality(Threads)
    BY WaitSetAssumption, FS_Subset
  <2> QED  BY <1>1, <2>1, WaitSetAssumption, FS_CardinalityType
<1> QED  BY <1>3, <1>4, <1>5

\* DDS_WaitSet_wait.
LEMMA WaitKeepsShape ==
    ASSUME ShapeInv, NEW t \in Threads,
           \/ WaitStart(t) \/ WaitCheck(t) \/ WaitDecide(t) \/ WaitSleep(t)
           \/ WaitWake(t) \/ WaitTimeout(t)
    PROVE  ShapeInv'
<1>s. TypeOK /\ LockHeld /\ Counted /\ ListIntact /\ Lives /\ CoreShape
  BY DEF ShapeInv
<1>t. /\ ws \in WsType /\ thread \in [Threads -> ThreadType] /\ thread[t] \in ThreadType
      /\ UNCHANGED <<cond, reader, deferred, core>>
  BY <1>s, Types DEF WaitStart, WaitCheck, WaitDecide, WaitSleep, WaitWake, WaitTimeout
<1>i. Idle \in ThreadType /\ Idle.at = "idle" /\ ~Idle.counted
  BY DEF Idle, ThreadType
<1>n. t # Null
  BY WaitSetAssumption
<1>f. /\ ws.list \in Seq(Conds) /\ ws.last \in Conds \cup {Null}
      /\ ws.lock \in Threads \cup {Null} /\ ws.nwaiting \in 0..Cardinality(Threads)
      /\ Cardinality(Threads) \in Nat
  BY <1>t, WaitSetAssumption, FS_CardinalityType DEF WsType
\* What each of them leaves to show.
<1>g. ASSUME thread' \in [Threads -> ThreadType],
             \A u \in Threads \ {t} : thread'[u] = thread[u],
             ws' = [ws EXCEPT !.lock = ws'.lock, !.nwaiting = ws'.nwaiting],
             ws'.lock \in Threads \cup {Null},
             thread'[t].at \in {"sleep", "asleep", "woken"} => thread'[t].counted,
             thread'[t].at \in {"idle", "set"} => ~thread'[t].counted,
             ws'.nwaiting = IF thread[t].counted
                 THEN IF thread'[t].counted THEN ws.nwaiting ELSE ws.nwaiting - 1
                 ELSE IF thread'[t].counted THEN ws.nwaiting + 1 ELSE ws.nwaiting,
             thread'[t].at \in {"scan", "sleep"} <=> ws'.lock = t,
             \A u \in Threads \ {t} : ws.lock = u <=> ws'.lock = u
      PROVE  ShapeInv'
  <2>1. ws'.list = ws.list /\ ws'.last = ws.last
    BY <1>g, <1>t DEF WsType
  <2>2. Counted' /\ ws'.nwaiting \in 0..Cardinality(Threads)
    BY <1>g, <1>s, <1>t, <2>1, CountOne
  <2>3. ws' \in WsType
    BY <1>g, <1>t, <2>1, <2>2 DEF WsType
  <2>4. TypeOK'
    BY <1>g, <1>s, <1>t, <2>3, Types, TypesPrime
  <2>5. LockHeld'
    BY <1>g, <1>s, <2>1 DEF LockHeld
  <2>6. ListIntact' /\ Lives' /\ CoreShape'
    BY <1>s, <1>t, <2>1, SameLists
  <2> QED  BY <2>2, <2>4, <2>5, <2>6 DEF ShapeInv
<1>w. ASSUME NEW k, NEW n, ws' = [ws EXCEPT !.lock = k, !.nwaiting = n]
      PROVE  /\ ws' = [ws EXCEPT !.lock = ws'.lock, !.nwaiting = ws'.nwaiting]
             /\ ws'.lock = k /\ ws'.nwaiting = n
  BY <1>w, <1>t DEF WsType
<1> USE <1>n
<1>1. CASE WaitStart(t)
  <2> DEFINE th == [Idle EXCEPT !.at = "scan", !.cp = 1]
  <2>1. th \in ThreadType /\ th.at = "scan" /\ ~th.counted
    BY DEF Idle, ThreadType
  <2>2. thread' = [thread EXCEPT ![t] = th] /\ thread[t].at = "idle" /\ ws.lock = Null
    BY <1>1 DEF WaitStart
  <2>3. ~thread[t].counted
    BY <1>s, <2>2 DEF Counted
  <2>4. ws' = [ws EXCEPT !.lock = t, !.nwaiting = ws.nwaiting]
    BY <1>1, <1>t DEF WaitStart, WsType
  <2>5. ws'.lock = t /\ ws'.nwaiting = ws.nwaiting
        /\ ws' = [ws EXCEPT !.lock = ws'.lock, !.nwaiting = ws'.nwaiting]
    BY <1>w, <2>4
  <2> HIDE DEF th
  <2>6. thread'[t] = th /\ thread' \in [Threads -> ThreadType]
        /\ \A u \in Threads \ {t} : thread'[u] = thread[u]
    BY <2>1, <2>2, <1>t
  <2>7. \A u \in Threads \ {t} : ws.lock = u <=> ws'.lock = u
    BY <2>2, <2>5, WaitSetAssumption
  <2> QED  BY <2>1, <2>3, <2>5, <2>6, <2>7, <1>g
<1>2. CASE WaitCheck(t)
  <2> DEFINE f == thread[t].found \/ Ready(ws.list[thread[t].cp])
             th == [thread[t] EXCEPT !.cp = @ + 1, !.found = f]
  <2>1. /\ thread[t].at = "scan" /\ UNCHANGED ws /\ thread' = [thread EXCEPT ![t] = th]
    BY <1>2, <1>t DEF WaitCheck
  <2>2. th \in ThreadType /\ th.at = "scan" /\ (th.counted <=> thread[t].counted)
    <3>1. f \in BOOLEAN
      BY Zenon
    <3> HIDE DEF f
    <3>2. \A g \in BOOLEAN, k \in Nat : [thread[t] EXCEPT !.cp = k, !.found = g] \in ThreadType
      BY <1>t DEF ThreadType
    <3>3. thread[t].cp + 1 \in Nat
      BY <1>t DEF ThreadType
    <3>4. th \in ThreadType
      BY <3>1, <3>2, <3>3
    <3>5. th.at = thread[t].at /\ (th.counted <=> thread[t].counted)
      BY <1>t DEF ThreadType
    <3> QED  BY <2>1, <3>4, <3>5
  <2> HIDE DEF th
  <2>3. /\ thread' \in [Threads -> ThreadType] /\ thread'[t] = th
        /\ \A u \in Threads \ {t} : thread'[u] = thread[u]
    BY <2>1, <2>2, <1>t
  <2>4. ws.lock = t
    BY <1>s, <2>1 DEF LockHeld
  <2>5. ws' = [ws EXCEPT !.lock = ws'.lock, !.nwaiting = ws'.nwaiting]
    BY <2>1, <1>t DEF WsType
  <2> QED  BY <2>1, <2>2, <2>3, <2>4, <2>5, <1>g
<1>3. CASE WaitDecide(t)
  <2>1. thread[t].at = "scan" /\ ws.lock = t
    BY <1>3, <1>s DEF WaitDecide, LockHeld
  <2>2. CASE thread[t].found
    <3> DEFINE n == IF thread[t].counted THEN ws.nwaiting - 1 ELSE ws.nwaiting
    <3>1. thread' = [thread EXCEPT ![t] = Idle]
      BY <1>3, <2>2 DEF WaitDecide
    <3>2. ws' = [ws EXCEPT !.lock = Null, !.nwaiting = n]
      BY <1>3, <2>2 DEF WaitDecide
    <3>3. /\ thread' \in [Threads -> ThreadType] /\ thread'[t] = Idle
          /\ \A u \in Threads \ {t} : thread'[u] = thread[u]
      BY <3>1, <1>t, <1>i
    <3>4. ws'.lock = Null /\ ws'.nwaiting = n
          /\ ws' = [ws EXCEPT !.lock = ws'.lock, !.nwaiting = ws'.nwaiting]
      BY <1>w, <3>2
    <3>5. \A u \in Threads \ {t} : ws.lock = u <=> ws'.lock = u
      BY <2>1, <3>4, WaitSetAssumption
    <3> QED  BY <1>i, <3>3, <3>4, <3>5, <1>g
  <2>3. CASE ~thread[t].found
    <3> DEFINE n == IF thread[t].counted THEN ws.nwaiting ELSE ws.nwaiting + 1
               th == [thread[t] EXCEPT !.at = "sleep", !.counted = TRUE]
    <3>1. thread' = [thread EXCEPT ![t] = th]
      BY <1>3, <2>3, <1>t DEF WaitDecide
    <3>2. ws' = [ws EXCEPT !.nwaiting = n]
      BY <1>3, <2>3 DEF WaitDecide
    <3>3. ws'.lock = t /\ ws'.nwaiting = n
          /\ ws' = [ws EXCEPT !.lock = ws'.lock, !.nwaiting = ws'.nwaiting]
      BY <3>2, <2>1, <1>t DEF WsType
    <3>4. th \in ThreadType /\ th.at = "sleep" /\ th.counted
      BY <1>t DEF ThreadType
    <3> HIDE DEF th
    <3>5. /\ thread' \in [Threads -> ThreadType] /\ thread'[t] = th
          /\ \A u \in Threads \ {t} : thread'[u] = thread[u]
      BY <3>1, <3>4, <1>t
    <3> QED  BY <2>1, <3>3, <3>4, <3>5, <1>g
  <2> QED  BY <2>2, <2>3
<1>4. CASE WaitSleep(t)
  <2> DEFINE th == [thread[t] EXCEPT !.at = "asleep"]
  <2>1. thread[t].at = "sleep" /\ ws.lock = t /\ thread[t].counted
    BY <1>4, <1>s DEF WaitSleep, LockHeld, Counted
  <2>2. ws' = [ws EXCEPT !.lock = Null, !.nwaiting = ws.nwaiting]
    BY <1>4, <1>t DEF WaitSleep, WsType
  <2>3. ws'.lock = Null /\ ws'.nwaiting = ws.nwaiting
        /\ ws' = [ws EXCEPT !.lock = ws'.lock, !.nwaiting = ws'.nwaiting]
    BY <1>w, <2>2
  <2>4. thread' = [thread EXCEPT ![t] = th] /\ th \in ThreadType /\ th.at = "asleep" /\ th.counted
    BY <1>4, <2>1, <1>t DEF WaitSleep, ThreadType
  <2> HIDE DEF th
  <2>5. /\ thread' \in [Threads -> ThreadType] /\ thread'[t] = th
        /\ \A u \in Threads \ {t} : thread'[u] = thread[u]
    BY <2>4, <1>t
  <2>6. \A u \in Threads \ {t} : ws.lock = u <=> ws'.lock = u
    BY <2>1, <2>3, WaitSetAssumption
  <2> QED  BY <2>1, <2>3, <2>4, <2>5, <2>6, <1>g
<1>5. CASE WaitWake(t)
  <2> DEFINE th == [thread[t] EXCEPT !.at = "scan", !.cp = 1, !.found = FALSE]
  <2>1. thread[t].at = "woken" /\ ws.lock = Null /\ thread[t].counted
    BY <1>5, <1>s DEF WaitWake, Counted
  <2>2. ws' = [ws EXCEPT !.lock = t, !.nwaiting = ws.nwaiting]
    BY <1>5, <1>t DEF WaitWake, WsType
  <2>3. ws'.lock = t /\ ws'.nwaiting = ws.nwaiting
        /\ ws' = [ws EXCEPT !.lock = ws'.lock, !.nwaiting = ws'.nwaiting]
    BY <1>w, <2>2
  <2>4. thread' = [thread EXCEPT ![t] = th]
    BY <1>5, <1>t DEF WaitWake
  <2>5. th \in ThreadType /\ th.at = "scan" /\ th.counted
    BY <2>1, <1>t DEF ThreadType
  <2> HIDE DEF th
  <2>6. /\ thread' \in [Threads -> ThreadType] /\ thread'[t] = th
        /\ \A u \in Threads \ {t} : thread'[u] = thread[u]
    BY <2>4, <2>5, <1>t
  <2>7. \A u \in Threads \ {t} : ws.lock = u <=> ws'.lock = u
    BY <2>1, <2>3, WaitSetAssumption
  <2> QED  BY <2>1, <2>3, <2>5, <2>6, <2>7, <1>g
<1>6. CASE WaitTimeout(t)
  <2>1. thread[t].at = "asleep" /\ ws.lock = Null /\ thread[t].counted
    BY <1>6, <1>s DEF WaitTimeout, Counted
  <2>2. ws' = [ws EXCEPT !.lock = Null, !.nwaiting = ws.nwaiting - 1]
    BY <1>6, <2>1, <1>t DEF WaitTimeout, WsType
  <2>3. ws'.lock = Null /\ ws'.nwaiting = ws.nwaiting - 1
        /\ ws' = [ws EXCEPT !.lock = ws'.lock, !.nwaiting = ws'.nwaiting]
    BY <1>w, <2>2
  <2>4. /\ thread' \in [Threads -> ThreadType] /\ thread'[t] = Idle
        /\ \A u \in Threads \ {t} : thread'[u] = thread[u]
    BY <1>6, <1>i, <1>t DEF WaitTimeout
  <2> QED  BY <2>1, <2>3, <2>4, <1>i, <1>g
<1> QED  BY <1>1, <1>2, <1>3, <1>4, <1>5, <1>6

\* DDS_GuardCondition_set_trigger_value.
LEMMA TriggerKeepsShape ==
    ASSUME ShapeInv, NEW t \in Threads,
           TriggerSignal(t) \/ \E c \in GuardConds : set_trigger_value(t, c)
    PROVE  ShapeInv'
<1>s. TypeOK /\ LockHeld /\ Counted /\ ListIntact /\ Lives /\ CoreShape
  BY DEF ShapeInv
<1>t. /\ thread \in [Threads -> ThreadType] /\ thread[t] \in ThreadType
      /\ cond \in [Conds -> CondType] /\ UNCHANGED <<ws, reader, deferred, core>>
  BY <1>s, Types DEF TriggerSignal, set_trigger_value
<1>1. CASE TriggerSignal(t)
  <2>i. Idle \in ThreadType /\ Idle.at = "idle" /\ ~Idle.counted
    BY DEF Idle, ThreadType
  <2> DEFINE T == IF ws.nwaiting > 0 THEN Signal ELSE thread
  <2>1. /\ T \in [Threads -> ThreadType]
        /\ \A u \in Threads :
               \/ T[u] = thread[u]
               \/ /\ thread[u].at = "asleep" /\ T[u].at = "woken"
                  /\ T[u].counted <=> thread[u].counted
    BY <1>t, SignalProps
  <2>2. thread' = [T EXCEPT ![t] = Idle] /\ thread[t].at = "set" /\ UNCHANGED cond
    BY <1>1 DEF TriggerSignal
  <2> HIDE DEF T
  <2>3. /\ thread' \in [Threads -> ThreadType] /\ thread'[t] = Idle
        /\ \A u \in Threads \ {t} : thread'[u] = T[u]
    BY <2>1, <2>2, <2>i
  <2>4. LockHeld' /\ Counted'
    <3>1. \A u \in Threads :
               \/ thread'[u] = thread[u]
               \/ /\ thread[u].at = "asleep" /\ thread'[u].at = "woken"
                  /\ thread'[u].counted <=> thread[u].counted
               \/ /\ thread[u].at \in {"idle", "set"} /\ thread'[u].at \in {"idle", "set"}
                  /\ ~thread'[u].counted
      BY <2>1, <2>2, <2>3, <2>i
    <3> QED  BY <3>1, <1>s, <1>t, SameWaiters
  <2>5. TypeOK'
    BY <2>2, <2>3, <1>s, <1>t, Types, TypesPrime
  <2>6. ListIntact' /\ Lives' /\ CoreShape'
    BY <2>2, <1>s, <1>t, SameLists
  <2> QED  BY <2>4, <2>5, <2>6 DEF ShapeInv
<1>2. ASSUME NEW c \in GuardConds, set_trigger_value(t, c) PROVE ShapeInv'
  <2> DEFINE th == [thread[t] EXCEPT !.at = IF cond[c].value THEN "idle" ELSE "set"]
             b == [cond[c] EXCEPT !.value = ~ @]
  <2>0. c \in Conds /\ cond[c] \in CondType
    BY <1>t DEF Conds
  <2>1. thread' = [thread EXCEPT ![t] = th] /\ thread[t].at = "idle" /\ cond' = [cond EXCEPT ![c] = b]
    BY <1>2, <1>t, <2>0 DEF set_trigger_value
  <2>2. /\ th \in ThreadType /\ th.at \in {"idle", "set"} /\ ~th.counted
        /\ b \in CondType /\ (b.waitset <=> cond[c].waitset) /\ (b.live <=> cond[c].live)
    <3>1. ~thread[t].counted
      BY <2>1, <1>s DEF Counted
    <3>2. b \in CondType /\ (b.waitset <=> cond[c].waitset) /\ (b.live <=> cond[c].live)
      BY <2>0 DEF CondType
    <3>3. th \in ThreadType /\ th.at \in {"idle", "set"} /\ ~th.counted
      BY <3>1, <1>t DEF ThreadType
    <3> QED  BY <3>2, <3>3
  <2> HIDE DEF th, b
  <2>3. /\ thread' \in [Threads -> ThreadType] /\ thread'[t] = th
        /\ \A u \in Threads \ {t} : thread'[u] = thread[u]
    BY <2>1, <2>2, <1>t
  <2>4. /\ cond' \in [Conds -> CondType]
        /\ \A d \in Conds : /\ cond'[d].waitset <=> cond[d].waitset
                            /\ cond'[d].live <=> cond[d].live
    BY <2>0, <2>1, <2>2, <1>t
  <2>5. LockHeld' /\ Counted'
    BY <2>1, <2>2, <2>3, <1>s, <1>t, SameWaiters
  <2>6. TypeOK'
    BY <2>3, <2>4, <1>s, <1>t, Types, TypesPrime
  <2>7. ListIntact' /\ Lives' /\ CoreShape'
    BY <2>4, <1>s, <1>t, SameLists
  <2> QED  BY <2>5, <2>6, <2>7 DEF ShapeInv
<1> QED  BY <1>1, <1>2

\* A deferred check is queued as long as the tail is not stale.
LEMMA DeferCheckProps ==
    ASSUME NEW q \in DeferType, NEW c \in ReadConds, ~q.stale
    PROVE  /\ dds_defer_waitset_check(q, c) \in DeferType
           /\ ~dds_defer_waitset_check(q, c).stale
           /\ \A d : Contains(dds_defer_waitset_check(q, c).checks, d)
                         <=> Contains(q.checks, d) \/ d = c
<1>1. q.checks \in Seq(ReadConds)
  BY DEF DeferType
<1>2. CASE q.checks = <<>>
  <2>1. dds_defer_waitset_check(q, c) = [checks |-> <<c>>, stale |-> FALSE]
    BY <1>2 DEF dds_defer_waitset_check
  <2>2. [checks |-> <<c>>, stale |-> FALSE] \in DeferType
    BY DEF DeferType
  <2>3. \A d : Contains(<<c>>, d) <=> Contains(<<>>, d) \/ d = c
    BY DEF Contains
  <2> QED  BY <1>2, <2>1, <2>2, <2>3
<1>3. CASE q.checks # <<>>
  <2>1. dds_defer_waitset_check(q, c) = [q EXCEPT !.checks = Append(q.checks, c)]
    BY <1>3 DEF dds_defer_waitset_check
  <2>2. /\ Append(q.checks, c) \in Seq(ReadConds)
        /\ \A d : Contains(Append(q.checks, c), d) <=> Contains(q.checks, d) \/ d = c
    BY <1>1, AppendProps
  <2>3. ASSUME NEW w \in Seq(ReadConds)
        PROVE  /\ [q EXCEPT !.checks = w] \in DeferType /\ [q EXCEPT !.checks = w].checks = w
               /\ ~[q EXCEPT !.checks = w].stale
    BY DEF DeferType
  <2> QED  BY <2>1, <2>2, <2>3
<1> QED  BY <1>2, <1>3

\* Undoing a deferred check takes every entry of that condition from the list and no other.
LEMMA DeferUndoProps ==
    ASSUME NEW q \in DeferType, NEW c
    PROVE  /\ dds_defer_waitset_undo(q, c) \in DeferType
           /\ \A d : Contains(dds_defer_waitset_undo(q, c).checks, d)
                         <=> Contains(q.checks, d) /\ d # c
<1>1. q.checks \in Seq(ReadConds) /\ q.stale \in BOOLEAN
  BY DEF DeferType
<1>2. /\ Without(q.checks, c) \in Seq(ReadConds)
      /\ \A d : Contains(Without(q.checks, c), d) <=> Contains(q.checks, d) /\ d # c
  BY <1>1, WithoutProperties
<1>3. (Without(q.checks, c) # <<>> /\ (q.stale \/ Last(q.checks) = c)) \in BOOLEAN
  OBVIOUS
<1>4. ASSUME NEW w \in Seq(ReadConds), NEW b \in BOOLEAN
      PROVE  [checks |-> w, stale |-> b] \in DeferType /\ [checks |-> w, stale |-> b].checks = w
  BY DEF DeferType
<1> QED  BY <1>2, <1>3, <1>4 DEF dds_defer_waitset_undo

\* The core thread may flag a condition, queue a check and wake sleepers up.
LEMMA CoreKeepsShape ==
    ASSUME ShapeInv,
           \/ dcps_data_available \/ dcps_waitset_wakeup \/ WakeupDone
           \/ dds_waitset_checks \/ dcps_deferred_waitset_check
    PROVE  ShapeInv'
<1>s. TypeOK /\ LockHeld /\ Counted /\ ListIntact /\ Lives /\ CoreShape
  BY DEF ShapeInv
<1>t. /\ ws \in WsType /\ thread \in [Threads -> ThreadType] /\ cond \in [Conds -> CondType]
      /\ reader \in ReaderType /\ deferred \in DeferType /\ core \in CoreType(Len(reader.conditions))
      /\ UNCHANGED ws
  BY <1>s, Types DEF dcps_data_available, dcps_waitset_wakeup, WakeupDone, dds_waitset_checks,
                     dcps_deferred_waitset_check
<1>n. /\ reader.conditions \in Seq(ReadConds) /\ Len(reader.conditions) \in Nat
      /\ DOMAIN reader.conditions = 1..Len(reader.conditions)
      /\ deferred.checks \in Seq(ReadConds) /\ ReadConds \subseteq Conds
  BY <1>t DEF ReaderType, DeferType, Conds
\* What each of them leaves to show.
<1>g. ASSUME thread' = thread \/ thread' = Signal,
             cond' \in [Conds -> CondType],
             \A c \in Conds : /\ cond'[c].waitset <=> cond[c].waitset
                              /\ cond'[c].live <=> cond[c].live,
             reader' \in ReaderType, reader'.conditions = reader.conditions,
             deferred' \in DeferType, ~deferred'.stale,
             core' \in CoreType(Len(reader.conditions)),
             reader'.lock <=> core'.at = "wakeup",
             core'.at = "wakeup" <=> core'.cp > 0,
             core'.at = "check" => core'.cond \in ReadConds
      PROVE  ShapeInv'
  <2>1. /\ thread' \in [Threads -> ThreadType]
        /\ \A t \in Threads :
               \/ thread'[t] = thread[t]
               \/ /\ thread[t].at = "asleep" /\ thread'[t].at = "woken"
                  /\ thread'[t].counted <=> thread[t].counted
    BY <1>g, <1>t, SignalProps
  <2>2. LockHeld' /\ Counted'
    BY <2>1, <1>s, <1>t, SameWaiters
  <2>3. TypeOK'
    BY <2>1, <1>g, <1>t, TypesPrime
  <2>4. ListIntact' /\ Lives'
    BY <1>g, <1>s, <1>t DEF ListIntact, Lives
  <2>5. CoreShape'
    BY <1>g DEF CoreShape
  <2> QED  BY <2>2, <2>3, <2>4, <2>5 DEF ShapeInv
\* The core thread's own record.
<1>c. ASSUME NEW a \in {"idle", "wakeup", "check"}, NEW p \in 0..(Len(reader.conditions) + 1),
             NEW c \in ReadConds \cup {Null}
      PROVE  [at |-> a, cp |-> p, cond |-> c] \in CoreType(Len(reader.conditions))
  BY DEF CoreType
<1>d. CoreIdle = [at |-> "idle", cp |-> 0, cond |-> Null]
  BY DEF CoreIdle
<1>z. 0 \in 0..(Len(reader.conditions) + 1) /\ 1 \in 0..(Len(reader.conditions) + 1)
  BY <1>n
\* A condition whose flag is set or reset.
<1>f. ASSUME NEW c \in ReadConds, NEW b \in BOOLEAN, cond' = [cond EXCEPT ![c].deferred = b]
      PROVE  /\ cond' \in [Conds -> CondType]
             /\ \A d \in Conds : /\ cond'[d].waitset <=> cond[d].waitset
                                 /\ cond'[d].live <=> cond[d].live
  <2> DEFINE e == [cond[c] EXCEPT !.deferred = b]
  <2>1. c \in Conds /\ cond[c] \in CondType /\ cond' = [cond EXCEPT ![c] = e]
    BY <1>f, <1>n, <1>t
  <2>2. e \in CondType /\ (e.waitset <=> cond[c].waitset) /\ (e.live <=> cond[c].live)
    BY <2>1 DEF CondType
  <2> HIDE DEF e
  <2> QED  BY <2>1, <2>2, <1>t
<1>1. CASE dcps_data_available
  <2>1. /\ UNCHANGED <<cond, deferred, thread>>
        /\ core' = [at |-> "wakeup", cp |-> 1, cond |-> Null]
        /\ reader' = [reader EXCEPT !.data = TRUE, !.lock = TRUE]
    BY <1>1 DEF dcps_data_available, CoreIdle
  <2>2. reader' \in ReaderType /\ reader'.conditions = reader.conditions /\ reader'.lock
    BY <2>1, <1>t DEF ReaderType
  <2>3. core' \in CoreType(Len(reader.conditions)) /\ core'.at = "wakeup" /\ core'.cp = 1
    BY <2>1, <1>c, <1>z
  <2>4. ~deferred.stale
    BY <1>s DEF CoreShape
  <2> QED  BY <2>1, <2>2, <2>3, <2>4, <1>t, <1>g
<1>2. CASE dcps_waitset_wakeup
  <2> DEFINE c == reader.conditions[core.cp]
  <2>1. /\ core.at = "wakeup" /\ core.cp <= Len(reader.conditions)
        /\ core' = [core EXCEPT !.cp = @ + 1] /\ UNCHANGED reader
        /\ core.cp \in Nat /\ core.cp > 0 /\ reader.lock /\ ~deferred.stale
    BY <1>2, <1>s, <1>t, <1>n DEF dcps_waitset_wakeup, CoreType, CoreShape
  <2>2. c \in ReadConds
    BY <2>1, <1>n
  <2>3. core' \in CoreType(Len(reader.conditions)) /\ core'.at = "wakeup" /\ core'.cp = core.cp + 1
    <3>1. core.cp + 1 \in 0..(Len(reader.conditions) + 1)
      BY <2>1, <1>n
    <3> QED  BY <2>1, <3>1, <1>t DEF CoreType
  <2>4. core'.cp > 0
    BY <2>1, <2>3
  <2>5. CASE UNCHANGED <<cond, deferred, thread>>
    BY <2>1, <2>3, <2>4, <2>5, <1>t, <1>g
  <2>6. CASE /\ cond' = [cond EXCEPT ![c].deferred = TRUE]
             /\ deferred' = dds_defer_waitset_check(deferred, c) /\ UNCHANGED thread
    <3>1. deferred' \in DeferType /\ ~deferred'.stale
      BY <2>1, <2>2, <2>6, <1>t, DeferCheckProps
    <3>2. /\ cond' \in [Conds -> CondType]
          /\ \A d \in Conds : /\ cond'[d].waitset <=> cond[d].waitset
                              /\ cond'[d].live <=> cond[d].live
      BY <2>2, <2>6, <1>f
    <3> QED  BY <2>1, <2>3, <2>4, <2>6, <3>1, <3>2, <1>t, <1>g
  <2>7. CASE thread' = waitset_signal(c) /\ UNCHANGED <<cond, deferred>>
    <3>1. thread' = thread \/ thread' = Signal
      BY <2>7 DEF waitset_signal
    <3> QED  BY <2>1, <2>3, <2>4, <2>7, <3>1, <1>t, <1>g
  <2> QED  BY <1>2, <2>5, <2>6, <2>7 DEF dcps_waitset_wakeup
<1>3. CASE WakeupDone
  <2>1. /\ UNCHANGED <<cond, deferred, thread>> /\ core' = CoreIdle
        /\ reader' = [reader EXCEPT !.lock = FALSE]
    BY <1>3 DEF WakeupDone
  <2>2. reader' \in ReaderType /\ reader'.conditions = reader.conditions /\ ~reader'.lock
    BY <2>1, <1>t DEF ReaderType
  <2>3. core' \in CoreType(Len(reader.conditions)) /\ core'.at = "idle" /\ core'.cp = 0
    BY <2>1, <1>c, <1>d, <1>z
  <2>4. ~deferred.stale
    BY <1>s DEF CoreShape
  <2> QED  BY <2>1, <2>2, <2>3, <2>4, <1>t, <1>g
<1>4. CASE dds_waitset_checks
  <2>1. /\ core.at = "idle" /\ deferred.checks # <<>> /\ UNCHANGED <<cond, reader, thread>>
        /\ core' = [at |-> "check", cp |-> 0, cond |-> Head(deferred.checks)]
        /\ deferred' = [deferred EXCEPT !.checks = Tail(@)]
        /\ ~reader.lock /\ ~deferred.stale
    BY <1>4, <1>s DEF dds_waitset_checks, CoreIdle, CoreShape
  <2>2. Head(deferred.checks) \in ReadConds /\ Tail(deferred.checks) \in Seq(ReadConds)
    BY <2>1, <1>n, TailProps
  <2>3. /\ core' \in CoreType(Len(reader.conditions)) /\ core'.at = "check" /\ core'.cp = 0
        /\ core'.cond \in ReadConds
    BY <2>1, <2>2, <1>c, <1>z
  <2>4. deferred' \in DeferType /\ ~deferred'.stale
    BY <2>1, <2>2, <1>t DEF DeferType
  <2> QED  BY <2>1, <2>3, <2>4, <1>t, <1>g
<1>5. CASE dcps_deferred_waitset_check
  <2> DEFINE c == core.cond
  <2>1. /\ core.at = "check" /\ core' = CoreIdle /\ UNCHANGED reader
        /\ c \in ReadConds /\ ~reader.lock /\ ~deferred.stale
    BY <1>5, <1>s DEF dcps_deferred_waitset_check, CoreShape
  <2>2. core' \in CoreType(Len(reader.conditions)) /\ core'.at = "idle" /\ core'.cp = 0
    BY <2>1, <1>c, <1>d, <1>z
  <2>3. CASE UNCHANGED <<cond, deferred, thread>>
    BY <2>1, <2>2, <2>3, <1>t, <1>g
  <2>4. CASE /\ cond' = [cond EXCEPT ![c].deferred = FALSE] /\ UNCHANGED deferred
             /\ thread' = thread \/ thread' = waitset_signal(c)
    <3>1. thread' = thread \/ thread' = Signal
      BY <2>4 DEF waitset_signal
    <3>2. /\ cond' \in [Conds -> CondType]
          /\ \A d \in Conds : /\ cond'[d].waitset <=> cond[d].waitset
                              /\ cond'[d].live <=> cond[d].live
      BY <2>1, <2>4, <1>f
    <3> QED  BY <2>1, <2>2, <2>4, <3>1, <3>2, <1>t, <1>g
  <2>5. CASE deferred' = dds_defer_waitset_check(deferred, c) /\ UNCHANGED <<cond, thread>>
    <3>1. deferred' \in DeferType /\ ~deferred'.stale
      BY <2>1, <2>5, <1>t, DeferCheckProps
    <3> QED  BY <2>1, <2>2, <2>5, <3>1, <1>t, <1>g
  <2> QED  BY <1>5, <2>3, <2>4, <2>5 DEF dcps_deferred_waitset_check
<1> QED  BY <1>1, <1>2, <1>3, <1>4, <1>5

\* Unless the last of several conditions is detached, the list and last agree.
LEMMA DetachProps ==
    ASSUME ws \in WsType, ListIntact, NEW c \in Conds, cond[c].waitset, MayDetach(c), ~DetachLast
    PROVE  /\ Detached(c) \in WsType
           /\ Detached(c).lock = ws.lock /\ Detached(c).nwaiting = ws.nwaiting
           /\ Distinct(Detached(c).list)
           /\ Detached(c).list # <<>> => Detached(c).last = Last(Detached(c).list)
           /\ \A d : Contains(Detached(c).list, d) <=> Contains(ws.list, d) /\ d # c
<1> DEFINE w == Without(ws.list, c)
           e == IF c = Last(ws.list) THEN c ELSE ws.last
<1>1. /\ ws.list \in Seq(Conds) /\ ws.last \in Conds \cup {Null}
      /\ Len(ws.list) \in Nat /\ DOMAIN ws.list = 1..Len(ws.list)
  BY DEF WsType
<1>2. /\ w \in Seq(Conds) /\ Distinct(w)
      /\ \A d : Contains(w, d) <=> Contains(ws.list, d) /\ d # c
      /\ ws.list # <<>> /\ Last(ws.list) # c => w # <<>> /\ Last(w) = Last(ws.list)
  BY <1>1, WithoutProperties DEF ListIntact
<1>3. Contains(ws.list, c) /\ ws.list # <<>> /\ ws.last = Last(ws.list)
  BY <1>1 DEF ListIntact, Contains
<1>4. ASSUME c = Last(ws.list) PROVE w = <<>>
  <2>1. c = Head(ws.list)
    BY <1>4 DEF MayDetach
  <2>2. 1 \in DOMAIN ws.list /\ Len(ws.list) \in DOMAIN ws.list /\ ws.list[1] = ws.list[Len(ws.list)]
    BY <1>1, <1>3, <1>4, <2>1 DEF Last
  <2>3. Len(ws.list) = 1
    BY <2>2 DEF ListIntact, Distinct
  <2>4. \A d : ~Contains(w, d)
    BY <1>2, <2>1, <2>3, <1>3, <1>1 DEF Contains
  <2> HIDE DEF w
  <2>5. Len(w) \in Nat /\ ~(1 \in 1..Len(w))
    BY <2>4, <1>2 DEF Contains
  <2>6. Len(w) = 0
    BY <2>5
  <2> QED  BY <2>6, <1>2
<1>5. Detached(c) = [ws EXCEPT !.list = w, !.last = e]
  BY DEF Detached
<1>6. e \in Conds \cup {Null}
  BY <1>1
<1>7. w # <<>> => e = Last(w)
  BY <1>2, <1>3, <1>4
<1> HIDE DEF w, e
<1>8. /\ Detached(c) \in WsType /\ Detached(c).list = w /\ Detached(c).last = e
      /\ Detached(c).lock = ws.lock /\ Detached(c).nwaiting = ws.nwaiting
  BY <1>2, <1>5, <1>6 DEF WsType
<1> QED  BY <1>2, <1>7, <1>8

\* Attaching, detaching, deleting and taking.
LEMMA ListKeepsShape ==
    ASSUME ShapeInv, ~DetachLast, ~UndoTail,
           \/ \E c \in Conds : DDS_WaitSet_attach_condition(c) \/ DDS_WaitSet_detach_condition(c)
           \/ \E c \in ReadConds : delete_readcondition(c) \/ DeleteDetach(c)
           \/ take \/ delete_datareader
    PROVE  ShapeInv'
<1>s. TypeOK /\ LockHeld /\ Counted /\ ListIntact /\ Lives /\ CoreShape
  BY DEF ShapeInv
<1>t. /\ ws \in WsType /\ thread \in [Threads -> ThreadType] /\ cond \in [Conds -> CondType]
      /\ reader \in ReaderType /\ deferred \in DeferType /\ core \in CoreType(Len(reader.conditions))
      /\ UNCHANGED <<core, thread>>
  BY <1>s, Types DEF DDS_WaitSet_attach_condition, DDS_WaitSet_detach_condition,
                     delete_readcondition, DeleteDetach, take, delete_datareader
<1>n. /\ reader.conditions \in Seq(ReadConds) /\ Len(reader.conditions) \in Nat
      /\ ws.list \in Seq(Conds) /\ ReadConds \subseteq Conds
  BY <1>t DEF ReaderType, WsType, Conds
\* What each of them leaves to show.
<1>g. ASSUME ws' \in WsType, ws'.lock = ws.lock, ws'.nwaiting = ws.nwaiting,
             cond' \in [Conds -> CondType], reader' \in ReaderType,
             \/ reader'.conditions = reader.conditions
             \/ core.cp = 0,
             reader'.lock <=> reader.lock,
             deferred' \in DeferType, ~deferred'.stale, ListIntact', Lives'
      PROVE  ShapeInv'
  <2>1. LockHeld' /\ Counted'
    BY <1>g, <1>s, <1>t, SameWaiters
  <2>2. core' \in CoreType(Len(reader'.conditions))
    <3>1. Len(reader'.conditions) \in Nat
      BY <1>g DEF ReaderType
    <3>2. CASE core.cp = 0
      BY <3>1, <3>2, <1>t DEF CoreType
    <3>3. CASE reader'.conditions = reader.conditions
      BY <3>3, <1>t
    <3> QED  BY <3>2, <3>3, <1>g
  <2>3. TypeOK'
    BY <2>2, <1>g, <1>t, TypesPrime
  <2>4. CoreShape'
    BY <1>g, <1>s, <1>t DEF CoreShape
  <2> QED  BY <1>g, <2>1, <2>3, <2>4 DEF ShapeInv
<1>z. ~deferred.stale /\ (~reader.lock => core.cp = 0)
  BY <1>s, <1>t DEF CoreShape, CoreType
<1>1. ASSUME NEW c \in Conds, DDS_WaitSet_attach_condition(c) PROVE ShapeInv'
  <2> DEFINE b == [cond[c] EXCEPT !.waitset = TRUE]
             w == Append(ws.list, c)
  <2>1. /\ ws.lock = Null /\ cond[c].live /\ ~cond[c].waitset
        /\ UNCHANGED <<reader, deferred>> /\ cond' = [cond EXCEPT ![c] = b]
    BY <1>1, <1>t DEF DDS_WaitSet_attach_condition
  <2>2. b \in CondType /\ b.waitset /\ (b.live <=> cond[c].live)
    BY <1>t DEF CondType
  <2>3. ws' = [ws EXCEPT !.list = w, !.last = c]
    BY <1>1, <1>s DEF DDS_WaitSet_attach_condition, ListIntact
  <2>4. /\ w \in Seq(Conds) /\ Last(w) = c /\ \A d : Contains(w, d) <=> Contains(ws.list, d) \/ d = c
        /\ Distinct(w)
    BY <2>1, <1>s, <1>n, AppendProps DEF ListIntact
  <2> HIDE DEF b, w
  <2>5. /\ ws' \in WsType /\ ws'.list = w /\ ws'.last = c
        /\ ws'.lock = ws.lock /\ ws'.nwaiting = ws.nwaiting
    BY <2>3, <2>4, <1>t DEF WsType
  <2>6. cond' \in [Conds -> CondType] /\ cond'[c] = b /\ \A d \in Conds \ {c} : cond'[d] = cond[d]
    BY <2>1, <2>2, <1>t
  <2>7. ListIntact'
    BY <2>2, <2>4, <2>5, <2>6, <1>s DEF ListIntact
  <2>8. Lives'
    BY <2>1, <2>2, <2>6, <1>s DEF Lives
  <2> QED  BY <2>1, <2>5, <2>6, <2>7, <2>8, <1>t, <1>z, <1>g
<1>d. ASSUME NEW c \in Conds, cond[c].waitset, MayDetach(c), ws' = Detached(c),
             NEW b \in CondType, cond' = [cond EXCEPT ![c] = b], ~b.waitset,
             UNCHANGED <<reader, deferred>>,
             \/ (b.live <=> cond[c].live) /\ (Contains(reader.conditions, c) \/ c \in GuardConds)
             \/ c \in ReadConds /\ ~Contains(reader.conditions, c) /\ ~b.live
      PROVE  ShapeInv'
  <2>1. /\ ws' \in WsType /\ ws'.lock = ws.lock /\ ws'.nwaiting = ws.nwaiting
        /\ Distinct(ws'.list) /\ (ws'.list # <<>> => ws'.last = Last(ws'.list))
        /\ \A d : Contains(ws'.list, d) <=> Contains(ws.list, d) /\ d # c
    BY <1>d, <1>s, <1>t, DetachProps
  <2>2. cond' \in [Conds -> CondType] /\ cond'[c] = b /\ \A d \in Conds \ {c} : cond'[d] = cond[d]
    BY <1>d, <1>t
  <2>3. ListIntact'
    BY <1>d, <2>1, <2>2, <1>s DEF ListIntact
  <2>4. Lives'
    BY <1>d, <2>2, <1>s, WaitSetAssumption DEF Lives
  <2> QED  BY <1>d, <2>1, <2>2, <2>3, <2>4, <1>t, <1>z, <1>g
<1>2. ASSUME NEW c \in Conds, DDS_WaitSet_detach_condition(c) PROVE ShapeInv'
  <2> DEFINE b == [cond[c] EXCEPT !.waitset = FALSE]
  <2>1. /\ cond[c].waitset /\ MayDetach(c) /\ ws' = Detached(c) /\ UNCHANGED <<reader, deferred>>
        /\ cond' = [cond EXCEPT ![c] = b] /\ (Contains(reader.conditions, c) \/ c \in GuardConds)
    BY <1>2, <1>t DEF DDS_WaitSet_detach_condition
  <2>2. b \in CondType /\ ~b.waitset /\ (b.live <=> cond[c].live)
    BY <1>t DEF CondType
  <2> HIDE DEF b
  <2> QED  BY <2>1, <2>2, <1>d
<1>3. ASSUME NEW c \in ReadConds, DeleteDetach(c) PROVE ShapeInv'
  <2> DEFINE b == [cond[c] EXCEPT !.waitset = FALSE, !.live = FALSE]
  <2>1. /\ cond[c].live /\ MayDetach(c) /\ ws' = Detached(c) /\ UNCHANGED <<reader, deferred>>
        /\ cond' = [cond EXCEPT ![c] = b] /\ ~Contains(reader.conditions, c) /\ c \in Conds
    BY <1>3, <1>n, <1>t DEF DeleteDetach
  <2>2. b \in CondType /\ ~b.waitset /\ ~b.live
    BY <2>1, <1>t DEF CondType
  <2>3. cond[c].waitset
    BY <2>1, <1>s DEF Lives
  <2> HIDE DEF b
  <2> QED  BY <2>1, <2>2, <2>3, <1>d
<1>4. ASSUME NEW c \in ReadConds, delete_readcondition(c) PROVE ShapeInv'
  <2> DEFINE b == [cond[c] EXCEPT !.deferred = FALSE, !.live = cond[c].waitset]
             w == Without(reader.conditions, c)
  <2>1. /\ ~reader.lock /\ Contains(reader.conditions, c) /\ UNCHANGED ws
        /\ reader' = [reader EXCEPT !.conditions = w]
        /\ cond' = [cond EXCEPT ![c] = b] /\ c \in Conds /\ cond[c] \in CondType
    BY <1>4, <1>n, <1>t DEF delete_readcondition
  <2>2. b \in CondType /\ (b.waitset <=> cond[c].waitset) /\ (b.live <=> cond[c].waitset)
    BY <2>1, <1>t DEF CondType
  <2>3. deferred' \in DeferType /\ ~deferred'.stale
    BY <1>4, <1>t, <1>z, DeferUndoProps DEF delete_readcondition, MayUndo
  <2>4. /\ w \in Seq(ReadConds) /\ Distinct(w)
        /\ \A d : Contains(w, d) <=> Contains(reader.conditions, d) /\ d # c
    BY <1>n, <1>s, WithoutProperties DEF Lives
  <2> HIDE DEF b, w
  <2>5. reader' \in ReaderType /\ reader'.conditions = w /\ (reader'.lock <=> reader.lock)
    BY <2>1, <2>4, <1>t DEF ReaderType
  <2>6. cond' \in [Conds -> CondType] /\ cond'[c] = b /\ \A d \in Conds \ {c} : cond'[d] = cond[d]
    BY <2>1, <2>2, <1>t
  <2>7. ListIntact'
    BY <2>1, <2>2, <2>6, <1>s DEF ListIntact
  <2>8. Lives'
    BY <2>1, <2>2, <2>4, <2>5, <2>6, <1>s DEF Lives
  <2> QED  BY <2>1, <2>3, <2>5, <2>6, <2>7, <2>8, <1>t, <1>z, <1>g
<1>5. CASE take \/ delete_datareader
  <2>1. /\ UNCHANGED <<ws, cond, deferred>>
        /\ reader' \in ReaderType /\ reader'.conditions = reader.conditions
        /\ reader'.lock <=> reader.lock
    BY <1>5, <1>t DEF take, delete_datareader, ReaderType
  <2>2. ListIntact' /\ Lives'
    BY <2>1, <1>s, <1>t DEF ListIntact, Lives
  <2> QED  BY <2>1, <2>2, <1>t, <1>z, <1>g
<1> QED  BY <1>1, <1>2, <1>3, <1>4, <1>5

\* Every step keeps the lists and counts in shape, where detaching and undoing unlink properly.
LEMMA ShapeStep ==
    ASSUME ~DetachLast, ~UndoTail, ShapeInv, [Next]_vars
    PROVE  ShapeInv'
<1>1. CASE UNCHANGED vars
  BY <1>1 DEF vars, ShapeInv, TypeOK, LockHeld, Counted, ListIntact, Lives, CoreShape
<1>2. CASE Next
  BY <1>2, WaitKeepsShape, TriggerKeepsShape, CoreKeepsShape, ListKeepsShape DEF Next
<1> QED  BY <1>1, <1>2

-----------------------------------------------------------------------------
(* No wake-up is lost.                                                     *)

\* A condition that newly matters is one that the core thread will look at.
LEMMA MissedStep ==
    ASSUME NothingMissed,
           \A t \in Threads, c \in ReadConds :
               Covered(t, c)' /\ Triggers(c)' =>
                   \/ Covered(t, c) /\ Triggers(c)
                   \/ CheckUnderway(c)',
           \A c \in ReadConds : Triggers(c)' /\ CheckUnderway(c) => CheckUnderway(c)'
    PROVE  NothingMissed'
BY DEF NothingMissed

\* The threads leave the core thread's work alone.
LEMMA ThreadMissesNothing ==
    ASSUME WaitInv, NEW t \in Threads,
           \/ WaitStart(t) \/ WaitCheck(t) \/ WaitDecide(t) \/ WaitSleep(t)
           \/ WaitWake(t) \/ WaitTimeout(t) \/ TriggerSignal(t)
           \/ \E c \in GuardConds : set_trigger_value(t, c)
    PROVE  NothingMissed'
<1>s. TypeOK /\ ListIntact /\ NothingMissed
  BY DEF WaitInv, ShapeInv
<1>t. /\ ws \in WsType /\ thread \in [Threads -> ThreadType] /\ thread[t] \in ThreadType
      /\ cond \in [Conds -> CondType] /\ ReadConds \subseteq Conds
      /\ UNCHANGED <<reader, deferred, core>>
  BY <1>s, Types DEF Conds, WaitStart, WaitCheck, WaitDecide, WaitSleep, WaitWake, WaitTimeout,
                     TriggerSignal, set_trigger_value
<1>l. ws.list \in Seq(Conds) /\ Len(ws.list) \in Nat /\ DOMAIN ws.list = 1..Len(ws.list)
  BY <1>t DEF WsType
<1>c. \A c \in ReadConds : cond'[c].waitset <=> cond[c].waitset
  <2>1. CASE UNCHANGED cond
    BY <2>1
  <2>2. ASSUME NEW d \in GuardConds, set_trigger_value(t, d)
        PROVE  \A c \in ReadConds : cond'[c] = cond[c]
    BY <2>2, <1>t, WaitSetAssumption DEF set_trigger_value
  <2> QED  BY <2>1, <2>2 DEF WaitStart, WaitCheck, WaitDecide, WaitSleep, WaitWake, WaitTimeout,
                             TriggerSignal
<1>r. \A c \in ReadConds : /\ Triggers(c)' <=> Triggers(c)
                           /\ CheckUnderway(c)' <=> CheckUnderway(c)
                           /\ Ready(c)' <=> Ready(c)
  BY <1>t, <1>c DEF Triggers, CheckUnderway, Ready
<1>w. ws'.list = ws.list
  BY <1>t DEF WaitStart, WaitCheck, WaitDecide, WaitSleep, WaitWake, WaitTimeout,
              TriggerSignal, set_trigger_value, WsType
<1>g. ASSUME \A u \in Threads \ {t} : thread'[u] = thread[u] \/ thread'[u].at = "woken",
             \A c \in ReadConds : Covered(t, c)' /\ Triggers(c) => Covered(t, c)
      PROVE  NothingMissed'
  <2>1. ASSUME NEW u \in Threads, NEW c \in ReadConds, Covered(u, c)', Triggers(c)
        PROVE  Covered(u, c)
    <3>1. CASE u = t
      BY <1>g, <2>1, <3>1
    <3>2. CASE u # t
      BY <1>g, <2>1, <3>2, <1>w DEF Covered
    <3> QED  BY <3>1, <3>2
  <2> QED  BY <2>1, <1>r, <1>s, MissedStep
\* A thread that starts over has looked at nothing.
<1>0. ASSUME thread'[t].at \in {"idle", "set"} \/ (thread'[t].at = "scan" /\ thread'[t].cp = 1)
      PROVE  \A c \in ReadConds : ~Covered(t, c)'
  BY <1>0, <1>l, <1>w DEF Covered
<1>1. CASE WaitStart(t)
  <2> DEFINE th == [Idle EXCEPT !.at = "scan", !.cp = 1]
  <2>1. th.at = "scan" /\ th.cp = 1
    BY DEF Idle
  <2>2. thread' = [thread EXCEPT ![t] = th]
    BY <1>1 DEF WaitStart
  <2> HIDE DEF th
  <2>3. thread'[t] = th /\ \A u \in Threads \ {t} : thread'[u] = thread[u]
    BY <2>2, <1>t
  <2> QED  BY <2>1, <2>3, <1>0, <1>g
<1>2. CASE WaitCheck(t)
  <2> DEFINE d == ws.list[thread[t].cp]
             f == thread[t].found \/ Ready(d)
             th == [thread[t] EXCEPT !.cp = @ + 1, !.found = f]
  <2>1. /\ thread' = [thread EXCEPT ![t] = th]
        /\ thread[t].at = "scan" /\ thread[t].cp <= Len(ws.list) /\ thread[t].cp \in Nat
    BY <1>2, <1>t DEF WaitCheck, ThreadType
  <2>2. th.at = "scan" /\ th.cp = thread[t].cp + 1 /\ (th.found <=> f)
    BY <2>1, <1>t DEF ThreadType
  <2> HIDE DEF th
  <2>3. thread'[t] = th /\ \A u \in Threads \ {t} : thread'[u] = thread[u]
    BY <2>1, <1>t
  <2>4. ASSUME NEW c \in ReadConds, Covered(t, c)', Triggers(c) PROVE Covered(t, c)
    <3>1. /\ ~thread[t].found /\ ~Ready(d)
          /\ \E i \in DOMAIN ws.list : i < thread[t].cp + 1 /\ ws.list[i] = c
      BY <2>2, <2>3, <2>4, <1>w DEF Covered
    <3>2. PICK i \in DOMAIN ws.list : i < thread[t].cp + 1 /\ ws.list[i] = c
      BY <3>1
    <3>3. i # thread[t].cp
      BY <2>4, <3>1, <3>2 DEF Triggers
    <3>4. i < thread[t].cp
      BY <2>1, <3>2, <3>3, <1>l
    <3> QED  BY <2>1, <3>1, <3>2, <3>4 DEF Covered
  <2> QED  BY <2>3, <2>4, <1>g
<1>3. CASE WaitDecide(t)
  <2>1. CASE thread[t].found
    <3>1. thread' = [thread EXCEPT ![t] = Idle] /\ Idle.at = "idle"
      BY <1>3, <2>1 DEF WaitDecide, Idle
    <3>2. thread'[t].at = "idle" /\ \A u \in Threads \ {t} : thread'[u] = thread[u]
      BY <3>1, <1>t
    <3> QED  BY <3>2, <1>0, <1>g
  <2>2. CASE ~thread[t].found
    <3>1. /\ \A u \in Threads \ {t} : thread'[u] = thread[u]
          /\ thread[t].at = "scan" /\ thread[t].cp > Len(ws.list) /\ thread[t].cp \in Nat
      BY <1>3, <2>2, <1>t DEF WaitDecide, ThreadType
    <3>2. ASSUME NEW c \in ReadConds, Triggers(c) PROVE Covered(t, c)
      <4>1. Contains(ws.list, c)
        BY <3>2, <1>s, <1>t DEF Triggers, ListIntact
      <4>2. PICK i \in DOMAIN ws.list : ws.list[i] = c
        BY <4>1, <1>l DEF Contains
      <4>3. i < thread[t].cp
        BY <3>1, <1>l
      <4> QED  BY <2>2, <3>1, <4>2, <4>3 DEF Covered
    <3> QED  BY <3>1, <3>2, <1>g
  <2> QED  BY <2>1, <2>2
<1>4. CASE WaitSleep(t)
  <2>1. thread[t].at = "sleep" /\ \A u \in Threads \ {t} : thread'[u] = thread[u]
    BY <1>4, <1>t DEF WaitSleep
  <2> QED  BY <2>1, <1>g DEF Covered
<1>5. CASE WaitWake(t)
  <2> DEFINE th == [thread[t] EXCEPT !.at = "scan", !.cp = 1, !.found = FALSE]
  <2>1. th.at = "scan" /\ th.cp = 1
    BY <1>t DEF ThreadType
  <2>2. thread' = [thread EXCEPT ![t] = th]
    BY <1>5, <1>t DEF WaitWake
  <2> HIDE DEF th
  <2>3. thread'[t] = th /\ \A u \in Threads \ {t} : thread'[u] = thread[u]
    BY <2>2, <1>t
  <2> QED  BY <2>1, <2>3, <1>0, <1>g
<1>6. CASE WaitTimeout(t)
  <2>1. thread' = [thread EXCEPT ![t] = Idle] /\ Idle.at = "idle"
    BY <1>6 DEF WaitTimeout, Idle
  <2>2. thread'[t].at = "idle" /\ \A u \in Threads \ {t} : thread'[u] = thread[u]
    BY <2>1, <1>t
  <2> QED  BY <2>2, <1>0, <1>g
<1>7. CASE TriggerSignal(t)
  <2> DEFINE T == IF ws.nwaiting > 0 THEN Signal ELSE thread
  <2>1. T \in [Threads -> ThreadType] /\ \A u \in Threads : T[u] = thread[u] \/ T[u].at = "woken"
    BY <1>t, SignalProps
  <2>2. thread' = [T EXCEPT ![t] = Idle] /\ Idle.at = "idle"
    BY <1>7 DEF TriggerSignal, Idle
  <2> HIDE DEF T
  <2>3. thread'[t].at = "idle" /\ \A u \in Threads \ {t} : thread'[u] = T[u]
    BY <2>1, <2>2
  <2> QED  BY <2>1, <2>3, <1>0, <1>g
<1>8. ASSUME NEW d \in GuardConds, set_trigger_value(t, d) PROVE NothingMissed'
  <2>1. thread'[t].at \in {"idle", "set"} /\ \A u \in Threads \ {t} : thread'[u] = thread[u]
    BY <1>8, <1>t DEF set_trigger_value, ThreadType
  <2> QED  BY <2>1, <1>0, <1>g
<1> QED  BY <1>1, <1>2, <1>3, <1>4, <1>5, <1>6, <1>7, <1>8

\* While the wait set's lock is free, a thread is covered only by its sleep,
\* and who sleeps is counted.
LEMMA FreeLockCovers ==
    ASSUME WaitInv, ws.lock = Null, NEW t \in Threads, NEW c, Covered(t, c)
    PROVE  thread[t].at = "asleep" /\ ws.nwaiting > 0
<1>1. TypeOK /\ LockHeld /\ Counted /\ t # Null
  BY WaitSetAssumption DEF WaitInv, ShapeInv
<1>2. thread[t].at = "asleep"
  BY <1>1 DEF Covered, LockHeld
<1> DEFINE K == {u \in Threads : thread[u].counted}
<1>3. t \in K /\ ws.nwaiting = Cardinality(K)
  BY <1>1, <1>2 DEF Counted
<1>4. IsFiniteSet(K)
  BY WaitSetAssumption, FS_Subset
<1> HIDE DEF K
<1>5. Cardinality(K) \in Nat /\ Cardinality(K) # 0
  BY <1>3, <1>4, FS_CardinalityType, FS_EmptySet
<1> QED  BY <1>2, <1>3, <1>5

\* A signal wakes every sleeper that read condition c matters to.
LEMMA SignalCovers ==
    ASSUME WaitInv, ws.lock = Null, UNCHANGED ws, UNCHANGED reader, NEW c \in ReadConds,
           thread' = waitset_signal(c),
           NEW t \in Threads, NEW d \in ReadConds, Covered(t, d)'
    PROVE  ~Triggers(d)'
<1>1. thread \in [Threads -> ThreadType]
  BY Types DEF WaitInv, ShapeInv
<1>2. CASE ws.nwaiting > 0 /\ Ready(c)
  <2>1. thread' = Signal
    BY <1>2 DEF waitset_signal
  <2>2. thread'[t].at # "asleep" /\ (thread'[t] = thread[t] \/ thread'[t].at = "woken")
    BY <1>1, <2>1, SignalProps
  <2>3. thread'[t] = thread[t]
    BY <2>2 DEF Covered
  <2>4. Covered(t, d)
    BY <2>3 DEF Covered
  <2> QED  BY <2>2, <2>3, <2>4, FreeLockCovers
<1>3. CASE ~(ws.nwaiting > 0)
  <2>1. thread' = thread
    BY <1>3 DEF waitset_signal
  <2>2. Covered(t, d)
    BY <2>1 DEF Covered
  <2> QED  BY <1>3, <2>2, FreeLockCovers
<1>4. CASE ~Ready(c)
  BY <1>4 DEF Ready, Triggers
<1> QED  BY <1>2, <1>3, <1>4

\* After a step of the core thread a check is on its way for every true condition a thread waits
\* for.
LEMMA CoreMissesNothing ==
    ASSUME WaitInv,
           \/ dcps_data_available \/ dcps_waitset_wakeup \/ WakeupDone
           \/ dds_waitset_checks \/ dcps_deferred_waitset_check
    PROVE  NothingMissed'
<1>s. TypeOK /\ CoreShape /\ NothingMissed
  BY DEF WaitInv, ShapeInv
<1>t. /\ ws \in WsType /\ thread \in [Threads -> ThreadType] /\ cond \in [Conds -> CondType]
      /\ reader \in ReaderType /\ deferred \in DeferType /\ core \in CoreType(Len(reader.conditions))
      /\ UNCHANGED ws
  BY <1>s, Types DEF dcps_data_available, dcps_waitset_wakeup, WakeupDone, dds_waitset_checks,
                     dcps_deferred_waitset_check
<1>n. /\ reader.conditions \in Seq(ReadConds) /\ Len(reader.conditions) \in Nat
      /\ DOMAIN reader.conditions = 1..Len(reader.conditions)
      /\ deferred.checks \in Seq(ReadConds) /\ ReadConds \subseteq Conds
      /\ core.cp \in Nat /\ ~deferred.stale
  BY <1>s, <1>t DEF ReaderType, DeferType, CoreType, CoreShape, Conds
<1>1. CASE dcps_data_available
  <2>1. /\ UNCHANGED <<cond, deferred, thread>> /\ core'.at = "wakeup" /\ core'.cp = 1
        /\ reader'.conditions = reader.conditions
    BY <1>1, <1>t DEF dcps_data_available, CoreIdle, ReaderType
  <2>2. ASSUME NEW c \in ReadConds, Triggers(c)' PROVE CheckUnderway(c)'
    <3>1. PICK i \in 1..Len(reader.conditions) : reader.conditions[i] = c
      BY <2>1, <2>2 DEF Triggers, Contains
    <3> QED  BY <2>1, <3>1 DEF CheckUnderway
  <2> QED  BY <2>2 DEF NothingMissed
<1>2. CASE dcps_waitset_wakeup
  <2> DEFINE c == reader.conditions[core.cp]
  <2>1. /\ core.at = "wakeup" /\ core.cp <= Len(reader.conditions) /\ UNCHANGED reader
        /\ core.cp > 0 /\ core'.at = "wakeup" /\ core'.cp = core.cp + 1
    BY <1>2, <1>s, <1>t DEF dcps_waitset_wakeup, CoreShape, CoreType
  <2>2. c \in ReadConds
    BY <2>1, <1>n
  \* What was underway still is, but for the one that is looked at.
  <2>3. ASSUME NEW d \in ReadConds, CheckUnderway(d), d # c,
               Contains(deferred.checks, d) => Contains(deferred'.checks, d)
        PROVE  CheckUnderway(d)'
    <3>1. CASE Contains(deferred.checks, d)
      BY <2>3, <3>1 DEF CheckUnderway
    <3>2. CASE ~Contains(deferred.checks, d)
      <4>1. PICK i \in core.cp..Len(reader.conditions) : reader.conditions[i] = d
        BY <2>1, <2>3, <3>2 DEF CheckUnderway
      <4>2. i \in (core.cp + 1)..Len(reader.conditions)
        BY <2>3, <4>1, <1>n
      <4> QED  BY <2>1, <4>1, <4>2 DEF CheckUnderway
    <3> QED  BY <3>1, <3>2
  <2>4. CASE ~cond[c].waitset /\ UNCHANGED <<cond, deferred, thread>>
    <3>1. \A d \in ReadConds : Triggers(d)' => Triggers(d) /\ d # c
      BY <2>1, <2>4 DEF Triggers, Ready
    <3>2. \A u \in Threads, d \in ReadConds : Covered(u, d)' => Covered(u, d)
      BY <2>4, <1>t DEF Covered
    <3>3. \A d \in ReadConds : Triggers(d)' /\ CheckUnderway(d) => CheckUnderway(d)'
      BY <2>3, <2>4, <3>1
    <3> QED  BY <3>1, <3>2, <3>3, <1>s, MissedStep
  <2>5. CASE /\ cond' = [cond EXCEPT ![c].deferred = TRUE]
             /\ deferred' = dds_defer_waitset_check(deferred, c) /\ UNCHANGED thread
    <3>1. \A d : Contains(deferred'.checks, d) <=> Contains(deferred.checks, d) \/ d = c
      BY <2>2, <2>5, <1>t, <1>n, DeferCheckProps
    <3>2. \A d \in ReadConds : cond'[d].waitset <=> cond[d].waitset
      BY <2>5, <1>t, <1>n DEF CondType
    <3>3. \A d \in ReadConds : Triggers(d)' => Triggers(d)
      BY <2>1, <3>2 DEF Triggers, Ready
    <3>4. \A u \in Threads, d \in ReadConds : Covered(u, d)' => Covered(u, d)
      BY <2>5, <1>t DEF Covered
    <3>5. \A d \in ReadConds : CheckUnderway(d) => CheckUnderway(d)'
      <4>1. \A d \in ReadConds : d = c => CheckUnderway(d)'
        BY <3>1 DEF CheckUnderway
      <4> QED  BY <2>3, <3>1, <4>1
    <3> QED  BY <3>3, <3>4, <3>5, <1>s, MissedStep
  <2>6. CASE ws.lock = Null /\ thread' = waitset_signal(c)
    <3>1. \A u \in Threads, d \in ReadConds : ~(Covered(u, d)' /\ Triggers(d)')
      BY <2>1, <2>2, <2>6, <1>t, SignalCovers
    <3> QED  BY <3>1 DEF NothingMissed
  <2> QED  BY <1>2, <2>4, <2>5, <2>6 DEF dcps_waitset_wakeup
<1>3. CASE WakeupDone
  <2>1. /\ UNCHANGED <<cond, deferred, thread>> /\ core.at = "wakeup"
        /\ core.cp > Len(reader.conditions)
        /\ reader'.conditions = reader.conditions /\ (reader'.data <=> reader.data)
    BY <1>3, <1>t DEF WakeupDone, ReaderType
  <2>2. \A d \in ReadConds : Triggers(d)' => Triggers(d)
    BY <2>1 DEF Triggers, Ready
  <2>3. \A u \in Threads, d \in ReadConds : Covered(u, d)' => Covered(u, d)
    BY <2>1, <1>t DEF Covered
  <2>4. \A d \in ReadConds : CheckUnderway(d) => CheckUnderway(d)'
    BY <2>1, <1>n DEF CheckUnderway
  <2> QED  BY <2>2, <2>3, <2>4, <1>s, MissedStep
<1>4. CASE dds_waitset_checks
  <2>1. /\ core.at = "idle" /\ deferred.checks # <<>> /\ UNCHANGED <<cond, reader, thread>>
        /\ core'.at = "check" /\ core'.cond = Head(deferred.checks)
        /\ deferred'.checks = Tail(deferred.checks)
    BY <1>4, <1>t DEF dds_waitset_checks, CoreIdle, DeferType
  <2>2. \A d \in ReadConds : Triggers(d)' => Triggers(d)
    BY <2>1 DEF Triggers, Ready
  <2>3. \A u \in Threads, d \in ReadConds : Covered(u, d)' => Covered(u, d)
    BY <2>1, <1>t DEF Covered
  <2>4. \A d : Contains(deferred.checks, d)
                   <=> Contains(deferred'.checks, d) \/ d = Head(deferred.checks)
    BY <2>1, <1>n, TailProps
  <2>5. \A d \in ReadConds : CheckUnderway(d) => CheckUnderway(d)'
    BY <2>1, <2>4 DEF CheckUnderway
  <2> QED  BY <2>2, <2>3, <2>5, <1>s, MissedStep
<1>5. CASE dcps_deferred_waitset_check
  <2> DEFINE c == core.cond
  <2>1. core.at = "check" /\ c \in ReadConds /\ UNCHANGED reader /\ core'.at = "idle"
    BY <1>5, <1>s DEF dcps_deferred_waitset_check, CoreShape, CoreIdle
  \* Only the check that is made is no longer underway.
  <2>2. ASSUME NEW d \in ReadConds, CheckUnderway(d), d # c,
               Contains(deferred.checks, d) => Contains(deferred'.checks, d)
        PROVE  CheckUnderway(d)'
    BY <2>1, <2>2 DEF CheckUnderway
  <2>3. CASE /\ ~Contains(reader.conditions, c) \/ ~cond[c].waitset
             /\ UNCHANGED <<deferred, thread>>
             /\ UNCHANGED cond \/ cond' = [cond EXCEPT ![c].deferred = FALSE]
    <3>1. \A d \in ReadConds : cond'[d].waitset <=> cond[d].waitset
      BY <2>3, <1>t, <1>n DEF CondType
    <3>2. \A d \in ReadConds : Triggers(d)' => Triggers(d) /\ d # c
      BY <2>1, <2>3, <3>1 DEF Triggers, Ready
    <3>3. \A u \in Threads, d \in ReadConds : Covered(u, d)' => Covered(u, d)
      BY <2>3, <1>t DEF Covered
    <3>4. \A d \in ReadConds : Triggers(d)' /\ CheckUnderway(d) => CheckUnderway(d)'
      BY <2>2, <2>3, <3>2
    <3> QED  BY <3>2, <3>3, <3>4, <1>s, MissedStep
  <2>4. CASE deferred' = dds_defer_waitset_check(deferred, c) /\ UNCHANGED <<cond, thread>>
    <3>1. \A d : Contains(deferred'.checks, d) <=> Contains(deferred.checks, d) \/ d = c
      BY <2>1, <2>4, <1>t, <1>n, DeferCheckProps
    <3>2. \A d \in ReadConds : Triggers(d)' => Triggers(d)
      BY <2>1, <2>4 DEF Triggers, Ready
    <3>3. \A u \in Threads, d \in ReadConds : Covered(u, d)' => Covered(u, d)
      BY <2>4, <1>t DEF Covered
    <3>4. \A d \in ReadConds : CheckUnderway(d) => CheckUnderway(d)'
      <4>1. \A d \in ReadConds : d = c => CheckUnderway(d)'
        BY <3>1 DEF CheckUnderway
      <4> QED  BY <2>2, <3>1, <4>1
    <3> QED  BY <3>2, <3>3, <3>4, <1>s, MissedStep
  <2>5. CASE ws.lock = Null /\ thread' = waitset_signal(c)
    <3>1. \A u \in Threads, d \in ReadConds : ~(Covered(u, d)' /\ Triggers(d)')
      BY <2>1, <2>5, <1>t, SignalCovers
    <3> QED  BY <3>1 DEF NothingMissed
  <2> QED  BY <1>5, <2>3, <2>4, <2>5 DEF dcps_deferred_waitset_check
<1> QED  BY <1>1, <1>2, <1>3, <1>4, <1>5

\* The same after a call that changes the lists of conditions or the reader.
LEMMA ListMissesNothing ==
    ASSUME WaitInv, ~DetachLast, ~UndoTail,
           \/ \E c \in Conds : DDS_WaitSet_attach_condition(c) \/ DDS_WaitSet_detach_condition(c)
           \/ \E c \in ReadConds : delete_readcondition(c) \/ DeleteDetach(c)
           \/ take \/ delete_datareader
    PROVE  NothingMissed'
<1>s. TypeOK /\ LockHeld /\ ListIntact /\ Lives /\ CoreShape /\ NothingMissed
  BY DEF WaitInv, ShapeInv
<1>t. /\ ws \in WsType /\ thread \in [Threads -> ThreadType] /\ cond \in [Conds -> CondType]
      /\ reader \in ReaderType /\ deferred \in DeferType
      /\ UNCHANGED <<core, thread>>
  BY <1>s, Types DEF DDS_WaitSet_attach_condition, DDS_WaitSet_detach_condition,
                     delete_readcondition, DeleteDetach, take, delete_datareader
<1>n. reader.conditions \in Seq(ReadConds) /\ ReadConds \subseteq Conds
  BY <1>t DEF ReaderType, Conds
\* With the lock free, whom the change of the list could uncover or cover sleeps.
<1>c. ASSUME ws.lock = Null, NEW u \in Threads, NEW d \in ReadConds, Covered(u, d)'
      PROVE  thread[u].at = "asleep" /\ Covered(u, d) /\ ws.nwaiting > 0
  <2>1. u # Null /\ thread[u].at # "scan"
    BY <1>c, <1>s, WaitSetAssumption DEF LockHeld
  <2>2. Covered(u, d)
    BY <1>c, <2>1, <1>t DEF Covered
  <2> QED  BY <1>c, <2>2, FreeLockCovers
<1>1. ASSUME NEW c \in Conds, DDS_WaitSet_attach_condition(c) \/ DDS_WaitSet_detach_condition(c)
      PROVE  NothingMissed'
  <2>1. ws.lock = Null /\ ws.nwaiting = 0
    BY <1>1 DEF DDS_WaitSet_attach_condition, DDS_WaitSet_detach_condition
  <2> QED  BY <2>1, <1>c DEF NothingMissed
<1>2. ASSUME NEW c \in ReadConds, DeleteDetach(c) PROVE NothingMissed'
  <2>1. ws.lock = Null /\ UNCHANGED <<reader, deferred>>
    BY <1>2 DEF DeleteDetach
  <2>2. \A d \in ReadConds : cond'[d].waitset => cond[d].waitset
    BY <1>2, <1>t, <1>n DEF DeleteDetach, CondType
  <2>3. \A d \in ReadConds : Triggers(d)' => Triggers(d)
    BY <2>1, <2>2 DEF Triggers, Ready
  <2>4. \A d \in ReadConds : CheckUnderway(d) => CheckUnderway(d)'
    BY <2>1, <1>t DEF CheckUnderway
  <2> QED  BY <2>1, <2>3, <2>4, <1>c, <1>s, MissedStep
<1>3. ASSUME NEW c \in ReadConds, delete_readcondition(c) PROVE NothingMissed'
  <2>1. /\ UNCHANGED ws /\ ~reader.lock /\ core.at # "wakeup"
        /\ reader'.conditions = Without(reader.conditions, c) /\ (reader'.data <=> reader.data)
    BY <1>3, <1>s, <1>t DEF delete_readcondition, CoreShape, ReaderType
  <2>2. \A d \in ReadConds : cond'[d].waitset => cond[d].waitset
    BY <1>3, <1>t, <1>n DEF delete_readcondition, CondType
  <2>3. \A d : Contains(reader'.conditions, d) <=> Contains(reader.conditions, d) /\ d # c
    BY <2>1, <1>n, WithoutProperties
  <2>4. \A d \in ReadConds : Triggers(d)' => Triggers(d) /\ d # c
    BY <2>1, <2>2, <2>3 DEF Triggers, Ready
  <2>5. \A d : d # c /\ Contains(deferred.checks, d) => Contains(deferred'.checks, d)
    BY <1>3, <1>t, DeferUndoProps DEF delete_readcondition
  <2>6. \A d \in ReadConds : d # c /\ CheckUnderway(d) => CheckUnderway(d)'
    BY <2>1, <2>5, <1>t DEF CheckUnderway
  <2>7. \A u \in Threads, d \in ReadConds : Covered(u, d)' => Covered(u, d)
    BY <2>1, <1>t DEF Covered
  <2> QED  BY <2>4, <2>6, <2>7, <1>s, MissedStep
<1>4. CASE take \/ delete_datareader
  <2>1. ~reader'.data
    BY <1>4, <1>t DEF take, delete_datareader, ReaderType
  <2> QED  BY <2>1 DEF NothingMissed, Triggers, Ready
<1> QED  BY <1>1, <1>2, <1>3, <1>4

\* Every step keeps the whole invariant.
LEMMA WaitStep ==
    ASSUME ~DetachLast, ~UndoTail, WaitInv, [Next]_vars
    PROVE  WaitInv'
<1>1. ShapeInv'
  BY ShapeStep DEF WaitInv
<1>2. CASE UNCHANGED vars
  <2>1. NothingMissed'
    BY <1>2 DEF vars, WaitInv, NothingMissed, Covered, Triggers, Ready, CheckUnderway
  <2> QED  BY <1>1, <2>1 DEF WaitInv
<1>3. CASE Next
  <2>1. NothingMissed'
    BY <1>3, ThreadMissesNothing, CoreMissesNothing, ListMissesNothing DEF Next
  <2> QED  BY <1>1, <2>1 DEF WaitInv
<1> QED  BY <1>2, <1>3

\* The whole invariant holds at the start.
LEMMA WaitInit == Init => WaitInv
<1> SUFFICES ASSUME Init PROVE WaitInv
  OBVIOUS
<1>1. ShapeInv
  BY ShapeInit
<1>2. \A c \in ReadConds : cond[c].waitset = FALSE
  BY DEF Init, Conds
<1>3. NothingMissed
  BY <1>2 DEF NothingMissed, Triggers
<1> QED  BY <1>1, <1>3 DEF WaitInv

-----------------------------------------------------------------------------
(* The theorems, for a program that does not detach the last of several    *)
(* conditions and does not delete one whose check is the last of several   *)
(* queued ones.  What the code then does to ws.last and to defer_tail is   *)
(* described in the README, under Disagreements.                           *)

\* Every variable keeps its type and nwaiting stays within the number of
\* threads (DDS_WaitSet_wait).
THEOREM WaitSetTypeOK ==
    ASSUME ~DetachLast, ~UndoTail
    PROVE  Spec => []TypeOK
<1>1. WaitInv => TypeOK
  BY DEF WaitInv, ShapeInv
<1>2. WaitInv /\ [Next]_vars => WaitInv'
  BY WaitStep
<1> QED  BY <1>1, <1>2, WaitInit, PTL DEF Spec

\* No wake-up is lost: whoever sleeps in DDS_WaitSet_wait while an attached
\* read condition is ready will be looked at by the core thread.
THEOREM WaitSetNoLostWakeup ==
    ASSUME ~DetachLast, ~UndoTail
    PROVE  Spec => []NoLostWakeup
<1>1. WaitInv => NoLostWakeup
  BY DEF WaitInv, NothingMissed, NoLostWakeup, Covered
<1>2. WaitInv /\ [Next]_vars => WaitInv'
  BY WaitStep
<1> QED  BY <1>1, <1>2, WaitInit, PTL DEF Spec

\* A condition that was freed is in no list that a later wait, wake-up or attach
\* follows (delete_readcondition).
THEOREM WaitSetFreedUnreachable ==
    ASSUME ~DetachLast, ~UndoTail
    PROVE  Spec => []FreedUnreachable
<1>1. WaitInv => FreedUnreachable
  BY DEF WaitInv, ShapeInv, ListIntact, Lives, FreedUnreachable
<1>2. WaitInv /\ [Next]_vars => WaitInv'
  BY WaitStep
<1> QED  BY <1>1, <1>2, WaitInit, PTL DEF Spec
=============================================================================
