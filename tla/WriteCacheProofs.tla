-------------------------- MODULE WriteCacheProofs --------------------------
(***************************************************************************)
(* Proofs about WriteCache, for any threads, readers and sizes, as long as *)
(* the pool does not hand out a cell that some blocked write still names.  *)
(***************************************************************************)
EXTENDS WriteCache, FiniteSetTheorems, WellFoundedInduction, TLAPS

-----------------------------------------------------------------------------
(* The inductive invariant, of a cache h, queues q and threads th, so that *)
(* it can be stated of the states inside of hc_add as well.                *)

CellType == [snr : Nat, wack : Nat, urgent : BOOLEAN]
WaiterType == [change : Slots \cup {Null}, wchange : BOOLEAN, nwaiting : Nat]
CacheType == [durable : BOOLEAN, changes : SUBSET Slots, cell : [Slots -> CellType],
              used : SUBSET Slots, last : Nat, unacked : Nat, blocked : BOOLEAN,
              waiters : [Contexts -> WaiterType]]
ThreadType == [at : {"idle", "room", "acks"}, own : Slots \cup {Null},
               victim : Slots \cup {Null}, wp : {0} \cup Contexts, woken : BOOLEAN]

\* The readers that have not acknowledged sample n.
Lacking(q, n) == {r \in Readers : n \in q[r]}

\* The samples in the cache have different numbers, and c_wack counts the
\* readers that have yet to acknowledge each.
CellsExact(h, q) ==
    /\ h.changes \subseteq h.used
    /\ \A c, d \in h.changes : h.cell[c].snr = h.cell[d].snr => c = d
    /\ \A c \in h.changes : /\ h.cell[c].snr \in 1..h.last
                            /\ h.cell[c].wack = Cardinality(Lacking(q, h.cell[c].snr))

\* What a reader has yet to acknowledge is in the cache, and counted.
QueuesExact(h, q) ==
    /\ \A r \in Readers : q[r] \subseteq Numbers(h)
    /\ IsFiniteSet(Unacked(q))
    /\ h.unacked = Cardinality(Unacked(q))

CacheInv(h, q) ==
    /\ h \in CacheType /\ q \in [Readers -> SUBSET Nat]
    /\ CellsExact(h, q) /\ QueuesExact(h, q) /\ Cardinality(h.changes) <= MaxSamples

\* The change that thread t's context names.
Change(h, th, t) == h.waiters[th[t].wp].change

\* A blocked write has a cell of its own that nobody else knows.
OwnCells(h, th) ==
    \A t \in All : th[t].at = "room" =>
        /\ th[t].own \in h.used \ h.changes
        /\ \A u \in All :
               /\ th[u].own = th[t].own => u = t
               /\ th[u].victim # th[t].own
               /\ th[u].wp # 0 => Change(h, th, u) # th[t].own

\* What the context of a waiting thread says, and how many threads it has.
Waits(h, th) ==
    /\ \A t \in All :
        /\ th[t].at = "idle" => th[t] = Idle
        /\ th[t].at # "idle" => th[t].wp \in Contexts
        /\ th[t].at = "room" =>
              /\ th[t].own \in Slots /\ th[t].victim \in Slots /\ h.waiters[th[t].wp].wchange
              /\ \/ Change(h, th, t) = th[t].victim
                 \/ Change(h, th, t) = Null /\ th[t].victim \notin h.changes /\ ~h.durable
        /\ th[t].at = "acks" =>
              /\ th[t].own = Null /\ th[t].victim = Null
              /\ ~h.waiters[th[t].wp].wchange /\ Change(h, th, t) = Null
    /\ \A w \in Contexts : h.waiters[w].nwaiting = Cardinality({t \in All : th[t].wp = w})

\* One context per change, which is marked; who sleeps waits for a reader.
Marked(h, th) ==
    \A t \in All : th[t].at = "room" =>
        /\ Change(h, th, t) \in h.changes => h.cell[Change(h, th, t)].urgent
        /\ \A u \in All : th[u].at = "room" /\ Change(h, th, u) = Change(h, th, t)
                              /\ Change(h, th, t) # Null => th[u].wp = th[t].wp
        /\ Change(h, th, t) \in Slots \ h.changes => h.cell[Change(h, th, t)].wack = 0
        /\ ~th[t].woken => Change(h, th, t) \in h.changes /\ h.cell[Change(h, th, t)].wack > 0

ThreadInv(h, th) ==
    /\ th \in [All -> ThreadType] /\ OwnCells(h, th) /\ Waits(h, th) /\ Marked(h, th)

WriteInv ==
    /\ CacheInv(hc, queued) /\ ThreadInv(hc, thread)
    /\ matched \subseteq Readers /\ \A r \in Readers \ matched : queued[r] = {}

\* The same of who waits for all acknowledgements, in a durable cache.
Blocked(h, th) ==
    \A t \in All : th[t].at = "acks" =>
        /\ h.durable /\ h.blocked
        /\ \A u \in All : th[u].at = "acks" => th[u].wp = th[t].wp
        /\ ~th[t].woken => h.unacked > 0

AcksInv == WriteInv /\ Blocked(hc, thread)

-----------------------------------------------------------------------------
(* Counting.                                                               *)

\* A set of numbers has a least element.
LEMMA LeastExists ==
    ASSUME NEW T \in SUBSET Nat, T # {}
    PROVE  \E i \in T : \A j \in T : i <= j
<1> DEFINE R == OpToRel(<, Nat)
<1>1. IsWellFoundedOn(R, Nat)
  BY NatLessThanWellFounded
<1>2. \A i \in T, j \in T : j < i => <<j, i>> \in R
  BY DEF OpToRel
<1> HIDE DEF R
<1>3. \E i \in T : \A j \in T : ~ (<<j, i>> \in R)
  BY <1>1, WFMin
<1>4. \E i \in T : \A j \in T : ~ (j < i)
  BY <1>2, <1>3, Zenon
<1>5. \A i \in T, j \in T : ~ (j < i) => i <= j
  BY SMT
<1> QED  BY <1>4, <1>5, Zenon

\* Min chooses an element of a nonempty set of naturals.
LEMMA MinProps ==
    ASSUME NEW T \in SUBSET Nat, T # {}
    PROVE  Min(T) \in T
BY LeastExists DEF Min

\* The threads, and every set of slots, readers or threads, are finite.
LEMMA Finite ==
    /\ IsFiniteSet(All) /\ Cardinality(All) \in Nat
    /\ Contexts \subseteq Nat /\ 0 \notin Contexts
    /\ \A S \in SUBSET Slots : IsFiniteSet(S) /\ Cardinality(S) \in Nat
    /\ \A S \in SUBSET Readers : IsFiniteSet(S) /\ Cardinality(S) \in Nat
    /\ \A S \in SUBSET All : IsFiniteSet(S) /\ Cardinality(S) \in Nat
<1>1. IsFiniteSet(All)
  BY WriteCacheAssumption, FS_AddElement DEF All
<1>2. Cardinality(All) \in Nat
  BY <1>1, FS_CardinalityType
<1>3. Contexts \subseteq Nat /\ 0 \notin Contexts
  BY <1>2 DEF Contexts
<1>4. \A S \in SUBSET Slots : IsFiniteSet(S)
  BY WriteCacheAssumption, FS_Subset
<1>5. \A S \in SUBSET Readers : IsFiniteSet(S)
  BY WriteCacheAssumption, FS_Subset
<1>6. \A S \in SUBSET All : IsFiniteSet(S)
  BY <1>1, FS_Subset
<1> QED  BY <1>1, <1>2, <1>3, <1>4, <1>5, <1>6, FS_CardinalityType

\* Different cells with different numbers: as many numbers as cells.
LEMMA SameSize ==
    ASSUME NEW C \in SUBSET Slots, NEW f, NEW S,
           \A c, d \in C : f[c].snr = f[d].snr => c = d,
           S = {f[c].snr : c \in C}
    PROVE  IsFiniteSet(S) /\ Cardinality(S) = Cardinality(C)
<1> DEFINE g == [c \in C |-> f[c].snr]
<1>1. g \in Bijection(C, S)
  BY DEF Bijection, Injection, Surjection, IsInjective
<1>2. ExistsBijection(C, S)
  BY <1>1 DEF ExistsBijection
<1> QED  BY <1>2, Finite, FS_Bijection

\* The acknowledgements that one reader's queue wants.
LEMMA PairCount ==
    ASSUME NEW r, NEW S, IsFiniteSet(S)
    PROVE  /\ IsFiniteSet({<<r, n>> : n \in S})
           /\ Cardinality({<<r, n>> : n \in S}) = Cardinality(S)
<1> DEFINE P == {<<r, n>> : n \in S}
           g == [n \in S |-> <<r, n>>]
<1>1. g \in Bijection(S, P)
  BY DEF Bijection, Injection, Surjection, IsInjective
<1>2. ExistsBijection(S, P)
  BY <1>1 DEF ExistsBijection
<1> QED  BY <1>2, FS_Bijection

-----------------------------------------------------------------------------
(* Removing samples.                                                       *)

\* The fields of a cache.
LEMMA CacheFields ==
    ASSUME NEW h \in CacheType
    PROVE  /\ h.durable \in BOOLEAN /\ h.blocked \in BOOLEAN
           /\ h.changes \in SUBSET Slots /\ h.used \in SUBSET Slots
           /\ h.cell \in [Slots -> CellType] /\ h.waiters \in [Contexts -> WaiterType]
           /\ h.last \in Nat /\ h.unacked \in Nat
           /\ \A c \in Slots : /\ h.cell[c].snr \in Nat /\ h.cell[c].wack \in Nat
                               /\ h.cell[c].urgent \in BOOLEAN
           /\ \A w \in Contexts : /\ h.waiters[w].change \in Slots \cup {Null}
                                  /\ h.waiters[w].nwaiting \in Nat
BY DEF CacheType, CellType, WaiterType

\* A sample that some reader lacks has a positive c_wack.
LEMMA LackedIsCounted ==
    ASSUME NEW h, NEW q, CacheInv(h, q), NEW r \in Readers, NEW c \in h.changes,
           h.cell[c].snr \in q[r]
    PROVE  h.cell[c].wack > 0
<1>1. r \in Lacking(q, h.cell[c].snr) /\ Lacking(q, h.cell[c].snr) \in SUBSET Readers
  BY DEF Lacking
<1>2. h.cell[c].wack = Cardinality(Lacking(q, h.cell[c].snr))
  BY DEF CacheInv, CellsExact
<1> QED  BY <1>1, <1>2, Finite, FS_EmptySet

\* Cache k is cache h but for hc_changes and for the cells of the pool in use.
SameBut(h, k, C, U) ==
    /\ k \in CacheType /\ k.changes = C /\ k.used = U
    /\ k.cell = h.cell /\ k.waiters = h.waiters /\ k.last = h.last
    /\ k.durable = h.durable /\ k.unacked = h.unacked /\ k.blocked = h.blocked

\* The updates of the model that touch only the lists of cells, as SameBut.
LEMMA SameButFields ==
    ASSUME NEW h \in CacheType, NEW C \in SUBSET Slots, NEW U \in SUBSET Slots
    PROVE  /\ SameBut(h, [h EXCEPT !.changes = C, !.used = U], C, U)
           /\ SameBut(h, [h EXCEPT !.used = U], h.changes, U)
<1>1. ASSUME NEW k, k = [h EXCEPT !.changes = C, !.used = U] PROVE SameBut(h, k, C, U)
  BY <1>1 DEF CacheType, SameBut
<1>2. ASSUME NEW k, k = [h EXCEPT !.used = U] PROVE SameBut(h, k, h.changes, U)
  BY <1>2 DEF CacheType, SameBut
<1> QED  BY <1>1, <1>2

\* Removing cells that nobody has to acknowledge keeps the invariant and the sleepers blocked.
LEMMA RemoveCells ==
    ASSUME NEW h, NEW q, NEW th, NEW G, NEW k, CacheInv(h, q), ThreadInv(h, th),
           G \subseteq h.changes, \A c \in G : h.cell[c].wack = 0,
           SameBut(h, k, h.changes \ G, h.used \ G)
    PROVE  CacheInv(k, q) /\ ThreadInv(k, th) /\ (Blocked(h, th) => Blocked(k, th))
<1>t. h \in CacheType /\ q \in [Readers -> SUBSET Nat] /\ th \in [All -> ThreadType]
  BY DEF CacheInv, ThreadInv
<1>1. /\ k.changes = h.changes \ G /\ k.used = h.used \ G
      /\ k.cell = h.cell /\ k.waiters = h.waiters /\ k.last = h.last
      /\ k.durable = h.durable /\ k.unacked = h.unacked /\ k.blocked = h.blocked
      /\ k \in CacheType
  BY DEF SameBut
<1>2. CellsExact(k, q)
  BY <1>1 DEF CacheInv, CellsExact
<1>3. ASSUME NEW r \in Readers, NEW n \in q[r] PROVE n \in Numbers(k)
  <2>1. PICK c \in h.changes : h.cell[c].snr = n
    BY DEF CacheInv, QueuesExact, Numbers
  <2>2. h.cell[c].wack > 0
    BY <2>1, LackedIsCounted
  <2>3. c \in k.changes
    BY <1>1, <2>2
  <2> QED  BY <1>1, <2>1, <2>3 DEF Numbers
<1>4. QueuesExact(k, q)
  BY <1>1, <1>3 DEF CacheInv, QueuesExact
<1>5. Cardinality(k.changes) <= MaxSamples
  <2>1. h.changes \in SUBSET Slots /\ k.changes \in SUBSET h.changes
    BY <1>1, <1>t DEF CacheType
  <2>2. Cardinality(k.changes) <= Cardinality(h.changes) /\ Cardinality(k.changes) \in Nat
        /\ Cardinality(h.changes) \in Nat
    BY <2>1, Finite, FS_Subset
  <2> QED  BY <2>2, WriteCacheAssumption DEF CacheInv
<1>6. CacheInv(k, q)
  BY <1>1, <1>2, <1>4, <1>5, <1>t DEF CacheInv
<1>7. OwnCells(k, th)
  BY <1>1 DEF ThreadInv, OwnCells, Change
<1>8. Waits(k, th)
  BY <1>1 DEF ThreadInv, Waits, Change
<1>9. Marked(k, th)
  <2>1. \A t : Change(k, th, t) = Change(h, th, t)
    BY <1>1 DEF Change
  <2>2. Marked(h, th)
    BY DEF ThreadInv
  <2>3. \A t \in All : h.cell[Change(h, th, t)].wack > 0 => Change(h, th, t) \notin G
    OBVIOUS
  <2> QED  BY <1>1, <2>1, <2>2, <2>3 DEF Marked
<1>10. Blocked(h, th) => Blocked(k, th)
  BY <1>1 DEF Blocked
<1> QED  BY <1>1, <1>6, <1>7, <1>8, <1>9, <1>10, <1>t DEF ThreadInv

\* The same for one cell.
LEMMA RemoveCell ==
    ASSUME NEW h, NEW q, NEW th, NEW c, NEW k, CacheInv(h, q), ThreadInv(h, th),
           c \in h.changes, h.cell[c].wack = 0,
           SameBut(h, k, h.changes \ {c}, h.used \ {c})
    PROVE  CacheInv(k, q) /\ ThreadInv(k, th) /\ (Blocked(h, th) => Blocked(k, th))
<1> DEFINE G == {c}
<1>1. /\ G \subseteq h.changes /\ \A d \in G : h.cell[d].wack = 0
      /\ SameBut(h, k, h.changes \ G, h.used \ G)
  OBVIOUS
<1> HIDE DEF G
<1> QED  BY <1>1, RemoveCells

-----------------------------------------------------------------------------
(* Leaving and joining a wait.                                             *)

\* A cell that was taken from the pool and that nobody else knows.
Fresh(h, th, c) ==
    /\ c \in Slots /\ c \in h.used \ h.changes
    /\ \A u \in All : /\ th[u].own # c /\ th[u].victim # c
                      /\ th[u].wp # 0 => Change(h, th, u) # c

\* Who waits is counted by a context.
LEMMA ContextCounts ==
    ASSUME NEW h, NEW th, ThreadInv(h, th), NEW t \in All, th[t].at # "idle"
    PROVE  /\ th[t].wp \in Contexts /\ h.waiters[th[t].wp].nwaiting > 0
           /\ h.waiters[th[t].wp].nwaiting = 1 =>
                  \A u \in All : th[u].wp = th[t].wp => u = t
<1> DEFINE w == th[t].wp
           K == {u \in All : th[u].wp = w}
<1>1. w \in Contexts /\ t \in K /\ h.waiters[w].nwaiting = Cardinality(K)
  BY DEF ThreadInv, Waits
<1>2. IsFiniteSet(K) /\ Cardinality(K) \in Nat
  BY Finite
<1>3. Cardinality(K) # 0
  BY <1>1, <1>2, FS_EmptySet
<1>4. ASSUME Cardinality(K) = 1, NEW u \in All, th[u].wp = w PROVE u = t
  <2>1. \E x : K = {x}
    BY <1>2, <1>4, FS_Singleton
  <2>2. u \in K
    BY <1>4
  <2> QED  BY <1>1, <2>1, <2>2
<1> HIDE DEF K
<1> QED  BY <1>1, <1>2, <1>3, <1>4

\* A thread that leaves its wait context (hc_wait_free) keeps the counts and the others blocked.
LEMMA Leave ==
    ASSUME NEW h, NEW q, NEW th, NEW t \in All, NEW k, NEW ti,
           CacheInv(h, q), ThreadInv(h, th), th[t].at # "idle",
           k = hc_wait_free(h, th[t].wp), ti = [th EXCEPT ![t] = Idle]
    PROVE  /\ CacheInv(k, q) /\ ThreadInv(k, ti) /\ (Blocked(h, th) => Blocked(k, ti))
           /\ th[t].at = "room" => Fresh(k, ti, th[t].own)
           /\ k.changes = h.changes /\ k.used = h.used /\ k.last = h.last
           /\ k.durable = h.durable
           /\ \A c \in Slots : k.cell[c].wack = h.cell[c].wack
<1> DEFINE w == th[t].wp
           c == h.waiters[w].change
           last == h.waiters[w].nwaiting = 1
<1>t. /\ h \in CacheType /\ q \in [Readers -> SUBSET Nat] /\ th \in [All -> ThreadType]
      /\ OwnCells(h, th) /\ Waits(h, th) /\ Marked(h, th)
  BY DEF CacheInv, ThreadInv
<1>h. /\ h.cell \in [Slots -> CellType] /\ h.waiters \in [Contexts -> WaiterType]
      /\ h.changes \in SUBSET Slots /\ h.used \in SUBSET Slots /\ h.unacked \in Nat
      /\ Null \notin Slots
  BY <1>t, CacheFields, WriteCacheAssumption
<1>w. /\ w \in Contexts /\ h.waiters[w] \in WaiterType /\ h.waiters[w].nwaiting > 0
      /\ last => \A u \in All : th[u].wp = w => u = t
      /\ h.waiters[w].nwaiting \in Nat /\ c \in Slots \cup {Null}
  BY <1>h, ContextCounts DEF WaiterType
<1>n. NoWait \in WaiterType
  BY DEF NoWait, WaiterType
\* What hc_wait_free does to the cache.
<1>1. /\ k \in CacheType /\ k.changes = h.changes /\ k.used = h.used /\ k.last = h.last
      /\ k.durable = h.durable /\ k.unacked = h.unacked
      /\ \A d \in Slots : /\ k.cell[d].snr = h.cell[d].snr /\ k.cell[d].wack = h.cell[d].wack
                          /\ (d # c \/ ~last) => k.cell[d].urgent = h.cell[d].urgent
      /\ \A x \in Contexts \ {w} : k.waiters[x] = h.waiters[x]
      /\ k.waiters[w].nwaiting = h.waiters[w].nwaiting - 1
      /\ ~last => /\ k.waiters[w].change = h.waiters[w].change
                  /\ k.waiters[w].wchange = h.waiters[w].wchange
      /\ (c # Null \/ ~last) => k.blocked = h.blocked
  <2>1. CASE h.waiters[w].nwaiting > 1
    <3> DEFINE x == [h.waiters[w] EXCEPT !.nwaiting = @ - 1]
               v == [h.waiters EXCEPT ![w] = x]
    <3>1. k = [h EXCEPT !.waiters = v]
      BY <2>1 DEF hc_wait_free
    <3>2. x \in WaiterType /\ x.change = h.waiters[w].change /\ x.wchange = h.waiters[w].wchange
          /\ x.nwaiting = h.waiters[w].nwaiting - 1
      BY <2>1, <1>w DEF WaiterType
    <3> HIDE DEF x
    <3>3. /\ v \in [Contexts -> WaiterType] /\ v[w] = x
          /\ \A y \in Contexts \ {w} : v[y] = h.waiters[y]
      BY <3>2, <1>h, <1>w
    <3> HIDE DEF v
    <3>4. /\ k \in CacheType /\ k.changes = h.changes /\ k.used = h.used /\ k.last = h.last
          /\ k.durable = h.durable /\ k.unacked = h.unacked /\ k.cell = h.cell
          /\ k.blocked = h.blocked /\ k.waiters = v
      BY <3>1, <3>3, <1>t DEF CacheType
    <3>5. ~last
      BY <2>1, <1>w
    <3> QED  BY <3>2, <3>3, <3>4, <3>5
  <2>2. CASE ~(h.waiters[w].nwaiting > 1)
    <3> DEFINE v == [h.waiters EXCEPT ![w] = NoWait]
    <3>0. last /\ h.waiters[w].nwaiting - 1 = 0 /\ NoWait.nwaiting = 0
      BY <2>2, <1>w DEF NoWait
    <3>1. /\ v \in [Contexts -> WaiterType] /\ v[w] = NoWait
          /\ \A y \in Contexts \ {w} : v[y] = h.waiters[y]
      BY <1>n, <1>h, <1>w
    <3>2. CASE c = Null
      <4>1. k = [h EXCEPT !.waiters = v, !.blocked = FALSE]
        BY <2>2, <3>2 DEF hc_wait_free
      <4> HIDE DEF v
      <4>2. /\ k \in CacheType /\ k.changes = h.changes /\ k.used = h.used /\ k.last = h.last
            /\ k.durable = h.durable /\ k.unacked = h.unacked /\ k.cell = h.cell
            /\ k.waiters = v
        BY <4>1, <3>1, <1>t DEF CacheType
      <4> QED  BY <3>0, <3>1, <3>2, <4>2
    <3>3. CASE c # Null
      <4> DEFINE e == [h.cell[c] EXCEPT !.urgent = FALSE]
                 f == [h.cell EXCEPT ![c] = e]
      <4>1. k = [h EXCEPT !.waiters = v, !.cell = f]
        BY <2>2, <3>3 DEF hc_wait_free
      <4>2. e \in CellType /\ e.snr = h.cell[c].snr /\ e.wack = h.cell[c].wack
        BY <3>3, <1>w, <1>h DEF CellType
      <4> HIDE DEF e
      <4>3. /\ f \in [Slots -> CellType] /\ f[c] = e
            /\ \A d \in Slots \ {c} : f[d] = h.cell[d]
        BY <4>2, <3>3, <1>h, <1>w
      <4> HIDE DEF v, f
      <4>4. /\ k \in CacheType /\ k.changes = h.changes /\ k.used = h.used /\ k.last = h.last
            /\ k.durable = h.durable /\ k.unacked = h.unacked /\ k.cell = f
            /\ k.waiters = v /\ k.blocked = h.blocked
        BY <4>1, <4>3, <3>1, <1>t DEF CacheType
      <4> QED  BY <3>0, <3>1, <4>2, <4>3, <4>4
    <3> QED  BY <3>2, <3>3
  <2> QED  BY <2>1, <2>2
<1>2. /\ ti \in [All -> ThreadType] /\ ti[t] = Idle
      /\ \A u \in All \ {t} : ti[u] = th[u]
      /\ Idle.at = "idle" /\ Idle.wp = 0 /\ Idle.own = Null /\ Idle.victim = Null
  <2>1. Idle \in ThreadType /\ Idle.at = "idle" /\ Idle.wp = 0 /\ Idle.own = Null /\ Idle.victim = Null
    BY DEF Idle, ThreadType
  <2> QED  BY <2>1, <1>t
\* The other threads' contexts say what they said.
<1>3. \A u \in All \ {t} : th[u].at # "idle" =>
          /\ th[u].wp \in Contexts /\ Change(k, ti, u) = Change(h, th, u)
          /\ k.waiters[th[u].wp].wchange = h.waiters[th[u].wp].wchange
  <2> SUFFICES ASSUME NEW u \in All \ {t}, th[u].at # "idle"
               PROVE  /\ th[u].wp \in Contexts
                      /\ k.waiters[th[u].wp].change = h.waiters[th[u].wp].change
                      /\ k.waiters[th[u].wp].wchange = h.waiters[th[u].wp].wchange
    BY <1>2 DEF Change
  <2>1. th[u].wp \in Contexts
    BY ContextCounts
  <2>2. CASE th[u].wp = w
    BY <2>1, <2>2, <1>w, <1>1
  <2>3. CASE th[u].wp # w
    BY <2>1, <2>3, <1>1
  <2> QED  BY <2>1, <2>2, <2>3
<1>4. CacheInv(k, q)
  <2>1. CellsExact(k, q)
    BY <1>1, <1>h DEF CacheInv, CellsExact
  <2>2. Numbers(k) = Numbers(h)
    BY <1>1, <1>h DEF Numbers
  <2>3. QueuesExact(k, q)
    BY <1>1, <2>2 DEF CacheInv, QueuesExact
  <2> QED  BY <1>1, <1>t, <2>1, <2>3 DEF CacheInv
<1>5. OwnCells(k, ti)
  <2> SUFFICES ASSUME NEW a \in All, ti[a].at = "room"
               PROVE  /\ ti[a].own \in k.used \ k.changes
                      /\ \A u \in All : /\ ti[u].own = ti[a].own => u = a
                                        /\ ti[u].victim # ti[a].own
                                        /\ ti[u].wp # 0 => Change(k, ti, u) # ti[a].own
    BY DEF OwnCells
  <2>1. a # t /\ ti[a] = th[a] /\ th[a].at = "room"
    BY <1>2
  <2>2. th[a].own \in h.used \ h.changes
    BY <2>1, <1>t DEF OwnCells
  <2>3. ASSUME NEW u \in All
        PROVE  /\ ti[u].own = ti[a].own => u = a
               /\ ti[u].victim # ti[a].own
               /\ ti[u].wp # 0 => Change(k, ti, u) # ti[a].own
    <3>1. CASE u = t
      BY <3>1, <1>2, <1>h, <2>1, <2>2
    <3>2. CASE u # t
      <4>1. ti[u] = th[u] /\ (th[u].at = "idle" => th[u].wp = 0)
        BY <3>2, <1>2, <1>t DEF Waits
      <4>2. /\ th[u].own = th[a].own => u = a
            /\ th[u].victim # th[a].own
            /\ th[u].wp # 0 => Change(h, th, u) # th[a].own
        BY <2>1, <1>t DEF OwnCells
      <4> QED  BY <3>2, <4>1, <4>2, <2>1, <1>3
    <3> QED  BY <3>1, <3>2
  <2> QED  BY <1>1, <2>1, <2>2, <2>3
<1>6. Waits(k, ti)
  <2>1. ASSUME NEW u \in All
        PROVE  /\ ti[u].at = "idle" => ti[u] = Idle
               /\ ti[u].at # "idle" => ti[u].wp \in Contexts
               /\ ti[u].at = "room" =>
                     /\ ti[u].own \in Slots /\ ti[u].victim \in Slots /\ k.waiters[ti[u].wp].wchange
                     /\ \/ Change(k, ti, u) = ti[u].victim
                        \/ Change(k, ti, u) = Null /\ ti[u].victim \notin k.changes /\ ~k.durable
               /\ ti[u].at = "acks" =>
                     /\ ti[u].own = Null /\ ti[u].victim = Null
                     /\ ~k.waiters[ti[u].wp].wchange /\ Change(k, ti, u) = Null
    <3>1. CASE u = t
      BY <3>1, <1>2
    <3>2. CASE u # t
      <4>1. ti[u] = th[u]
        BY <3>2, <1>2
      <4>2. /\ th[u].at = "idle" => th[u] = Idle
            /\ th[u].at # "idle" => th[u].wp \in Contexts
            /\ th[u].at = "room" =>
                  /\ th[u].own \in Slots /\ th[u].victim \in Slots /\ h.waiters[th[u].wp].wchange
                  /\ \/ Change(h, th, u) = th[u].victim
                     \/ Change(h, th, u) = Null /\ th[u].victim \notin h.changes /\ ~h.durable
            /\ th[u].at = "acks" =>
                  /\ th[u].own = Null /\ th[u].victim = Null
                  /\ ~h.waiters[th[u].wp].wchange /\ Change(h, th, u) = Null
        BY <1>t DEF Waits
      <4>3. th[u].at # "idle" =>
               /\ Change(k, ti, u) = Change(h, th, u)
               /\ k.waiters[th[u].wp].wchange = h.waiters[th[u].wp].wchange
        BY <3>2, <1>3
      <4> QED  BY <4>1, <4>2, <4>3, <1>1
    <3> QED  BY <3>1, <3>2
  <2>2. ASSUME NEW x \in Contexts
        PROVE  k.waiters[x].nwaiting = Cardinality({u \in All : ti[u].wp = x})
    <3> DEFINE K == {u \in All : th[u].wp = x}
               L == {u \in All : ti[u].wp = x}
    <3>0. h.waiters[x].nwaiting = Cardinality(K) /\ IsFiniteSet(K) /\ x # 0
      BY <1>t, Finite DEF Waits
    <3>1. CASE x = w
      <4>1. L = K \ {t} /\ t \in K
        BY <3>0, <3>1, <1>2
      <4>2. Cardinality(K \ {t}) = Cardinality(K) - 1
        BY <3>0, <4>1, FS_RemoveElement
      <4> QED  BY <3>0, <3>1, <4>1, <4>2, <1>1
    <3>2. CASE x # w
      <4>1. L = K
        BY <3>0, <3>2, <1>2
      <4> QED  BY <3>0, <3>2, <4>1, <1>1
    <3> QED  BY <3>1, <3>2
  <2> QED  BY <2>1, <2>2 DEF Waits
\* c_urgent is reset when nobody is left in the only context for the change.
<1>7. Marked(k, ti)
  <2> SUFFICES ASSUME NEW a \in All, ti[a].at = "room"
               PROVE  /\ Change(k, ti, a) \in k.changes => k.cell[Change(k, ti, a)].urgent
                      /\ \A u \in All : ti[u].at = "room" /\ Change(k, ti, u) = Change(k, ti, a)
                              /\ Change(k, ti, a) # Null => ti[u].wp = ti[a].wp
                      /\ Change(k, ti, a) \in Slots \ k.changes => k.cell[Change(k, ti, a)].wack = 0
                      /\ ~ti[a].woken => Change(k, ti, a) \in k.changes
                                         /\ k.cell[Change(k, ti, a)].wack > 0
    BY DEF Marked
  <2> DEFINE d == Change(h, th, a)
  <2>1. /\ a # t /\ ti[a] = th[a] /\ th[a].at = "room" /\ Change(k, ti, a) = d
        /\ th[a].wp \in Contexts
    BY <1>2, <1>3
  <2>2. /\ d \in h.changes => h.cell[d].urgent
        /\ d \in Slots \ h.changes => h.cell[d].wack = 0
        /\ ~th[a].woken => d \in h.changes /\ h.cell[d].wack > 0
        /\ \A u \in All : th[u].at = "room" /\ Change(h, th, u) = d /\ d # Null => th[u].wp = th[a].wp
    BY <2>1, <1>t DEF Marked
  <2>3. ASSUME d \in h.changes PROVE k.cell[d].urgent = h.cell[d].urgent
    <3>1. CASE d # c \/ ~last
      BY <2>3, <3>1, <1>1, <1>h
    <3>2. CASE d = c /\ last
      <4>1. d \in Slots /\ d # Null
        BY <2>3, <1>h
      <4>2. th[t].at = "room"
        BY <3>2, <4>1, <1>t DEF Waits, Change, ThreadType
      <4>3. th[t].wp = th[a].wp
        BY <2>2, <3>2, <4>1, <4>2 DEF Change
      <4> QED  BY <2>1, <3>2, <4>3, <1>w
    <3> QED  BY <3>1, <3>2
  <2>4. \A u \in All : ti[u].at = "room" /\ Change(k, ti, u) = d /\ d # Null => ti[u].wp = th[a].wp
    BY <2>2, <1>2, <1>3
  <2> HIDE DEF d
  <2> QED  BY <2>1, <2>2, <2>3, <2>4, <1>1, <1>h
<1>8. Blocked(h, th) => Blocked(k, ti)
  <2> SUFFICES ASSUME Blocked(h, th), NEW a \in All, ti[a].at = "acks"
               PROVE  /\ k.durable /\ k.blocked
                      /\ \A u \in All : ti[u].at = "acks" => ti[u].wp = ti[a].wp
                      /\ ~ti[a].woken => k.unacked > 0
    BY DEF Blocked
  <2>1. a # t /\ ti[a] = th[a] /\ th[a].at = "acks"
    BY <1>2
  <2>2. /\ h.durable /\ h.blocked /\ (~th[a].woken => h.unacked > 0)
        /\ \A u \in All : th[u].at = "acks" => th[u].wp = th[a].wp
    BY <2>1 DEF Blocked
  <2>3. c # Null \/ ~last
    <3>1. CASE th[t].at = "acks"
      BY <3>1, <2>1, <2>2, <1>w
    <3>2. CASE th[t].at = "room"
      BY <3>2, <2>2, <1>t, <1>h DEF Waits, Change
    <3> QED  BY <3>1, <3>2, <1>t DEF ThreadType
  <2> QED  BY <2>1, <2>2, <2>3, <1>1, <1>2
<1>9. ASSUME th[t].at = "room" PROVE Fresh(k, ti, th[t].own)
  <2> DEFINE o == th[t].own
  <2>1. /\ o \in Slots /\ o \in h.used \ h.changes
        /\ \A u \in All : /\ th[u].own = o => u = t
                          /\ th[u].victim # o
                          /\ th[u].wp # 0 => Change(h, th, u) # o
    BY <1>9, <1>t DEF OwnCells, Waits
  <2>2. ASSUME NEW u \in All
        PROVE  ti[u].own # o /\ ti[u].victim # o /\ (ti[u].wp # 0 => Change(k, ti, u) # o)
    <3>1. CASE u = t
      BY <3>1, <2>1, <1>2, <1>h
    <3>2. CASE u # t
      <4>1. ti[u] = th[u] /\ (th[u].at = "idle" => th[u].wp = 0)
        BY <3>2, <1>2, <1>t DEF Waits
      <4> QED  BY <3>2, <4>1, <2>1, <1>3
    <3> QED  BY <3>1, <3>2
  <2> QED  BY <2>1, <2>2, <1>1 DEF Fresh
<1> QED  BY <1>1, <1>2, <1>4, <1>5, <1>6, <1>7, <1>8, <1>9 DEF ThreadInv

\* A context that counts somebody has a thread.
LEMMA ContextHasThread ==
    ASSUME NEW h, NEW th, ThreadInv(h, th), NEW w \in Contexts, h.waiters[w].nwaiting > 0
    PROVE  \E u \in All : th[u].wp = w /\ th[u].at # "idle"
<1> DEFINE K == {u \in All : th[u].wp = w}
<1>1. h.waiters[w].nwaiting = Cardinality(K)
  BY DEF ThreadInv, Waits
<1>2. K # {}
  <2>1. Cardinality(K) # 0
    BY <1>1
  <2> QED  BY <2>1, FS_EmptySet
<1>3. PICK u \in All : th[u].wp = w
  BY <1>2
<1>4. th[u].at # "idle"
  BY <1>3, Finite DEF ThreadInv, Waits, Idle
<1> QED  BY <1>3, <1>4

\* There is a context for each thread: one that does not wait finds one free.
LEMMA FreeContext ==
    ASSUME NEW h, NEW th, ThreadInv(h, th), h \in CacheType, NEW t \in All, th[t].at = "idle"
    PROVE  \E w \in Contexts : h.waiters[w].nwaiting = 0
<1> SUFFICES ASSUME \A w \in Contexts : h.waiters[w].nwaiting # 0 PROVE FALSE
  OBVIOUS
<1> DEFINE B == All \ {t}
           f == [w \in Contexts |-> CHOOSE u \in B : th[u].wp = w]
<1>1. \A w \in Contexts : \E u \in B : th[u].wp = w
  <2> SUFFICES ASSUME NEW w \in Contexts PROVE \E u \in B : th[u].wp = w
    OBVIOUS
  <2>1. h.waiters[w].nwaiting > 0
    BY CacheFields
  <2>2. PICK u \in All : th[u].wp = w /\ th[u].at # "idle"
    BY <2>1, ContextHasThread
  <2> QED  BY <2>2
<1>2. \A w \in Contexts : f[w] \in B /\ th[f[w]].wp = w
  BY <1>1
<1>3. f \in Injection(Contexts, B)
  <2>1. f \in [Contexts -> B]
    BY <1>2
  <2>2. \A v, w \in Contexts : f[v] = f[w] => v = w
    BY <1>2
  <2> QED  BY <2>1, <2>2 DEF Injection, IsInjective
<1>4. IsFiniteSet(B) /\ Cardinality(B) = Cardinality(All) - 1
  BY Finite, FS_RemoveElement
<1>5. Cardinality(Contexts) = Cardinality(All)
  <2>1. Cardinality(All) \in Nat /\ Cardinality(All) # 0
    BY Finite, FS_EmptySet
  <2> QED  BY <2>1, FS_Interval DEF Contexts
<1>6. Cardinality(Contexts) <= Cardinality(B)
  BY <1>3, <1>4, FS_Injection
<1> QED  BY <1>4, <1>5, <1>6, Finite

\* A thread that will wait finds the context of its victim, or a free one.
LEMMA ContextFound ==
    ASSUME NEW h, NEW th, ThreadInv(h, th), h \in CacheType, NEW t \in All, th[t].at = "idle", NEW c
    PROVE  /\ WaitContext(h, c) \in Contexts
           /\ Joined(h, c) # {} => WaitContext(h, c) \in Joined(h, c)
           /\ Joined(h, c) = {} => h.waiters[WaitContext(h, c)].nwaiting = 0
<1>1. Joined(h, c) \in SUBSET Contexts /\ Joined(h, c) \in SUBSET Nat
  BY Finite DEF Joined, hc_wait_lookup
<1>2. CASE Joined(h, c) # {}
  BY <1>1, <1>2, MinProps DEF WaitContext
<1>3. CASE Joined(h, c) = {}
  <2> DEFINE F == {w \in Contexts : h.waiters[w].nwaiting = 0}
  <2>1. F # {} /\ F \in SUBSET Nat
    BY FreeContext, Finite
  <2>2. Min(F) \in F
    BY <2>1, MinProps
  <2> QED  BY <1>3, <2>2 DEF WaitContext
<1> QED  BY <1>2, <1>3

\* A thread that joins a wait context (hc_wait_add) keeps the counts, and really has to wait.
LEMMA Join ==
    ASSUME NEW h, NEW q, NEW th, NEW t \in All, NEW k, NEW tj, NEW c \in Slots \cup {Null}, NEW own,
           CacheInv(h, q), ThreadInv(h, th), th[t].at = "idle",
           c # Null => c \in h.changes /\ h.cell[c].wack > 0 /\ Fresh(h, th, own),
           c = Null => own = Null,
           k = hc_wait_add(h, c),
           tj = [th EXCEPT ![t] = [at |-> IF c = Null THEN "acks" ELSE "room", own |-> own,
                                   victim |-> c, wp |-> WaitContext(h, c), woken |-> FALSE]]
    PROVE  /\ CacheInv(k, q) /\ ThreadInv(k, tj)
           /\ Blocked(h, th) /\ (c = Null => h.durable /\ h.unacked > 0) => Blocked(k, tj)
<1> DEFINE w == WaitContext(h, c)
           J == Joined(h, c)
           me == [at |-> IF c = Null THEN "acks" ELSE "room", own |-> own,
                  victim |-> c, wp |-> w, woken |-> FALSE]
<1>t. /\ h \in CacheType /\ q \in [Readers -> SUBSET Nat] /\ th \in [All -> ThreadType]
      /\ OwnCells(h, th) /\ Waits(h, th) /\ Marked(h, th)
  BY DEF CacheInv, ThreadInv
<1>h. /\ h.cell \in [Slots -> CellType] /\ h.waiters \in [Contexts -> WaiterType]
      /\ h.changes \in SUBSET Slots /\ h.used \in SUBSET Slots /\ h.unacked \in Nat
      /\ Null \notin Slots /\ 0 \notin Contexts
  BY <1>t, CacheFields, WriteCacheAssumption, Finite
<1>w. /\ w \in Contexts /\ h.waiters[w] \in WaiterType
      /\ J # {} => w \in J
      /\ J = {} => h.waiters[w].nwaiting = 0
  BY <1>t, <1>h, ContextFound
<1> HIDE DEF w
\* A context that is joined has a thread already, which waits for the same.
<1>j. ASSUME J # {}
      PROVE  /\ h.waiters[w].nwaiting > 0 /\ h.waiters[w].change = c
             /\ h.waiters[w].wchange = (c # Null)
             /\ c # Null => h.cell[c].urgent
             /\ c = Null => h.blocked
             /\ \E u \in All : /\ th[u].wp = w
                               /\ c = Null => th[u].at = "acks"
                               /\ c # Null => th[u].at = "room"
  <2>1. /\ h.waiters[w].nwaiting > 0
        /\ c # Null => h.cell[c].urgent /\ h.waiters[w].wchange /\ h.waiters[w].change = c
        /\ c = Null => h.blocked /\ ~h.waiters[w].wchange
    BY <1>j, <1>w DEF Joined, hc_wait_lookup
  <2>2. PICK u \in All : th[u].wp = w /\ th[u].at # "idle"
    BY <2>1, <1>w, ContextHasThread
  <2>3. th[u].at \in {"acks", "room"}
    BY <2>2, <1>t DEF ThreadType
  <2>4. /\ th[u].at = "room" => h.waiters[w].wchange
        /\ th[u].at = "acks" => ~h.waiters[w].wchange /\ h.waiters[w].change = Null
    BY <2>2, <1>t DEF Waits, Change
  <2>5. h.waiters[w].wchange \in BOOLEAN
    BY <1>w DEF WaiterType
  <2>6. /\ c = Null => th[u].at = "acks" /\ h.waiters[w].change = c /\ ~h.waiters[w].wchange
        /\ c # Null => th[u].at = "room" /\ h.waiters[w].wchange
    BY <2>1, <2>3, <2>4
  <2>7. h.waiters[w].wchange = (c # Null)
    BY <2>5, <2>6
  <2> QED  BY <2>1, <2>2, <2>6, <2>7
\* What hc_wait_add does to the cache.
<1>1. /\ k \in CacheType /\ k.changes = h.changes /\ k.used = h.used /\ k.last = h.last
      /\ k.durable = h.durable /\ k.unacked = h.unacked
      /\ \A d \in Slots : /\ k.cell[d].snr = h.cell[d].snr /\ k.cell[d].wack = h.cell[d].wack
                          /\ h.cell[d].urgent => k.cell[d].urgent
      /\ c # Null => k.cell[c].urgent
      /\ \A x \in Contexts \ {w} : k.waiters[x] = h.waiters[x]
      /\ k.waiters[w].nwaiting = h.waiters[w].nwaiting + 1
      /\ k.waiters[w].change = c /\ (k.waiters[w].wchange <=> c # Null)
      /\ h.blocked => k.blocked
      /\ c = Null => k.blocked
  <2>1. CASE J # {}
    <3> DEFINE x == [h.waiters[w] EXCEPT !.nwaiting = @ + 1]
               v == [h.waiters EXCEPT ![w] = x]
    <3>1. k = [h EXCEPT !.waiters = v]
      BY <2>1 DEF hc_wait_add, w
    <3>2. x \in WaiterType /\ x.change = h.waiters[w].change /\ (x.wchange <=> h.waiters[w].wchange)
          /\ x.nwaiting = h.waiters[w].nwaiting + 1
      BY <2>1, <1>w DEF WaiterType
    <3> HIDE DEF x
    <3>3. /\ v \in [Contexts -> WaiterType] /\ v[w] = x
          /\ \A y \in Contexts \ {w} : v[y] = h.waiters[y]
      BY <3>2, <1>h, <1>w
    <3> HIDE DEF v
    <3>4. /\ k \in CacheType /\ k.changes = h.changes /\ k.used = h.used /\ k.last = h.last
          /\ k.durable = h.durable /\ k.unacked = h.unacked /\ k.cell = h.cell
          /\ k.blocked = h.blocked /\ k.waiters = v
      BY <3>1, <3>3, <1>t DEF CacheType
    <3> QED  BY <2>1, <3>2, <3>3, <3>4, <1>j
  <2>2. CASE J = {}
    <3> DEFINE x == [change |-> c, wchange |-> c # Null, nwaiting |-> 1]
               v == [h.waiters EXCEPT ![w] = x]
    <3>1. x \in WaiterType /\ x.change = c /\ (x.wchange <=> c # Null) /\ x.nwaiting = 1
      BY DEF WaiterType
    <3>2. k = IF c = Null THEN [h EXCEPT !.waiters = v, !.blocked = TRUE]
              ELSE [h EXCEPT !.waiters = v, !.cell[c].urgent = TRUE]
      BY <2>2 DEF hc_wait_add, w
    <3> HIDE DEF x
    <3>3. /\ v \in [Contexts -> WaiterType] /\ v[w] = x
          /\ \A y \in Contexts \ {w} : v[y] = h.waiters[y]
      BY <3>1, <1>h, <1>w
    <3>4. h.waiters[w].nwaiting + 1 = 1
      BY <2>2, <1>w
    <3> HIDE DEF v
    <3>5. CASE c = Null
      <4>1. /\ k \in CacheType /\ k.changes = h.changes /\ k.used = h.used /\ k.last = h.last
            /\ k.durable = h.durable /\ k.unacked = h.unacked /\ k.cell = h.cell
            /\ k.waiters = v /\ k.blocked
        BY <3>2, <3>3, <3>5, <1>t DEF CacheType
      <4> QED  BY <3>1, <3>3, <3>4, <3>5, <4>1
    <3>6. CASE c # Null
      <4> DEFINE e == [h.cell[c] EXCEPT !.urgent = TRUE]
                 f == [h.cell EXCEPT ![c] = e]
      <4>1. k = [h EXCEPT !.waiters = v, !.cell = f]
        BY <3>2, <3>6
      <4>2. e \in CellType /\ e.snr = h.cell[c].snr /\ e.wack = h.cell[c].wack /\ e.urgent
        BY <3>6, <1>h DEF CellType
      <4> HIDE DEF e
      <4>3. /\ f \in [Slots -> CellType] /\ f[c] = e
            /\ \A d \in Slots \ {c} : f[d] = h.cell[d]
        BY <4>2, <3>6, <1>h
      <4> HIDE DEF f
      <4>4. /\ k \in CacheType /\ k.changes = h.changes /\ k.used = h.used /\ k.last = h.last
            /\ k.durable = h.durable /\ k.unacked = h.unacked /\ k.cell = f
            /\ k.waiters = v /\ k.blocked = h.blocked
        BY <4>1, <4>3, <3>3, <1>t DEF CacheType
      <4> QED  BY <3>1, <3>3, <3>4, <3>6, <4>2, <4>3, <4>4
    <3> QED  BY <3>5, <3>6
  <2> QED  BY <2>1, <2>2
<1>2. /\ tj \in [All -> ThreadType] /\ tj[t] = me /\ me.own = own /\ me.victim = c
      /\ me.wp = w /\ ~me.woken /\ (c = Null => me.at = "acks") /\ (c # Null => me.at = "room")
      /\ \A u \in All \ {t} : tj[u] = th[u]
  <2>1. own \in Slots \cup {Null}
    BY DEF Fresh
  <2>2. /\ me \in ThreadType /\ me.own = own /\ me.victim = c
        /\ me.wp = w /\ ~me.woken /\ (c = Null => me.at = "acks") /\ (c # Null => me.at = "room")
    BY <2>1, <1>w DEF ThreadType
  <2>3. tj = [th EXCEPT ![t] = me]
    BY DEF w
  <2> HIDE DEF me
  <2> QED  BY <2>2, <2>3, <1>t
<1> HIDE DEF me
\* The other threads' contexts say what they said.
<1>3. \A u \in All \ {t} : th[u].at # "idle" =>
          /\ th[u].wp \in Contexts /\ Change(k, tj, u) = Change(h, th, u)
          /\ k.waiters[th[u].wp].wchange <=> h.waiters[th[u].wp].wchange
  <2> SUFFICES ASSUME NEW u \in All \ {t}, th[u].at # "idle"
               PROVE  /\ th[u].wp \in Contexts
                      /\ k.waiters[th[u].wp].change = h.waiters[th[u].wp].change
                      /\ k.waiters[th[u].wp].wchange <=> h.waiters[th[u].wp].wchange
    BY <1>2 DEF Change
  <2>1. th[u].wp \in Contexts /\ h.waiters[th[u].wp].nwaiting > 0
    BY ContextCounts
  <2>2. CASE th[u].wp = w
    <3>1. J # {}
      BY <2>1, <2>2, <1>w
    <3> QED  BY <2>1, <2>2, <3>1, <1>j, <1>1
  <2>3. CASE th[u].wp # w
    BY <2>1, <2>3, <1>1
  <2> QED  BY <2>1, <2>2, <2>3
<1>m. Change(k, tj, t) = c
  BY <1>1, <1>2 DEF Change
<1>4. CacheInv(k, q)
  <2>1. CellsExact(k, q)
    BY <1>1, <1>h DEF CacheInv, CellsExact
  <2>2. Numbers(k) = Numbers(h)
    BY <1>1, <1>h DEF Numbers
  <2>3. QueuesExact(k, q)
    BY <1>1, <2>2 DEF CacheInv, QueuesExact
  <2> QED  BY <1>1, <1>t, <2>1, <2>3 DEF CacheInv
<1>i. \A u \in All : th[u].at = "idle" => th[u].wp = 0 /\ th[u].own = Null /\ th[u].victim = Null
  BY <1>t DEF Waits, Idle
<1>5. OwnCells(k, tj)
  <2> SUFFICES ASSUME NEW a \in All, tj[a].at = "room"
               PROVE  /\ tj[a].own \in k.used \ k.changes
                      /\ \A u \in All : /\ tj[u].own = tj[a].own => u = a
                                        /\ tj[u].victim # tj[a].own
                                        /\ tj[u].wp # 0 => Change(k, tj, u) # tj[a].own
    BY DEF OwnCells
  <2>1. CASE a = t
    <3>1. c # Null /\ tj[a].own = own /\ Fresh(h, th, own)
      BY <2>1, <1>2
    <3>2. own \in k.used \ k.changes
      BY <3>1, <1>1 DEF Fresh
    <3>3. ASSUME NEW u \in All
          PROVE  /\ tj[u].own = own => u = a
                 /\ tj[u].victim # own
                 /\ tj[u].wp # 0 => Change(k, tj, u) # own
      <4>1. CASE u = t
        BY <2>1, <3>1, <4>1, <1>2, <1>m DEF Fresh
      <4>2. CASE u # t
        BY <3>1, <4>2, <1>2, <1>3, <1>i DEF Fresh
      <4> QED  BY <4>1, <4>2
    <3> QED  BY <3>1, <3>2, <3>3
  <2>2. CASE a # t
    <3>1. tj[a] = th[a] /\ th[a].at = "room"
      BY <2>2, <1>2
    <3>2. /\ th[a].own \in h.used \ h.changes
          /\ \A u \in All : /\ th[u].own = th[a].own => u = a
                            /\ th[u].victim # th[a].own
                            /\ th[u].wp # 0 => Change(h, th, u) # th[a].own
      BY <3>1, <1>t DEF OwnCells
    <3>3. ASSUME NEW u \in All
          PROVE  /\ tj[u].own = th[a].own => u = a
                 /\ tj[u].victim # th[a].own
                 /\ tj[u].wp # 0 => Change(k, tj, u) # th[a].own
      <4>1. CASE u = t
        <5>1. own # th[a].own
          BY <3>2, <1>h DEF Fresh
        <5>2. c # th[a].own
          BY <3>2, <1>h
        <5> QED  BY <4>1, <5>1, <5>2, <1>2, <1>m
      <4>2. CASE u # t
        BY <3>2, <4>2, <1>2, <1>3, <1>i
      <4> QED  BY <4>1, <4>2
    <3>4. th[a].own \in k.used \ k.changes
      BY <3>2, <1>1
    <3> QED  BY <3>1, <3>3, <3>4
  <2> QED  BY <2>1, <2>2
<1>6. Waits(k, tj)
  <2>1. ASSUME NEW u \in All
        PROVE  /\ tj[u].at = "idle" => tj[u] = Idle
               /\ tj[u].at # "idle" => tj[u].wp \in Contexts
               /\ tj[u].at = "room" =>
                     /\ tj[u].own \in Slots /\ tj[u].victim \in Slots /\ k.waiters[tj[u].wp].wchange
                     /\ \/ Change(k, tj, u) = tj[u].victim
                        \/ Change(k, tj, u) = Null /\ tj[u].victim \notin k.changes /\ ~k.durable
               /\ tj[u].at = "acks" =>
                     /\ tj[u].own = Null /\ tj[u].victim = Null
                     /\ ~k.waiters[tj[u].wp].wchange /\ Change(k, tj, u) = Null
    <3>1. CASE u = t
      <4>1. CASE c = Null
        BY <3>1, <4>1, <1>1, <1>2, <1>m, <1>w
      <4>2. CASE c # Null
        <5>1. own \in Slots
          BY <4>2 DEF Fresh
        <5> QED  BY <3>1, <4>2, <5>1, <1>1, <1>2, <1>m, <1>w
      <4> QED  BY <4>1, <4>2
    <3>2. CASE u # t
      <4>1. tj[u] = th[u]
        BY <3>2, <1>2
      <4>2. /\ th[u].at = "idle" => th[u] = Idle
            /\ th[u].at # "idle" => th[u].wp \in Contexts
            /\ th[u].at = "room" =>
                  /\ th[u].own \in Slots /\ th[u].victim \in Slots /\ h.waiters[th[u].wp].wchange
                  /\ \/ Change(h, th, u) = th[u].victim
                     \/ Change(h, th, u) = Null /\ th[u].victim \notin h.changes /\ ~h.durable
            /\ th[u].at = "acks" =>
                  /\ th[u].own = Null /\ th[u].victim = Null
                  /\ ~h.waiters[th[u].wp].wchange /\ Change(h, th, u) = Null
        BY <1>t DEF Waits
      <4>3. th[u].at # "idle" =>
               /\ Change(k, tj, u) = Change(h, th, u)
               /\ k.waiters[th[u].wp].wchange <=> h.waiters[th[u].wp].wchange
        BY <3>2, <1>3
      <4> QED  BY <4>1, <4>2, <4>3, <1>1
    <3> QED  BY <3>1, <3>2
  <2>2. ASSUME NEW x \in Contexts
        PROVE  k.waiters[x].nwaiting = Cardinality({u \in All : tj[u].wp = x})
    <3> DEFINE K == {u \in All : th[u].wp = x}
               L == {u \in All : tj[u].wp = x}
    <3>0. h.waiters[x].nwaiting = Cardinality(K) /\ IsFiniteSet(K) /\ t \notin K
      BY <1>t, <1>h, <1>i, Finite DEF Waits
    <3>1. CASE x = w
      <4>1. L = K \cup {t}
        BY <3>0, <3>1, <1>2
      <4>2. Cardinality(K \cup {t}) = Cardinality(K) + 1
        BY <3>0, FS_AddElement
      <4> QED  BY <3>0, <3>1, <4>1, <4>2, <1>1
    <3>2. CASE x # w
      <4>1. L = K
        BY <3>0, <3>2, <1>2
      <4> QED  BY <3>0, <3>2, <4>1, <1>1
    <3> QED  BY <3>1, <3>2
  <2> QED  BY <2>1, <2>2 DEF Waits
<1>7. Marked(k, tj)
  \* Who waits for c already is in the context that is joined.
  <2>1. ASSUME c # Null, NEW u \in All, th[u].at = "room", Change(h, th, u) = c PROVE th[u].wp = w
    <3>1. h.cell[c].urgent
      BY <2>1, <1>t DEF Marked
    <3>2. th[u].wp \in Contexts /\ h.waiters[th[u].wp].nwaiting > 0 /\ h.waiters[th[u].wp].wchange
      BY <2>1, <1>t, ContextCounts DEF Waits
    <3>3. J # {}
      BY <2>1, <3>1, <3>2 DEF Joined, hc_wait_lookup, Change
    <3>4. PICK b \in All : th[b].wp = w /\ th[b].at = "room"
      BY <2>1, <3>3, <1>j
    <3>5. Change(h, th, b) = c
      BY <3>3, <3>4, <1>j DEF Change
    <3> QED  BY <2>1, <3>4, <3>5, <1>t DEF Marked
  <2>2. ASSUME NEW a \in All, NEW u \in All, tj[a].at = "room", tj[u].at = "room",
               Change(k, tj, u) = Change(k, tj, a), Change(k, tj, a) # Null
        PROVE  tj[u].wp = tj[a].wp
    <3>1. CASE a = t /\ u = t
      BY <3>1
    <3>2. CASE a = t /\ u # t
      BY <3>2, <2>1, <2>2, <1>2, <1>3, <1>m
    <3>3. CASE a # t /\ u = t
      BY <3>3, <2>1, <2>2, <1>2, <1>3, <1>m
    <3>4. CASE a # t /\ u # t
      <4>1. /\ tj[a] = th[a] /\ tj[u] = th[u] /\ Change(k, tj, a) = Change(h, th, a)
            /\ Change(k, tj, u) = Change(h, th, u)
        BY <3>4, <2>2, <1>2, <1>3
      <4> QED  BY <4>1, <2>2, <1>t DEF Marked
    <3> QED  BY <3>1, <3>2, <3>3, <3>4
  <2>3. ASSUME NEW a \in All, tj[a].at = "room"
        PROVE  /\ Change(k, tj, a) \in k.changes => k.cell[Change(k, tj, a)].urgent
               /\ Change(k, tj, a) \in Slots \ k.changes => k.cell[Change(k, tj, a)].wack = 0
               /\ ~tj[a].woken => Change(k, tj, a) \in k.changes
                                  /\ k.cell[Change(k, tj, a)].wack > 0
    <3>1. CASE a = t
      <4>1. c # Null /\ c \in h.changes /\ h.cell[c].wack > 0 /\ c \in Slots
        BY <2>3, <3>1, <1>2
      <4> QED  BY <3>1, <4>1, <1>1, <1>m
    <3>2. CASE a # t
      <4> DEFINE d == Change(h, th, a)
      <4>1. tj[a] = th[a] /\ th[a].at = "room" /\ Change(k, tj, a) = d
        BY <2>3, <3>2, <1>2, <1>3
      <4>2. /\ d \in h.changes => h.cell[d].urgent
            /\ d \in Slots \ h.changes => h.cell[d].wack = 0
            /\ ~th[a].woken => d \in h.changes /\ h.cell[d].wack > 0
        BY <4>1, <1>t DEF Marked
      <4> HIDE DEF d
      <4> QED  BY <4>1, <4>2, <1>1, <1>h
    <3> QED  BY <3>1, <3>2
  <2> QED  BY <2>2, <2>3 DEF Marked
<1>8. ASSUME Blocked(h, th), c = Null => h.durable /\ h.unacked > 0 PROVE Blocked(k, tj)
  <2>1. ASSUME c = Null, NEW u \in All, th[u].at = "acks" PROVE th[u].wp = w
    <3>1. h.blocked
      BY <2>1, <1>8 DEF Blocked
    <3>2. th[u].wp \in Contexts /\ h.waiters[th[u].wp].nwaiting > 0 /\ ~h.waiters[th[u].wp].wchange
      BY <2>1, <1>t, ContextCounts DEF Waits
    <3>3. J # {}
      BY <2>1, <3>1, <3>2 DEF Joined, hc_wait_lookup
    <3>4. PICK b \in All : th[b].wp = w /\ th[b].at = "acks"
      BY <2>1, <3>3, <1>j
    <3> QED  BY <2>1, <3>4, <1>8 DEF Blocked
  <2> SUFFICES ASSUME NEW a \in All, tj[a].at = "acks"
               PROVE  /\ k.durable /\ k.blocked
                      /\ \A u \in All : tj[u].at = "acks" => tj[u].wp = tj[a].wp
                      /\ ~tj[a].woken => k.unacked > 0
    BY DEF Blocked
  <2>2. CASE a = t
    <3>1. c = Null /\ tj[a].wp = w
      BY <2>2, <1>2
    <3>2. \A u \in All : tj[u].at = "acks" => tj[u].wp = w
      BY <3>1, <2>1, <1>2
    <3> QED  BY <3>1, <3>2, <1>1, <1>8
  <2>3. CASE a # t
    <3>1. tj[a] = th[a] /\ th[a].at = "acks"
      BY <2>3, <1>2
    <3>2. /\ h.durable /\ h.blocked /\ (~th[a].woken => h.unacked > 0)
          /\ \A u \in All : th[u].at = "acks" => th[u].wp = th[a].wp
      BY <3>1, <1>8 DEF Blocked
    <3>3. ASSUME NEW u \in All, tj[u].at = "acks" PROVE tj[u].wp = th[a].wp
      <4>1. CASE u = t
        BY <4>1, <3>1, <3>3, <2>1, <1>2
      <4>2. CASE u # t
        BY <4>2, <3>2, <3>3, <1>2
      <4> QED  BY <4>1, <4>2
    <3> QED  BY <3>1, <3>2, <3>3, <1>1
  <2> QED  BY <2>2, <2>3
<1> QED  BY <1>2, <1>4, <1>5, <1>6, <1>7, <1>8 DEF ThreadInv

-----------------------------------------------------------------------------
(* Adding a sample.                                                        *)

\* A cell of the pool is taken, or given back.
LEMMA TakeCell ==
    ASSUME NEW h, NEW q, NEW th, NEW c \in Slots \ h.used, NEW k, CacheInv(h, q), ThreadInv(h, th),
           \A u \in All : th[u].victim # c /\ (th[u].wp # 0 => Change(h, th, u) # c),
           SameBut(h, k, h.changes, h.used \cup {c})
    PROVE  /\ CacheInv(k, q) /\ ThreadInv(k, th) /\ Fresh(k, th, c)
           /\ Blocked(h, th) => Blocked(k, th)
<1>t. h \in CacheType /\ th \in [All -> ThreadType] /\ c # Null
  BY WriteCacheAssumption DEF CacheInv, ThreadInv
<1>1. /\ k.changes = h.changes /\ k.used = h.used \cup {c}
      /\ k.cell = h.cell /\ k.waiters = h.waiters /\ k.last = h.last
      /\ k.durable = h.durable /\ k.unacked = h.unacked /\ k.blocked = h.blocked
      /\ k \in CacheType
  BY DEF SameBut
<1>2. CacheInv(k, q)
  BY <1>1 DEF CacheInv, CellsExact, QueuesExact, Numbers
<1>3. \A u : Change(k, th, u) = Change(h, th, u)
  BY <1>1 DEF Change
<1>4. OwnCells(k, th)
  BY <1>1, <1>3 DEF ThreadInv, OwnCells
<1>5. Waits(k, th)
  BY <1>1, <1>3 DEF ThreadInv, Waits
<1>6. Marked(k, th)
  <2>1. Marked(h, th)
    BY DEF ThreadInv
  <2>2. k.changes = h.changes /\ k.cell = h.cell
    BY <1>1
  <2> QED  BY <1>3, <2>1, <2>2, Zenon DEF Marked
<1>7. Blocked(h, th) => Blocked(k, th)
  BY <1>1 DEF Blocked
<1>8. ASSUME NEW u \in All PROVE th[u].own # c
  <2>1. CASE th[u].at = "room"
    BY <2>1 DEF ThreadInv, OwnCells
  <2>2. CASE th[u].at # "room"
    BY <2>2, <1>t DEF ThreadInv, Waits, Idle, ThreadType
  <2> QED  BY <2>1, <2>2
<1>9. c \notin h.changes
  BY DEF CacheInv, CellsExact
<1> QED  BY <1>1, <1>2, <1>3, <1>4, <1>5, <1>6, <1>7, <1>8, <1>9, <1>t DEF ThreadInv, Fresh

\* Returning a cell that was never stored keeps the invariant.
LEMMA GiveCellBack ==
    ASSUME NEW h, NEW q, NEW th, NEW c, NEW k, CacheInv(h, q), ThreadInv(h, th),
           c = Null \/ Fresh(h, th, c),
           SameBut(h, k, h.changes, h.used \ {c})
    PROVE  CacheInv(k, q) /\ ThreadInv(k, th) /\ (Blocked(h, th) => Blocked(k, th))
<1>t. h \in CacheType /\ th \in [All -> ThreadType] /\ Null \notin Slots
  BY WriteCacheAssumption DEF CacheInv, ThreadInv
<1>1. /\ k.changes = h.changes /\ k.used = h.used \ {c}
      /\ k.cell = h.cell /\ k.waiters = h.waiters /\ k.last = h.last
      /\ k.durable = h.durable /\ k.unacked = h.unacked /\ k.blocked = h.blocked
      /\ k \in CacheType
  BY DEF SameBut
<1>0. c \notin h.changes
  BY <1>t, CacheFields DEF Fresh
<1>2. CacheInv(k, q)
  BY <1>0, <1>1 DEF CacheInv, CellsExact, QueuesExact, Numbers
<1>3. \A u : Change(k, th, u) = Change(h, th, u)
  BY <1>1 DEF Change
<1>9. \A u \in All : th[u].at = "room" => th[u].own # c
  BY <1>t DEF Fresh, ThreadInv, Waits
<1>4. OwnCells(k, th)
  BY <1>1, <1>3, <1>9 DEF ThreadInv, OwnCells
<1>5. Waits(k, th)
  BY <1>1, <1>3 DEF ThreadInv, Waits
<1>6. Marked(k, th)
  BY <1>1, <1>3 DEF ThreadInv, Marked
<1>7. Blocked(h, th) => Blocked(k, th)
  BY <1>1 DEF Blocked
<1> QED  BY <1>2, <1>4, <1>5, <1>6, <1>7, <1>t DEF ThreadInv

\* The acknowledgements that a new sample wants.
LEMMA NewPairs ==
    ASSUME NEW M \in SUBSET Readers, NEW n
    PROVE  /\ IsFiniteSet({<<r, n>> : r \in M})
           /\ Cardinality({<<r, n>> : r \in M}) = Cardinality(M)
<1> DEFINE P == {<<r, n>> : r \in M}
           g == [r \in M |-> <<r, n>>]
<1>1. g \in Bijection(M, P)
  BY DEF Bijection, Injection, Surjection, IsInjective
<1>2. ExistsBijection(M, P)
  BY <1>1 DEF ExistsBijection
<1> QED  BY <1>2, Finite, FS_Bijection

\* Cache k is cache h with a sample for the readers M in cell c; queues q2 are
\* queues q with sample n for them.
Stored(h, k, c, M) ==
    /\ k \in CacheType /\ k.changes = h.changes \cup {c} /\ k.used = h.used
    /\ k.waiters = h.waiters /\ k.last = h.last + 1 /\ k.durable = h.durable
    /\ k.blocked = h.blocked /\ k.unacked = h.unacked + Cardinality(M)
    /\ k.cell[c].snr = h.last + 1 /\ k.cell[c].wack = Cardinality(M)
    /\ \A d \in Slots \ {c} : k.cell[d] = h.cell[d]

QueuedFor(q, q2, M, n) ==
    /\ q2 \in [Readers -> SUBSET Nat]
    /\ \A r \in Readers : q2[r] = IF r \in M THEN q[r] \cup {n} ELSE q[r]

\* What storing a cell for a set of matched readers changes.
LEMMA StoredFields ==
    ASSUME NEW h \in CacheType, NEW c \in Slots, NEW M \in SUBSET Readers, NEW k,
           k = [h EXCEPT !.changes = @ \cup {c}, !.last = @ + 1,
                         !.cell[c] = [snr |-> h.last + 1, wack |-> Cardinality(M), urgent |-> FALSE],
                         !.unacked = @ + Cardinality(M)]
    PROVE  Stored(h, k, c, M)
<1> DEFINE m == h.last + 1
           e == [snr |-> m, wack |-> Cardinality(M), urgent |-> FALSE]
           f == [h.cell EXCEPT ![c] = e]
           C == h.changes \cup {c}
           a == h.unacked + Cardinality(M)
<1>1. /\ h.cell \in [Slots -> CellType] /\ m \in Nat /\ a \in Nat
      /\ C \in SUBSET Slots /\ Cardinality(M) \in Nat
  BY CacheFields, Finite
<1>2. e \in CellType /\ e.snr = m /\ e.wack = Cardinality(M)
  BY <1>1 DEF CellType
<1>3. k = [h EXCEPT !.changes = C, !.last = m, !.cell = f, !.unacked = a]
  OBVIOUS
<1> HIDE DEF e
<1>4. f \in [Slots -> CellType] /\ f[c] = e /\ \A d \in Slots \ {c} : f[d] = h.cell[d]
  BY <1>1, <1>2
<1> HIDE DEF f, C, a, m
<1>5. /\ k.changes = C /\ k.used = h.used /\ k.cell = f /\ k.waiters = h.waiters
      /\ k.last = m /\ k.durable = h.durable /\ k.blocked = h.blocked
      /\ k.unacked = a /\ k \in CacheType
  BY <1>1, <1>3, <1>4 DEF CacheType
<1> QED  BY <1>2, <1>4, <1>5 DEF Stored, C, a, m

\* The sample is numbered, stored in the cell and queued.
LEMMA AddCell ==
    ASSUME NEW h, NEW q, NEW th, NEW c, NEW k, NEW q2, NEW M \in SUBSET Readers,
           CacheInv(h, q), ThreadInv(h, th), Fresh(h, th, c), Cardinality(h.changes) < MaxSamples,
           Stored(h, k, c, M), QueuedFor(q, q2, M, h.last + 1)
    PROVE  /\ CacheInv(k, q2) /\ ThreadInv(k, th) /\ (Blocked(h, th) => Blocked(k, th))
<1> DEFINE m == h.last + 1
<1>t. /\ h \in CacheType /\ q \in [Readers -> SUBSET Nat] /\ th \in [All -> ThreadType]
      /\ c \in Slots /\ c \in h.used \ h.changes
  BY DEF CacheInv, ThreadInv, Fresh
<1>h. /\ h.cell \in [Slots -> CellType] /\ h.last \in Nat /\ h.unacked \in Nat
      /\ h.changes \in SUBSET Slots /\ h.used \in SUBSET Slots
      /\ Cardinality(M) \in Nat /\ Cardinality(h.changes) \in Nat /\ IsFiniteSet(h.changes)
      /\ m \in Nat
  BY <1>t, CacheFields, Finite
<1>4. /\ k.changes = h.changes \cup {c} /\ k.used = h.used /\ k.waiters = h.waiters
      /\ k.last = m /\ k.durable = h.durable /\ k.blocked = h.blocked
      /\ k.unacked = h.unacked + Cardinality(M) /\ k \in CacheType
      /\ k.cell[c].snr = m /\ k.cell[c].wack = Cardinality(M)
      /\ \A d \in Slots \ {c} : k.cell[d] = h.cell[d]
  BY DEF Stored
<1>5. /\ q2 \in [Readers -> SUBSET Nat]
      /\ \A r \in Readers : q2[r] = IF r \in M THEN q[r] \cup {m} ELSE q[r]
  BY DEF QueuedFor
\* The number is new.
<1>6. /\ \A d \in h.changes : h.cell[d].snr # m /\ h.cell[d].snr \in Nat
      /\ \A r \in Readers : m \notin q[r]
  <2>1. \A d \in h.changes : h.cell[d].snr \in 1..h.last
    BY DEF CacheInv, CellsExact
  <2>2. \A d \in h.changes : h.cell[d].snr # m /\ h.cell[d].snr \in Nat
    BY <2>1, <1>h
  <2>3. \A r \in Readers : q[r] \subseteq Numbers(h)
    BY DEF CacheInv, QueuesExact
  <2> QED  BY <2>2, <2>3 DEF Numbers
<1>7. CellsExact(k, q2)
  <2>1. \A d \in k.changes : d = c \/ (d \in h.changes /\ k.cell[d] = h.cell[d] /\ d # c)
    BY <1>4, <1>h, <1>t
  <2>3. Lacking(q2, m) = M
    BY <1>5, <1>6 DEF Lacking
  <2>4. \A d \in h.changes : Lacking(q2, h.cell[d].snr) = Lacking(q, h.cell[d].snr)
    BY <1>5, <1>6 DEF Lacking
  <2>5. \A a, b \in k.changes : k.cell[a].snr = k.cell[b].snr => a = b
    BY <1>4, <1>6, <2>1 DEF CacheInv, CellsExact
  <2>6. \A d \in k.changes : k.cell[d].wack = Cardinality(Lacking(q2, k.cell[d].snr))
    BY <1>4, <2>1, <2>3, <2>4 DEF CacheInv, CellsExact
  <2>7. ASSUME NEW d \in k.changes PROVE k.cell[d].snr \in 1..k.last
    <3>1. CASE d = c
      BY <3>1, <1>4, <1>h
    <3>2. CASE d # c
      <4>1. k.cell[d] = h.cell[d] /\ h.cell[d].snr \in 1..h.last
        BY <2>1, <2>7, <3>2 DEF CacheInv, CellsExact
      <4> QED  BY <4>1, <1>4, <1>h
    <3> QED  BY <3>1, <3>2
  <2>8. k.changes \subseteq k.used
    BY <1>4, <1>t DEF CacheInv, CellsExact
  <2> QED  BY <2>5, <2>6, <2>7, <2>8 DEF CellsExact
<1>8. QueuesExact(k, q2)
  <2> DEFINE P == {<<r, m>> : r \in M}
  <2>1. Numbers(h) \cup {m} \subseteq Numbers(k)
    <3>1. c \in k.changes /\ k.cell[c].snr = m
      BY <1>4
    <3>2. \A d \in h.changes : d \in k.changes /\ k.cell[d] = h.cell[d]
      BY <1>4, <1>h, <1>t
    <3> QED  BY <3>1, <3>2 DEF Numbers
  <2>2. \A r \in Readers : q2[r] \subseteq Numbers(k)
    BY <2>1, <1>5 DEF CacheInv, QueuesExact
  <2>3. Unacked(q2) = Unacked(q) \cup P
    BY <1>5 DEF Unacked
  <2>4. Unacked(q) \cap P = {}
    BY <1>6 DEF Unacked
  <2>5. IsFiniteSet(P) /\ Cardinality(P) = Cardinality(M)
    BY NewPairs
  <2>6. IsFiniteSet(Unacked(q)) /\ Cardinality(Unacked(q)) = h.unacked
    BY DEF CacheInv, QueuesExact
  <2> HIDE DEF P
  <2>7. /\ IsFiniteSet(Unacked(q) \cup P)
        /\ Cardinality(Unacked(q) \cup P) = Cardinality(Unacked(q)) + Cardinality(P) - 0
    BY <2>4, <2>5, <2>6, FS_Union, FS_EmptySet
  <2> QED  BY <2>2, <2>3, <2>5, <2>6, <2>7, <1>4, <1>h DEF QueuesExact
<1>9. Cardinality(k.changes) <= MaxSamples
  <2>1. Cardinality(k.changes) = Cardinality(h.changes) + 1
    <3>1. Cardinality(h.changes \cup {c}) = Cardinality(h.changes) + 1
      BY <1>h, <1>t, FS_AddElement
    <3> QED  BY <3>1, <1>4
  <2> QED  BY <2>1, <1>h, WriteCacheAssumption
<1>10. CacheInv(k, q2)
  BY <1>4, <1>5, <1>7, <1>8, <1>9 DEF CacheInv
<1>11. \A u : Change(k, th, u) = Change(h, th, u)
  BY <1>4 DEF Change
<1>12. \A u \in All : th[u].at = "room" => /\ Change(h, th, u) # c /\ th[u].own # c /\ th[u].victim # c
                                           /\ Change(h, th, u) \in Slots \cup {Null}
  <2>1. ASSUME NEW u \in All, th[u].at = "room"
        PROVE  th[u].wp \in Contexts /\ th[u].wp # 0
    BY <2>1, Finite DEF ThreadInv, Waits
  <2> QED  BY <2>1, <1>t, CacheFields DEF Fresh, Change
<1>13. OwnCells(k, th)
  BY <1>4, <1>11, <1>12 DEF ThreadInv, OwnCells
<1>14. Waits(k, th)
  BY <1>4, <1>11, <1>12 DEF ThreadInv, Waits
<1>15. Marked(k, th)
  <2>1. \A u \in All : th[u].at = "room" =>
            /\ Change(h, th, u) \in k.changes <=> Change(h, th, u) \in h.changes
            /\ Change(h, th, u) \in Slots => k.cell[Change(h, th, u)] = h.cell[Change(h, th, u)]
    BY <1>4, <1>12
  <2>2. Marked(h, th)
    BY DEF ThreadInv
  <2> QED  BY <2>1, <2>2, <1>11, <1>h DEF Marked
<1>16. Blocked(h, th) => Blocked(k, th)
  BY <1>4, <1>h DEF Blocked
<1> QED  BY <1>10, <1>13, <1>14, <1>15, <1>16, <1>t DEF ThreadInv

\* A cache that is not empty has an oldest cell.
LEMMA OldestExists ==
    ASSUME NEW h \in CacheType, h.changes # {}
    PROVE  Oldest(h) \in h.changes /\ Older(h, Oldest(h)) = {}
<1>1. /\ h.changes \in SUBSET Slots /\ \A c \in h.changes : h.cell[c].snr \in Nat
  BY CacheFields
<1>2. Numbers(h) \in SUBSET Nat /\ Numbers(h) # {}
  BY <1>1 DEF Numbers
<1>3. PICK n \in Numbers(h) : \A i \in Numbers(h) : n <= i
  BY <1>2, LeastExists
<1>4. PICK c \in h.changes : h.cell[c].snr = n
  BY DEF Numbers
<1>5. \A d \in h.changes : h.cell[d].snr \in Numbers(h)
  BY DEF Numbers
<1>6. \A d \in h.changes : ~(h.cell[d].snr < h.cell[c].snr)
  BY <1>1, <1>2, <1>3, <1>4, <1>5
<1>7. Older(h, c) = {}
  BY <1>6 DEF Older
<1> QED  BY <1>7 DEF Oldest

\* MakeRoom removes acknowledged samples only, and stops at one that is not.
LEMMA MakeRoomProps ==
    ASSUME NEW h, NEW q, NEW th, CacheInv(h, q), ThreadInv(h, th), NEW k, k = MakeRoom(h)
    PROVE  /\ CacheInv(k, q) /\ ThreadInv(k, th) /\ (Blocked(h, th) => Blocked(k, th))
           /\ \A c : Fresh(h, th, c) => Fresh(k, th, c)
           /\ k.last = h.last /\ k.durable = h.durable /\ k.unacked = h.unacked
           /\ ~(Cardinality(k.changes) < MaxSamples) =>
                  Oldest(k) \in k.changes /\ k.cell[Oldest(k)].wack > 0
<1> DEFINE G == {c \in h.changes : /\ Cardinality(h.changes \ Older(h, c)) >= MaxSamples
                                   /\ \A d \in Older(h, c) \cup {c} : h.cell[d].wack = 0}
<1>t. h \in CacheType /\ h.changes \in SUBSET Slots
  BY CacheFields DEF CacheInv
<1>1. SameBut(h, k, h.changes \ G, h.used \ G)
  <2>1. k = [h EXCEPT !.changes = h.changes \ G, !.used = h.used \ G]
    BY DEF MakeRoom
  <2>2. h.changes \ G \in SUBSET Slots /\ h.used \ G \in SUBSET Slots
    BY <1>t, CacheFields
  <2> HIDE DEF G
  <2> QED  BY <1>t, <2>1, <2>2, SameButFields
<1>2. G \subseteq h.changes /\ \A c \in G : h.cell[c].wack = 0
  OBVIOUS
<1>d. \A c : c \in G <=> /\ c \in h.changes
                         /\ Cardinality(h.changes \ Older(h, c)) >= MaxSamples
                         /\ \A d \in Older(h, c) \cup {c} : h.cell[d].wack = 0
  BY Zenon
<1> HIDE DEF G
<1>3. /\ CacheInv(k, q) /\ ThreadInv(k, th) /\ (Blocked(h, th) => Blocked(k, th))
      /\ k.changes = h.changes \ G /\ k.used = h.used \ G
      /\ k.cell = h.cell /\ k.waiters = h.waiters /\ k.last = h.last
      /\ k.durable = h.durable /\ k.unacked = h.unacked
  <2>1. CacheInv(k, q) /\ ThreadInv(k, th) /\ (Blocked(h, th) => Blocked(k, th))
    BY <1>1, <1>2, RemoveCells
  <2> QED  BY <1>1, <2>1 DEF SameBut
<1>4. \A c : Fresh(h, th, c) => Fresh(k, th, c)
  BY <1>2, <1>3 DEF Fresh, Change
<1>5. ASSUME ~(Cardinality(k.changes) < MaxSamples)
      PROVE  Oldest(k) \in k.changes /\ k.cell[Oldest(k)].wack > 0
  <2> DEFINE o == Oldest(k)
  <2>t. k \in CacheType /\ k.changes \in SUBSET Slots
    BY <1>3, CacheFields DEF CacheInv
  <2>0. Cardinality(k.changes) \in Nat /\ Cardinality(k.changes) >= MaxSamples
    BY <1>5, <2>t, Finite, WriteCacheAssumption
  <2>1. k.changes # {}
    BY <2>0, FS_EmptySet, WriteCacheAssumption
  <2>2. o \in k.changes /\ Older(k, o) = {} /\ o \in h.changes /\ o \notin G
    BY <1>3, <2>1, <2>t, OldestExists
  <2> HIDE DEF o
  <2>3. Older(h, o) \subseteq G
    BY <1>3, <2>2 DEF Older
  <2>4. k.changes \in SUBSET (h.changes \ Older(h, o))
    BY <1>3, <2>3
  <2>5. Cardinality(h.changes \ Older(h, o)) >= MaxSamples
    <3>1. h.changes \ Older(h, o) \in SUBSET Slots
      BY <1>t
    <3>2. /\ Cardinality(k.changes) <= Cardinality(h.changes \ Older(h, o))
          /\ Cardinality(h.changes \ Older(h, o)) \in Nat
      BY <2>4, <3>1, Finite, FS_Subset
    <3> QED  BY <2>0, <3>2, WriteCacheAssumption
  <2>6. h.cell[o].wack # 0
    BY <1>2, <1>d, <2>2, <2>3, <2>5
  <2>7. h.cell[o].wack \in Nat
    BY <1>t, <2>2, CacheFields
  <2> QED  BY <1>3, <2>2, <2>6, <2>7 DEF o
<1> QED  BY <1>3, <1>4, <1>5

\* hc_add, whether it stores the sample, replaces one or waits for room, keeps the invariant.
LEMMA HcAdd ==
    ASSUME NEW h, NEW th, NEW t \in All, NEW c,
           thread \in [All -> ThreadType], th = [thread EXCEPT ![t] = Idle],
           CacheInv(h, queued), ThreadInv(h, th), Fresh(h, th, c), matched \subseteq Readers,
           hc_add(t, c, h)
    PROVE  /\ CacheInv(hc', queued') /\ ThreadInv(hc', thread')
           /\ \A r \in Readers \ matched : queued'[r] = queued[r]
           /\ Blocked(h, th) => Blocked(hc', thread')
<1> DEFINE k == MakeRoom(h)
           o == Oldest(k)
           n == Cardinality(matched)
<1>1. /\ CacheInv(k, queued) /\ ThreadInv(k, th) /\ (Blocked(h, th) => Blocked(k, th))
      /\ Fresh(k, th, c) /\ k.last = h.last /\ k.durable = h.durable
      /\ ~(Cardinality(k.changes) < MaxSamples) => o \in k.changes /\ k.cell[o].wack > 0
  BY MakeRoomProps
<1>t. /\ k \in CacheType /\ queued \in [Readers -> SUBSET Nat] /\ c \in Slots
      /\ th[t] = Idle /\ Idle.at = "idle"
  BY <1>1 DEF CacheInv, Fresh, Idle
<1> HIDE DEF k
<1>2. CASE Cardinality(k.changes) < MaxSamples
  <2> DEFINE new == [k EXCEPT !.changes = @ \cup {c}, !.last = @ + 1,
                         !.cell[c] = [snr |-> k.last + 1, wack |-> n, urgent |-> FALSE],
                         !.unacked = @ + n]
  <2>1. /\ hc' = IF n = 0 /\ ~k.durable THEN hc_remove_i(new, c) ELSE new
        /\ queued' = [r \in Readers |->
                        IF r \in matched THEN queued[r] \cup {k.last + 1} ELSE queued[r]]
        /\ thread' = th
    BY <1>1, <1>2 DEF hc_add, hc_add_i, k
  <2>2. Stored(k, new, c, matched)
    BY <1>t, StoredFields
  <2> HIDE DEF new
  <2>3. QueuedFor(queued, queued', matched, k.last + 1)
    <3>1. k.last + 1 \in Nat
      BY <1>t, CacheFields
    <3> QED  BY <2>1, <3>1, <1>t DEF QueuedFor
  <2>4. /\ \A r \in Readers \ matched : queued'[r] = queued[r]
        /\ c \in new.changes /\ new.cell[c].wack = n /\ new \in CacheType
    BY <2>2, <2>3 DEF QueuedFor, Stored
  <2>5. /\ CacheInv(new, queued') /\ ThreadInv(new, th) /\ (Blocked(k, th) => Blocked(new, th))
    BY <1>1, <1>2, <2>2, <2>3, AddCell
  <2> HIDE DEF n
  <2>6. CASE n = 0 /\ ~k.durable
    <3>1. hc' = [new EXCEPT !.changes = new.changes \ {c}, !.used = new.used \ {c}]
      BY <2>1, <2>4, <2>6 DEF hc_remove_i
    <3>2. new.changes \ {c} \in SUBSET Slots /\ new.used \ {c} \in SUBSET Slots
      BY <2>4, CacheFields
    <3>3. SameBut(new, hc', new.changes \ {c}, new.used \ {c})
      BY <2>4, <3>1, <3>2, SameButFields
    <3>4. new.cell[c].wack = 0
      BY <2>4, <2>6
    <3>5. CacheInv(hc', queued') /\ ThreadInv(hc', th) /\ (Blocked(new, th) => Blocked(hc', th))
      BY <2>4, <2>5, <3>3, <3>4, RemoveCell
    <3> QED  BY <2>1, <2>4, <2>5, <3>5, <1>1
  <2>7. CASE ~(n = 0 /\ ~k.durable)
    BY <2>1, <2>4, <2>5, <2>7, <1>1
  <2> QED  BY <2>6, <2>7
<1>3. CASE ~(Cardinality(k.changes) < MaxSamples)
  <2>1. /\ hc' = hc_wait_add(k, o) /\ UNCHANGED queued
        /\ thread' = [thread EXCEPT ![t] = [at |-> "room", own |-> c, victim |-> o,
                                           wp |-> WaitContext(k, o), woken |-> FALSE]]
    BY <1>3 DEF hc_add, k
  <2>2. o \in Slots /\ o # Null /\ o \in k.changes /\ k.cell[o].wack > 0
    BY <1>1, <1>3, <1>t, CacheFields, WriteCacheAssumption
  <2>3. thread' = [th EXCEPT ![t] = [at |-> IF o = Null THEN "acks" ELSE "room", own |-> c,
                              victim |-> o, wp |-> WaitContext(k, o), woken |-> FALSE]]
    <3>1. ASSUME NEW x PROVE [thread EXCEPT ![t] = x] = [th EXCEPT ![t] = x]
      OBVIOUS
    <3> QED  BY <2>1, <2>2, <3>1
  <2> HIDE DEF o
  <2>4. CacheInv(hc', queued) /\ ThreadInv(hc', thread') /\ (Blocked(k, th) => Blocked(hc', thread'))
    BY <2>1, <2>2, <2>3, <1>1, <1>t, Join
  <2> QED  BY <2>1, <2>4, <1>1
<1> QED  BY <1>2, <1>3
-----------------------------------------------------------------------------
(* Acknowledgements and matches.                                           *)

\* The samples that are acknowledged, and those that are removed.
Acked(h, S) == {c \in h.changes : h.cell[c].snr \in S}
Gone(h, S) == IF h.durable THEN {} ELSE {c \in Acked(h, S) : h.cell[c].wack = 1}

\* Cache k is cache h with acknowledgements for the cells A, without the cells G.
AckedBut(h, k, A, G) ==
    /\ k \in CacheType /\ k.changes = h.changes \ G /\ k.used = h.used \ G
    /\ k.last = h.last /\ k.durable = h.durable /\ k.blocked = h.blocked
    /\ k.unacked = h.unacked - Cardinality(A)
    /\ \A c \in Slots : /\ k.cell[c].snr = h.cell[c].snr
                        /\ k.cell[c].urgent <=> h.cell[c].urgent
                        /\ k.cell[c].wack = IF c \in A THEN h.cell[c].wack - 1
                                            ELSE h.cell[c].wack
    /\ \A w \in Contexts :
          /\ k.waiters[w].nwaiting = h.waiters[w].nwaiting
          /\ k.waiters[w].wchange <=> h.waiters[w].wchange
          /\ k.waiters[w].change =
                IF /\ h.waiters[w].nwaiting > 0 /\ h.waiters[w].change \in G
                   /\ h.cell[h.waiters[w].change].urgent
                THEN Null ELSE h.waiters[w].change

\* What an acknowledgement of a set of numbers changes.
LEMMA AckFields ==
    ASSUME NEW h \in CacheType, NEW S, NEW k, k = hc_acknowledged(h, S),
           \A c \in Acked(h, S) : h.cell[c].wack > 0, Cardinality(Acked(h, S)) <= h.unacked
    PROVE  AckedBut(h, k, Acked(h, S), Gone(h, S))
<1> DEFINE A == Acked(h, S)
           G == Gone(h, S)
           f == [c \in Slots |-> IF c \in A THEN [h.cell[c] EXCEPT !.wack = @ - 1] ELSE h.cell[c]]
           v == [w \in Contexts |->
                    IF /\ h.waiters[w].nwaiting > 0 /\ h.waiters[w].change \in G
                       /\ h.cell[h.waiters[w].change].urgent
                    THEN [h.waiters[w] EXCEPT !.change = Null] ELSE h.waiters[w]]
           a == h.unacked - Cardinality(A)
           C == h.changes \ G
           U == h.used \ G
<1>h. /\ h.cell \in [Slots -> CellType] /\ h.waiters \in [Contexts -> WaiterType]
      /\ h.changes \in SUBSET Slots /\ h.used \in SUBSET Slots /\ h.unacked \in Nat
      /\ h.durable \in BOOLEAN
  BY CacheFields
<1>1. k = [h EXCEPT !.cell = f, !.unacked = a, !.changes = C, !.used = U, !.waiters = v]
  BY DEF hc_acknowledged, Acked, Gone
<1>0. G \subseteq A /\ A \in SUBSET Slots
  BY <1>h DEF Acked, Gone
<1> HIDE DEF A, G
<1>2. /\ f \in [Slots -> CellType]
      /\ \A c \in Slots : /\ f[c].snr = h.cell[c].snr
                          /\ f[c].urgent <=> h.cell[c].urgent
                          /\ f[c].wack = IF c \in A THEN h.cell[c].wack - 1 ELSE h.cell[c].wack
  <2>1. ASSUME NEW c \in Slots
        PROVE  /\ f[c] \in CellType /\ f[c].snr = h.cell[c].snr
               /\ f[c].urgent <=> h.cell[c].urgent
               /\ f[c].wack = IF c \in A THEN h.cell[c].wack - 1 ELSE h.cell[c].wack
    <3> DEFINE e == h.cell[c]
    <3>1. e \in CellType /\ (c \in A => e.wack > 0)
      BY <1>h DEF A
    <3>2. f[c] = IF c \in A THEN [e EXCEPT !.wack = @ - 1] ELSE e
      OBVIOUS
    <3> HIDE DEF e, f
    <3>3. CASE c \in A
      BY <3>1, <3>2, <3>3 DEF CellType, e
    <3>4. CASE c \notin A
      BY <3>1, <3>2, <3>4 DEF e
    <3> QED  BY <3>3, <3>4
  <2>2. f = [c \in Slots |-> f[c]]
    OBVIOUS
  <2> HIDE DEF f
  <2> QED  BY <2>1, <2>2
<1>3. /\ v \in [Contexts -> WaiterType]
      /\ \A w \in Contexts :
            /\ v[w].nwaiting = h.waiters[w].nwaiting
            /\ v[w].wchange <=> h.waiters[w].wchange
            /\ v[w].change = IF /\ h.waiters[w].nwaiting > 0 /\ h.waiters[w].change \in G
                                /\ h.cell[h.waiters[w].change].urgent
                             THEN Null ELSE h.waiters[w].change
  <2>1. ASSUME NEW w \in Contexts
        PROVE  /\ v[w] \in WaiterType /\ v[w].nwaiting = h.waiters[w].nwaiting
               /\ v[w].wchange <=> h.waiters[w].wchange
               /\ v[w].change = IF /\ h.waiters[w].nwaiting > 0 /\ h.waiters[w].change \in G
                                   /\ h.cell[h.waiters[w].change].urgent
                                THEN Null ELSE h.waiters[w].change
    <3> DEFINE x == h.waiters[w]
               b == x.nwaiting > 0 /\ x.change \in G /\ h.cell[x.change].urgent
    <3>1. x \in WaiterType
      BY <1>h
    <3>2. v[w] = IF b THEN [x EXCEPT !.change = Null] ELSE x
      OBVIOUS
    <3> HIDE DEF v, x
    <3>3. CASE b
      <4>1. v[w] = [x EXCEPT !.change = Null]
        BY <3>2, <3>3
      <4>2. v[w] \in WaiterType /\ v[w].nwaiting = x.nwaiting /\ (v[w].wchange <=> x.wchange)
            /\ v[w].change = Null
        BY <3>1, <4>1 DEF WaiterType
      <4> QED  BY <3>3, <4>2 DEF x
    <3>4. CASE ~b
      BY <3>1, <3>2, <3>4 DEF x
    <3> QED  BY <3>3, <3>4
  <2>2. v = [w \in Contexts |-> v[w]]
    OBVIOUS
  <2> HIDE DEF v
  <2> QED  BY <2>1, <2>2
<1>4. a \in Nat /\ C \in SUBSET Slots /\ U \in SUBSET Slots
  <2>1. Cardinality(A) \in Nat /\ Cardinality(A) <= h.unacked
    BY <1>0, Finite DEF A
  <2> QED  BY <2>1, <1>h
<1> HIDE DEF f, v, a, C, U
<1>5. /\ k \in CacheType /\ k.changes = C /\ k.used = U /\ k.last = h.last
      /\ k.durable = h.durable /\ k.blocked = h.blocked /\ k.unacked = a
      /\ k.cell = f /\ k.waiters = v
  BY <1>1, <1>2, <1>3, <1>4 DEF CacheType
<1> QED  BY <1>2, <1>3, <1>5, Zenon DEF a, C, U, A, G, AckedBut

\* Threads ti are threads th, but for who was woken up.
WokenBut(th, ti) ==
    /\ ti \in [All -> ThreadType]
    /\ \A u \in All : /\ ti[u].at = th[u].at /\ ti[u].own = th[u].own
                      /\ ti[u].victim = th[u].victim /\ ti[u].wp = th[u].wp
                      /\ th[u].at = "idle" => ti[u] = th[u]

\* Reader r acknowledges samples S that its proxy has queued.
LEMMA Ack ==
    ASSUME NEW r \in Readers, NEW S \in SUBSET queued[r], CacheInv(hc, queued),
           ThreadInv(hc, thread), Acknowledge(r, S)
    PROVE  /\ CacheInv(hc', queued') /\ ThreadInv(hc', thread')
           /\ queued'[r] = queued[r] \ S /\ \A x \in Readers \ {r} : queued'[x] = queued[x]
           /\ Blocked(hc, thread) => Blocked(hc', thread')
<1> DEFINE A == Acked(hc, S)
           G == Gone(hc, S)
           P == {<<r, n>> : n \in S}
<1>t. /\ hc \in CacheType /\ queued \in [Readers -> SUBSET Nat] /\ thread \in [All -> ThreadType]
      /\ OwnCells(hc, thread) /\ Waits(hc, thread) /\ Marked(hc, thread)
      /\ CellsExact(hc, queued) /\ QueuesExact(hc, queued) /\ Cardinality(hc.changes) <= MaxSamples
  BY DEF CacheInv, ThreadInv
<1>h. /\ hc.changes \in SUBSET Slots /\ hc.used \in SUBSET Slots /\ hc.unacked \in Nat
      /\ hc.durable \in BOOLEAN /\ Null \notin Slots /\ 0 \notin Contexts
      /\ \A c \in Slots : hc.cell[c].wack \in Nat
      /\ \A w \in Contexts : hc.waiters[w].change \in Slots \cup {Null}
  BY <1>t, CacheFields, WriteCacheAssumption, Finite
<1>a. /\ A \in SUBSET hc.changes
      /\ \A c \in hc.changes : c \in A <=> hc.cell[c].snr \in S
      /\ \A c \in A : hc.cell[c].wack > 0
      /\ G \subseteq A /\ \A c \in G : hc.cell[c].wack = 1
      /\ G # {} => ~hc.durable
  <2>1. A \in SUBSET hc.changes /\ \A c \in hc.changes : c \in A <=> hc.cell[c].snr \in S
    BY DEF Acked
  <2>2. \A c \in A : hc.cell[c].wack > 0
    BY <2>1, LackedIsCounted
  <2> QED  BY <2>1, <2>2, <1>h DEF Gone
\* As many acknowledgements as samples.
<1>p. /\ Unacked(queued') = Unacked(queued) \ P /\ IsFiniteSet(Unacked(queued) \ P)
      /\ Cardinality(Unacked(queued) \ P) = hc.unacked - Cardinality(A)
      /\ Cardinality(A) \in Nat /\ Cardinality(A) <= hc.unacked
  <2>1. queued' = [queued EXCEPT ![r] = queued[r] \ S]
    BY DEF Acknowledge
  <2>2. Unacked(queued') = Unacked(queued) \ P
    <3>1. \A x \in Readers : queued'[x] = IF x = r THEN queued[r] \ S ELSE queued[x]
      BY <2>1, <1>t
    <3>2. ASSUME NEW y PROVE y \in Unacked(queued') <=> y \in Unacked(queued) /\ y \notin P
      <4>1. y \in Unacked(queued') <=> \E x \in Readers : \E n \in queued'[x] : y = <<x, n>>
        BY DEF Unacked
      <4>2. y \in Unacked(queued) <=> \E x \in Readers : \E n \in queued[x] : y = <<x, n>>
        BY DEF Unacked
      <4> QED  BY <3>1, <4>1, <4>2
    <3> QED  BY <3>2, Zenon
  <2>3. P \subseteq Unacked(queued)
    BY DEF Unacked
  <2>4. S = {hc.cell[c].snr : c \in A}
    <3>1. \A n \in S : \E c \in hc.changes : hc.cell[c].snr = n
      BY <1>t DEF QueuesExact, Numbers
    <3> QED  BY <3>1 DEF Acked
  <2>5. \A c, d \in A : hc.cell[c].snr = hc.cell[d].snr => c = d
    <3>1. \A c, d \in hc.changes : hc.cell[c].snr = hc.cell[d].snr => c = d
      BY <1>t DEF CellsExact
    <3> HIDE DEF A
    <3> QED  BY <3>1, <1>a
  <2>6. IsFiniteSet(S) /\ Cardinality(S) = Cardinality(A)
    <3>1. A \in SUBSET Slots
      BY <1>a, <1>h
    <3> HIDE DEF A
    <3> QED  BY <2>4, <2>5, <3>1, SameSize
  <2>7. IsFiniteSet(P) /\ Cardinality(P) = Cardinality(S)
    BY <2>6, PairCount
  <2>8. IsFiniteSet(Unacked(queued)) /\ Cardinality(Unacked(queued)) = hc.unacked
    BY <1>t DEF QueuesExact
  <2> HIDE DEF P
  <2>9. Unacked(queued) \cap P = P
    BY <2>3
  <2>10. /\ IsFiniteSet(Unacked(queued) \ P)
         /\ Cardinality(Unacked(queued) \ P) = Cardinality(Unacked(queued)) - Cardinality(P)
    <3> DEFINE U == Unacked(queued)
    <3>1. IsFiniteSet(U) /\ IsFiniteSet(P) /\ U \cap P = P
      BY <2>7, <2>8, <2>9
    <3> HIDE DEF U
    <3>2. IsFiniteSet(U \ P) /\ Cardinality(U \ P) = Cardinality(U) - Cardinality(U \cap P)
      BY <3>1, FS_Difference
    <3>3. IsFiniteSet(U \ P) /\ Cardinality(U \ P) = Cardinality(U) - Cardinality(P)
      BY <3>1, <3>2, Zenon
    <3> QED  BY <3>3 DEF U
  <2>11. Cardinality(Unacked(queued) \ P) \in Nat /\ Cardinality(P) \in Nat
    BY <2>7, <2>10, FS_CardinalityType
  <2> QED  BY <2>2, <2>6, <2>7, <2>8, <2>10, <2>11, <1>h
<1>1. AckedBut(hc, hc', A, G)
  BY <1>t, <1>a, <1>p, AckFields DEF Acknowledge
<1>s. ASSUME NEW w \in Contexts,
             \/ \E c \in A : hc.cell[c].wack = 1 /\ hc.cell[c].urgent /\ w \in hc_wait_lookup(hc, c)
             \/ hc'.unacked = 0 /\ hc.unacked # 0 /\ hc.blocked /\ w \in hc_wait_lookup(hc, Null)
      PROVE  w \in Signalled(hc, S)
  <2>1. hc' = hc_acknowledged(hc, S)
    BY DEF Acknowledge
  <2> QED  BY <1>s, <2>1 DEF Signalled, Acked
<1> HIDE DEF A, G, P
<1>q. /\ queued' \in [Readers -> SUBSET Nat]
      /\ queued'[r] = queued[r] \ S /\ \A x \in Readers \ {r} : queued'[x] = queued[x]
  BY <1>t DEF Acknowledge
<1>2. WokenBut(thread, thread') /\ \A u \in All : ~thread'[u].woken =>
          ~thread[u].woken /\ thread[u].wp \notin Signalled(hc, S)
  <2>1. Signalled(hc, S) \subseteq Contexts
    BY DEF Signalled
  <2>2. \A u \in All : thread[u].at = "idle" => thread[u].wp = 0
    BY <1>t DEF Waits, Idle
  <2> DEFINE sig == Signalled(hc, S)
  <2>3. thread' = [u \in All |-> IF thread[u].wp \in sig THEN [thread[u] EXCEPT !.woken = TRUE]
                                ELSE thread[u]]
    BY DEF Acknowledge
  <2> HIDE DEF sig
  <2>4. ASSUME NEW u \in All
        PROVE  /\ thread'[u] \in ThreadType /\ thread'[u].at = thread[u].at
               /\ thread'[u].own = thread[u].own /\ thread'[u].victim = thread[u].victim
               /\ thread'[u].wp = thread[u].wp
               /\ thread[u].at = "idle" => thread'[u] = thread[u]
               /\ ~thread'[u].woken => ~thread[u].woken /\ thread[u].wp \notin sig
    <3>1. thread[u] \in ThreadType
      BY <1>t
    <3>2. CASE thread[u].wp \in sig
      <4>1. thread'[u] = [thread[u] EXCEPT !.woken = TRUE] /\ thread[u].at # "idle"
        BY <2>1, <2>2, <2>3, <3>2, <1>h DEF sig
      <4> QED  BY <3>1, <4>1 DEF ThreadType
    <3>3. CASE thread[u].wp \notin sig
      BY <2>3, <3>1, <3>3
    <3> QED  BY <3>2, <3>3
  <2>5. thread' \in [All -> ThreadType]
    <3>1. thread' = [u \in All |-> thread'[u]]
      BY <2>3
    <3> QED  BY <3>1, <2>4
  <2> QED  BY <2>4, <2>5 DEF WokenBut, sig
<1>3. CacheInv(hc', queued')
  <2>k. /\ hc' \in CacheType /\ hc'.changes = hc.changes \ G /\ hc'.used = hc.used \ G
        /\ hc'.last = hc.last /\ hc'.unacked = hc.unacked - Cardinality(A)
        /\ \A c \in Slots : /\ hc'.cell[c].snr = hc.cell[c].snr
                            /\ hc'.cell[c].wack = IF c \in A THEN hc.cell[c].wack - 1
                                                  ELSE hc.cell[c].wack
    BY <1>1 DEF AckedBut
  <2>1. ASSUME NEW c \in hc.changes
        PROVE  hc'.cell[c].wack = Cardinality(Lacking(queued', hc.cell[c].snr))
    <3> DEFINE n == hc.cell[c].snr
               L == Lacking(queued, n)
    <3>1. hc.cell[c].wack = Cardinality(L) /\ L \in SUBSET Readers /\ IsFiniteSet(L)
      BY <1>t, Finite DEF CellsExact, Lacking
    <3>2. CASE c \in A
      <4>1. n \in S
        BY <3>2, <1>a
      <4>2. Lacking(queued', n) = L \ {r} /\ r \in L
        BY <4>1, <1>q DEF Lacking
      <4>3. Cardinality(L \ {r}) = Cardinality(L) - 1
        BY <3>1, <4>2, FS_RemoveElement
      <4> QED  BY <2>k, <3>1, <3>2, <4>2, <4>3, <1>h
    <3>3. CASE c \notin A
      <4>1. n \notin S
        BY <3>3, <1>a
      <4>2. Lacking(queued', n) = L
        BY <4>1, <1>q DEF Lacking
      <4> QED  BY <2>k, <3>1, <3>3, <4>2, <1>h
    <3> QED  BY <3>2, <3>3
  <2>2. CellsExact(hc', queued')
    <3>1. \A c \in hc'.changes : c \in hc.changes /\ c \in Slots /\ hc'.cell[c].snr = hc.cell[c].snr
      BY <2>k, <1>h
    <3>2. /\ hc.changes \subseteq hc.used
          /\ \A c, d \in hc.changes : hc.cell[c].snr = hc.cell[d].snr => c = d
          /\ \A c \in hc.changes : hc.cell[c].snr \in 1..hc.last
      BY <1>t DEF CellsExact
    <3> QED  BY <2>1, <2>k, <3>1, <3>2 DEF CellsExact
  <2>3. ASSUME NEW x \in Readers, NEW n \in queued'[x] PROVE n \in Numbers(hc')
    <3>1. n \in queued[x]
      BY <2>3, <1>q
    <3>2. PICK c \in hc.changes : hc.cell[c].snr = n
      BY <3>1, <1>t DEF QueuesExact, Numbers
    <3>3. hc'.cell[c].wack # 0
      <4>1. x \in Lacking(queued', n) /\ Lacking(queued', n) \in SUBSET Readers
        BY <2>3 DEF Lacking
      <4>2. Cardinality(Lacking(queued', n)) # 0
        BY <4>1, Finite, FS_EmptySet
      <4> QED  BY <2>1, <3>2, <4>2
    <3>4. c \notin G
      BY <2>k, <3>2, <3>3, <1>a, <1>h
    <3>5. c \in hc'.changes /\ hc'.cell[c].snr = n
      BY <2>k, <3>2, <3>4, <1>h
    <3> QED  BY <3>5 DEF Numbers
  <2>4. QueuesExact(hc', queued')
    BY <2>3, <2>k, <1>p DEF QueuesExact
  <2>5. Cardinality(hc'.changes) <= MaxSamples
    <3>1. hc'.changes \in SUBSET hc.changes
      BY <2>k
    <3>2. Cardinality(hc'.changes) <= Cardinality(hc.changes) /\ Cardinality(hc'.changes) \in Nat
          /\ Cardinality(hc.changes) \in Nat
      BY <3>1, <1>h, Finite, FS_Subset
    <3> QED  BY <3>2, <1>t, WriteCacheAssumption
  <2> QED  BY <2>k, <2>2, <2>4, <2>5, <1>q DEF CacheInv
\* What the threads' contexts say now.
<1>c. \A u \in All : thread[u].at # "idle" =>
          /\ thread[u].wp \in Contexts /\ hc.waiters[thread[u].wp].nwaiting > 0
          /\ Change(hc, thread, u) \in Slots \cup {Null}
          /\ Change(hc', thread', u) = IF Change(hc, thread, u) \in G THEN Null
                                       ELSE Change(hc, thread, u)
          /\ hc'.waiters[thread[u].wp].wchange <=> hc.waiters[thread[u].wp].wchange
  <2> SUFFICES ASSUME NEW u \in All, thread[u].at # "idle"
               PROVE  /\ thread[u].wp \in Contexts /\ hc.waiters[thread[u].wp].nwaiting > 0
                      /\ Change(hc, thread, u) \in Slots \cup {Null}
                      /\ Change(hc', thread', u) = IF Change(hc, thread, u) \in G THEN Null
                                                   ELSE Change(hc, thread, u)
                      /\ hc'.waiters[thread[u].wp].wchange <=> hc.waiters[thread[u].wp].wchange
    OBVIOUS
  <2> DEFINE w == thread[u].wp
             c == hc.waiters[w].change
  <2>1. w \in Contexts /\ hc.waiters[w].nwaiting > 0
    BY ContextCounts
  <2>2. Change(hc, thread, u) = c /\ Change(hc', thread', u) = hc'.waiters[w].change
    BY <1>2 DEF Change, WokenBut
  <2>3. c \in G => hc.cell[c].urgent
    <3>1. thread[u].at \in {"room", "acks"}
      BY <1>t DEF ThreadType
    <3>2. CASE thread[u].at = "acks"
      <4>1. c = Null
        BY <3>2, <2>2, <1>t DEF Waits
      <4> QED  BY <4>1, <1>a, <1>h
    <3>3. CASE thread[u].at = "room"
      <4>1. c \in hc.changes => hc.cell[c].urgent
        BY <3>3, <2>2, <1>t DEF Marked
      <4> QED  BY <4>1, <1>a
    <3> QED  BY <3>1, <3>2, <3>3
  <2>4. /\ hc'.waiters[w].change = IF /\ hc.waiters[w].nwaiting > 0 /\ c \in G /\ hc.cell[c].urgent
                                  THEN Null ELSE c
        /\ hc'.waiters[w].wchange <=> hc.waiters[w].wchange
    BY <2>1, <1>1 DEF AckedBut
  <2> HIDE DEF c, w
  <2>5. hc'.waiters[w].change = IF c \in G THEN Null ELSE c
    BY <2>1, <2>3, <2>4
  <2>6. c \in Slots \cup {Null}
    BY <2>1, <1>h DEF c
  <2> QED  BY <2>1, <2>2, <2>4, <2>5, <2>6 DEF w
<1>k. /\ hc'.changes = hc.changes \ G /\ hc'.used = hc.used \ G
      /\ hc'.durable = hc.durable /\ hc'.blocked = hc.blocked
      /\ hc'.unacked = hc.unacked - Cardinality(A)
      /\ \A c \in Slots : /\ hc'.cell[c].urgent <=> hc.cell[c].urgent
                          /\ hc'.cell[c].wack = IF c \in A THEN hc.cell[c].wack - 1
                                                ELSE hc.cell[c].wack
      /\ \A w \in Contexts : hc'.waiters[w].nwaiting = hc.waiters[w].nwaiting
  BY <1>1 DEF AckedBut
<1>w. /\ thread' \in [All -> ThreadType]
      /\ \A u \in All : /\ thread'[u].at = thread[u].at /\ thread'[u].own = thread[u].own
                        /\ thread'[u].victim = thread[u].victim /\ thread'[u].wp = thread[u].wp
                        /\ thread[u].at = "idle" => thread'[u] = thread[u] /\ thread[u].wp = 0
  <2>1. \A u \in All : thread[u].at = "idle" => thread[u].wp = 0
    BY <1>t DEF Waits, Idle
  <2> QED  BY <2>1, <1>2 DEF WokenBut
<1>4. OwnCells(hc', thread')
  <2> SUFFICES ASSUME NEW a \in All, thread[a].at = "room"
               PROVE  /\ thread[a].own \in hc'.used \ hc'.changes
                      /\ \A u \in All : /\ thread[u].own = thread[a].own => u = a
                                        /\ thread[u].victim # thread[a].own
                                        /\ thread[u].wp # 0 => Change(hc', thread', u) # thread[a].own
    BY <1>w DEF OwnCells
  <2>1. /\ thread[a].own \in hc.used \ hc.changes
        /\ \A u \in All : /\ thread[u].own = thread[a].own => u = a
                          /\ thread[u].victim # thread[a].own
                          /\ thread[u].wp # 0 => Change(hc, thread, u) # thread[a].own
    BY <1>t DEF OwnCells
  <2> QED  BY <2>1, <1>a, <1>c, <1>h, <1>k, <1>w
<1>5. Waits(hc', thread')
  <2>1. ASSUME NEW u \in All, thread[u].at = "room"
        PROVE  /\ thread[u].own \in Slots /\ thread[u].victim \in Slots
               /\ hc'.waiters[thread[u].wp].wchange
               /\ \/ Change(hc', thread', u) = thread[u].victim
                  \/ /\ Change(hc', thread', u) = Null /\ thread[u].victim \notin hc'.changes
                     /\ ~hc'.durable
    <3>1. /\ thread[u].own \in Slots /\ thread[u].victim \in Slots
          /\ hc.waiters[thread[u].wp].wchange
          /\ \/ Change(hc, thread, u) = thread[u].victim
             \/ /\ Change(hc, thread, u) = Null /\ thread[u].victim \notin hc.changes
                /\ ~hc.durable
      BY <2>1, <1>t DEF Waits
    <3> QED  BY <2>1, <3>1, <1>a, <1>c, <1>h, <1>k
  <2>2. ASSUME NEW u \in All, thread[u].at = "acks"
        PROVE  /\ thread[u].own = Null /\ thread[u].victim = Null
               /\ ~hc'.waiters[thread[u].wp].wchange /\ Change(hc', thread', u) = Null
    <3>1. /\ thread[u].own = Null /\ thread[u].victim = Null
          /\ ~hc.waiters[thread[u].wp].wchange /\ Change(hc, thread, u) = Null
      BY <2>2, <1>t DEF Waits
    <3> QED  BY <2>2, <3>1, <1>a, <1>c, <1>h
  <2>3. ASSUME NEW w \in Contexts
        PROVE  hc'.waiters[w].nwaiting = Cardinality({u \in All : thread'[u].wp = w})
    <3>1. hc.waiters[w].nwaiting = Cardinality({u \in All : thread[u].wp = w})
      BY <1>t DEF Waits
    <3>2. {u \in All : thread'[u].wp = w} = {u \in All : thread[u].wp = w}
      BY <1>w
    <3> QED  BY <3>1, <3>2, <1>k
  <2>4. \A u \in All : thread[u].at = "idle" => thread[u] = Idle
    BY <1>t DEF Waits
  <2> QED  BY <2>1, <2>2, <2>3, <2>4, <1>c, <1>w DEF Waits
<1>6. Marked(hc', thread')
  <2> SUFFICES ASSUME NEW a \in All, thread[a].at = "room"
               PROVE  /\ Change(hc', thread', a) \in hc'.changes => hc'.cell[Change(hc', thread', a)].urgent
                      /\ \A u \in All : thread[u].at = "room" /\ Change(hc', thread', u) = Change(hc', thread', a)
                              /\ Change(hc', thread', a) # Null => thread[u].wp = thread[a].wp
                      /\ Change(hc', thread', a) \in Slots \ hc'.changes =>
                              hc'.cell[Change(hc', thread', a)].wack = 0
                      /\ ~thread'[a].woken => /\ Change(hc', thread', a) \in hc'.changes
                                              /\ hc'.cell[Change(hc', thread', a)].wack > 0
    BY <1>w DEF Marked
  <2> DEFINE c == Change(hc, thread, a)
             d == hc'.waiters[thread'[a].wp].change
  <2>0. Change(hc', thread', a) = d
    BY DEF Change
  <2>1. /\ c \in hc.changes => hc.cell[c].urgent
        /\ c \in Slots \ hc.changes => hc.cell[c].wack = 0
        /\ ~thread[a].woken => c \in hc.changes /\ hc.cell[c].wack > 0
        /\ \A u \in All : thread[u].at = "room" /\ Change(hc, thread, u) = c /\ c # Null
                              => thread[u].wp = thread[a].wp
    BY <1>t DEF Marked
  <2>2. d = IF c \in G THEN Null ELSE c
    BY <2>0, <1>c
  <2>3. c \in Slots \cup {Null} /\ thread[a].wp \in Contexts
    BY <1>c
  <2>4. \A u \in All : thread[u].at = "room" => Change(hc', thread', u) =
              IF Change(hc, thread, u) \in G THEN Null ELSE Change(hc, thread, u)
    BY <1>c
  <2>5. ~thread'[a].woken => hc.cell[c].wack > 0 /\ c \in hc.changes /\ ~(c \in A /\ hc.cell[c].wack = 1)
    <3> SUFFICES ASSUME ~thread'[a].woken PROVE ~(c \in A /\ hc.cell[c].wack = 1)
      BY <2>1, <1>2
    <3>1. SUFFICES ASSUME c \in A, hc.cell[c].wack = 1 PROVE thread[a].wp \in Signalled(hc, S)
      BY <1>2
    <3>2. c # Null /\ hc.cell[c].urgent
      BY <3>1, <2>1, <1>a, <1>h
    <3>3. thread[a].wp \in hc_wait_lookup(hc, c)
      BY <2>3, <3>2, <1>c, <1>t DEF hc_wait_lookup, Change, Waits
    <3> QED  BY <2>3, <3>1, <3>2, <3>3, <1>s
  <2> HIDE DEF c, d
  <2>6. d \in hc'.changes => hc'.cell[d].urgent
    BY <2>1, <2>2, <2>3, <1>k, <1>h
  <2>7. d \in Slots \ hc'.changes => hc'.cell[d].wack = 0
    BY <2>1, <2>2, <2>3, <1>k, <1>h, <1>a
  <2>8. ~thread'[a].woken => d \in hc'.changes /\ hc'.cell[d].wack > 0
    BY <2>2, <2>5, <1>k, <1>h, <1>a
  <2>9. \A u \in All : thread[u].at = "room" /\ Change(hc', thread', u) = d /\ d # Null
                           => thread[u].wp = thread[a].wp
    BY <2>1, <2>2, <2>4, Zenon
  <2> QED  BY <2>0, <2>6, <2>7, <2>8, <2>9
<1>7. Blocked(hc, thread) => Blocked(hc', thread')
  <2> SUFFICES ASSUME Blocked(hc, thread), NEW a \in All, thread[a].at = "acks"
               PROVE  /\ hc'.durable /\ hc'.blocked
                      /\ \A u \in All : thread[u].at = "acks" => thread[u].wp = thread[a].wp
                      /\ ~thread'[a].woken => hc'.unacked > 0
    BY <1>w DEF Blocked
  <2>1. /\ hc.durable /\ hc.blocked
        /\ \A u \in All : thread[u].at = "acks" => thread[u].wp = thread[a].wp
        /\ ~thread[a].woken => hc.unacked > 0
    BY DEF Blocked
  <2>2. thread[a].wp \in Contexts /\ thread[a].wp \in hc_wait_lookup(hc, Null)
    BY <1>c, <1>t DEF hc_wait_lookup, Waits
  <2>3. ASSUME ~thread'[a].woken PROVE hc'.unacked > 0
    <3>1. thread[a].wp \notin Signalled(hc, S) /\ hc.unacked > 0
      BY <2>1, <2>3, <1>2
    <3>2. hc'.unacked # 0
      BY <3>1, <2>1, <2>2, <1>s
    <3> QED  BY <3>2, <1>k, <1>p, <1>h
  <2> QED  BY <2>1, <2>3, <1>k
<1> QED  BY <1>3, <1>4, <1>5, <1>6, <1>7, <1>q, <1>w DEF ThreadInv

\* Cache k is cache h with an acknowledgement more to come for each sample.
ReplayedBut(h, k) ==
    /\ k \in CacheType /\ k.changes = h.changes /\ k.used = h.used
    /\ k.last = h.last /\ k.waiters = h.waiters
    /\ k.durable = h.durable /\ k.blocked = h.blocked
    /\ k.unacked = h.unacked + Cardinality(h.changes)
    /\ \A c \in Slots : /\ k.cell[c].snr = h.cell[c].snr
                        /\ k.cell[c].urgent <=> h.cell[c].urgent
                        /\ k.cell[c].wack = IF c \in h.changes THEN h.cell[c].wack + 1
                                            ELSE h.cell[c].wack

\* What the replay of the cache for a new reader changes.
LEMMA ReplayFields ==
    ASSUME NEW h \in CacheType, NEW k,
           k = [h EXCEPT !.cell = [c \in Slots |-> IF c \in h.changes
                                                   THEN [h.cell[c] EXCEPT !.wack = @ + 1]
                                                   ELSE h.cell[c]],
                         !.unacked = @ + Cardinality(h.changes)]
    PROVE  ReplayedBut(h, k)
<1> DEFINE f == [c \in Slots |-> IF c \in h.changes THEN [h.cell[c] EXCEPT !.wack = @ + 1]
                                 ELSE h.cell[c]]
           a == h.unacked + Cardinality(h.changes)
<1>h. /\ h.changes \in SUBSET Slots /\ h.unacked \in Nat /\ h.cell \in [Slots -> CellType]
      /\ \A c \in Slots : h.cell[c].wack \in Nat /\ h.cell[c].snr \in Nat
      /\ a \in Nat /\ Cardinality(h.changes) \in Nat
  <2>1. /\ h.changes \in SUBSET Slots /\ h.unacked \in Nat /\ h.cell \in [Slots -> CellType]
        /\ \A c \in Slots : h.cell[c].wack \in Nat /\ h.cell[c].snr \in Nat
    BY CacheFields
  <2>2. Cardinality(h.changes) \in Nat
    BY <2>1, Finite
  <2> QED  BY <2>1, <2>2
<1>1. k = [h EXCEPT !.cell = f, !.unacked = a]
  OBVIOUS
<1>2. /\ f \in [Slots -> CellType]
      /\ \A c \in Slots : /\ f[c].snr = h.cell[c].snr
                          /\ f[c].urgent <=> h.cell[c].urgent
                          /\ f[c].wack = IF c \in h.changes THEN h.cell[c].wack + 1
                                         ELSE h.cell[c].wack
  <2>1. ASSUME NEW c \in Slots
        PROVE  /\ f[c] \in CellType /\ f[c].snr = h.cell[c].snr
               /\ f[c].urgent <=> h.cell[c].urgent
               /\ f[c].wack = IF c \in h.changes THEN h.cell[c].wack + 1 ELSE h.cell[c].wack
    <3> DEFINE e == h.cell[c]
    <3>1. e \in CellType
      BY <1>h
    <3>2. f[c] = IF c \in h.changes THEN [e EXCEPT !.wack = @ + 1] ELSE e
      OBVIOUS
    <3> HIDE DEF e, f
    <3>3. CASE c \in h.changes
      BY <3>1, <3>2, <3>3 DEF CellType, e
    <3>4. CASE c \notin h.changes
      BY <3>1, <3>2, <3>4 DEF e
    <3> QED  BY <3>3, <3>4
  <2>2. f = [c \in Slots |-> f[c]]
    OBVIOUS
  <2> HIDE DEF f
  <2> QED  BY <2>1, <2>2
<1> HIDE DEF f, a
<1>k. /\ k \in CacheType /\ k.changes = h.changes /\ k.used = h.used
      /\ k.last = h.last /\ k.waiters = h.waiters /\ k.cell = f
      /\ k.durable = h.durable /\ k.blocked = h.blocked /\ k.unacked = a
  BY <1>1, <1>2, <1>h DEF CacheType
<1> QED  BY <1>2, <1>k, Zenon DEF ReplayedBut, a

\* A durable cache is replayed to reader r, whose queue was empty.
LEMMA Match ==
    ASSUME NEW r \in Readers, queued[r] = {}, CacheInv(hc, queued), ThreadInv(hc, thread),
           ReplayedBut(hc, hc'), queued' = [queued EXCEPT ![r] = Numbers(hc)]
    PROVE  /\ CacheInv(hc', queued') /\ ThreadInv(hc', thread)
           /\ Blocked(hc, thread) => Blocked(hc', thread)
           /\ \A x \in Readers \ {r} : queued'[x] = queued[x]
<1> DEFINE f == hc'.cell
           P == {<<r, n>> : n \in Numbers(hc)}
<1>t. /\ hc \in CacheType /\ queued \in [Readers -> SUBSET Nat] /\ thread \in [All -> ThreadType]
      /\ OwnCells(hc, thread) /\ Waits(hc, thread) /\ Marked(hc, thread)
      /\ CellsExact(hc, queued) /\ QueuesExact(hc, queued) /\ Cardinality(hc.changes) <= MaxSamples
  BY DEF CacheInv, ThreadInv
<1>h. /\ hc.changes \in SUBSET Slots /\ hc.unacked \in Nat
      /\ \A c \in Slots : hc.cell[c].wack \in Nat /\ hc.cell[c].snr \in Nat
      /\ Cardinality(hc.changes) \in Nat
  BY <1>t, CacheFields, Finite
<1>2. \A c \in Slots : /\ f[c].snr = hc.cell[c].snr
                       /\ f[c].urgent <=> hc.cell[c].urgent
                       /\ f[c].wack = IF c \in hc.changes THEN hc.cell[c].wack + 1
                                      ELSE hc.cell[c].wack
  BY DEF ReplayedBut
<1>k. /\ hc' \in CacheType /\ hc'.changes = hc.changes /\ hc'.used = hc.used
      /\ hc'.last = hc.last /\ hc'.waiters = hc.waiters /\ hc'.cell = f
      /\ hc'.durable = hc.durable /\ hc'.blocked = hc.blocked
      /\ hc'.unacked = hc.unacked + Cardinality(hc.changes)
  BY DEF ReplayedBut
<1> HIDE DEF f
<1>c. \A u : Change(hc', thread, u) = Change(hc, thread, u)
  BY <1>k DEF Change
<1>q. /\ queued' \in [Readers -> SUBSET Nat]
      /\ queued'[r] = Numbers(hc) /\ \A x \in Readers \ {r} : queued'[x] = queued[x]
  <2>1. Numbers(hc) \in SUBSET Nat
    BY <1>h DEF Numbers
  <2> HIDE DEF P
  <2> QED  BY <2>1, <1>t
<1>3. CellsExact(hc', queued')
  <2>1. ASSUME NEW c \in hc.changes
        PROVE  f[c].wack = Cardinality(Lacking(queued', hc.cell[c].snr))
    <3> DEFINE n == hc.cell[c].snr
               L == Lacking(queued, n)
    <3>1. hc.cell[c].wack = Cardinality(L) /\ L \in SUBSET Readers /\ IsFiniteSet(L)
      BY <1>t, Finite DEF CellsExact, Lacking
    <3>2. n \in Numbers(hc)
      BY DEF Numbers
    <3>3. Lacking(queued', n) = L \cup {r} /\ r \notin L
      BY <3>2, <1>q DEF Lacking
    <3>4. Cardinality(L \cup {r}) = Cardinality(L) + 1
      BY <3>1, <3>3, FS_AddElement
    <3> QED  BY <3>1, <3>3, <3>4, <1>2, <1>h
  <2>2. \A c \in hc.changes : c \in Slots /\ f[c].snr = hc.cell[c].snr
    BY <1>2, <1>h
  <2>3. /\ hc.changes \subseteq hc.used
        /\ \A c, d \in hc.changes : hc.cell[c].snr = hc.cell[d].snr => c = d
        /\ \A c \in hc.changes : hc.cell[c].snr \in 1..hc.last
    BY <1>t DEF CellsExact
  <2> QED  BY <2>1, <2>2, <2>3, <1>k DEF CellsExact
<1>4. QueuesExact(hc', queued')
  <2>1. Numbers(hc') = Numbers(hc)
    <3>1. \A c \in hc.changes : f[c].snr = hc.cell[c].snr
      BY <1>2, <1>h
    <3> QED  BY <3>1, <1>k DEF Numbers
  <2>2. \A x \in Readers : queued'[x] \subseteq Numbers(hc')
    BY <2>1, <1>q, <1>t DEF QueuesExact
  <2>3. Unacked(queued') = Unacked(queued) \cup P /\ Unacked(queued) \cap P = {}
    <3>1. \A x \in Readers : queued'[x] = IF x = r THEN Numbers(hc) ELSE queued[x]
      BY <1>q
    <3>2. \A y : y \in P <=> \E n \in Numbers(hc) : y = <<r, n>>
      OBVIOUS
    <3> HIDE DEF P
    <3>3. ASSUME NEW y PROVE /\ y \in Unacked(queued') <=> y \in Unacked(queued) \/ y \in P
                             /\ ~(y \in Unacked(queued) /\ y \in P)
      <4>1. y \in Unacked(queued') <=> \E x \in Readers : \E n \in queued'[x] : y = <<x, n>>
        BY DEF Unacked
      <4>2. y \in Unacked(queued) <=> \E x \in Readers : \E n \in queued[x] : y = <<x, n>>
        BY DEF Unacked
      <4> QED  BY <3>1, <3>2, <4>1, <4>2
    <3> QED  BY <3>3, Zenon
  <2>4. IsFiniteSet(Numbers(hc)) /\ Cardinality(Numbers(hc)) = Cardinality(hc.changes)
    <3>1. \A c, d \in hc.changes : hc.cell[c].snr = hc.cell[d].snr => c = d
      BY <1>t DEF CellsExact
    <3> DEFINE N == Numbers(hc)
    <3>2. N = {hc.cell[c].snr : c \in hc.changes}
      BY DEF Numbers
    <3> HIDE DEF N
    <3>3. IsFiniteSet(N) /\ Cardinality(N) = Cardinality(hc.changes)
      BY <3>1, <3>2, <1>h, SameSize
    <3> QED  BY <3>3 DEF N
  <2>5. IsFiniteSet(P) /\ Cardinality(P) = Cardinality(Numbers(hc))
    BY <2>4, PairCount
  <2>6. IsFiniteSet(Unacked(queued)) /\ Cardinality(Unacked(queued)) = hc.unacked
    BY <1>t DEF QueuesExact
  <2> HIDE DEF P
  <2>7. /\ IsFiniteSet(Unacked(queued) \cup P)
        /\ Cardinality(Unacked(queued) \cup P) = Cardinality(Unacked(queued)) + Cardinality(P) - 0
    BY <2>3, <2>5, <2>6, FS_Union, FS_EmptySet
  <2>8. IsFiniteSet(Unacked(queued')) /\ hc'.unacked = Cardinality(Unacked(queued'))
    <3>1. Cardinality(Unacked(queued) \cup P) = hc.unacked + Cardinality(hc.changes)
      BY <2>4, <2>5, <2>6, <2>7, <1>h
    <3>2. Unacked(queued') = Unacked(queued) \cup P
      BY <2>3
    <3> QED  BY <2>7, <3>1, <3>2, <1>k, Zenon
  <2> QED  BY <2>2, <2>8 DEF QueuesExact
<1>5. CacheInv(hc', queued')
  BY <1>3, <1>4, <1>k, <1>q, <1>t DEF CacheInv
<1>6. OwnCells(hc', thread)
  BY <1>k, <1>c, <1>t DEF OwnCells
<1>7. Waits(hc', thread)
  BY <1>k, <1>c, <1>t DEF Waits
<1>8. Marked(hc', thread)
  <2> SUFFICES ASSUME NEW u \in All, thread[u].at = "room"
               PROVE  /\ Change(hc, thread, u) \in hc.changes => f[Change(hc, thread, u)].urgent
                      /\ \A x \in All : thread[x].at = "room" /\ Change(hc, thread, x) = Change(hc, thread, u)
                              /\ Change(hc, thread, u) # Null => thread[x].wp = thread[u].wp
                      /\ Change(hc, thread, u) \in Slots \ hc.changes => f[Change(hc, thread, u)].wack = 0
                      /\ ~thread[u].woken => /\ Change(hc, thread, u) \in hc.changes
                                             /\ f[Change(hc, thread, u)].wack > 0
    BY <1>c, <1>k DEF Marked
  <2> DEFINE c == Change(hc, thread, u)
  <2>1. /\ c \in hc.changes => hc.cell[c].urgent
        /\ c \in Slots \ hc.changes => hc.cell[c].wack = 0
        /\ ~thread[u].woken => c \in hc.changes /\ hc.cell[c].wack > 0
        /\ \A x \in All : thread[x].at = "room" /\ Change(hc, thread, x) = c /\ c # Null
                              => thread[x].wp = thread[u].wp
    BY <1>t DEF Marked
  <2> HIDE DEF c
  <2>2. /\ c \in hc.changes => f[c].urgent
        /\ c \in Slots \ hc.changes => f[c].wack = 0
        /\ ~thread[u].woken => c \in hc.changes /\ f[c].wack > 0
    BY <2>1, <1>2, <1>h
  <2> QED  BY <2>1, <2>2 DEF c
<1>9. Blocked(hc, thread) => Blocked(hc', thread)
  BY <1>k, <1>h DEF Blocked
<1> QED  BY <1>5, <1>6, <1>7, <1>8, <1>9, <1>q, <1>t DEF ThreadInv

\* A thread that finds that it has to wait on.
LEMMA Sleep ==
    ASSUME NEW h, NEW th, NEW ti, NEW t \in All, ThreadInv(h, th), th[t].at # "idle",
           th[t].at = "room" => Change(h, th, t) \in h.changes /\ h.cell[Change(h, th, t)].wack > 0,
           th[t].at = "acks" => h.unacked > 0,
           WokenBut(th, ti), \A u \in All : ~ti[u].woken => ~th[u].woken \/ u = t
    PROVE  ThreadInv(h, ti) /\ (Blocked(h, th) => Blocked(h, ti))
<1>t. /\ OwnCells(h, th) /\ Waits(h, th) /\ Marked(h, th)
  BY DEF ThreadInv
<1>4. /\ ti \in [All -> ThreadType]
      /\ \A u \in All : /\ ti[u].at = th[u].at /\ ti[u].own = th[u].own
                        /\ ti[u].victim = th[u].victim /\ ti[u].wp = th[u].wp
                        /\ th[u].at = "idle" => ti[u] = th[u]
  BY DEF WokenBut
<1>5. \A u \in All : Change(h, ti, u) = Change(h, th, u)
  BY <1>4 DEF Change
<1>6. OwnCells(h, ti)
  BY <1>4, <1>5, <1>t DEF OwnCells
<1>7. Waits(h, ti)
  <2>1. ASSUME NEW w \in Contexts PROVE h.waiters[w].nwaiting = Cardinality({u \in All : ti[u].wp = w})
    <3>1. {u \in All : ti[u].wp = w} = {u \in All : th[u].wp = w}
      BY <1>4
    <3> QED  BY <3>1, <1>t DEF Waits
  <2>2. ASSUME NEW u \in All
        PROVE  /\ ti[u].at = "idle" => ti[u] = Idle
               /\ ti[u].at # "idle" => ti[u].wp \in Contexts
               /\ ti[u].at = "room" =>
                     /\ ti[u].own \in Slots /\ ti[u].victim \in Slots /\ h.waiters[ti[u].wp].wchange
                     /\ \/ Change(h, ti, u) = ti[u].victim
                        \/ Change(h, ti, u) = Null /\ ti[u].victim \notin h.changes /\ ~h.durable
               /\ ti[u].at = "acks" =>
                     /\ ti[u].own = Null /\ ti[u].victim = Null
                     /\ ~h.waiters[ti[u].wp].wchange /\ Change(h, ti, u) = Null
    <3>1. Waits(h, th)
      BY <1>t
    <3> QED  BY <3>1, <1>4, <1>5 DEF Waits
  <2> QED  BY <2>1, <2>2 DEF Waits
<1>8. Marked(h, ti)
  <2> SUFFICES ASSUME NEW u \in All, th[u].at = "room"
               PROVE  /\ Change(h, th, u) \in h.changes => h.cell[Change(h, th, u)].urgent
                      /\ \A x \in All : th[x].at = "room" /\ Change(h, th, x) = Change(h, th, u)
                              /\ Change(h, th, u) # Null => th[x].wp = th[u].wp
                      /\ Change(h, th, u) \in Slots \ h.changes => h.cell[Change(h, th, u)].wack = 0
                      /\ ~ti[u].woken => /\ Change(h, th, u) \in h.changes
                                         /\ h.cell[Change(h, th, u)].wack > 0
    BY <1>4, <1>5 DEF Marked
  <2>1. CASE u = t
    BY <2>1, <1>t DEF Marked
  <2>2. CASE u # t
    BY <2>2, <1>4, <1>t DEF Marked
  <2> QED  BY <2>1, <2>2
<1>9. Blocked(h, th) => Blocked(h, ti)
  BY <1>4 DEF Blocked
<1> QED  BY <1>4, <1>6, <1>7, <1>8, <1>9 DEF ThreadInv

-----------------------------------------------------------------------------
(* The steps.                                                              *)

\* The invariant holds of the empty cache.
LEMMA WriteInit ==
    ASSUME Init PROVE WriteInv /\ Blocked(hc, thread)
<1> DEFINE f == [c \in Slots |-> [snr |-> 0, wack |-> 0, urgent |-> FALSE]]
           v == [w \in Contexts |-> NoWait]
<1>1. PICK d \in Durabilities :
          hc = [durable |-> d, changes |-> {}, cell |-> f, used |-> {}, last |-> 0,
                unacked |-> 0, blocked |-> FALSE, waiters |-> v]
  BY DEF Init
<1>2. f \in [Slots -> CellType] /\ v \in [Contexts -> WaiterType] /\ d \in BOOLEAN
  BY WriteCacheAssumption DEF CellType, WaiterType, NoWait
<1>3. \A w \in Contexts : v[w].nwaiting = 0
  BY DEF NoWait
<1> HIDE DEF f, v
<1>4. /\ hc \in CacheType /\ hc.changes = {} /\ hc.used = {} /\ hc.unacked = 0 /\ hc.waiters = v
  BY <1>1, <1>2 DEF CacheType
<1>5. /\ queued = [r \in Readers |-> {}] /\ matched = Readers /\ thread = [t \in All |-> Idle]
  BY DEF Init
<1>6. Idle \in ThreadType /\ Idle.at = "idle" /\ Idle.wp = 0
  BY DEF ThreadType, Idle
<1>7. CacheInv(hc, queued)
  <2>1. queued \in [Readers -> SUBSET Nat] /\ \A r \in Readers : queued[r] = {}
    BY <1>5
  <2>2. Unacked(queued) = {}
    BY <2>1 DEF Unacked
  <2>3. IsFiniteSet({}) /\ Cardinality({}) = 0
    BY FS_EmptySet
  <2>4. CellsExact(hc, queued)
    BY <1>4 DEF CellsExact
  <2>5. QueuesExact(hc, queued)
    BY <2>1, <2>2, <2>3, <1>4 DEF QueuesExact
  <2>6. Cardinality(hc.changes) <= MaxSamples
    BY <2>3, <1>4, WriteCacheAssumption
  <2> QED  BY <2>1, <2>4, <2>5, <2>6, <1>4 DEF CacheInv
<1>8. ThreadInv(hc, thread) /\ Blocked(hc, thread)
  <2>1. thread \in [All -> ThreadType] /\ \A t \in All : thread[t] = Idle
    BY <1>5, <1>6
  <2>2. ASSUME NEW w \in Contexts PROVE hc.waiters[w].nwaiting = Cardinality({t \in All : thread[t].wp = w})
    <3>1. {t \in All : thread[t].wp = w} = {}
      BY <2>1, <1>6, Finite
    <3> QED  BY <3>1, <1>3, <1>4, FS_EmptySet
  <2>3. Waits(hc, thread)
    BY <2>1, <2>2, <1>6 DEF Waits
  <2> QED  BY <2>1, <2>3, <1>6 DEF ThreadInv, OwnCells, Marked, Blocked
<1> QED  BY <1>5, <1>7, <1>8 DEF WriteInv

\* What a step of the cache has to establish.
Kept ==
    /\ CacheInv(hc', queued') /\ ThreadInv(hc', thread')
    /\ matched' \subseteq Readers /\ \A r \in Readers \ matched' : queued'[r] = {}
    /\ Waiting \subseteq {TRUE} /\ Blocked(hc, thread) => Blocked(hc', thread')

\* A write keeps the invariant, where the pool hands out no cell a blocked write still names.
LEMMA WriteStep ==
    ASSUME WriteInv, ~Reuse, NEW t \in All, dcps_write(t) PROVE Kept
<1> DEFINE c == CHOOSE c \in FreeCells : TRUE
           k == [hc EXCEPT !.used = hc.used \cup {c}]
<1>1. /\ thread[t].at = "idle" /\ FreeCells # {} /\ hc_add(t, c, k) /\ UNCHANGED matched
  BY DEF dcps_write
<1>2. c \in FreeCells
  BY <1>1
<1> HIDE DEF c
<1>3. /\ CacheInv(hc, queued) /\ ThreadInv(hc, thread) /\ matched \subseteq Readers
      /\ \A r \in Readers \ matched : queued[r] = {}
  BY DEF WriteInv
<1>4. /\ hc \in CacheType /\ thread \in [All -> ThreadType] /\ thread[t] = Idle
      /\ hc.used \in SUBSET Slots
  BY <1>1, <1>3, CacheFields DEF CacheInv, ThreadInv, Waits
<1>5. /\ c \in Slots \ hc.used
      /\ \A u \in All : thread[u].victim # c /\ (thread[u].wp # 0 => Change(hc, thread, u) # c)
  BY <1>2 DEF FreeCells, Change
<1>6. SameBut(hc, k, hc.changes, hc.used \cup {c})
  BY <1>4, <1>5, SameButFields
<1> HIDE DEF k
<1>7. CacheInv(k, queued) /\ ThreadInv(k, thread) /\ Fresh(k, thread, c)
      /\ (Blocked(hc, thread) => Blocked(k, thread))
  BY <1>3, <1>5, <1>6, TakeCell
<1>8. thread = [thread EXCEPT ![t] = Idle]
  BY <1>4
<1>9. /\ CacheInv(hc', queued') /\ ThreadInv(hc', thread')
      /\ \A r \in Readers \ matched : queued'[r] = queued[r]
      /\ Blocked(k, thread) => Blocked(hc', thread')
  BY <1>1, <1>3, <1>4, <1>7, <1>8, HcAdd
<1> QED  BY <1>1, <1>3, <1>7, <1>9 DEF Kept

\* Which sample a blocked write removes when its wait is over.
LEMMA WaitedStep ==
    ASSUME WriteInv, NEW t \in All, hc_wait_acked(t) PROVE Kept
<1> DEFINE w == thread[t].wp
           c == Change(hc, thread, t)
           own == thread[t].own
           o == thread[t].victim
           k == hc_wait_free(hc, w)
           ti == [thread EXCEPT ![t] = Idle]
<1>1. /\ CacheInv(hc, queued) /\ ThreadInv(hc, thread) /\ matched \subseteq Readers
      /\ \A r \in Readers \ matched : queued[r] = {}
      /\ thread[t].at = "room" /\ UNCHANGED matched
  BY DEF WriteInv, hc_wait_acked
<1>2. /\ hc \in CacheType /\ thread \in [All -> ThreadType]
      /\ own \in Slots /\ o \in Slots /\ c \in Slots \cup {Null} /\ w \in Contexts
      /\ c = o \/ (c = Null /\ o \notin hc.changes)
      /\ c \in Slots \ hc.changes => hc.cell[c].wack = 0
  <2>1. hc \in CacheType /\ thread \in [All -> ThreadType] /\ Waits(hc, thread) /\ Marked(hc, thread)
    BY <1>1 DEF CacheInv, ThreadInv
  <2>2. /\ own \in Slots /\ o \in Slots /\ w \in Contexts
        /\ c = o \/ (c = Null /\ o \notin hc.changes)
    BY <1>1, <2>1 DEF Waits
  <2>3. c \in Slots \ hc.changes => hc.cell[c].wack = 0
    BY <1>1, <2>1 DEF Marked
  <2>4. c \in Slots \cup {Null}
    BY <2>1, <2>2, CacheFields DEF Change
  <2> QED  BY <2>1, <2>2, <2>3, <2>4
<1>3. StillWaiting(w) <=> c # Null /\ hc.cell[c].wack > 0
  BY DEF StillWaiting, Change
<1>n. Null \notin Slots
  BY WriteCacheAssumption
<1>4. CASE StillWaiting(w)
  <2>1. thread' = [thread EXCEPT ![t].woken = FALSE] /\ UNCHANGED <<hc, queued>>
    BY <1>4 DEF hc_wait_acked
  <2>2. c \in hc.changes /\ hc.cell[c].wack > 0
    BY <1>2, <1>3, <1>4
  <2>3. /\ WokenBut(thread, thread')
        /\ \A u \in All : ~thread'[u].woken => ~thread[u].woken \/ u = t
    <3> DEFINE b == [thread[t] EXCEPT !.woken = FALSE]
    <3>1. thread' = [thread EXCEPT ![t] = b]
      BY <2>1
    <3>2. /\ b \in ThreadType /\ b.at = thread[t].at /\ b.own = thread[t].own
          /\ b.victim = thread[t].victim /\ b.wp = thread[t].wp
      BY <1>2 DEF ThreadType
    <3> HIDE DEF b
    <3>3. /\ thread' \in [All -> ThreadType] /\ thread'[t] = b
          /\ \A u \in All \ {t} : thread'[u] = thread[u]
      BY <3>1, <3>2, <1>2
    <3> QED  BY <3>2, <3>3, <1>1 DEF WokenBut
  <2>4. ThreadInv(hc, thread') /\ (Blocked(hc, thread) => Blocked(hc, thread'))
    BY <1>1, <2>2, <2>3, Sleep
  <2> QED  BY <1>1, <2>1, <2>4 DEF Kept
<1>5. CASE ~StillWaiting(w)
  <2> DEFINE h == hc_remove_i(k, o)
  <2>1. hc_add(t, own, h)
    BY <1>5 DEF hc_wait_acked
  <2>2. /\ CacheInv(k, queued) /\ ThreadInv(k, ti) /\ (Blocked(hc, thread) => Blocked(k, ti))
        /\ Fresh(k, ti, own) /\ k.changes = hc.changes
        /\ \A d \in Slots : k.cell[d].wack = hc.cell[d].wack
    BY <1>1, Leave
  <2> HIDE DEF k, ti, own
  <2>3. /\ CacheInv(h, queued) /\ ThreadInv(h, ti) /\ (Blocked(k, ti) => Blocked(h, ti))
        /\ Fresh(h, ti, own)
    <3>t. k \in CacheType /\ k.changes \in SUBSET Slots /\ k.used \in SUBSET Slots
      BY <2>2, CacheFields DEF CacheInv
    <3>1. CASE o \in k.changes
      <4>1. k.cell[o].wack = 0
        <5>1. c = o /\ hc.cell[o].wack \in Nat
          BY <2>2, <3>1, <1>2, CacheFields
        <5> QED  BY <5>1, <2>2, <1>2, <1>3, <1>5, <1>n
      <4>2. SameBut(k, h, k.changes \ {o}, k.used \ {o})
        <5>1. h = [k EXCEPT !.changes = k.changes \ {o}, !.used = k.used \ {o}]
          BY <3>1 DEF hc_remove_i
        <5>2. k.changes \ {o} \in SUBSET Slots /\ k.used \ {o} \in SUBSET Slots
          BY <3>t
        <5> HIDE DEF h
        <5> QED  BY <5>1, <5>2, <3>t, SameButFields
      <4> HIDE DEF h, o
      <4>3. CacheInv(h, queued) /\ ThreadInv(h, ti) /\ (Blocked(k, ti) => Blocked(h, ti))
        BY <2>2, <3>1, <4>1, <4>2, RemoveCell
      <4>4. Fresh(h, ti, own)
        BY <2>2, <3>1, <4>2 DEF Fresh, SameBut, Change
      <4> QED  BY <4>3, <4>4
    <3>2. CASE o \notin k.changes
      <4>1. h = k
        BY <3>2 DEF hc_remove_i
      <4> QED  BY <2>2, <4>1
    <3> QED  BY <3>1, <3>2
  <2>4. ti = [thread EXCEPT ![t] = Idle]
    BY DEF ti
  <2> HIDE DEF h
  <2>5. /\ CacheInv(hc', queued') /\ ThreadInv(hc', thread')
        /\ \A r \in Readers \ matched : queued'[r] = queued[r]
        /\ Blocked(h, ti) => Blocked(hc', thread')
    BY <1>1, <1>2, <2>1, <2>3, <2>4, HcAdd
  <2> QED  BY <1>1, <2>2, <2>3, <2>5 DEF Kept
<1> QED  BY <1>4, <1>5

\* A thread that begins to wait for acknowledgements keeps the invariant.
LEMMA AcksStep ==
    ASSUME WriteInv, NEW t \in All, hc_wait_acks(t) PROVE Kept
<1>1. /\ CacheInv(hc, queued) /\ ThreadInv(hc, thread) /\ matched \subseteq Readers
      /\ \A r \in Readers \ matched : queued[r] = {}
      /\ thread[t].at = "idle" /\ UNCHANGED <<queued, matched>>
      /\ (Waiting \subseteq {TRUE} => hc.durable) /\ hc.unacked > 0
      /\ hc' = hc_wait_add(hc, Null)
  BY DEF WriteInv, hc_wait_acks
<1> DEFINE c == Null
           k == hc_wait_add(hc, c)
           tj == [thread EXCEPT ![t] = [at |-> IF c = Null THEN "acks" ELSE "room", own |-> c,
                                        victim |-> c, wp |-> WaitContext(hc, c), woken |-> FALSE]]
<1>2. c \in Slots \cup {Null} /\ c = Null /\ hc' = k /\ thread' = tj
  BY <1>1 DEF hc_wait_acks
<1> HIDE DEF c
<1>t. CacheInv(hc, queued) /\ ThreadInv(hc, thread) /\ thread[t].at = "idle"
  BY <1>1
<1>c. c \in Slots \cup {Null} /\ c = Null
  BY <1>2
<1>3. /\ CacheInv(k, queued) /\ ThreadInv(k, tj)
      /\ Blocked(hc, thread) /\ (c = Null => hc.durable /\ hc.unacked > 0) => Blocked(k, tj)
  BY <1>t, <1>c, Join
<1> HIDE DEF k, tj
<1> QED  BY <1>1, <1>2, <1>3 DEF Kept

\* A woken thread that looks at the count again keeps the invariant.
LEMMA AckedStep ==
    ASSUME WriteInv, NEW t \in All, WaitAcksLoop(t) PROVE Kept
<1>1. /\ CacheInv(hc, queued) /\ ThreadInv(hc, thread) /\ matched \subseteq Readers
      /\ \A r \in Readers \ matched : queued[r] = {}
      /\ thread[t].at = "acks" /\ UNCHANGED <<queued, matched>>
      /\ thread \in [All -> ThreadType]
  BY DEF WriteInv, WaitAcksLoop, ThreadInv
<1>2. CASE hc.unacked > 0
  <2>1. thread' = [thread EXCEPT ![t].woken = FALSE] /\ UNCHANGED hc
    BY <1>2 DEF WaitAcksLoop
  <2>3. /\ WokenBut(thread, thread')
        /\ \A u \in All : ~thread'[u].woken => ~thread[u].woken \/ u = t
    <3> DEFINE b == [thread[t] EXCEPT !.woken = FALSE]
    <3>1. thread' = [thread EXCEPT ![t] = b]
      BY <2>1
    <3>2. /\ b \in ThreadType /\ b.at = thread[t].at /\ b.own = thread[t].own
          /\ b.victim = thread[t].victim /\ b.wp = thread[t].wp
      BY <1>1 DEF ThreadType
    <3> HIDE DEF b
    <3>3. /\ thread' \in [All -> ThreadType] /\ thread'[t] = b
          /\ \A u \in All \ {t} : thread'[u] = thread[u]
      BY <3>1, <3>2, <1>1
    <3> QED  BY <3>2, <3>3, <1>1 DEF WokenBut
  <2>4. ThreadInv(hc, thread') /\ (Blocked(hc, thread) => Blocked(hc, thread'))
    BY <1>1, <1>2, <2>3, Sleep
  <2> QED  BY <1>1, <2>1, <2>4 DEF Kept
<1>3. CASE ~(hc.unacked > 0)
  <2> DEFINE k == hc_wait_free(hc, thread[t].wp)
             ti == [thread EXCEPT ![t] = Idle]
  <2>1. thread' = ti /\ hc' = k
    BY <1>3 DEF WaitAcksLoop
  <2>0. CacheInv(hc, queued) /\ ThreadInv(hc, thread) /\ thread[t].at # "idle"
    BY <1>1
  <2>2. CacheInv(k, queued) /\ ThreadInv(k, ti) /\ (Blocked(hc, thread) => Blocked(k, ti))
    BY <2>0, Leave
  <2> HIDE DEF k, ti
  <2> QED  BY <1>1, <2>1, <2>2 DEF Kept
<1> QED  BY <1>2, <1>3

\* A wait that times out keeps the invariant.
LEMMA TimeOutStep ==
    ASSUME WriteInv, NEW t \in All, TimeOut(t) PROVE Kept
<1> DEFINE k == hc_wait_free(hc, thread[t].wp)
           own == thread[t].own
           ti == [thread EXCEPT ![t] = Idle]
<1>1. /\ CacheInv(hc, queued) /\ ThreadInv(hc, thread) /\ matched \subseteq Readers
      /\ \A r \in Readers \ matched : queued[r] = {}
      /\ thread[t].at # "idle" /\ UNCHANGED <<queued, matched>>
      /\ thread' = ti /\ hc' = [k EXCEPT !.used = k.used \ {own}]
  BY DEF WriteInv, TimeOut
<1>t. CacheInv(hc, queued) /\ ThreadInv(hc, thread) /\ thread[t].at # "idle"
  BY <1>1
<1>0. /\ CacheInv(k, queued) /\ ThreadInv(k, ti) /\ (Blocked(hc, thread) => Blocked(k, ti))
      /\ thread[t].at = "room" => Fresh(k, ti, own)
  BY <1>t, Leave
<1> HIDE DEF ti
<1>2. /\ CacheInv(k, queued) /\ ThreadInv(k, thread') /\ (Blocked(hc, thread) => Blocked(k, thread'))
      /\ thread[t].at = "room" => Fresh(k, thread', own)
  BY <1>0, <1>1
<1>3. own = Null \/ Fresh(k, thread', own)
  <2>1. thread[t].at \in {"room", "acks"} /\ Waits(hc, thread)
    BY <1>1 DEF ThreadInv, ThreadType
  <2> QED  BY <2>1, <1>2 DEF Waits
<1> HIDE DEF k, own
<1>4. SameBut(k, hc', k.changes, k.used \ {own})
  <2>1. k \in CacheType /\ k.used \ {own} \in SUBSET Slots
    BY <1>2, CacheFields DEF CacheInv
  <2> QED  BY <2>1, <1>1, SameButFields
<1>5. CacheInv(hc', queued) /\ ThreadInv(hc', thread') /\ (Blocked(k, thread') => Blocked(hc', thread'))
  BY <1>2, <1>3, <1>4, GiveCellBack
<1> QED  BY <1>1, <1>2, <1>5 DEF Kept

\* An acknowledgement, and a reader that is removed or added, keep the invariant.
LEMMA ReaderStep ==
    ASSUME WriteInv, NEW r \in Readers,
           sfw_rel_acknack(r) \/ rtps_matched_reader_remove(r) \/ rtps_matched_reader_add(r)
    PROVE  Kept
<1>1. /\ CacheInv(hc, queued) /\ ThreadInv(hc, thread) /\ matched \subseteq Readers
      /\ \A x \in Readers \ matched : queued[x] = {}
      /\ hc \in CacheType
  BY DEF WriteInv, CacheInv
<1>2. CASE sfw_rel_acknack(r)
  <2>1. PICK n \in queued[r] : Acknowledge(r, {s \in queued[r] : s <= n})
    BY <1>2 DEF sfw_rel_acknack
  <2> DEFINE S == {s \in queued[r] : s <= n}
  <2>2. S \in SUBSET queued[r] /\ Acknowledge(r, S)
    BY <2>1
  <2> HIDE DEF S
  <2>3. /\ CacheInv(hc', queued') /\ ThreadInv(hc', thread')
        /\ queued'[r] = queued[r] \ S /\ \A x \in Readers \ {r} : queued'[x] = queued[x]
        /\ Blocked(hc, thread) => Blocked(hc', thread')
    BY <2>2, <1>1, Ack
  <2>4. UNCHANGED matched
    BY <1>2 DEF sfw_rel_acknack
  <2> QED  BY <2>3, <2>4, <1>1 DEF Kept
<1>3. CASE rtps_matched_reader_remove(r)
  <2> DEFINE S == queued[r]
  <2>1. S \in SUBSET queued[r] /\ Acknowledge(r, S) /\ matched' = matched \ {r}
    BY <1>3 DEF rtps_matched_reader_remove
  <2>2. /\ CacheInv(hc', queued') /\ ThreadInv(hc', thread')
        /\ queued'[r] = queued[r] \ queued[r] /\ \A x \in Readers \ {r} : queued'[x] = queued[x]
        /\ Blocked(hc, thread) => Blocked(hc', thread')
    BY <2>1, <1>1, Ack
  <2> QED  BY <2>1, <2>2, <1>1 DEF Kept
<1>4. CASE rtps_matched_reader_add(r)
  <2>1. /\ r \notin matched /\ matched' = matched \cup {r} /\ UNCHANGED thread /\ queued[r] = {}
    BY <1>1, <1>4 DEF rtps_matched_reader_add
  <2>2. CASE hc.durable
    <3>1. ReplayedBut(hc, hc')
      <4>1. hc' = [hc EXCEPT !.cell = [c \in Slots |-> IF c \in hc.changes
                                                       THEN [hc.cell[c] EXCEPT !.wack = @ + 1]
                                                       ELSE hc.cell[c]],
                             !.unacked = @ + Cardinality(hc.changes)]
        BY <1>4, <2>2 DEF rtps_matched_reader_add
      <4> QED  BY <1>1, <4>1, ReplayFields
    <3>2. queued' = [queued EXCEPT ![r] = Numbers(hc)]
      BY <1>4, <2>2 DEF rtps_matched_reader_add
    <3>3. /\ CacheInv(hc', queued') /\ ThreadInv(hc', thread)
          /\ Blocked(hc, thread) => Blocked(hc', thread)
          /\ \A x \in Readers \ {r} : queued'[x] = queued[x]
      BY <3>1, <3>2, <2>1, <1>1, Match
    <3> QED  BY <3>3, <2>1, <1>1 DEF Kept
  <2>3. CASE ~hc.durable
    <3>1. UNCHANGED <<hc, queued>>
      BY <1>4, <2>3 DEF rtps_matched_reader_add
    <3> QED  BY <3>1, <2>1, <1>1 DEF Kept
  <2> QED  BY <2>2, <2>3
<1> QED  BY <1>2, <1>3, <1>4

\* Every step keeps the invariant.
LEMMA WriteNext ==
    ASSUME WriteInv, ~Reuse, [Next]_vars PROVE Kept
<1>1. CASE Next
  <2>1. ASSUME NEW t \in All, dcps_write(t) \/ hc_wait_acked(t) \/ hc_wait_acks(t)
                                \/ WaitAcksLoop(t) \/ TimeOut(t)
        PROVE  Kept
    BY <2>1, WriteStep, WaitedStep, AcksStep, AckedStep, TimeOutStep
  <2>2. ASSUME NEW r \in Readers, sfw_rel_acknack(r) \/ rtps_matched_reader_remove(r)
                                    \/ rtps_matched_reader_add(r)
        PROVE  Kept
    BY <2>2, ReaderStep
  <2> QED  BY <1>1, <2>1, <2>2 DEF Next
<1>2. CASE UNCHANGED vars
  <2>1. hc' = hc /\ queued' = queued /\ matched' = matched /\ thread' = thread
    BY <1>2 DEF vars
  <2> QED  BY <2>1 DEF Kept, WriteInv
<1> QED  BY <1>1, <1>2

-----------------------------------------------------------------------------
(* Theorems.                                                               *)

\* WriteInv holds in every state if no cell is handed out that a blocked write
\* still names.
LEMMA WriteInvariant ==
    ASSUME ~Reuse PROVE Spec => []WriteInv
<1>1. Init => WriteInv
  BY WriteInit
<1>2. WriteInv /\ [Next]_vars => WriteInv'
  BY WriteNext DEF Kept, WriteInv
<1> QED  BY <1>1, <1>2, PTL DEF Spec

\* Every variable keeps its type: c_wack, hc_unacked and the number of waiting
\* threads never go below zero (hc_acknowledged, hc_wait_free).
THEOREM WriteCacheTypeOK ==
    ASSUME ~Reuse PROVE Spec => []TypeOK
<1>1. WriteInv => TypeOK
  <2> SUFFICES ASSUME WriteInv PROVE TypeOK
    OBVIOUS
  <2>1. hc \in CacheType /\ queued \in [Readers -> SUBSET Nat] /\ matched \subseteq Readers
        /\ thread \in [All -> ThreadType]
    BY DEF WriteInv, CacheInv, ThreadInv
  <2> QED  BY <2>1, Zenon DEF TypeOK, CacheType, CellType, WaiterType, ThreadType
<1> QED  BY <1>1, WriteInvariant, PTL

\* hc_add and hc_remove_i never drop a sample that a matched reader has yet to
\* acknowledge, for any number of blocked writers, readers and samples.
THEOREM WriterKeepsUnacked ==
    ASSUME ~Reuse PROVE Spec => []KeepsUnacked
<1>1. WriteInv => KeepsUnacked
  BY DEF WriteInv, CacheInv, QueuesExact, KeepsUnacked
<1> QED  BY <1>1, WriteInvariant, PTL

\* hc_unacked is the number of acknowledgements that are still to come, and
\* writers that race for the same room do not overfill the cache.
THEOREM WriterUnackedExact ==
    ASSUME ~Reuse PROVE Spec => []UnackedExact
<1>1. WriteInv => UnackedExact
  BY DEF WriteInv, CacheInv, QueuesExact, UnackedExact
<1> QED  BY <1>1, WriteInvariant, PTL

\* hc_acknowledged wakes up everybody it should: a thread that sleeps in
\* hc_wait_acked or in hc_wait_acks still has something to wait for, when
\* wait_for_acknowledgments is called on durable writers only.
THEOREM WriterNoLostWakeup ==
    ASSUME ~Reuse, Waiting \subseteq {TRUE} PROVE Spec => []NoLostWakeup
<1>1. Init => AcksInv
  BY WriteInit DEF AcksInv
<1>2. AcksInv /\ [Next]_vars => AcksInv'
  BY WriteNext DEF Kept, WriteInv, AcksInv
<1>3. AcksInv => NoLostWakeup
  <2> SUFFICES ASSUME AcksInv, NEW t \in All
               PROVE  /\ thread[t].at = "room" /\ ~ thread[t].woken =>
                          LET c == hc.waiters[thread[t].wp].change
                          IN  c \in hc.changes /\ hc.cell[c].wack > 0 /\ hc.cell[c].urgent
                      /\ thread[t].at = "acks" /\ ~ thread[t].woken => hc.unacked > 0 /\ hc.blocked
    BY DEF NoLostWakeup
  <2>1. Marked(hc, thread) /\ Blocked(hc, thread)
    BY DEF AcksInv, WriteInv, ThreadInv
  <2> QED  BY <2>1 DEF Marked, Blocked, Change
<1> QED  BY <1>1, <1>2, <1>3, PTL DEF Spec

=============================================================================
