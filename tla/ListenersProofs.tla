-------------------------- MODULE ListenersProofs --------------------------
(***************************************************************************)
(* Proofs about Listeners, for any threads, readers and size of the pipe.  *)
(***************************************************************************)
EXTENDS Listeners, FiniteSetTheorems, WellFoundedInduction, TLAPS

-----------------------------------------------------------------------------
(* The inductive invariant.                                                *)

\* Where the core thread is in dds_work tells what it holds: events only while
\* it works, and the entity of the callback is the one that is marked.
CoreShape ==
    /\ core.at \in {"collect", "poll"} => core.events = {}
    /\ core.at = "poll" => ev.sleeping
    /\ core.at = "pick" => core.cb \in Readers /\ ev.running = core.cb
    /\ core.at \in {"call", "called"} =>
           core.cb \in Readers \X Entities /\ ev.running = core.cb[1]

\* What there is to do has its event, pending or taken by the core thread.
Signalled ==
    /\ ev.notify # <<>> => "notify" \in ev.pending \cup core.events
    /\ todo => "signal" \in ev.pending \cup core.events

\* An event that came while the core thread sleeps, wakes it up.
PollIsWoken ==
    core.at = "poll" /\ pipe = 0 =>
        ev.pending = {} \/ \E t \in Threads : thread[t].at = "wakeup"

EventInv == TypeOK /\ CoreShape /\ Signalled /\ PollIsWoken /\ NoDeadCallback

-----------------------------------------------------------------------------
(* Sequences of notifications.                                             *)

\* A set of numbers has a least element.
LEMMA LeastExists ==
    ASSUME NEW T \in SUBSET Nat, T # {}
    PROVE  \E i \in T : \A j \in T : i <= j
<1> DEFINE R == OpToRel(<, Nat)
<1>0. IsWellFoundedOn(R, Nat)
  BY NatLessThanWellFounded
<1>2. \A i \in T, j \in T : j < i => <<j, i>> \in R
  BY DEF OpToRel
<1> HIDE DEF R
<1>1. \E i \in T : \A j \in T : ~ (<<j, i>> \in R)
  BY <1>0, WFMin
<1>3. \E i \in T : \A j \in T : ~ (j < i)
  BY <1>1, <1>2, Zenon
<1>4. \A i \in T, j \in T : ~ (j < i) => i <= j
  BY SMT
<1> QED  BY <1>3, <1>4, Zenon

\* Every rank up to the size of a set of positions is taken.
LEMMA RankExists ==
    ASSUME NEW n \in Nat, NEW I \in SUBSET (1..n), NEW k \in 1..Cardinality(I)
    PROVE  \E i \in I : Rank(I, i) = k
<1> DEFINE T == {i \in 0..n : Rank(I, i) >= k}
<1>0. /\ \A J \in SUBSET (1..n) : IsFiniteSet(J) /\ Cardinality(J) \in Nat
      /\ \A i : {j \in I : j <= i} \in SUBSET (1..n)
  <2>1. IsFiniteSet(1..n)
    BY FS_Interval
  <2>2. \A J \in SUBSET (1..n) : IsFiniteSet(J)
    BY <2>1, FS_Subset
  <2> QED  BY <2>2, FS_CardinalityType
<1>1. /\ \A i : IsFiniteSet({j \in I : j <= i}) /\ Rank(I, i) \in Nat
      /\ Cardinality(I) \in Nat /\ k \in Nat /\ 0 < k /\ k <= Cardinality(I)
  BY <1>0 DEF Rank
<1>2. n \in T
  <2>1. \A j \in I : j <= n
    OBVIOUS
  <2>2. {j \in I : j <= n} = I
    BY <2>1, Zenon
  <2>3. Rank(I, n) = Cardinality(I)
    BY <2>2 DEF Rank
  <2> QED  BY <2>3, <1>1
<1>3. PICK i \in T : \A j \in T : i <= j
  <2>1. T \in SUBSET Nat
    BY SMT
  <2> HIDE DEF T
  <2> QED  BY <2>1, <1>2, LeastExists
<1>4. i \in 0..n /\ Rank(I, i) >= k
  BY <1>3
<1>5. i # 0
  <2>1. \A j \in I : ~ (j <= 0)
    BY SMT
  <2>2. {j \in I : j <= 0} = {}
    BY <2>1, Zenon
  <2>3. Rank(I, 0) = 0
    BY <2>2, FS_EmptySet DEF Rank
  <2> QED  BY <2>3, <1>1, <1>4
<1>6. i - 1 \in 0..n /\ i - 1 \notin T
  BY <1>3, <1>4, <1>5, SMT
<1>7. Rank(I, i - 1) \in Nat /\ Rank(I, i) \in Nat /\ Rank(I, i - 1) < k
  <2>1. Rank(I, i - 1) \in Nat /\ Rank(I, i) \in Nat
    BY <1>1, Zenon
  <2>2. ~ (Rank(I, i - 1) >= k)
    BY <1>6, Zenon
  <2> QED  BY <1>1, <2>1, <2>2
<1> DEFINE L == {j \in I : j <= i - 1}
<1>8. IsFiniteSet(L) /\ Cardinality(L) = Rank(I, i - 1)
  BY <1>1 DEF Rank
<1>9. \A j \in I : j <= i <=> (j <= i - 1 \/ j = i)
  BY <1>4, SMT
<1>10. CASE i \in I
  <2>1. {j \in I : j <= i} = L \cup {i}
    BY <1>9, <1>10, Zenon
  <2>2. i \notin L
    BY <1>4, SMT
  <2>3. Cardinality(L \cup {i}) = Cardinality(L) + 1
    BY <1>8, <2>2, FS_AddElement, Zenon
  <2>4. Rank(I, i) = Rank(I, i - 1) + 1
    BY <1>8, <2>1, <2>3 DEF Rank
  <2> QED  BY <1>1, <1>4, <1>7, <1>10, <2>4
<1>11. CASE i \notin I
  <2>1. {j \in I : j <= i} = L
    BY <1>9, <1>11, Zenon
  <2>2. Rank(I, i) = Rank(I, i - 1)
    BY <2>1 DEF Rank
  <2> QED  BY <1>1, <1>4, <1>7, <2>2
<1> QED  BY <1>10, <1>11

\* What is at some positions of a sequence is a sequence of its elements.
LEMMA PositionsType ==
    ASSUME NEW S, NEW q \in Seq(S), NEW I \in SUBSET DOMAIN q
    PROVE  /\ Positions(q, I) \in Seq(S)
           /\ \A k \in DOMAIN Positions(q, I) : \E i \in I : Positions(q, I)[k] = q[i]
<1>1. Len(q) \in Nat /\ DOMAIN q = 1..Len(q)
  OBVIOUS
<1>2. IsFiniteSet(I) /\ Cardinality(I) \in Nat
  <2>1. IsFiniteSet(1..Len(q))
    BY <1>1, FS_Interval
  <2> QED  BY <1>1, <2>1, FS_Subset, FS_CardinalityType
<1>3. \A k \in 1..Cardinality(I) : \E i \in I : Rank(I, i) = k
  BY <1>1, RankExists
<1>4. \A k \in 1..Cardinality(I) : (CHOOSE i \in I : Rank(I, i) = k) \in I
  BY <1>3
<1>5. \A k \in 1..Cardinality(I) : q[CHOOSE i \in I : Rank(I, i) = k] \in S
  BY <1>1, <1>4
<1>6. DOMAIN Positions(q, I) = 1..Cardinality(I)
      /\ \A k \in 1..Cardinality(I) : Positions(q, I)[k] = q[CHOOSE i \in I : Rank(I, i) = k]
  BY DEF Positions
<1>7. Positions(q, I) \in [1..Cardinality(I) -> S]
  BY <1>5, <1>6 DEF Positions
<1> QED  BY <1>2, <1>4, <1>6, <1>7

EvType == [pending : SUBSET {"notify", "signal"}, notify : Seq(Readers),
           sleeping : BOOLEAN, running : Readers \cup {Null}]

\* dds_notify queues a notification of one reader, marks the work pending and wakes nobody.
LEMMA NotifyType ==
    ASSUME NEW q \in EvType, NEW r \in Readers
    PROVE  LET p == dds_notify(q, r)
           IN  /\ p \in EvType /\ p # q
               /\ p.sleeping = q.sleeping /\ p.running = q.running
               /\ p.pending = q.pending \cup {"notify"} /\ p.notify # <<>>
               /\ \A i \in DOMAIN p.notify :
                      p.notify[i] = r \/ (i \in DOMAIN q.notify /\ p.notify[i] = q.notify[i])
<1> DEFINE p == dds_notify(q, r)
<1>1. /\ p.sleeping = q.sleeping /\ p.running = q.running
      /\ p.pending = q.pending \cup {"notify"} /\ p.notify = Append(q.notify, r)
  BY DEF dds_notify, EvType
<1>2. q.notify \in Seq(Readers) /\ Append(q.notify, r) \in Seq(Readers)
  BY DEF EvType
<1>3. p \in EvType
  <2>1. q.pending \cup {"notify"} \in SUBSET {"notify", "signal"}
    BY DEF EvType
  <2>2. p = [q EXCEPT !.notify = Append(q.notify, r), !.pending = q.pending \cup {"notify"}]
    BY DEF dds_notify
  <2> QED  BY <1>2, <2>1, <2>2 DEF EvType
<1>4. Len(Append(q.notify, r)) = Len(q.notify) + 1 /\ Len(q.notify) \in Nat
  BY <1>2
<1>5. Append(q.notify, r) # q.notify /\ Append(q.notify, r) # <<>>
  <2>1. Append(q.notify, r) # q.notify
    BY <1>4
  <2>2. Len(<<>>) = 0 /\ Len(Append(q.notify, r)) # 0
    BY <1>4
  <2> QED  BY <2>1, <2>2
<1>6. \A i \in DOMAIN p.notify :
          p.notify[i] = r \/ (i \in DOMAIN q.notify /\ p.notify[i] = q.notify[i])
  BY <1>1, <1>2
<1>7. p # q /\ p.notify # <<>>
  BY <1>1, <1>5
<1> QED  BY <1>1, <1>3, <1>6, <1>7

\* Purging removes every notification of the entity, and adds none.
LEMMA PurgeType ==
    ASSUME NEW q \in EvType, NEW e
    PROVE  LET p == dds_purge_notifications(q, e)
           IN  /\ p \in EvType
               /\ p.sleeping = q.sleeping /\ p.running = q.running /\ p.pending = q.pending
               /\ q.notify = <<>> => p.notify = <<>>
               /\ \A i \in DOMAIN p.notify :
                      \E j \in DOMAIN q.notify : p.notify[i] = q.notify[j] /\ q.notify[j] # e
<1> DEFINE p == dds_purge_notifications(q, e)
           I == {i \in DOMAIN q.notify : q.notify[i] # e}
<1>1. q.notify \in Seq(Readers) /\ I \in SUBSET DOMAIN q.notify
  BY DEF EvType
<1>2. p = [q EXCEPT !.notify = Positions(q.notify, I)]
  BY DEF dds_purge_notifications
<1>3. /\ Positions(q.notify, I) \in Seq(Readers)
      /\ \A k \in DOMAIN Positions(q.notify, I) :
             \E i \in I : Positions(q.notify, I)[k] = q.notify[i]
  BY <1>1, PositionsType
<1> HIDE DEF p
<1>4. /\ p.sleeping = q.sleeping /\ p.running = q.running /\ p.pending = q.pending
      /\ p.notify = Positions(q.notify, I)
  BY <1>2 DEF EvType
<1>5. p \in EvType
  BY <1>2, <1>3 DEF EvType
<1>6. ASSUME q.notify = <<>> PROVE p.notify = <<>>
  <2>1. I = {}
    BY <1>6
  <2>2. DOMAIN p.notify = {}
    BY <1>3, <1>4, <2>1
  <2> QED  BY <1>3, <1>4, <2>2
<1> QED  BY <1>3, <1>4, <1>5, <1>6 DEF p

-----------------------------------------------------------------------------
(* The event loop.                                                         *)

CoreType == [at : {"collect", "poll", "work", "pick", "call", "called", "done"},
             events : SUBSET {"notify", "signal"}, again : BOOLEAN,
             cb : {Null} \cup Readers \cup (Readers \X Entities)]
ThreadType == [at : {"idle", "wakeup", "waiting", "asleep"}, ep : {Null} \cup Entities]
ReaderType == [status : BOOLEAN, data : BOOLEAN, alive : BOOLEAN]

\* The event loop starts with no work and no notification.
LEMMA EventInit == Init => EventInv
<1> SUFFICES ASSUME Init PROVE EventInv
  OBVIOUS
<1>1. ev \in EvType /\ ev.pending = {} /\ ev.notify = <<>>
  BY DEF Init, EvType
<1>2. core \in CoreType /\ core.at = "collect" /\ core.events = {}
  BY DEF Init, CoreStart, CoreType
<1>3. /\ pipe \in 0..MaxPipe /\ todo = FALSE
      /\ reader \in [Readers -> ReaderType]
      /\ thread \in [Threads -> ThreadType]
  BY ListenersAssumption DEF Init, ReaderType, ThreadType, Idle
<1>l. listener \in [Entities -> BOOLEAN]
  <2>1. \A e : (IF e = Sub THEN Inherit ELSE ~Inherit) \in BOOLEAN
    BY ListenersAssumption
  <2> QED  BY <2>1 DEF Init
<1>4. TypeOK
  BY <1>1, <1>2, <1>3, <1>l DEF TypeOK, EvType, CoreType, ReaderType, ThreadType
<1>5. DOMAIN ev.notify = {}
  BY <1>1
<1> QED  BY <1>1, <1>2, <1>3, <1>4, <1>5
         DEF EventInv, CoreShape, Signalled, PollIsWoken, NoDeadCallback

\* An announcement of reader r: what every producer of data does to the events.
LEMMA AnnouncedType ==
    ASSUME NEW q \in EvType, NEW st, NEW r \in Readers
    PROVE  LET p == Announced(q, st, r)
           IN  /\ p \in EvType
               /\ p.sleeping = q.sleeping /\ p.running = q.running
               /\ q.pending \subseteq p.pending
               /\ p # q => p.notify # <<>> /\ p.pending = q.pending \cup {"notify"}
               /\ \A i \in DOMAIN p.notify :
                      p.notify[i] = r \/ (i \in DOMAIN q.notify /\ p.notify[i] = q.notify[i])
<1>1. CASE Active(r) /\ ~ st
  BY <1>1, NotifyType DEF Announced
<1>2. CASE ~ (Active(r) /\ ~ st)
  BY <1>2 DEF Announced
<1> QED  BY <1>1, <1>2

\* The conjuncts that an application thread can disturb.  It changes neither
\* core nor the mark, and does not put the core thread to sleep.
LEMMA ThreadStep ==
    ASSUME EventInv, UNCHANGED core, TypeOK',
           ev'.running = ev.running, ev'.sleeping = ev.sleeping,
           ev.pending \subseteq ev'.pending,
           ev'.notify # <<>> => ev.notify # <<>> \/ "notify" \in ev'.pending,
           todo' => todo \/ "signal" \in ev'.pending,
           \A t \in Threads : thread[t].at = "wakeup" => thread'[t].at = "wakeup" \/ pipe' > 0,
           pipe <= pipe',
           ev.sleeping /\ ev'.pending # {} =>
               ev.pending # {} \/ pipe' > 0 \/ \E t \in Threads : thread'[t].at = "wakeup",
           \A i \in DOMAIN ev'.notify : reader'[ev'.notify[i]].alive,
           \A r \in Readers : reader[r].alive /\ ~reader'[r].alive => ev.running # r
    PROVE  EventInv'
<1>1. TypeOK /\ CoreShape /\ Signalled /\ PollIsWoken /\ NoDeadCallback
  BY DEF EventInv
<1>2. CoreShape' /\ Signalled'
  BY <1>1 DEF CoreShape, Signalled
<1>3. PollIsWoken'
  <2>1. pipe \in Nat /\ pipe' \in Nat
    BY <1>1, ListenersAssumption DEF TypeOK
  <2>2. pipe' = 0 => pipe = 0 /\ ~ (pipe' > 0)
    BY <2>1
  <2> SUFFICES ASSUME core.at = "poll", pipe' = 0, ev'.pending # {}
               PROVE  \E t \in Threads : thread'[t].at = "wakeup"
    BY DEF PollIsWoken
  <2>3. ev.sleeping /\ pipe = 0
    BY <1>1, <2>2 DEF CoreShape
  <2> QED  BY <1>1, <2>2, <2>3 DEF PollIsWoken
<1>4. NoDeadCallback'
  <2>1. core.at = "pick" => core.cb \in Readers /\ reader[core.cb].alive /\ ev.running = core.cb
    BY <1>1 DEF CoreShape, NoDeadCallback
  <2>2. core.at \in {"call", "called"} =>
            core.cb[1] \in Readers /\ reader[core.cb[1]].alive /\ ev.running = core.cb[1]
    BY <1>1 DEF CoreShape, NoDeadCallback
  <2> QED  BY <2>1, <2>2 DEF NoDeadCallback
<1> QED  BY <1>2, <1>3, <1>4 DEF EventInv

\* What application threads do to the event loop and to the listeners keeps EventInv.
LEMMA ThreadsKeep ==
    ASSUME EventInv, NEW t \in Threads,
           \/ dds_wakeup(t) \/ dds_signal(t) \/ dds_wait_listener(t)
           \/ \E r \in Readers : \/ NewData(t, r) \/ DDS_DataReader_set_listener(t, r)
                                 \/ delete_datareader(t, r)
           \/ \E e \in Entities : RemoveListener(t, e)
    PROVE  EventInv'
<1>t. TypeOK /\ Signalled /\ NoDeadCallback
  BY DEF EventInv
<1>e. ev \in EvType /\ core \in CoreType
  BY <1>t DEF TypeOK, EvType, CoreType
<1>p. /\ pipe \in 0..MaxPipe /\ pipe \in Nat /\ MaxPipe \in Nat
      /\ reader \in [Readers -> ReaderType] /\ listener \in [Entities -> BOOLEAN]
      /\ thread \in [Threads -> ThreadType] /\ todo \in BOOLEAN
  BY <1>t, ListenersAssumption DEF TypeOK, ReaderType, ThreadType
<1>n. \A i \in DOMAIN ev.notify : ev.notify[i] \in Readers /\ reader[ev.notify[i]].alive
  BY <1>t, <1>e DEF NoDeadCallback, EvType
<1> USE DEF EvType, CoreType, ReaderType, ThreadType
<1>1. CASE dds_wakeup(t)
  <2>1. thread' \in [Threads -> ThreadType] /\ \A u \in Threads \ {t} : thread'[u] = thread[u]
    BY <1>1, <1>p DEF dds_wakeup, Idle
  <2>2. pipe' \in 0..MaxPipe /\ pipe' > 0 /\ pipe <= pipe'
    BY <1>1, <1>p DEF dds_wakeup
  <2>3. UNCHANGED <<ev, reader, listener, todo, core>>
    BY <1>1 DEF dds_wakeup
  <2>4. TypeOK'
    BY <1>t, <2>1, <2>2, <2>3 DEF TypeOK
  <2> QED  BY <2>1, <2>2, <2>3, <2>4, <1>n, ThreadStep
<1>2. CASE dds_signal(t)
  <2>1. /\ ev'.pending = ev.pending \cup {"signal"} /\ ev'.notify = ev.notify
        /\ ev'.sleeping = ev.sleeping /\ ev'.running = ev.running
    BY <1>2, <1>e DEF dds_signal
  <2>2. ev' \in EvType
    <3>1. ev.pending \cup {"signal"} \in SUBSET {"notify", "signal"}
      BY <1>e
    <3> QED  BY <1>2, <1>e, <3>1 DEF dds_signal
  <2>3. pipe' \in 0..MaxPipe /\ pipe <= pipe' /\ (ev.pending = {} /\ ev.sleeping => pipe' > 0)
    BY <1>2, <1>p DEF dds_signal
  <2>4. todo' \in BOOLEAN /\ UNCHANGED <<reader, listener, core, thread>>
    BY <1>2 DEF dds_signal
  <2>5. TypeOK'
    BY <1>t, <2>2, <2>3, <2>4 DEF TypeOK
  <2> QED  BY <2>1, <2>3, <2>4, <2>5, <1>n, ThreadStep
<1>3. CASE dds_wait_listener(t)
  <2>1. /\ thread' \in [Threads -> ThreadType] /\ thread[t].at # "wakeup"
        /\ \A u \in Threads \ {t} : thread'[u] = thread[u]
    <3>1. [thread[t] EXCEPT !.at = "asleep"] \in ThreadType
      BY <1>p
    <3> QED  BY <1>3, <1>p, <3>1 DEF dds_wait_listener, Idle
  <2>2. UNCHANGED <<ev, pipe, reader, listener, todo, core>>
    BY <1>3 DEF dds_wait_listener
  <2>3. TypeOK'
    BY <1>t, <2>1, <2>2 DEF TypeOK
  <2> QED  BY <2>1, <2>2, <2>3, <1>n, <1>p, ThreadStep
<1>4. ASSUME NEW r \in Readers, NewData(t, r) PROVE EventInv'
  <2>1. /\ ev' = Announced(ev, reader[r].status, r) /\ thread[t].at = "idle"
        /\ reader[r].alive
        /\ UNCHANGED <<pipe, listener, todo, core>>
    BY <1>4 DEF NewData
  <2>2. /\ ev' \in EvType
        /\ ev'.sleeping = ev.sleeping /\ ev'.running = ev.running
        /\ ev.pending \subseteq ev'.pending
        /\ ev' # ev => ev'.notify # <<>> /\ ev'.pending = ev.pending \cup {"notify"}
        /\ \A i \in DOMAIN ev'.notify :
               ev'.notify[i] = r \/ (i \in DOMAIN ev.notify /\ ev'.notify[i] = ev.notify[i])
    BY <2>1, <1>e, AnnouncedType
  <2>3. /\ thread' \in [Threads -> ThreadType]
        /\ \A u \in Threads \ {t} : thread'[u] = thread[u]
        /\ ev' # ev /\ ev.sleeping => thread'[t].at = "wakeup"
    BY <1>4, <1>p DEF NewData
  <2>4. /\ reader' \in [Readers -> ReaderType]
        /\ \A s \in Readers : reader'[s].alive = reader[s].alive
    BY <1>4, <1>p DEF NewData
  <2>5. TypeOK'
    BY <1>t, <2>1, <2>2, <2>3, <2>4 DEF TypeOK
  <2>6. \A i \in DOMAIN ev'.notify : reader'[ev'.notify[i]].alive
    BY <1>n, <2>1, <2>2, <2>4
  <2> QED  BY <2>1, <2>2, <2>3, <2>4, <2>5, <2>6, <1>p, ThreadStep
<1>5. ASSUME NEW r \in Readers, DDS_DataReader_set_listener(t, r) PROVE EventInv'
  <2>1. /\ thread[t].at = "idle" /\ reader[r].alive /\ UNCHANGED <<pipe, todo, core>>
        /\ listener' \in [Entities -> BOOLEAN]
    BY <1>5, <1>p DEF DDS_DataReader_set_listener
  <2>2. CASE reader[r].data
    <3>1. /\ ev' = dds_notify(ev, r)
          /\ reader' = [reader EXCEPT ![r].status = TRUE]
          /\ thread' = [thread EXCEPT ![t].at = IF ev.sleeping THEN "wakeup" ELSE "idle"]
      BY <1>5, <2>2 DEF DDS_DataReader_set_listener
    <3>2. /\ ev' \in EvType
          /\ ev'.sleeping = ev.sleeping /\ ev'.running = ev.running
          /\ ev'.pending = ev.pending \cup {"notify"}
          /\ \A i \in DOMAIN ev'.notify :
                 ev'.notify[i] = r \/ (i \in DOMAIN ev.notify /\ ev'.notify[i] = ev.notify[i])
      BY <3>1, <1>e, NotifyType
    <3>3. /\ thread' \in [Threads -> ThreadType]
          /\ \A u \in Threads \ {t} : thread'[u] = thread[u]
          /\ ev.sleeping => thread'[t].at = "wakeup"
      BY <3>1, <1>p
    <3>4. /\ reader' \in [Readers -> ReaderType]
          /\ \A s \in Readers : reader'[s].alive = reader[s].alive
      BY <3>1, <1>p
    <3>5. TypeOK'
      BY <1>t, <2>1, <3>2, <3>3, <3>4 DEF TypeOK
    <3>6. \A i \in DOMAIN ev'.notify : reader'[ev'.notify[i]].alive
      BY <1>n, <2>1, <3>2, <3>4
    <3> QED  BY <2>1, <3>2, <3>3, <3>4, <3>5, <3>6, <1>p, ThreadStep
  <2>3. CASE ~reader[r].data
    <3>1. UNCHANGED <<ev, reader, thread>>
      BY <1>5, <2>3 DEF DDS_DataReader_set_listener
    <3>2. TypeOK'
      BY <1>t, <2>1, <3>1 DEF TypeOK
    <3> QED  BY <2>1, <3>1, <3>2, <1>n, <1>p, ThreadStep
  <2> QED  BY <2>2, <2>3
<1>6. ASSUME NEW r \in Readers, delete_datareader(t, r) PROVE EventInv'
  <2>1. /\ ev' = dds_purge_notifications(ev, r) /\ ev.running # r
        /\ UNCHANGED <<pipe, todo, core, thread>>
    BY <1>6 DEF delete_datareader
  <2>2. /\ ev' \in EvType
        /\ ev'.sleeping = ev.sleeping /\ ev'.running = ev.running /\ ev'.pending = ev.pending
        /\ ev.notify = <<>> => ev'.notify = <<>>
        /\ \A i \in DOMAIN ev'.notify :
               \E j \in DOMAIN ev.notify : ev'.notify[i] = ev.notify[j] /\ ev.notify[j] # r
    BY <2>1, <1>e, PurgeType
  <2>3. /\ reader' \in [Readers -> ReaderType] /\ listener' \in [Entities -> BOOLEAN]
        /\ \A s \in Readers \ {r} : reader'[s] = reader[s]
    BY <1>6, <1>p DEF delete_datareader
  <2>4. TypeOK'
    BY <1>t, <2>1, <2>2, <2>3 DEF TypeOK
  <2>5. \A i \in DOMAIN ev'.notify : reader'[ev'.notify[i]].alive
    BY <1>n, <2>2, <2>3
  <2> QED  BY <2>1, <2>2, <2>3, <2>4, <2>5, <1>p, ThreadStep
<1>7. ASSUME NEW e \in Entities, RemoveListener(t, e) PROVE EventInv'
  <2>1. /\ ev' = dds_purge_notifications(ev, e) /\ thread[t].at = "idle"
        /\ UNCHANGED <<pipe, reader, todo, core>>
    BY <1>7 DEF RemoveListener
  <2>2. /\ ev' \in EvType
        /\ ev'.sleeping = ev.sleeping /\ ev'.running = ev.running /\ ev'.pending = ev.pending
        /\ ev.notify = <<>> => ev'.notify = <<>>
        /\ \A i \in DOMAIN ev'.notify :
               \E j \in DOMAIN ev.notify : ev'.notify[i] = ev.notify[j] /\ ev.notify[j] # e
    BY <2>1, <1>e, PurgeType
  <2>3. /\ thread' \in [Threads -> ThreadType] /\ listener' \in [Entities -> BOOLEAN]
        /\ \A u \in Threads \ {t} : thread'[u] = thread[u]
    BY <1>7, <1>p DEF RemoveListener, Idle
  <2>4. TypeOK'
    BY <1>t, <2>1, <2>2, <2>3 DEF TypeOK
  <2>5. \A i \in DOMAIN ev'.notify : reader'[ev'.notify[i]].alive
    BY <1>n, <2>1, <2>2
  <2> QED  BY <2>1, <2>2, <2>3, <2>4, <2>5, <1>p, ThreadStep
<1> QED  BY <1>1, <1>2, <1>3, <1>4, <1>5, <1>6, <1>7

\* What the core thread does, its callbacks included, keeps EventInv.
LEMMA CoreKeeps ==
    ASSUME EventInv,
           \/ Collect \/ PollReturns \/ PollTimeout \/ DoWork \/ dds_client_notify
           \/ dcps_notify_data_available \/ on_data_available \/ NotifyDone
           \/ \E r \in Readers : Receive(r)
    PROVE  EventInv'
<1>t. TypeOK /\ CoreShape /\ Signalled /\ PollIsWoken /\ NoDeadCallback
  BY DEF EventInv
<1>e. ev \in EvType /\ core \in CoreType
  BY <1>t DEF TypeOK, EvType, CoreType
<1>p. /\ pipe \in 0..MaxPipe /\ pipe \in Nat /\ MaxPipe \in Nat
      /\ reader \in [Readers -> ReaderType] /\ listener \in [Entities -> BOOLEAN]
      /\ thread \in [Threads -> ThreadType] /\ todo \in BOOLEAN
  BY <1>t, ListenersAssumption DEF TypeOK, ReaderType, ThreadType
<1>n. \A i \in DOMAIN ev.notify : ev.notify[i] \in Readers /\ reader[ev.notify[i]].alive
  BY <1>t, <1>e DEF NoDeadCallback, EvType
<1>s. CoreStart \in CoreType /\ CoreStart.at = "collect" /\ CoreStart.events = {}
  BY DEF CoreStart, CoreType
<1> SUFFICES TypeOK' /\ CoreShape' /\ Signalled' /\ PollIsWoken' /\ NoDeadCallback'
  BY DEF EventInv
<1> USE DEF EvType, CoreType, ReaderType, ThreadType
<1>1. CASE Collect
  <2>1. /\ core.at = "collect" /\ core.events = {}
        /\ UNCHANGED <<pipe, reader, listener, todo, thread>>
    BY <1>1, <1>t DEF Collect, CoreShape
  <2>2. /\ ev' \in EvType /\ ev'.pending = {} /\ (ev'.sleeping <=> ev.pending = {})
        /\ ev'.notify = ev.notify
    BY <1>1, <1>e DEF Collect
  <2>3. /\ core'.at = IF ev.pending # {} THEN "work"
                      ELSE IF core.again THEN "collect" ELSE "poll"
        /\ core'.events = ev.pending /\ core' \in CoreType
    BY <1>1, <1>e DEF Collect
  <2>4. TypeOK'
    BY <1>t, <2>1, <2>2, <2>3 DEF TypeOK
  <2> QED  BY <1>t, <1>n, <2>1, <2>2, <2>3, <2>4
           DEF CoreShape, Signalled, PollIsWoken, NoDeadCallback
<1>2. CASE PollReturns \/ PollTimeout
  <2>1. /\ core.at = "poll" /\ core.events = {}
        /\ core' = CoreStart /\ UNCHANGED <<reader, listener, todo, thread>>
    BY <1>2, <1>t DEF PollReturns, PollTimeout, Awake, CoreShape
  <2>2. ev' \in EvType /\ ev'.pending = ev.pending /\ ev'.notify = ev.notify
    BY <1>2, <1>e DEF PollReturns, PollTimeout, Awake
  <2>3. pipe' \in 0..MaxPipe
    BY <1>2, <1>p DEF PollReturns, PollTimeout
  <2>4. TypeOK'
    BY <1>t, <1>s, <2>1, <2>2, <2>3 DEF TypeOK
  <2> QED  BY <1>t, <1>n, <1>s, <2>1, <2>2, <2>4
           DEF CoreShape, Signalled, PollIsWoken, NoDeadCallback
<1>3. ASSUME NEW r \in Readers, Receive(r)
      PROVE  TypeOK' /\ CoreShape' /\ Signalled' /\ PollIsWoken' /\ NoDeadCallback'
  <2> DEFINE q == Announced(ev, reader[r].status, r)
  <2>1. /\ core.at = "poll" /\ core.events = {} /\ reader[r].alive
        /\ core' = CoreStart /\ UNCHANGED <<listener, todo, thread>>
    BY <1>3, <1>t DEF Receive, CoreShape
  <2>2. /\ q \in EvType /\ ev.pending \subseteq q.pending
        /\ q # ev => q.notify # <<>> /\ q.pending = ev.pending \cup {"notify"}
        /\ \A i \in DOMAIN q.notify :
               q.notify[i] = r \/ (i \in DOMAIN ev.notify /\ q.notify[i] = ev.notify[i])
    BY <1>e, AnnouncedType
  <2>3. /\ reader' = [reader EXCEPT ![r].data = TRUE, ![r].status = TRUE]
        /\ q # ev => pipe < MaxPipe
        /\ pipe' = IF q # ev THEN pipe + 1 ELSE pipe
        /\ ev' = [q EXCEPT !.sleeping = FALSE]
    BY <1>3 DEF Receive
  <2> HIDE DEF q
  <2>4. pipe' \in 0..MaxPipe
    BY <2>3, <1>p
  <2>5. ev' \in EvType /\ ev'.pending = q.pending /\ ev'.notify = q.notify
    BY <2>2, <2>3
  <2>6. /\ reader' \in [Readers -> ReaderType]
        /\ \A s \in Readers : reader'[s].alive = reader[s].alive
    BY <2>3, <1>p
  <2>7. TypeOK'
    BY <1>t, <1>s, <2>1, <2>4, <2>5, <2>6 DEF TypeOK
  <2>8. \A i \in DOMAIN ev'.notify : reader'[ev'.notify[i]].alive
    BY <1>n, <2>1, <2>2, <2>5, <2>6
  <2> QED  BY <1>t, <1>s, <2>1, <2>2, <2>5, <2>7, <2>8
           DEF CoreShape, Signalled, PollIsWoken, NoDeadCallback
<1>4. CASE DoWork
  <2>1. /\ core.at = "work" /\ todo' = FALSE /\ UNCHANGED <<ev, pipe, reader, listener, thread>>
    BY <1>4 DEF DoWork
  <2>2. /\ core' \in CoreType /\ core'.events = core.events \ {"signal"}
        /\ core'.at = IF core.events = {"signal"} THEN "collect" ELSE "work"
    BY <1>4, <1>e DEF DoWork
  <2>3. TypeOK'
    BY <1>t, <2>1, <2>2 DEF TypeOK
  <2> QED  BY <1>t, <1>n, <2>1, <2>2, <2>3
           DEF CoreShape, Signalled, PollIsWoken, NoDeadCallback
<1>5. CASE dds_client_notify
  <2> DEFINE rest == IF ev.notify = <<>> THEN <<>> ELSE Tail(ev.notify)
  <2>1. /\ core.at = "work" /\ core.events = {"notify"}
        /\ UNCHANGED <<pipe, reader, listener, todo, thread>>
    BY <1>5 DEF dds_client_notify
  <2>2. /\ ev.notify \in Seq(Readers) /\ rest \in Seq(Readers)
        /\ \A i \in DOMAIN rest : rest[i] \in Readers /\ reader[rest[i]].alive
        /\ ev.notify # <<>> => Head(ev.notify) \in Readers /\ reader[Head(ev.notify)].alive
    <3>1. ev.notify \in Seq(Readers)
      BY <1>e
    <3>2. CASE ev.notify = <<>>
      BY <3>1, <3>2
    <3>3. CASE ev.notify # <<>>
      <4>1. /\ Tail(ev.notify) \in Seq(Readers) /\ Head(ev.notify) = ev.notify[1]
            /\ 1 \in DOMAIN ev.notify
            /\ \A i \in DOMAIN Tail(ev.notify) :
                   i + 1 \in DOMAIN ev.notify /\ Tail(ev.notify)[i] = ev.notify[i + 1]
        BY <3>1, <3>3
      <4> QED  BY <3>1, <3>3, <4>1, <1>n
    <3> QED  BY <3>2, <3>3
  <2>3. /\ ev' \in EvType /\ ev'.notify = rest
        /\ ev'.pending = IF rest = <<>> THEN ev.pending \ {"notify"} ELSE ev.pending
        /\ ev'.sleeping = ev.sleeping
        /\ ev.notify # <<>> => ev'.running = Head(ev.notify)
    <3>1. ev' = [ev EXCEPT !.notify = rest,
                           !.pending = IF rest = <<>> THEN @ \ {"notify"} ELSE @,
                           !.running = IF ev.notify = <<>> THEN @ ELSE Head(ev.notify)]
      BY <1>5 DEF dds_client_notify
    <3> QED  BY <3>1, <2>2, <1>e
  <2>4. /\ core' \in CoreType
        /\ core'.events = IF rest = <<>> THEN {} ELSE core.events
        /\ core'.cb = IF ev.notify = <<>> THEN Null ELSE Head(ev.notify)
        /\ core'.at = IF ev.notify # <<>> THEN "pick" ELSE "collect"
    <3>1. core' = [core EXCEPT !.events = IF rest = <<>> THEN {} ELSE core.events,
                               !.cb = IF ev.notify = <<>> THEN Null ELSE Head(ev.notify),
                               !.at = IF ev.notify # <<>> THEN "pick" ELSE "collect"]
      BY <1>5 DEF dds_client_notify
    <3> QED  BY <3>1, <2>2, <1>e
  <2>5. ev.notify = <<>> => rest = <<>>
    OBVIOUS
  <2> HIDE DEF rest
  <2>6. TypeOK'
    BY <1>t, <2>1, <2>3, <2>4 DEF TypeOK
  <2>7. CoreShape' /\ PollIsWoken'
    BY <2>2, <2>3, <2>4, <2>5 DEF CoreShape, PollIsWoken
  <2>8. Signalled'
    BY <1>t, <2>1, <2>3, <2>4 DEF Signalled
  <2>9. NoDeadCallback'
    BY <2>1, <2>2, <2>3, <2>4 DEF NoDeadCallback
  <2> QED  BY <2>6, <2>7, <2>8, <2>9
<1>6. CASE dcps_notify_data_available
  <2> DEFINE r == core.cb
  <2>1. /\ core.at = "pick" /\ r \in Readers /\ reader[r].alive /\ ev.running = r
        /\ UNCHANGED <<ev, pipe, listener, todo, thread>>
    BY <1>6, <1>t DEF dcps_notify_data_available, CoreShape, NoDeadCallback
  <2>2. /\ reader' \in [Readers -> ReaderType]
        /\ \A s \in Readers : reader'[s].alive = reader[s].alive
    <3>1. reader' = reader \/ reader' = [reader EXCEPT ![r].status = FALSE]
      BY <1>6 DEF dcps_notify_data_available
    <3>2. r \in Readers
      BY <2>1
    <3> HIDE DEF r
    <3>3. CASE reader' = [reader EXCEPT ![r].status = FALSE]
      BY <3>2, <3>3, <1>p
    <3> QED  BY <3>1, <3>3, <1>p
  <2>3. CASE Active(r)
    <3>1. core' = [core EXCEPT !.at = "call", !.cb = <<r, IF listener[r] THEN r ELSE Sub>>]
      BY <1>6, <2>3 DEF dcps_notify_data_available
    <3>2. <<r, IF listener[r] THEN r ELSE Sub>> \in Readers \X Entities
      BY <2>1 DEF Entities
    <3>3. core'.at = "call" /\ core'.cb = <<r, IF listener[r] THEN r ELSE Sub>>
          /\ core'.events = core.events /\ core' \in CoreType
      BY <3>1, <3>2, <1>e
    <3>4. core'.cb \in Readers \X Entities /\ core'.cb[1] = r
      BY <3>2, <3>3
    <3> HIDE DEF r
    <3>5. TypeOK'
      BY <1>t, <2>1, <2>2, <3>3 DEF TypeOK
    <3> QED  BY <1>t, <1>n, <2>1, <2>2, <3>3, <3>4, <3>5
             DEF CoreShape, Signalled, PollIsWoken, NoDeadCallback
  <2>4. CASE ~Active(r)
    <3>1. core'.at = "done" /\ core'.events = core.events /\ core' \in CoreType
      BY <1>6, <2>4, <1>e DEF dcps_notify_data_available
    <3>2. TypeOK'
      BY <1>t, <2>1, <2>2, <3>1 DEF TypeOK
    <3> QED  BY <1>t, <1>n, <2>1, <2>2, <3>1, <3>2
             DEF CoreShape, Signalled, PollIsWoken, NoDeadCallback
  <2> QED  BY <2>3, <2>4
<1>7. CASE on_data_available
  <2>1. /\ core.at = "call" /\ core.cb[1] \in Readers
        /\ UNCHANGED <<ev, pipe, listener, todo, thread>>
    BY <1>7, <1>t DEF on_data_available, CoreShape
  <2>2. /\ reader' \in [Readers -> ReaderType]
        /\ \A s \in Readers : reader'[s].alive = reader[s].alive
    BY <1>7, <1>p DEF on_data_available
  <2>3. /\ core'.at = "called" /\ core'.cb = core.cb /\ core'.events = core.events
        /\ core' \in CoreType
    BY <1>7, <1>e DEF on_data_available
  <2>4. TypeOK'
    BY <1>t, <2>1, <2>2, <2>3 DEF TypeOK
  <2> QED  BY <1>t, <1>n, <2>1, <2>2, <2>3, <2>4
           DEF CoreShape, Signalled, PollIsWoken, NoDeadCallback
<1>8. CASE NotifyDone
  <2>1. core.at \in {"called", "done"} /\ UNCHANGED <<pipe, reader, listener, todo>>
    BY <1>8 DEF NotifyDone
  <2>2. ev' \in EvType /\ ev'.pending = ev.pending /\ ev'.notify = ev.notify
    BY <1>8, <1>e DEF NotifyDone
  <2>3. /\ core' \in CoreType /\ core'.events = core.events
        /\ core'.at = IF core.events = {} THEN "collect" ELSE "work"
    BY <1>8, <1>e DEF NotifyDone
  <2>4. thread' \in [Threads -> ThreadType]
    <3>1. \A u \in Threads : [thread[u] EXCEPT !.at = "waiting"] \in ThreadType
      BY <1>p
    <3> QED  BY <1>8, <1>p, <3>1 DEF NotifyDone
  <2>5. TypeOK'
    BY <1>t, <2>1, <2>2, <2>3, <2>4 DEF TypeOK
  <2> QED  BY <1>t, <1>n, <2>1, <2>2, <2>3, <2>5
           DEF CoreShape, Signalled, PollIsWoken, NoDeadCallback
<1> QED  BY <1>1, <1>2, <1>3, <1>4, <1>5, <1>6, <1>7, <1>8

\* Every step keeps EventInv.
LEMMA EventStep == EventInv /\ [Next]_vars => EventInv'
<1> SUFFICES ASSUME EventInv, [Next]_vars PROVE EventInv'
  OBVIOUS
<1>1. CASE UNCHANGED vars
  BY <1>1 DEF vars, EventInv, TypeOK, CoreShape, Signalled, PollIsWoken, NoDeadCallback
<1>2. CASE Next
  BY <1>2, ThreadsKeep, CoreKeeps DEF Next
<1> QED  BY <1>1, <1>2

\* EventInv holds in every reachable state.
LEMMA Events == Spec => []EventInv
BY EventInit, EventStep, PTL DEF Spec

\* Type correctness of the event loop and its notifications: in particular the
\* wake-up pipe is never read when it is empty and never overflows.
THEOREM ListenersTypeOK == Spec => []TypeOK
<1>1. EventInv => TypeOK
  BY DEF EventInv
<1> QED  BY Events, <1>1, PTL

\* The core thread does not sleep over work, for any number of threads and
\* readers: dds_signal and dds_notify decide by dds_sleeping and
\* dds_ev_pending whether to wake it up, and dds_work looks at both.
THEOREM CoreNoWorkAsleep == Spec => []NoWorkAsleep
<1>1. EventInv => NoWorkAsleep
  BY DEF EventInv, CoreShape, Signalled, PollIsWoken, NoWorkAsleep
<1> QED  BY Events, <1>1, PTL

\* A reader that was deleted is called back no more.
THEOREM ReaderNoDeadCallback == Spec => []NoDeadCallback
<1>1. EventInv => NoDeadCallback
  BY DEF EventInv
<1> QED  BY Events, <1>1, PTL

-----------------------------------------------------------------------------
(* Removing a listener.                                                    *)

\* Without a listener of the subscriber every callback is its reader's own,
\* and a thread that does nothing waits for nobody.
OwnListener ==
    /\ ~listener[Sub]
    /\ core.at \in {"call", "called"} => core.cb[2] = core.cb[1]
    /\ \A t \in Threads : thread[t].at \in {"idle", "wakeup"} => thread[t].ep = Null

RemoveInv == OwnListener /\ NoCallbackAfterRemove

\* A step that neither starts a callback nor removes a listener, and leaves
\* those alone who wait.
LEMMA RemoveSame ==
    ASSUME RemoveInv, UNCHANGED core,
           ~listener'[Sub],
           \A e \in Readers : listener[e] => listener'[e],
           \A t \in Threads : \/ thread'[t] = thread[t]
                              \/ thread[t].ep = Null /\ thread'[t].ep = Null,
           core.at \in {"call", "called"} => core.cb[2] \in Readers
    PROVE  RemoveInv'
<1>1. OwnListener /\ NoCallbackAfterRemove
  BY DEF RemoveInv
<1>2. OwnListener'
  BY <1>1 DEF OwnListener
<1>3. NoCallbackAfterRemove'
  <2> SUFFICES ASSUME core.at \in {"call", "called"}
               PROVE  listener'[core.cb[2]] \/ \E t \in Threads : thread'[t].ep = core.cb[2]
    BY DEF NoCallbackAfterRemove
  <2>1. core.cb[2] \in Readers /\ core.cb[2] # Null
    BY ListenersAssumption
  <2>2. listener[core.cb[2]] \/ \E t \in Threads : thread[t].ep = core.cb[2]
    BY <1>1 DEF NoCallbackAfterRemove
  <2> QED  BY <2>1, <2>2
<1> QED  BY <1>2, <1>3 DEF RemoveInv

\* Every step keeps a listener whose removal returned from being called.
LEMMA RemoveStep == EventInv /\ RemoveInv /\ [Next]_vars => RemoveInv'
<1> SUFFICES ASSUME EventInv, RemoveInv, [Next]_vars PROVE RemoveInv'
  OBVIOUS
<1>i. OwnListener /\ NoCallbackAfterRemove
  BY DEF RemoveInv
<1>t. TypeOK /\ CoreShape
  BY DEF EventInv
<1>e. ev \in EvType /\ core \in CoreType /\ listener \in [Entities -> BOOLEAN]
      /\ thread \in [Threads -> ThreadType]
  BY <1>t DEF TypeOK, EvType, CoreType, ThreadType
<1>c. core.at \in {"call", "called"} => core.cb[2] \in Readers /\ core.cb[2] = ev.running
  BY <1>i, <1>t DEF CoreShape, OwnListener
<1>s. Sub \notin Readers /\ ~listener[Sub]
  BY <1>i, ListenersAssumption DEF OwnListener
<1>0. CASE UNCHANGED vars
  BY <1>0, <1>c, <1>s, RemoveSame DEF vars
<1>1. ASSUME NEW t \in Threads, dds_signal(t) PROVE RemoveInv'
  BY <1>1, <1>c, <1>s, RemoveSame DEF dds_signal
<1>2. ASSUME NEW t \in Threads, dds_wakeup(t) PROVE RemoveInv'
  <2>1. /\ thread[t].ep = Null /\ thread'[t].ep = Null
        /\ \A u \in Threads \ {t} : thread'[u] = thread[u]
    BY <1>2, <1>i, <1>e DEF dds_wakeup, OwnListener, Idle, ThreadType
  <2> QED  BY <1>2, <2>1, <1>c, <1>s, RemoveSame DEF dds_wakeup
<1>3. ASSUME NEW t \in Threads, dds_wait_listener(t) PROVE RemoveInv'
  <2>1. UNCHANGED <<ev, core, listener>>
    BY <1>3 DEF dds_wait_listener
  <2>2. \A u \in Threads \ {t} : thread'[u] = thread[u]
    BY <1>3, <1>e DEF dds_wait_listener, ThreadType
  <2>3. \/ ev.running = thread[t].ep /\ thread'[t].at = "asleep" /\ thread'[t].ep = thread[t].ep
        \/ ev.running # thread[t].ep /\ thread'[t] = Idle
    BY <1>3, <1>e DEF dds_wait_listener, ThreadType
  <2>4. OwnListener'
    BY <1>i, <2>1, <2>2, <2>3 DEF OwnListener, Idle
  <2>5. NoCallbackAfterRemove'
    BY <1>i, <1>c, <2>1, <2>2, <2>3 DEF NoCallbackAfterRemove
  <2> QED  BY <2>4, <2>5 DEF RemoveInv
<1>4. ASSUME NEW t \in Threads, NEW r \in Readers, NewData(t, r) PROVE RemoveInv'
  <2>1. /\ thread[t].ep = Null /\ thread'[t].ep = Null
        /\ \A u \in Threads \ {t} : thread'[u] = thread[u]
    BY <1>4, <1>i, <1>e DEF NewData, OwnListener, ThreadType
  <2> QED  BY <1>4, <2>1, <1>c, <1>s, RemoveSame DEF NewData
<1>5. ASSUME NEW t \in Threads, NEW r \in Readers, DDS_DataReader_set_listener(t, r)
      PROVE  RemoveInv'
  <2>1. /\ thread'[t] = thread[t] \/ (thread[t].ep = Null /\ thread'[t].ep = Null)
        /\ \A u \in Threads \ {t} : thread'[u] = thread[u]
    BY <1>5, <1>i, <1>e DEF DDS_DataReader_set_listener, OwnListener, ThreadType
  <2>2. ~listener'[Sub] /\ \A e \in Readers : listener[e] => listener'[e]
    BY <1>5, <1>e, <1>s DEF DDS_DataReader_set_listener, Entities
  <2>3. UNCHANGED core
    BY <1>5 DEF DDS_DataReader_set_listener
  <2> QED  BY <2>1, <2>2, <2>3, <1>c, RemoveSame
<1>6. ASSUME NEW t \in Threads, NEW r \in Readers, delete_datareader(t, r) PROVE RemoveInv'
  <2>1. UNCHANGED <<core, thread>> /\ ev.running # r
    BY <1>6 DEF delete_datareader
  <2>2. ~listener'[Sub] /\ \A e \in Readers \ {r} : listener'[e] = listener[e]
    BY <1>6, <1>e, <1>s DEF delete_datareader, Entities
  <2> QED  BY <1>i, <1>c, <2>1, <2>2 DEF RemoveInv, OwnListener, NoCallbackAfterRemove
<1>7. ASSUME NEW t \in Threads, NEW e \in Entities, RemoveListener(t, e) PROVE RemoveInv'
  <2>1. UNCHANGED core /\ thread[t].ep = Null /\ e \in Readers
    BY <1>7, <1>i, <1>s DEF RemoveListener, OwnListener, Entities
  <2>2. ~listener'[Sub] /\ \A d \in Readers \ {e} : listener'[d] = listener[d]
    BY <1>7, <1>e, <1>s, <2>1 DEF RemoveListener, Entities
  <2>3. /\ \A u \in Threads \ {t} : thread'[u] = thread[u]
        /\ IF ev.running = e THEN thread'[t] = [at |-> "waiting", ep |-> e]
                             ELSE thread'[t] = Idle
    BY <1>7, <1>e DEF RemoveListener
  <2>4. OwnListener'
    BY <1>i, <2>1, <2>2, <2>3 DEF OwnListener, Idle
  <2>5. NoCallbackAfterRemove'
    <3> SUFFICES ASSUME core.at \in {"call", "called"}
                 PROVE  \/ listener'[core.cb[2]]
                        \/ \E u \in Threads : thread'[u].ep = core.cb[2]
      BY <2>1 DEF NoCallbackAfterRemove
    <3>1. core.cb[2] \in Readers /\ core.cb[2] # Null /\ core.cb[2] = ev.running
      BY <1>c, ListenersAssumption
    <3>2. CASE core.cb[2] = e
      BY <2>3, <3>1, <3>2
    <3>3. CASE core.cb[2] # e
      BY <1>i, <2>1, <2>2, <2>3, <3>1, <3>3 DEF NoCallbackAfterRemove
    <3> QED  BY <3>2, <3>3
  <2> QED  BY <2>4, <2>5 DEF RemoveInv
<1>8. CASE Collect \/ PollReturns \/ PollTimeout \/ DoWork \/ \E r \in Readers : Receive(r)
  <2>1. core'.at \in {"collect", "poll", "work"} /\ UNCHANGED <<listener, thread>>
    <3>1. CASE Collect \/ DoWork
      BY <3>1, <1>e DEF Collect, DoWork, CoreType
    <3>2. CASE PollReturns \/ PollTimeout \/ \E r \in Readers : Receive(r)
      <4>1. core' = CoreStart /\ UNCHANGED <<listener, thread>>
        BY <3>2 DEF PollReturns, PollTimeout, Receive, Awake
      <4> QED  BY <4>1 DEF CoreStart
    <3> QED  BY <1>8, <3>1, <3>2
  <2> QED  BY <1>i, <2>1 DEF RemoveInv, OwnListener, NoCallbackAfterRemove
<1>9. CASE dds_client_notify
  <2>1. core'.at \in {"pick", "collect"} /\ UNCHANGED <<listener, thread>>
    BY <1>9, <1>e DEF dds_client_notify, CoreType
  <2> QED  BY <1>i, <2>1 DEF RemoveInv, OwnListener, NoCallbackAfterRemove
<1>10. CASE dcps_notify_data_available
  <2>1. UNCHANGED <<listener, thread>>
    BY <1>10 DEF dcps_notify_data_available
  <2>2. \/ core'.at = "done"
        \/ /\ core'.cb = <<core.cb, IF listener[core.cb] THEN core.cb ELSE Sub>>
           /\ listener[core.cb] \/ listener[Sub]
    BY <1>10, <1>e DEF dcps_notify_data_available, CoreType, Active
  <2>3. \/ core'.at = "done"
        \/ core'.cb[1] = core.cb /\ core'.cb[2] = core.cb /\ listener[core.cb]
    BY <2>2, <1>s
  <2> QED  BY <1>i, <2>1, <2>3 DEF RemoveInv, OwnListener, NoCallbackAfterRemove
<1>11. CASE on_data_available
  <2>1. core.at = "call" /\ core'.cb = core.cb /\ UNCHANGED <<listener, thread>>
    BY <1>11, <1>e DEF on_data_available, CoreType
  <2> QED  BY <1>i, <2>1 DEF RemoveInv, OwnListener, NoCallbackAfterRemove
<1>12. CASE NotifyDone
  <2>1. core'.at \in {"collect", "work"} /\ UNCHANGED listener
    BY <1>12, <1>e DEF NotifyDone, CoreType
  <2>2. \A u \in Threads : \/ thread'[u] = thread[u]
                           \/ thread'[u].at = "waiting"
    BY <1>12, <1>e DEF NotifyDone, ThreadType
  <2> QED  BY <1>i, <2>1, <2>2 DEF RemoveInv, OwnListener, NoCallbackAfterRemove
<1> QED  BY <1>0, <1>1, <1>2, <1>3, <1>4, <1>5, <1>6, <1>7, <1>8, <1>9, <1>10, <1>11, <1>12
         DEF Next

\* A callback that runs was not removed by a call that has returned, when the
\* subscriber has no listener.  dcps_update_listener waits for the entity
\* whose listener it removes, which is not the one that ev_entity_in_listener
\* names when a reader's data is announced to its subscriber's listener.
THEOREM ListenerNoCallbackAfterRemove ==
    ASSUME ~Inherit
    PROVE  Spec => []NoCallbackAfterRemove
<1>1. Init => RemoveInv
  <2> SUFFICES ASSUME Init PROVE RemoveInv
    OBVIOUS
  <2>1. ~listener[Sub]
    <3>1. listener = [e \in Entities |-> IF e = Sub THEN Inherit ELSE ~Inherit]
      BY DEF Init
    <3>2. listener[Sub] = Inherit
      BY <3>1, Zenon DEF Entities
    <3> QED  BY <3>2, Zenon
  <2> QED  BY <2>1 DEF Init, RemoveInv, OwnListener, NoCallbackAfterRemove, CoreStart, Idle
<1>2. RemoveInv => NoCallbackAfterRemove
  BY DEF RemoveInv
<1> QED  BY <1>1, <1>2, Events, RemoveStep, PTL DEF Spec
=============================================================================
