-------------------------- MODULE FwdClientProofs --------------------------
(***************************************************************************)
(* Proofs about FwdClient, for any forwarders, addresses, time-outs and    *)
(* bounds, with or without the location service.                           *)
(***************************************************************************)
EXTENDS FwdClient, TLAPS

-----------------------------------------------------------------------------
(* The inductive invariants.                                               *)

Entry == [id : Forwarders, loc : Locators]
Worker == [phase : {"none", "get", "list", "use", "result"},
           list : SUBSET Entry, pick : Entry \cup {None}]

\* A worker that uses an entry holds one, and a client that is ready, or has
\* an address of the location service, knows a device.
TypeInv ==
    /\ TypeOK
    /\ worker.phase = "use" => worker.pick \in Entry
    /\ state \in {"ready", "wait_reader"} => device \in Forwarders

\* A sample that is being handled says what is announced, or there is a newer.
SampleIsFresh ==
    core.from # None => core.what = announced[core.from] \/ core.from \in unread

ReadyInv == TypeInv /\ SampleIsFresh /\ ReadyIsAnnounced

\* With a location service the time-out of a client that started is positive
\* and can be doubled; a client that did not start has no timer.
TimeoutRuns ==
    /\ timeout >= 0 /\ 2 * timeout <= IntMax
    /\ LocationService /\ ~Preset /\ state # "init" => timeout > 0
    /\ state = "init" => ~timer /\ core.what # "timeout"

SearchInv == TypeInv /\ TimeoutRuns /\ StillSearching

-----------------------------------------------------------------------------
(* Type correctness.                                                       *)

\* Doubling stays within an int, and is doubling as long as it fits.
LEMMA WrapType ==
    ASSUME NEW n \in Int
    PROVE  /\ Wrap(n) \in -(IntMax + 1)..IntMax
           /\ 0 <= n /\ n <= IntMax => Wrap(n) = n
<1> DEFINE M == 2 * (IntMax + 1)
           k == n + IntMax + 1
<1>1. M \in Nat /\ M > 0 /\ k \in Int
  BY FwdClientAssumption
<1>2. k % M \in 0..(M - 1)
  BY <1>1
<1>3. 0 <= n /\ n <= IntMax => k % M = k
  BY <1>1, FwdClientAssumption
<1> QED  BY <1>2, <1>3, FwdClientAssumption DEF Wrap

\* Doubling a timeout gives an int, and the capped double when the product does not overflow.
LEMMA DoubledType ==
    ASSUME NEW t \in Int
    PROVE  /\ Doubled(t) \in -(IntMax + 1)..IntMax
           /\ 0 <= t /\ 2 * t <= IntMax
                  => Doubled(t) = IF 2 * t < MaxTimeout THEN 2 * t ELSE MaxTimeout
<1>1. 2 * t \in Int
  OBVIOUS
<1> QED  BY <1>1, WrapType, FwdClientAssumption DEF Doubled

\* The initial state of the client has the types the other lemmas start from.
LEMMA TypeInit == Init => TypeInv
<1> SUFFICES ASSUME Init PROVE TypeInv
  OBVIOUS
<1>1. worker \in Worker /\ worker.phase # "use"
  BY DEF Init, Idle, Worker
<1>2. core \in [what : {"idle", "timeout", None, Unknown} \cup Locators,
                from : Forwarders \cup {None}]
  BY DEF Init, NoEvent
<1>3. timer \in BOOLEAN /\ pending \in BOOLEAN /\ stopped \in BOOLEAN
  BY DEF Init
<1>4. timeout \in -(IntMax + 1)..IntMax
  BY FwdClientAssumption DEF Init
<1> QED  BY <1>1, <1>2, <1>3, <1>4, FwdClientAssumption
         DEF Init, TypeInv, TypeOK, Worker, Entry

\* What contacting the location service may change.
LEMMA ContactType ==
    ASSUME TypeOK, NEW reset \in BOOLEAN, fwd_client_contact_location_service(reset)
    PROVE  /\ state' = "wait"
           /\ timer' \in BOOLEAN /\ pending' \in BOOLEAN
           /\ timeout' \in -(IntMax + 1)..IntMax
           /\ worker' \in Worker /\ (worker' = worker \/ worker'.phase = "get")
           /\ faults' \in 0..MaxFaults
<1>1. CASE LocationService
  <2>1. state' = "wait" /\ client_start_timer(reset) /\ fwd_get_list
    BY <1>1 DEF fwd_client_contact_location_service
  <2>2. timer' \in BOOLEAN /\ timeout' \in -(IntMax + 1)..IntMax
    BY <2>1, FwdClientAssumption DEF client_start_timer, TypeOK
  <2>3. worker \in Worker /\ [Idle EXCEPT !.phase = "get"] \in Worker
        /\ [Idle EXCEPT !.phase = "get"].phase = "get"
    BY DEF TypeOK, Worker, Entry, Idle
  <2>4. pending' \in BOOLEAN /\ worker' \in {worker, [Idle EXCEPT !.phase = "get"]}
    BY <2>1 DEF fwd_get_list, TypeOK
  <2>5. faults' \in 0..MaxFaults
    BY <2>1, FwdClientAssumption DEF fwd_get_list, TypeOK
  <2> QED  BY <2>1, <2>2, <2>3, <2>4, <2>5
<1>2. CASE ~LocationService
  BY <1>2 DEF fwd_client_contact_location_service, TypeOK, Worker, Entry
<1> QED  BY <1>1, <1>2

\* Every step of the client, its timer and its reader keeps the types.
LEMMA TypeStep == TypeInv /\ [Next]_vars => TypeInv'
<1> SUFFICES ASSUME TypeInv, [Next]_vars PROVE TypeInv'
  OBVIOUS
<1> USE DEF env, client
<1>t. TypeOK /\ worker \in Worker
  BY DEF TypeInv, TypeOK, Worker, Entry
<1>0. CASE UNCHANGED vars
  BY <1>0 DEF TypeInv, TypeOK, vars
<1>1. CASE Start
  <2>1. CASE Preset
    BY <1>1, <2>1 DEF Start, TypeInv, TypeOK
  <2>2. CASE ~Preset
    <3>1. fwd_client_contact_location_service(TRUE)
      BY <1>1, <2>2 DEF Start
    <3>2. /\ state' = "wait"
          /\ timer' \in BOOLEAN /\ pending' \in BOOLEAN
          /\ timeout' \in -(IntMax + 1)..IntMax
          /\ worker' \in Worker /\ (worker' = worker \/ worker'.phase = "get")
          /\ faults' \in 0..MaxFaults
      BY <3>1, <1>t, ContactType
    <3> QED  BY <1>1, <3>2 DEF Start, TypeInv, TypeOK, Worker, Entry
  <2> QED  BY <2>1, <2>2
<1>2. CASE TimerElapses
  <2>1. core' \in [what : {"idle", "timeout", None, Unknown} \cup Locators, from : Forwarders \cup {None}]
    BY <1>2 DEF TimerElapses
  <2>2. /\ timer' = FALSE
        /\ UNCHANGED <<env, state, timeout, pending, locator, device, worker, life, stopped, faults>>
    BY <1>2 DEF TimerElapses
  <2>3. timer' \in BOOLEAN
    BY <2>2
  <2>4. TypeOK'
    BY <2>1, <2>2, <2>3, <1>t DEF TypeOK
  <2> QED  BY <2>2, <2>4 DEF TypeInv, Entry
<1>3. CASE fwd_client_discovery_timeout
  <2>1. CASE fwd_client_contact_location_service(FALSE) /\ UNCHANGED <<locator, device>>
    BY <1>3, <2>1, <1>t, ContactType
       DEF fwd_client_discovery_timeout, TypeInv, TypeOK, Worker, Entry, NoEvent
  <2>2. CASE Ignored
    BY <1>3, <2>2 DEF fwd_client_discovery_timeout, Ignored, TypeInv, TypeOK, NoEvent
  <2> QED  BY <1>3, <2>1, <2>2 DEF fwd_client_discovery_timeout, EvalTimeout
<1>4. CASE fwd_client_on_data
  <2>1. core.from \in Forwarders /\ core'= NoEvent /\ UNCHANGED <<env, life, stopped>>
    BY <1>4 DEF fwd_client_on_data, TypeInv, TypeOK
  <2>2. CASE core.what \in Locators /\ EvalFwdData(core.what, core.from)
    <3>1. CASE Ignored
      BY <2>1, <3>1 DEF Ignored, TypeInv, TypeOK, NoEvent
    <3>2. CASE /\ timer' = FALSE /\ state' = "ready"
               /\ \/ locator' = core.what /\ device' = core.from
                  \/ device \in Forwarders /\ UNCHANGED <<locator, device>>
               /\ UNCHANGED <<timeout, pending, worker, faults>>
      BY <2>1, <2>2, <3>2, FwdClientAssumption DEF TypeInv, TypeOK, NoEvent
    <3> QED  BY <2>2, <3>1, <3>2 DEF EvalFwdData, fwd_client_reconfig, TypeInv
  <2>3. CASE Ignored
    BY <2>1, <2>3 DEF Ignored, TypeInv, TypeOK, NoEvent
  <2>4. CASE fwd_client_contact_location_service(TRUE) /\ UNCHANGED <<locator, device>>
    BY <2>1, <2>4, <1>t, ContactType DEF TypeInv, TypeOK, Worker, Entry, NoEvent
  <2> QED  BY <1>4, <2>2, <2>3, <2>4 DEF fwd_client_on_data, EvalFwdRemoved
<1>5. CASE \E f \in Forwarders : TakeSample(f)
  BY <1>5 DEF TakeSample, TypeInv, TypeOK
<1>6. CASE GetForwarders
  <2> DEFINE all == {[id |-> f, loc |-> registered[f]] :
                         f \in {g \in Forwarders : registered[g] # None}}
  <2>1. all \in SUBSET Entry
    BY <1>t DEF TypeOK, Entry
  <2>2. worker' \in Worker /\ worker'.phase # "use"
    BY <1>6, <1>t, <2>1 DEF GetForwarders, Worker
  <2>3. faults' \in 0..MaxFaults
    BY <1>6, <1>t, FwdClientAssumption DEF GetForwarders, TypeOK
  <2> QED  BY <1>6, <2>2, <2>3 DEF GetForwarders, TypeInv, TypeOK, Worker, Entry
<1>7. CASE \E e \in worker.list : forwarder_cb(e)
  <2>1. PICK e \in worker.list : forwarder_cb(e)
    BY <1>7
  <2>2. e \in Entry
    BY <1>t DEF Worker
  <2>3. worker' \in Worker /\ (worker'.phase = "use" => worker'.pick \in Entry)
    BY <2>1, <2>2, <1>t DEF forwarder_cb, Worker
  <2> QED  BY <2>1, <2>3 DEF forwarder_cb, TypeInv, TypeOK, Worker, Entry
<1>8. CASE ListDone
  <2>1. worker' \in Worker /\ worker'.phase # "use"
    BY <1>8, <1>t DEF ListDone, Worker
  <2> QED  BY <1>8, <2>1 DEF ListDone, TypeInv, TypeOK, Worker, Entry
<1>9. CASE result_cb
  <2>1. worker' \in Worker /\ worker'.phase # "use"
    BY <1>9 DEF result_cb, Worker, Idle
  <2>2. timeout' \in -(IntMax + 1)..IntMax
    BY <1>9, <1>t, DoubledType, FwdClientAssumption DEF result_cb, TypeOK
  <2> QED  BY <1>9, <2>1, <2>2 DEF result_cb, TypeInv, TypeOK, Worker, Entry
<1>10. CASE UseLocator
  <2>1. worker.pick \in Entry
    BY <1>10 DEF UseLocator, TypeInv
  <2>2. worker' \in Worker /\ worker'.phase # "use"
    BY <1>10, <1>t DEF UseLocator, Worker
  <2>3. CASE UNCHANGED client
    BY <1>10, <2>2, <2>3 DEF UseLocator, TypeInv, TypeOK, Worker, Entry
  <2>4. CASE /\ locator' = worker.pick.loc /\ device' = worker.pick.id
             /\ state' = "wait_reader"
             /\ UNCHANGED <<timer, timeout, pending>>
    <3>1. locator' \in Locators /\ device' \in Forwarders
      BY <2>1, <2>4 DEF Entry
    <3> QED  BY <1>10, <2>2, <2>4, <3>1, FwdClientAssumption
             DEF UseLocator, TypeInv, TypeOK, Worker, Entry
  <2> QED  BY <1>10, <2>3, <2>4 DEF UseLocator, EvalLocSrvData, fwd_client_reconfig
<1>11. CASE \E f \in Forwarders : \E l \in Locators \cup {Unknown} : Publish(f, l)
  BY <1>11, FwdClientAssumption DEF Publish, TypeInv, TypeOK
<1>12. CASE \E f \in Forwarders : Register(f)
  BY <1>12 DEF Register, TypeInv, TypeOK
<1>13. CASE \E f \in Forwarders : Leave(f)
  BY <1>13, FwdClientAssumption DEF Leave, TypeInv, TypeOK
<1>14. CASE DestroyBegin \/ DestroyReader
  BY <1>14 DEF DestroyBegin, DestroyReader, TypeInv, TypeOK
<1>15. CASE DestroyTimer
  <2>1. timer' \in BOOLEAN /\ locator' = None /\ life' = "deleted"
    BY <1>15 DEF DestroyTimer
  <2> QED  BY <1>15, <2>1 DEF DestroyTimer, TypeInv, TypeOK
<1> QED  BY <1>0, <1>1, <1>2, <1>3, <1>4, <1>5, <1>6, <1>7, <1>8, <1>9, <1>10, <1>11,
            <1>12, <1>13, <1>14, <1>15 DEF Next, CoreStep, WorkerStep, EnvStep

\* Type correctness of the client: in particular it uses an address together
\* with the device that it belongs to, until fwd_destroy frees it.
THEOREM FwdClientTypeOK == Spec => []TypeOK
<1>1. TypeInv => TypeOK
  BY DEF TypeInv
<1> QED  BY TypeInit, TypeStep, <1>1, PTL DEF Spec

-----------------------------------------------------------------------------
(* No removal is lost.                                                     *)

\* Every step keeps what ReadyIsAnnounced rests on.
LEMMA ReadyStep == ReadyInv /\ [Next]_vars => ReadyInv'
<1> SUFFICES ASSUME ReadyInv, [Next]_vars PROVE ReadyInv'
  OBVIOUS
<1> USE DEF env, client
<1>t. TypeInv /\ TypeInv' /\ TypeOK
  BY TypeStep DEF ReadyInv, TypeInv
<1>i. SampleIsFresh /\ ReadyIsAnnounced
  BY DEF ReadyInv
<1> SUFFICES SampleIsFresh' /\ ReadyIsAnnounced'
  BY <1>t DEF ReadyInv
<1> USE <1>i DEF SampleIsFresh, ReadyIsAnnounced
\* The search and its worker do not make a client ready.
<1>s. ASSUME UNCHANGED <<announced, unread, core>>, state' = "ready" => UNCHANGED <<state, device>>
      PROVE  SampleIsFresh' /\ ReadyIsAnnounced'
  BY <1>s
<1>0. CASE UNCHANGED vars
  BY <1>0 DEF vars
<1>1. CASE Start
  BY <1>1, <1>t, ContactType DEF Start
<1>2. CASE TimerElapses
  BY <1>2, FwdClientAssumption DEF TimerElapses, NoEvent
<1>3. CASE fwd_client_discovery_timeout
  <2>1. core.what = "timeout" /\ core' = NoEvent /\ UNCHANGED <<announced, unread>>
    BY <1>3 DEF fwd_client_discovery_timeout
  <2>2. state' = "wait" \/ UNCHANGED <<state, device>>
    BY <1>3, <1>t, ContactType DEF fwd_client_discovery_timeout, EvalTimeout, Ignored
  <2>3. None # "timeout"
    BY FwdClientAssumption
  <2> QED  BY <2>1, <2>2, <2>3 DEF NoEvent
<1>4. CASE fwd_client_on_data
  <2>1. core.from # None /\ core' = NoEvent /\ UNCHANGED <<announced, unread>>
    BY <1>4 DEF fwd_client_on_data
  <2>2. core.what # None => announced[core.from] # None \/ core.from \in unread
    BY <2>1
  <2>3. CASE core.what \in Locators /\ EvalFwdData(core.what, core.from)
    <3>1. core.what # None
      BY <2>3, FwdClientAssumption
    <3>2. CASE Ignored
      BY <2>1, <2>2, <3>1, <3>2 DEF Ignored, NoEvent
    <3>3. CASE state' = "ready" /\ device' = core.from
      BY <2>1, <2>2, <3>1, <3>3 DEF NoEvent
    <3> QED  BY <2>3, <3>2, <3>3 DEF EvalFwdData, fwd_client_reconfig
  <2>4. CASE core.what = Unknown /\ Ignored
    BY <2>1, <2>2, <2>4, FwdClientAssumption DEF Ignored, NoEvent
  <2>5. CASE core.what = None /\ EvalFwdRemoved
    <3>1. state' # "ready"
      BY <2>5, <1>t, ContactType DEF EvalFwdRemoved, Ignored
    <3> QED  BY <2>1, <3>1 DEF NoEvent
  <2> QED  BY <1>4, <2>3, <2>4, <2>5 DEF fwd_client_on_data
<1>5. CASE \E f \in Forwarders : TakeSample(f)
  <2>1. PICK f \in Forwarders : TakeSample(f)
    BY <1>5
  <2>2. /\ core' = [what |-> announced[f], from |-> f] /\ unread' = unread \ {f}
        /\ UNCHANGED <<announced, state, device>> /\ core.from = None
    BY <2>1 DEF TakeSample, NoEvent
  <2>3. state = "ready" => device # None
    BY <1>t, FwdClientAssumption DEF TypeInv
  <2> QED  BY <2>2, <2>3
<1>6. CASE GetForwarders \/ ListDone \/ result_cb \/ \E e \in worker.list : forwarder_cb(e)
  BY <1>6 DEF GetForwarders, ListDone, result_cb, forwarder_cb
<1>7. CASE UseLocator
  BY <1>7, <1>s DEF UseLocator, EvalLocSrvData
<1>8. CASE \E f \in Forwarders : \E l \in Locators \cup {Unknown} : Publish(f, l)
  <2>1. PICK f \in Forwarders, l \in Locators \cup {Unknown} : Publish(f, l)
    BY <1>8
  <2>2. /\ unread' = unread \cup {f} /\ UNCHANGED <<core, state, device>>
        /\ announced' = [announced EXCEPT ![f] = l]
    BY <2>1 DEF Publish
  <2> QED  BY <2>2, <1>t DEF TypeOK, TypeInv
<1>9. CASE \E f \in Forwarders : Register(f)
  BY <1>9 DEF Register
<1>10. CASE \E f \in Forwarders : Leave(f)
  <2>1. PICK f \in Forwarders : Leave(f)
    BY <1>10
  <2>2. /\ unread' = unread \cup {f} /\ UNCHANGED <<core, state, device>>
        /\ announced' = [announced EXCEPT ![f] = None]
    BY <2>1 DEF Leave
  <2> QED  BY <2>2, <1>t DEF TypeOK, TypeInv
<1>11. CASE DestroyBegin \/ DestroyReader \/ DestroyTimer
  BY <1>11 DEF DestroyBegin, DestroyReader, DestroyTimer
<1> QED  BY <1>0, <1>1, <1>2, <1>3, <1>4, <1>5, <1>6, <1>7, <1>8, <1>9, <1>10, <1>11
         DEF Next, CoreStep, WorkerStep, EnvStep

\* A ready client uses a forwarder that is on the topic or whose removal it
\* will read: between the sample that on_data_available takes, the callback
\* and the state machine no removal gets lost, for any number of forwarders.
THEOREM ClientReadyIsAnnounced == Spec => []ReadyIsAnnounced
<1>1. Init => ReadyInv
  BY TypeInit DEF Init, ReadyInv, SampleIsFresh, ReadyIsAnnounced, NoEvent
<1>2. ReadyInv => ReadyIsAnnounced
  BY DEF ReadyInv
<1> QED  BY <1>1, <1>2, ReadyStep, PTL DEF Spec

-----------------------------------------------------------------------------
(* The search goes on.                                                     *)

\* Asking the location service starts the timer, with a positive time-out.
LEMMA ContactRuns ==
    ASSUME TypeOK, NEW reset \in BOOLEAN, fwd_client_contact_location_service(reset),
           2 * MinTimeout <= IntMax, timeout >= 0, 2 * timeout <= IntMax
    PROVE  /\ state' = "wait" /\ timeout' >= 0 /\ 2 * timeout' <= IntMax
           /\ LocationService /\ (reset \/ timeout > 0) => timer' /\ timeout' > 0
<1>1. timeout \in Int /\ MinTimeout \in Nat \ {0} /\ IntMax \in Nat
  BY FwdClientAssumption DEF TypeOK
<1>2. CASE LocationService
  <2>1. timeout' = IF reset THEN MinTimeout ELSE timeout
    BY <1>2 DEF fwd_client_contact_location_service, client_start_timer
  <2>2. timeout' >= 0 /\ 2 * timeout' <= IntMax
    BY <1>1, <2>1
  <2>3. reset \/ timeout > 0 => timeout' > 0 /\ timeout' # 0
    BY <1>1, <2>1
  <2>4. timeout' # 0 => timer'
    BY <1>2 DEF fwd_client_contact_location_service, client_start_timer
  <2> QED  BY <2>2, <2>3, <2>4 DEF fwd_client_contact_location_service
<1>3. CASE ~LocationService
  BY <1>1, <1>3 DEF fwd_client_contact_location_service
<1> QED  BY <1>2, <1>3

\* Every step keeps a client that still searches able to go on, if no timeout overflows.
LEMMA SearchStep ==
    ASSUME 2 * MinTimeout <= IntMax, 0 < MaxTimeout, 2 * MaxTimeout <= IntMax,
           SearchInv, [Next]_vars
    PROVE  SearchInv'
<1> USE DEF env, client
<1>t. TypeInv /\ TypeInv' /\ TypeOK
  BY TypeStep DEF SearchInv, TypeInv
<1>n. timeout \in Int /\ MinTimeout \in Nat \ {0} /\ IntMax \in Nat /\ MaxTimeout \in Nat
  BY <1>t, FwdClientAssumption DEF TypeOK
<1>i. TimeoutRuns /\ StillSearching
  BY DEF SearchInv
<1> SUFFICES TimeoutRuns' /\ StillSearching'
  BY <1>t DEF SearchInv
<1> USE <1>i DEF TimeoutRuns, StillSearching
<1>c. \A reset \in BOOLEAN : fwd_client_contact_location_service(reset) =>
          /\ state' = "wait" /\ timeout' >= 0 /\ 2 * timeout' <= IntMax
          /\ LocationService /\ (reset \/ timeout > 0) => timer' /\ timeout' > 0
  BY <1>t, ContactRuns
<1>0. CASE UNCHANGED vars
  BY <1>0 DEF vars
<1>1. CASE Start
  <2>1. CASE Preset
    BY <1>1, <2>1 DEF Start
  <2>2. CASE ~Preset
    <3>1. fwd_client_contact_location_service(TRUE) /\ UNCHANGED <<core, life>>
      BY <1>1, <2>2 DEF Start
    <3> QED  BY <3>1, <1>c
  <2> QED  BY <2>1, <2>2
<1>2. CASE TimerElapses
  BY <1>2 DEF TimerElapses
<1>3. CASE fwd_client_discovery_timeout
  <2>1. core.what = "timeout" /\ core' = NoEvent /\ UNCHANGED life /\ EvalTimeout
    BY <1>3 DEF fwd_client_discovery_timeout
  <2>2. CASE state = "ready" /\ Ignored
    BY <2>1, <2>2 DEF Ignored, NoEvent
  <2>3. CASE state \in {"wait", "wait_reader"} /\ fwd_client_contact_location_service(FALSE)
    BY <2>1, <2>3, <1>c DEF NoEvent
  <2> QED  BY <2>1, <2>2, <2>3 DEF EvalTimeout
<1>4. CASE fwd_client_on_data
  <2>1. core.from # None /\ core' = NoEvent /\ UNCHANGED life
    BY <1>4 DEF fwd_client_on_data
  <2>2. core.what # "timeout" /\ NoEvent.what # "timeout"
    BY <1>4, FwdClientAssumption DEF fwd_client_on_data, NoEvent
  <2>3. CASE Ignored
    BY <2>1, <2>2, <2>3 DEF Ignored
  <2>4. CASE state # "init" /\ state' = "ready" /\ timeout' = timeout
    BY <2>1, <2>4, <2>2
  <2>5. CASE fwd_client_contact_location_service(TRUE)
    BY <2>1, <2>2, <2>5, <1>c
  <2> QED  BY <1>4, <2>3, <2>4, <2>5 DEF fwd_client_on_data, EvalFwdData, EvalFwdRemoved
<1>5. CASE \E f \in Forwarders : TakeSample(f)
  <2>1. PICK f \in Forwarders : TakeSample(f)
    BY <1>5
  <2>2. core = NoEvent /\ core'.what = announced[f] /\ UNCHANGED <<state, timer, timeout, life>>
    BY <2>1 DEF TakeSample
  <2>3. NoEvent.what # "timeout" /\ announced[f] # "timeout"
    BY <1>t, FwdClientAssumption DEF NoEvent, TypeOK
  <2> QED  BY <2>2, <2>3
<1>6. CASE GetForwarders \/ ListDone \/ \E e \in worker.list : forwarder_cb(e)
  <2>1. UNCHANGED <<state, timer, timeout, core, life>>
    BY <1>6 DEF GetForwarders, ListDone, forwarder_cb
  <2> QED  BY <2>1
<1>7. CASE result_cb
  <2>1. /\ timeout' = Doubled(timeout) /\ UNCHANGED <<state, timer, core>>
        /\ life' = "open" => life = "open"
    BY <1>7 DEF result_cb
  <2>2. timeout' = IF 2 * timeout < MaxTimeout THEN 2 * timeout ELSE MaxTimeout
    BY <2>1, <1>n, DoubledType
  <2>3. timeout' >= 0 /\ 2 * timeout' <= IntMax /\ (timeout > 0 => timeout' > 0)
    BY <2>2, <1>n
  <2> QED  BY <2>1, <2>3
<1>8. CASE UseLocator
  BY <1>8 DEF UseLocator, EvalLocSrvData
<1>9. CASE \E f \in Forwarders : \/ \E l \in Locators \cup {Unknown} : Publish(f, l)
                                 \/ Register(f)
                                 \/ Leave(f)
  BY <1>9 DEF Publish, Register, Leave
<1>10. CASE DestroyBegin \/ DestroyReader
  BY <1>10 DEF DestroyBegin, DestroyReader
<1>11. CASE DestroyTimer
  BY <1>11 DEF DestroyTimer
<1> QED  BY <1>0, <1>1, <1>2, <1>3, <1>4, <1>5, <1>6, <1>7, <1>8, <1>9, <1>10, <1>11
         DEF Next, CoreStep, WorkerStep, EnvStep

\* A client that looks for a forwarder will ask the location service again,
\* when twice the configured time-outs fit an int.  result_cb needs that of
\* FWD_LOC_SRV_MAX_TIMEOUT, whose default does not satisfy it: the doubled
\* time-out wraps around, and DDS_Timer_start refuses a delay of 0.
THEOREM ClientStillSearching ==
    ASSUME 2 * MinTimeout <= IntMax, 0 < MaxTimeout, 2 * MaxTimeout <= IntMax
    PROVE  Spec => []StillSearching
<1>1. Init => SearchInv
  <2> SUFFICES ASSUME Init PROVE TimeoutRuns /\ StillSearching
    BY TypeInit DEF SearchInv
  <2> QED  BY FwdClientAssumption DEF Init, TimeoutRuns, StillSearching, NoEvent
<1>2. SearchInv /\ [Next]_vars => SearchInv'
  BY SearchStep
<1>3. SearchInv => StillSearching
  BY DEF SearchInv
<1> QED  BY <1>1, <1>2, <1>3, PTL DEF Spec
=============================================================================
