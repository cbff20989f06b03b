------------------------------ MODULE FwdClient ------------------------------
(***************************************************************************)
(* How a Qeo client finds a forwarder (qeo-c-core/src/forwarder.c).  The   *)
(* client listens to the Forwarder topic and asks the location service for *)
(* the list of registered forwarders.  Three threads work on the factory:  *)
(* the DDS core thread (timer and topic callbacks), the worker thread of a *)
(* location service request, and the application that closes the factory.  *)
(* They meet under factory->mutex; every action below is what one of them  *)
(* does between taking and releasing it.                                   *)
(*                                                                         *)
(* The forwarders, the topic's transport and the location service are the  *)
(* environment.  The reader keeps the last sample of an instance, so a     *)
(* callback sees the present state of a forwarder that changed.            *)
(***************************************************************************)
EXTENDS Integers

CONSTANTS
    Forwarders,      \* devices that can act as a forwarder
    Locators,        \* public addresses
    Home,            \* Home[f]: the address f starts with
    Others,          \* what a forwarder may announce besides Home: addresses, Unknown
    Crashes,         \* a forwarder may vanish without unregistering
    LocationService, \* FWD_DISABLE_LOCATION_SERVICE is not set
    Preset,          \* a TCP server is configured by hand
    Bgns,            \* client and forwarders offer the notification service
    MinTimeout,      \* FWD_LOC_SRV_MIN_TIMEOUT
    MaxTimeout,      \* FWD_LOC_SRV_MAX_TIMEOUT
    IntMax,          \* INT_MAX, the largest time-out that an int holds
    MayClose,        \* the application may close the factory
    MaxMoves,        \* bound: changes of the forwarders
    MaxFaults,       \* bound: requests that fail
    None, Unknown    \* no address; announced without an address

ASSUME FwdClientAssumption ==
    /\ Home \in [Forwarders -> Locators] /\ Others \subseteq Locators \cup {Unknown}
    /\ IntMax \in Nat /\ MinTimeout \in 1..IntMax /\ MaxTimeout \in 0..IntMax
    /\ MaxMoves \in Nat /\ MaxFaults \in Nat
    /\ None \notin Locators \cup Forwarders /\ Unknown \notin Locators \cup Forwarders
    /\ None # Unknown
    /\ {"idle", "timeout"} \cap (Locators \cup {None, Unknown}) = {}

VARIABLES
    announced,   \* the Forwarder topic: address, Unknown or None per device
    registered,  \* the location service: address or None per device
    unread,      \* devices with a sample the reader has not taken
    core,        \* the core thread: "idle", in the timer callback, or in on_data
    state,       \* fwd.u.client.state
    timer,       \* fwd.timer is running
    timeout,     \* fwd.timeout
    pending,     \* fwd.rqst_pending
    worker,      \* the thread of the request: its phase and the list it holds
    locator,     \* fwd.locator
    device,      \* fwd.device_id
    life,        \* how far fwd_destroy got
    stopped,     \* the management client's context is stopped
    moves, faults

env == <<announced, registered, unread, moves>>
client == <<state, timer, timeout, pending, locator, device>>
vars == <<env, client, core, worker, life, stopped, faults>>

Idle == [phase |-> "none", list |-> {}, pick |-> None]
NoEvent == [what |-> "idle", from |-> None]

Init ==
    /\ announced = [f \in Forwarders |-> None]
    /\ registered = [f \in Forwarders |-> None]
    /\ unread = {}
    /\ core = NoEvent
    /\ state = "init" /\ timer = FALSE /\ timeout = 0 /\ pending = FALSE
    /\ worker = Idle
    /\ locator = None /\ device = None
    /\ life = "open" /\ stopped = FALSE
    /\ moves = 0 /\ faults = 0

(***************************************************************************)
(* The environment                                                         *)
(***************************************************************************)
\* A forwarder announces an address on the topic, for the first time or anew.
Publish(f, l) ==
    /\ moves < MaxMoves /\ moves' = moves + 1
    /\ announced[f] # l
    /\ l \in Others \cup {Home[f]}
    /\ announced' = [announced EXCEPT ![f] = l]
    /\ unread' = unread \cup {f}
    /\ UNCHANGED <<registered, client, core, worker, life, stopped, faults>>

\* After that it registers the address at the location service.
Register(f) ==
    /\ announced[f] \in Locators /\ registered[f] # announced[f]
    /\ registered' = [registered EXCEPT ![f] = announced[f]]
    /\ UNCHANGED <<announced, unread, moves, client, core, worker, life, stopped, faults>>

\* It leaves; the instance is disposed or loses its writer.
Leave(f) ==
    /\ moves < MaxMoves /\ moves' = moves + 1
    /\ announced[f] # None
    /\ announced' = [announced EXCEPT ![f] = None]
    /\ \/ registered' = [registered EXCEPT ![f] = None]
       \/ Crashes /\ registered' = registered
    /\ unread' = unread \cup {f}
    /\ UNCHANGED <<client, core, worker, life, stopped, faults>>

(***************************************************************************)
(* Asking the location service                                             *)
(***************************************************************************)
\* What an int becomes that runs past IntMax.
Wrap(n) == ((n + IntMax + 1) % (2 * (IntMax + 1))) - (IntMax + 1)

\* result_cb's new time-out.
Doubled(t) == IF Wrap(2 * t) < MaxTimeout THEN Wrap(2 * t) ELSE MaxTimeout

\* One request at a time; the thread may fail to start.
fwd_get_list ==
    \/ /\ pending
       /\ UNCHANGED <<pending, worker, faults>>
    \/ /\ ~pending
       /\ pending' = TRUE
       /\ worker' = [Idle EXCEPT !.phase = "get"]
       /\ UNCHANGED faults
    \/ /\ ~pending
       /\ faults < MaxFaults /\ faults' = faults + 1
       /\ UNCHANGED <<pending, worker>>

\* DDS_Timer_start refuses a delay of 0.
client_start_timer(reset) ==
    /\ timeout' = IF reset THEN MinTimeout ELSE timeout
    /\ timer' = (timer \/ timeout' # 0)

fwd_client_contact_location_service(reset) ==
    /\ state' = "wait"
    /\ IF LocationService
       THEN client_start_timer(reset) /\ fwd_get_list
       ELSE UNCHANGED <<timer, timeout, pending, worker, faults>>

\* The request itself: the list of registered forwarders, or nothing.
GetForwarders ==
    /\ worker.phase = "get"
    /\ \/ /\ ~stopped
          /\ worker' = [worker EXCEPT !.phase = "list",
                            !.list = {[id |-> f, loc |-> registered[f]] :
                                        f \in {g \in Forwarders : registered[g] # None}}]
          /\ UNCHANGED faults
       \/ /\ stopped
          /\ worker' = [worker EXCEPT !.phase = "result"]
          /\ UNCHANGED faults
       \/ /\ ~stopped /\ faults < MaxFaults /\ faults' = faults + 1
          /\ worker' = [worker EXCEPT !.phase = "result"]
    /\ UNCHANGED <<env, client, core, life, stopped>>

\* forwarder_cb looks at the state without the lock.
forwarder_cb(e) ==
    /\ worker.phase = "list" /\ e \in worker.list
    /\ worker' = [worker EXCEPT !.list = @ \ {e},
                      !.phase = IF state = "wait" THEN "use" ELSE "list",
                      !.pick = IF state = "wait" THEN e ELSE None]
    /\ UNCHANGED <<env, client, core, life, stopped, faults>>

\* No entry is left.
ListDone ==
    /\ worker.phase = "list" /\ worker.list = {}
    /\ worker' = [worker EXCEPT !.phase = "result"]
    /\ UNCHANGED <<env, client, core, life, stopped, faults>>

\* The request is over: the next one waits longer, a closing factory goes on.
result_cb ==
    /\ worker.phase = "result"
    /\ worker' = Idle
    /\ pending' = FALSE
    /\ timeout' = Doubled(timeout)
    /\ life' = IF life = "waiting" THEN "closing" ELSE life
    /\ UNCHANGED <<env, state, timer, locator, device, core, stopped, faults>>

(***************************************************************************)
(* client_state_machine_eval, one operator per event                       *)
(***************************************************************************)
fwd_client_reconfig(l, f) == locator' = l /\ device' = f

\* An event that the state does not expect is only logged.
Ignored == UNCHANGED <<client, worker, faults>>

\* Mutant of EvalTimeout: a client that has an address does not ask again.
EvalTimeoutWait ==
    \/ /\ state = "wait"
       /\ fwd_client_contact_location_service(FALSE)
       /\ UNCHANGED <<locator, device>>
    \/ state # "wait" /\ Ignored

EvalTimeout ==
    \/ /\ state \in {"wait", "wait_reader"}
       /\ fwd_client_contact_location_service(FALSE)
       /\ UNCHANGED <<locator, device>>
    \/ state = "ready" /\ Ignored

EvalFwdData(l, f) ==
    \/ /\ state = "wait"
       /\ fwd_client_reconfig(l, f)
       /\ timer' = FALSE /\ state' = "ready"
       /\ UNCHANGED <<timeout, pending, worker, faults>>
    \/ /\ state = "wait_reader"
       /\ timer' = FALSE /\ state' = "ready"
       /\ IF device # f \/ Bgns THEN fwd_client_reconfig(l, f)
                                ELSE UNCHANGED <<locator, device>>
       /\ UNCHANGED <<timeout, pending, worker, faults>>
    \/ state = "ready" /\ Ignored

EvalFwdRemoved ==
    \/ /\ state = "ready"
       /\ fwd_client_contact_location_service(TRUE)
       /\ UNCHANGED <<locator, device>>
    \/ state # "ready" /\ Ignored

\* Mutant of EvalLocSrvData: an address ends the search.
EvalLocSrvDataStops(l, f) ==
    IF state = "wait"
    THEN /\ fwd_client_reconfig(l, f)
         /\ state' = "wait_reader" /\ timer' = FALSE
         /\ UNCHANGED <<timeout, pending>>
    ELSE UNCHANGED client

EvalLocSrvData(l, f) ==
    IF state = "wait"
    THEN /\ fwd_client_reconfig(l, f)
         /\ state' = "wait_reader"
         /\ UNCHANGED <<timer, timeout, pending>>
    ELSE UNCHANGED client

\* CLIENT_EVENT_START, from fwd_init_post_auth.
Start ==
    /\ state = "init"
    /\ IF Preset
       THEN state' = "wait" /\ UNCHANGED <<timer, timeout, pending, worker, faults>>
       ELSE fwd_client_contact_location_service(TRUE)
    /\ UNCHANGED <<env, locator, device, core, life, stopped>>

\* The worker hands the address it picked to the state machine.
UseLocator ==
    /\ worker.phase = "use"
    /\ EvalLocSrvData(worker.pick.loc, worker.pick.id)
    /\ worker' = [worker EXCEPT !.phase = "list", !.pick = None]
    /\ UNCHANGED <<env, core, life, stopped, faults>>

(***************************************************************************)
(* The core thread                                                         *)
(***************************************************************************)
\* tmr_manage takes the timer off its list; the callback then needs the lock.
TimerElapses ==
    /\ core = NoEvent /\ timer
    /\ timer' = FALSE
    /\ core' = [what |-> "timeout", from |-> None]
    /\ UNCHANGED <<env, state, timeout, pending, locator, device, worker, life, stopped, faults>>

fwd_client_discovery_timeout ==
    /\ core.what = "timeout" /\ life # "deleted"
    /\ EvalTimeout
    /\ core' = NoEvent
    /\ UNCHANGED <<env, life, stopped>>

\* Mutant of TakeSample: one sample per notification.
TakeSampleOnly(f) ==
    /\ core = NoEvent /\ f \in unread
    /\ state # "init" /\ life \in {"open", "waiting", "closing"}
    /\ core' = [what |-> announced[f], from |-> f]
    /\ unread' = {}
    /\ UNCHANGED <<announced, registered, moves, client, worker, life, stopped, faults>>

\* on_data_available takes a sample of an instance that changed ...
TakeSample(f) ==
    /\ core = NoEvent /\ f \in unread
    /\ state # "init" /\ life \in {"open", "waiting", "closing"}
    /\ core' = [what |-> announced[f], from |-> f]
    /\ unread' = unread \ {f}
    /\ UNCHANGED <<announced, registered, moves, client, worker, life, stopped, faults>>

\* ... and fwd_client_on_data gives it to the state machine.
fwd_client_on_data ==
    /\ core.from # None
    /\ \/ core.what \in Locators /\ EvalFwdData(core.what, core.from)
       \/ core.what = Unknown /\ Ignored
       \/ core.what = None /\ EvalFwdRemoved
    /\ core' = NoEvent
    /\ UNCHANGED <<env, life, stopped>>

(***************************************************************************)
(* fwd_destroy, by the application                                         *)
(***************************************************************************)
\* A pending request is stopped and waited for.
DestroyBegin ==
    /\ MayClose /\ life = "open" /\ state # "init"
    /\ IF pending THEN life' = "waiting" /\ stopped' = TRUE
                  ELSE life' = "closing" /\ UNCHANGED stopped
    /\ UNCHANGED <<env, client, core, worker, faults>>

\* Deleting the reader waits for its callback.
DestroyReader ==
    /\ life = "closing" /\ core.from = None
    /\ life' = "no_reader"
    /\ UNCHANGED <<env, client, core, worker, stopped, faults>>

\* The timer, the condition variable and the address are gone.
DestroyTimer ==
    /\ life = "no_reader"
    /\ life' = "deleted"
    /\ timer' = FALSE /\ locator' = None
    /\ UNCHANGED <<env, state, timeout, pending, device, core, worker, stopped, faults>>

CoreStep == TimerElapses \/ fwd_client_discovery_timeout \/ fwd_client_on_data
            \/ \E f \in Forwarders : TakeSample(f)
WorkerStep == GetForwarders \/ ListDone \/ result_cb \/ UseLocator
              \/ \E e \in worker.list : forwarder_cb(e)
EnvStep == \E f \in Forwarders : \/ \E l \in Locators \cup {Unknown} : Publish(f, l)
                                 \/ Register(f)
                                 \/ Leave(f)

Next == Start \/ CoreStep \/ WorkerStep \/ EnvStep
        \/ DestroyBegin \/ DestroyReader \/ DestroyTimer

Spec == Init /\ [][Next]_vars

\* The threads are scheduled and a forwarder that starts also registers.
Fairness ==
    /\ WF_vars(Start) /\ WF_vars(WorkerStep)
    /\ WF_vars(TimerElapses) /\ WF_vars(fwd_client_discovery_timeout) /\ WF_vars(fwd_client_on_data)
    /\ \A f \in Forwarders : WF_vars(TakeSample(f)) /\ WF_vars(Register(f))
FairSpec == Init /\ [][Next]_vars /\ Fairness

(***************************************************************************)
(* Properties                                                              *)
(***************************************************************************)
\* Every variable keeps its type; the time-out, which result_cb doubles, is an
\* int, and an address is used together with the device it belongs to.
TypeOK ==
    LET Entry == [id : Forwarders, loc : Locators]
        Phases == {"none", "get", "list", "use", "result"}
    IN  /\ announced \in [Forwarders -> Locators \cup {None, Unknown}]
        /\ registered \in [Forwarders -> Locators \cup {None}]
        /\ unread \subseteq Forwarders
        /\ core \in [what : {"idle", "timeout", None, Unknown} \cup Locators,
                     from : Forwarders \cup {None}]
        /\ state \in {"init", "wait", "wait_reader", "ready"}
        /\ timer \in BOOLEAN /\ pending \in BOOLEAN /\ stopped \in BOOLEAN
        /\ timeout \in -(IntMax + 1)..IntMax
        /\ worker \in [phase : Phases, list : SUBSET Entry, pick : Entry \cup {None}]
        /\ locator \in Locators \cup {None} /\ device \in Forwarders \cup {None}
        /\ life # "deleted" => (locator = None <=> device = None)
        /\ life \in {"open", "waiting", "closing", "no_reader", "deleted"}
        /\ moves \in 0..MaxMoves /\ faults \in 0..MaxFaults

\* A client that is looking for a forwarder will ask the location service
\* again: its timer runs or its callback is under way, whatever the topic and
\* the answers do to the state machine meanwhile.
StillSearching ==
    life = "open" /\ LocationService /\ ~Preset /\ state \in {"wait", "wait_reader"}
        => timer \/ core.what = "timeout"

\* A client that is ready uses a forwarder that is on the topic, or whose
\* removal it has yet to read: no removal is lost between the reader, the
\* callback and the state machine.
ReadyIsAnnounced ==
    state = "ready" =>
        \/ announced[device] # None
        \/ device \in unread
        \/ core.from = device /\ core.what = None

\* When one forwarder remains, announced and registered, the client comes to
\* use it and keeps using it, whichever forwarders it tried before, unless
\* its factory is closed.
Only(f) == /\ announced = [g \in Forwarders |-> IF g = f THEN Home[f] ELSE None]
           /\ registered = announced
FindsForwarder ==
    \A f \in Forwarders : [](life = "open") /\ <>[]Only(f) => <>[](locator = Home[f])

\* A ready client uses the address its forwarder announces, unless that news
\* is on its way (location_service_main.c compares the two).
UsesAnnounced ==
    state = "ready" /\ announced[device] \in Locators
        => \/ locator = announced[device]
           \/ device \in unread
           \/ core.from = device

\* A client waits only while no forwarder is announced (FWD_CLIENT_STATE_WAIT
\* is "waiting for any forwarders").
WaitsForNone ==
    state = "wait" /\ unread = {} /\ core = NoEvent
        => \A f \in Forwarders : announced[f] \notin Locators

\* When fwd_destroy has deleted the timer and the condition variable, nobody
\* is about to use them.
DestroyedIsQuiet ==
    life = "deleted" => core.what # "timeout" /\ worker.phase = "none"
=============================================================================
