------------------------------ MODULE FwdServer ------------------------------
(***************************************************************************)
(* How the forwarders of a local network agree that one of them forwards   *)
(* (qeo-c-core/src/forwarder.c) and how the forwarder application finds    *)
(* the public address it needs for that (qeo-forwarder/src/forwarder.c).   *)
(*                                                                         *)
(* In a server the DDS core thread runs the timer and topic callbacks; the *)
(* application thread owns the UPnP state machine.  Both evaluate the      *)
(* server's state machine under factory->mutex, one evaluation per action; *)
(* the callback that asks for the address is made without the mutex.       *)
(* _state_mutex of the application is held whenever its thread does not    *)
(* wait.  UPnP, the topic's transport and the location service are the     *)
(* environment.                                                            *)
(***************************************************************************)
EXTENDS Integers, FiniteSets

CONSTANTS
    Servers,
    Preconfigured,  \* servers whose public address is configured by hand
    Prompt,         \* the application's thread waits before the first request
    MayFail,        \* subset of {"publish", "register"}: what may go wrong
    MaxFaults,      \* bound: failures of publishing, registering and UPnP
    MaxMoves,       \* bound: changes of a public address
    MaxStops        \* bound: servers that crash or are closed

ASSUME FwdServerAssumption ==
    /\ IsFiniteSet(Servers) /\ Preconfigured \subseteq Servers
    /\ MayFail \subseteq {"publish", "register"}
    /\ MaxFaults \in Nat /\ MaxMoves \in Nat /\ MaxStops \in Nat

VARIABLES
    up,       \* "new", "up" or "gone"
    st,       \* fwd.u.server.state
    timer,    \* fwd.timer is running
    core,     \* what the core thread holds: nothing, a time-out, a count, a request
    topic,    \* servers with an instance on the Forwarder topic
    seen,     \* seen[s]: the instances in the reader of s
    news,     \* servers whose reader has a notification outstanding
    listed,   \* servers registered at the location service
    app,      \* the application: phase, _state, poll timer, known device and address
    faults, moves, stops

fwd == <<st, timer, core>>
net == <<topic, seen, news, listed>>
bounds == <<faults, moves, stops>>
vars == <<up, fwd, net, app, bounds>>

Idle == [what |-> "idle", n |-> 0]
Timeout == [what |-> "timeout", n |-> 0]
Asking == [what |-> "asking", n |-> 0]
Count(n) == [what |-> "count", n |-> n]

Init ==
    /\ up = [s \in Servers |-> "new"]
    /\ st = [s \in Servers |-> "init"]
    /\ timer = [s \in Servers |-> FALSE]
    /\ core = [s \in Servers |-> Idle]
    /\ topic = {} /\ seen = [s \in Servers |-> {}] /\ news = {} /\ listed = {}
    /\ app = [s \in Servers |-> [phase |-> "boot", state |-> "idle",
                                 armed |-> FALSE, igd |-> FALSE, wan |-> FALSE]]
    /\ faults = 0 /\ moves = 0 /\ stops = 0

(***************************************************************************)
(* fwd_server_state_machine_eval_ul                                        *)
(***************************************************************************)
\* fwd_init_post_auth: the first evaluation starts the timer and the reader.
Start(s) ==
    /\ up[s] = "new"
    /\ up' = [up EXCEPT ![s] = "up"]
    /\ timer' = [timer EXCEPT ![s] = TRUE]
    /\ st' = [st EXCEPT ![s] = "wait_local"]
    /\ UNCHANGED <<core, net, app, bounds>>

\* The core thread asks the application for an address, without the lock.
AskLocator(s) ==
    /\ st' = [st EXCEPT ![s] = "starting"]
    /\ core' = [core EXCEPT ![s] = Asking]

\* tmr_manage takes the timer off its list; the callback then needs the lock.
TimerElapses(s) ==
    /\ up[s] = "up" /\ core[s] = Idle /\ timer[s]
    /\ timer' = [timer EXCEPT ![s] = FALSE]
    /\ core' = [core EXCEPT ![s] = Timeout]
    /\ UNCHANGED <<up, st, net, app, bounds>>

fwd_server_timeout(s) ==
    /\ up[s] = "up" /\ core[s] = Timeout
    /\ \/ st[s] = "wait_local" /\ AskLocator(s)
       \/ st[s] # "wait_local" /\ core' = [core EXCEPT ![s] = Idle] /\ UNCHANGED st
    /\ UNCHANGED <<up, timer, net, app, bounds>>

\* fwd_server_on_data counts the instances before it takes the lock ...
fwd_server_count_instances(s) ==
    /\ up[s] = "up" /\ core[s] = Idle /\ s \in news
    /\ core' = [core EXCEPT ![s] = Count(Cardinality(seen[s]))]
    /\ news' = news \ {s}
    /\ UNCHANGED <<up, st, timer, topic, seen, listed, app, bounds>>

\* Mutant of GivesWay: a server that is starting does not mind the others.
GivesWayEarly(s, n) == n > 0 /\ st[s] = "wait_local"

\* ... and evaluates the state machine with the count: a server that does not
\* forward yet leaves it to the others,
GivesWay(s, n) == n > 0 /\ st[s] \in {"wait_local", "starting"}

\* Mutant of TakesOver: only while the discovery timer runs.
TakesOverWaiting(s, n) == n = 0 /\ st[s] = "disabled" /\ timer[s]

\* Mutant of TakesOver: the server believes that it counts itself.
TakesOverAlone(s, n) == n = 1 /\ st[s] = "disabled"

\* and one that left it to them starts when they are gone.
TakesOver(s, n) == n = 0 /\ st[s] = "disabled"

EvalCount(s, n) ==
    \/ /\ GivesWay(s, n)
       /\ timer' = [timer EXCEPT ![s] = FALSE]
       /\ st' = [st EXCEPT ![s] = "disabled"]
       /\ core' = [core EXCEPT ![s] = Idle]
    \/ /\ TakesOver(s, n)
       /\ AskLocator(s)
       /\ UNCHANGED timer
    \/ /\ ~GivesWay(s, n) /\ ~TakesOver(s, n)
       /\ core' = [core EXCEPT ![s] = Idle]
       /\ UNCHANGED <<st, timer>>

fwd_server_on_data(s) ==
    /\ up[s] = "up" /\ core[s].what = "count"
    /\ EvalCount(s, core[s].n)
    /\ UNCHANGED <<up, net, app, bounds>>

\* An address is there: announce it on the topic, then register it; the first
\* of the two that fails disables the server.
fwd_server_start_forwarding(s) ==
    \/ /\ topic' = topic \cup {s} /\ listed' = listed \cup {s}
       /\ st' = [st EXCEPT ![s] = "enabled"]
       /\ UNCHANGED faults
    \/ /\ faults < MaxFaults /\ faults' = faults + 1
       /\ \E failing \in MayFail :
              topic' = IF failing = "publish" THEN topic ELSE topic \cup {s}
       /\ st' = [st EXCEPT ![s] = "disabled"]
       /\ UNCHANGED listed

\* The evaluation of fwd_server_reconfig, which the application calls.
EvalLocator(s) ==
    \/ /\ st[s] \in {"starting", "enabled"}
       /\ fwd_server_start_forwarding(s)
    \/ /\ st[s] \in {"wait_local", "disabled"}
       /\ UNCHANGED <<st, topic, listed, faults>>

(***************************************************************************)
(* get_public_locator_callback and the application's thread                *)
(***************************************************************************)
\* A configured address is given at once, from within the callback.
AnswerNow(s) ==
    /\ up[s] = "up" /\ core[s] = Asking /\ s \in Preconfigured
    /\ EvalLocator(s)
    /\ core' = [core EXCEPT ![s] = Idle]
    /\ UNCHANGED <<up, timer, seen, news, app, moves, stops>>

\* Otherwise state_change passes the request on to the application's thread.
AnswerLater(s) ==
    /\ up[s] = "up" /\ core[s] = Asking /\ s \notin Preconfigured
    /\ app[s].phase \in {"wait", "awake"} \cup IF Prompt THEN {} ELSE {"boot"}
    /\ app' = [app EXCEPT ![s].state = "requested",
                          ![s].phase = IF @ = "wait" THEN "awake" ELSE @]
    /\ core' = [core EXCEPT ![s] = Idle]
    /\ UNCHANGED <<up, st, timer, net, bounds>>

\* The top of the loop in state_machine_run: a poll timer sets the state, then
\* the thread waits without looking at the state.
Loop(a) == [a EXCEPT !.phase = "wait",
                     !.state = IF a.armed THEN IF a.igd THEN "poll" ELSE "requested"
                                          ELSE @]

state_machine_run(s) ==
    /\ up[s] = "up" /\ app[s].phase = "boot"
    /\ app' = [app EXCEPT ![s] = Loop(@)]
    /\ UNCHANGED <<up, fwd, net, bounds>>

\* update_locator: the address is set when it is new, and a lost one is
\* replaced by 0.0.0.0; in any case the poll timer is started.
update_locator(s) ==
    LET a == [app[s] EXCEPT !.armed = TRUE] IN
    \/ /\ app' = [app EXCEPT ![s] =
             IF a.wan THEN Loop([a EXCEPT !.igd = TRUE])
                      ELSE [a EXCEPT !.phase = "set", !.igd = TRUE, !.wan = TRUE]]
       /\ UNCHANGED faults
    \/ /\ faults < MaxFaults /\ faults' = faults + 1
       /\ app' = [app EXCEPT ![s] =
             IF a.igd THEN [a EXCEPT !.phase = "set", !.igd = FALSE, !.wan = FALSE]
                      ELSE Loop(a)]

\* The thread was signalled, or its poll timer elapsed.
AppRuns(s) ==
    /\ up[s] = "up"
    /\ \/ app[s].phase = "awake" /\ app[s].state = "requested"
       \/ app[s].phase = "wait" /\ app[s].armed
    /\ update_locator(s)
    /\ UNCHANGED <<up, fwd, net, moves, stops>>

\* It hands the address to the factory.
AppSets(s) ==
    /\ up[s] = "up" /\ app[s].phase = "set"
    /\ EvalLocator(s)
    /\ app' = [app EXCEPT ![s] = Loop(@)]
    /\ UNCHANGED <<up, timer, core, seen, news, moves, stops>>

\* The router gets another public address.
AddressChanges(s) ==
    /\ s \notin Preconfigured /\ app[s].wan
    /\ moves < MaxMoves /\ moves' = moves + 1
    /\ app' = [app EXCEPT ![s].wan = FALSE]
    /\ UNCHANGED <<up, fwd, net, faults, stops>>

(***************************************************************************)
(* The topic, crashes and fwd_destroy                                      *)
(***************************************************************************)
\* The reader of s learns that the instance of r came or went.
Deliver(s, r) ==
    /\ up[s] = "up" /\ (r \in topic) # (r \in seen[s])
    /\ seen' = [seen EXCEPT ![s] = IF r \in topic THEN @ \cup {r} ELSE @ \ {r}]
    /\ news' = news \cup {s}
    /\ UNCHANGED <<up, fwd, topic, listed, app, bounds>>

Crash(s) ==
    /\ up[s] = "up" /\ stops < MaxStops /\ stops' = stops + 1
    /\ up' = [up EXCEPT ![s] = "gone"]
    /\ UNCHANGED <<fwd, net, app, faults, moves>>

\* The participant's lease ends and its instance has no writer any more.
Expire(s) ==
    /\ up[s] = "gone" /\ s \in topic
    /\ topic' = topic \ {s}
    /\ UNCHANGED <<up, fwd, seen, news, listed, app, bounds>>

\* fwd_destroy of a server: the registration, the instance and the writer go.
fwd_destroy(s) ==
    /\ up[s] = "up" /\ core[s] = Idle /\ stops < MaxStops /\ stops' = stops + 1
    /\ up' = [up EXCEPT ![s] = "gone"]
    /\ listed' = listed \ {s} /\ topic' = topic \ {s}
    /\ UNCHANGED <<fwd, seen, news, app, faults, moves>>

CoreStep(s) == TimerElapses(s) \/ fwd_server_timeout(s) \/ fwd_server_count_instances(s)
               \/ fwd_server_on_data(s) \/ AnswerNow(s) \/ AnswerLater(s)
AppStep(s) == state_machine_run(s) \/ AppRuns(s) \/ AppSets(s)
EnvStep(s) == Crash(s) \/ Expire(s) \/ fwd_destroy(s) \/ AddressChanges(s)
              \/ \E r \in Servers : Deliver(s, r)

Next == \E s \in Servers : Start(s) \/ CoreStep(s) \/ AppStep(s) \/ EnvStep(s)

Spec == Init /\ [][Next]_vars

\* Threads are scheduled, the reliable topic delivers, leases end.
Fairness ==
    \A s \in Servers :
        /\ WF_vars(Start(s)) /\ WF_vars(TimerElapses(s)) /\ WF_vars(fwd_server_timeout(s))
        /\ WF_vars(fwd_server_count_instances(s)) /\ WF_vars(fwd_server_on_data(s))
        /\ WF_vars(AnswerNow(s) \/ AnswerLater(s))
        /\ WF_vars(AppStep(s)) /\ WF_vars(Expire(s))
        /\ \A r \in Servers : WF_vars(Deliver(s, r))
FairSpec == Init /\ [][Next]_vars /\ Fairness

(***************************************************************************)
(* Properties                                                              *)
(***************************************************************************)
\* Every variable keeps its type; the application knows a public address only
\* of a gateway that it knows, and a count is at most the number of servers.
TypeOK ==
    /\ up \in [Servers -> {"new", "up", "gone"}]
    /\ st \in [Servers -> {"init", "wait_local", "starting", "enabled", "disabled"}]
    /\ timer \in [Servers -> BOOLEAN]
    /\ core \in [Servers -> [what : {"idle", "timeout", "asking", "count"},
                             n : 0..Cardinality(Servers)]]
    /\ topic \subseteq Servers /\ news \subseteq Servers /\ listed \subseteq Servers
    /\ seen \in [Servers -> SUBSET Servers]
    /\ app \in [Servers -> [phase : {"boot", "wait", "awake", "set"},
                            state : {"idle", "requested", "poll"},
                            armed : BOOLEAN, igd : BOOLEAN, wan : BOOLEAN]]
    /\ \A s \in Servers : app[s].wan => app[s].igd
    /\ faults \in 0..MaxFaults /\ moves \in 0..MaxMoves /\ stops \in 0..MaxStops

\* What the reader of s shows, or will make the state machine look at.
Informed(s) == s \in news \/ core[s].what = "count"

\* A server does not go on starting once its reader shows another forwarder:
\* the notification that will stop it is on its way, whatever the timer, the
\* count taken before the lock and the application's answer did in between.
StartsAlone ==
    \A s \in Servers : up[s] = "up" /\ st[s] = "starting" /\ seen[s] # {}
                           => Informed(s)

\* A server that leaves forwarding to others sees a forwarder (be it itself),
\* or will be told that there is none: no server rests on one that is gone.
DisabledHasReason ==
    \A s \in Servers : up[s] = "up" /\ st[s] = "disabled" /\ seen[s] = {}
                           => Informed(s) \/ s \in topic

\* As long as a server of P is up, the clients come to find one that is up on
\* the topic, for good, whichever servers crash, close or lose their address
\* and however their announcements cross.
Forwards(P) == <>[](\E s \in P : up[s] = "up") => <>[](\E s \in topic : up[s] = "up")

\* So it is when one with a configured address stays up.
Elected == Forwards(Preconfigured)

\* The same of any server, because the application answers every request for
\* an address (qeocore_fwdfactory_set_public_locator).
ElectedAny == Forwards(Servers)

\* A server that is "disabled as a forwarder" (FWD_STATE_DISABLED) does not
\* announce itself as one.
DisabledIsSilent ==
    \A s \in Servers : up[s] = "up" /\ st[s] = "disabled" => s \notin topic

\* The application's thread does not sleep on a request for an address.
RequestIsSeen ==
    \A s \in Servers : ~(app[s].phase = "wait" /\ app[s].state = "requested" /\ ~app[s].armed)
=============================================================================
