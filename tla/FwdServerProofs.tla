-------------------------- MODULE FwdServerProofs --------------------------
(***************************************************************************)
(* Proofs about FwdServer, for any number of servers and any bounds.       *)
(***************************************************************************)
EXTENDS FwdServer, FiniteSetTheorems, TLAPS

-----------------------------------------------------------------------------
(* The inductive invariant.                                                *)

\* A server that has not started has read nothing.
NewIsBlank == \A s \in Servers : up[s] = "new" => seen[s] = {}

\* A count taken before the lock is right, or another notification follows.
CountIsFresh ==
    \A s \in Servers : core[s].what = "count"
                           => s \in news \/ core[s].n = Cardinality(seen[s])

\* StartsAlone already holds while the discovery timer runs: the time-out
\* makes a waiting server a starting one without another look at the topic.
WaitsAlone ==
    \A s \in Servers :
        up[s] = "up" /\ st[s] \in {"wait_local", "starting"} /\ seen[s] # {}
            => Informed(s)

\* What is true whatever may fail.
ElectionInv == TypeOK /\ NewIsBlank /\ CountIsFresh /\ WaitsAlone

-----------------------------------------------------------------------------
(* Type correctness.                                                       *)

\* A count of instances is a number of servers, and 0 only of none.
LEMMA CountType ==
    ASSUME NEW S \in SUBSET Servers
    PROVE  /\ Cardinality(S) \in 0..Cardinality(Servers)
           /\ Cardinality(S) = 0 <=> S = {}
<1>1. IsFiniteSet(S) /\ Cardinality(S) <= Cardinality(Servers)
  BY FwdServerAssumption, FS_Subset
<1>2. Cardinality(S) \in Nat /\ Cardinality(Servers) \in Nat
  BY <1>1, FwdServerAssumption, FS_CardinalityType
<1>3. Cardinality(S) = 0 <=> S = {}
  BY <1>1, FS_EmptySet
<1> QED  BY <1>1, <1>2, <1>3

\* The application's record keeps its type through an iteration of its loop.
App == [phase : {"boot", "wait", "awake", "set"},
        state : {"idle", "requested", "poll"},
        armed : BOOLEAN, igd : BOOLEAN, wan : BOOLEAN]

\* One turn of the main loop keeps the application a record of its type and leaves wan and igd
\* alone.
LEMMA LoopType ==
    ASSUME NEW a \in App
    PROVE  /\ Loop(a) \in App
           /\ Loop(a).wan = a.wan /\ Loop(a).igd = a.igd
BY DEF Loop, App

\* The initial state of the forwarders is well typed.
LEMMA TypeInit == Init => TypeOK
<1> SUFFICES ASSUME Init PROVE TypeOK
  OBVIOUS
<1>1. 0 \in 0..Cardinality(Servers)
  BY CountType, FwdServerAssumption, FS_CardinalityType
<1> QED  BY <1>1, FwdServerAssumption DEF Init, TypeOK, Idle

\* What evaluating an address does to the variables it changes.
LEMMA LocatorType ==
    ASSUME TypeOK, NEW s \in Servers, EvalLocator(s)
    PROVE  /\ st' \in [Servers -> {"init", "wait_local", "starting", "enabled", "disabled"}]
           /\ topic' \subseteq Servers /\ listed' \subseteq Servers
           /\ faults' \in 0..MaxFaults
BY FwdServerAssumption DEF TypeOK, EvalLocator, fwd_server_start_forwarding

\* Every step of a forwarder and of the bus keeps the types.
LEMMA TypeStep == TypeOK /\ [Next]_vars => TypeOK'
<1> SUFFICES ASSUME TypeOK, [Next]_vars PROVE TypeOK'
  OBVIOUS
<1> USE DEF fwd, net, bounds
<1>0. CASE UNCHANGED vars
  BY <1>0 DEF TypeOK, vars
<1> SUFFICES ASSUME NEW s \in Servers,
                    Start(s) \/ CoreStep(s) \/ AppStep(s) \/ EnvStep(s)
             PROVE  TypeOK'
  BY <1>0 DEF Next
<1>n. 0 \in 0..Cardinality(Servers)
  BY FwdServerAssumption, FS_CardinalityType
<1>1. CASE Start(s)
  BY <1>1 DEF Start, TypeOK
<1>2. CASE TimerElapses(s)
  BY <1>2, <1>n DEF TimerElapses, TypeOK, Timeout
<1>3. CASE fwd_server_timeout(s)
  BY <1>3, <1>n DEF fwd_server_timeout, AskLocator, TypeOK, Asking, Idle
<1>4. CASE fwd_server_count_instances(s)
  <2>1. Cardinality(seen[s]) \in 0..Cardinality(Servers)
    BY CountType DEF TypeOK
  <2> QED  BY <1>4, <2>1 DEF fwd_server_count_instances, TypeOK, Count
<1>5. CASE fwd_server_on_data(s)
  <2>1. timer' \in [Servers -> BOOLEAN]
    BY <1>5 DEF fwd_server_on_data, EvalCount, TypeOK
  <2>2. st' \in [Servers -> {"init", "wait_local", "starting", "enabled", "disabled"}]
    BY <1>5 DEF fwd_server_on_data, EvalCount, AskLocator, TypeOK
  <2>3. core' = [core EXCEPT ![s] = Idle] \/ core' = [core EXCEPT ![s] = Asking]
    BY <1>5 DEF fwd_server_on_data, EvalCount, AskLocator
  <2>4. core' \in [Servers -> [what : {"idle", "timeout", "asking", "count"},
                              n : 0..Cardinality(Servers)]]
    BY <2>3, <1>n DEF TypeOK, Idle, Asking
  <2> QED  BY <1>5, <2>1, <2>2, <2>4 DEF fwd_server_on_data, TypeOK
<1>6. CASE AnswerNow(s)
  BY <1>6, <1>n, LocatorType DEF AnswerNow, TypeOK, Idle
<1>7. CASE AnswerLater(s)
  <2> DEFINE b == [app[s] EXCEPT !.state = "requested",
                                 !.phase = IF @ = "wait" THEN "awake" ELSE @]
  <2>1. app[s] \in App /\ (app[s].wan => app[s].igd)
    BY DEF TypeOK, App
  <2>2. b \in App /\ (b.wan => b.igd)
    BY <2>1 DEF App
  <2>3. app' = [app EXCEPT ![s] = b]
    BY <1>7 DEF AnswerLater
  <2>4. app' \in [Servers -> App] /\ \A r \in Servers : app'[r].wan => app'[r].igd
    BY <2>2, <2>3 DEF TypeOK, App
  <2> QED  BY <1>7, <1>n, <2>4 DEF AnswerLater, TypeOK, Idle, App
<1>8. CASE state_machine_run(s)
  <2>1. app[s] \in App
    BY DEF TypeOK, App
  <2>2. app' = [app EXCEPT ![s] = Loop(app[s])]
    BY <1>8 DEF state_machine_run
  <2> QED  BY <1>8, <2>1, <2>2, LoopType DEF state_machine_run, TypeOK, App
<1>9. CASE AppRuns(s)
  <2> DEFINE a == [app[s] EXCEPT !.armed = TRUE]
  <2>1. app[s] \in App /\ (app[s].wan => app[s].igd)
    BY DEF TypeOK, App
  <2>2. a \in App /\ a.wan = app[s].wan /\ a.igd = app[s].igd
        /\ [a EXCEPT !.igd = TRUE] \in App
    BY <2>1 DEF App
  <2>3. \E b \in App : app' = [app EXCEPT ![s] = b] /\ (b.wan => b.igd)
    <3>1. CASE /\ app' = [app EXCEPT ![s] =
                     IF a.wan THEN Loop([a EXCEPT !.igd = TRUE])
                              ELSE [a EXCEPT !.phase = "set", !.igd = TRUE, !.wan = TRUE]]
      <4>1. Loop([a EXCEPT !.igd = TRUE]) \in App /\ Loop([a EXCEPT !.igd = TRUE]).igd
        BY <2>2, LoopType DEF App
      <4>2. [a EXCEPT !.phase = "set", !.igd = TRUE, !.wan = TRUE] \in App
        BY <2>2 DEF App
      <4>3. [a EXCEPT !.phase = "set", !.igd = TRUE, !.wan = TRUE].igd
        BY <2>2 DEF App
      <4> QED  BY <3>1, <4>1, <4>2, <4>3
    <3>2. CASE /\ app' = [app EXCEPT ![s] =
                     IF a.igd THEN [a EXCEPT !.phase = "set", !.igd = FALSE, !.wan = FALSE]
                              ELSE Loop(a)]
      <4>1. Loop(a) \in App /\ Loop(a).igd = a.igd /\ Loop(a).wan = a.wan
        BY <2>2, LoopType
      <4>2. [a EXCEPT !.phase = "set", !.igd = FALSE, !.wan = FALSE] \in App
            /\ ~[a EXCEPT !.phase = "set", !.igd = FALSE, !.wan = FALSE].wan
        BY <2>2 DEF App
      <4> QED  BY <3>2, <2>1, <2>2, <4>1, <4>2
    <3> QED  BY <1>9, <3>1, <3>2 DEF AppRuns, update_locator
  <2>4. faults' \in 0..MaxFaults
    BY <1>9, FwdServerAssumption DEF AppRuns, update_locator, TypeOK
  <2> QED  BY <1>9, <2>3, <2>4 DEF AppRuns, TypeOK, App
<1>10. CASE AppSets(s)
  <2>1. app[s] \in App
    BY DEF TypeOK, App
  <2>2. app' = [app EXCEPT ![s] = Loop(app[s])]
    BY <1>10 DEF AppSets
  <2> QED  BY <1>10, <2>1, <2>2, LoopType, LocatorType DEF AppSets, TypeOK, App
<1>11. CASE AddressChanges(s)
  <2> DEFINE b == [app[s] EXCEPT !.wan = FALSE]
  <2>1. b \in App /\ ~b.wan
    BY DEF TypeOK, App
  <2>2. app' = [app EXCEPT ![s] = b]
    BY <1>11 DEF AddressChanges
  <2>3. app' \in [Servers -> App] /\ \A r \in Servers : app'[r].wan => app'[r].igd
    BY <2>1, <2>2 DEF TypeOK, App
  <2> QED  BY <1>11, <2>3, FwdServerAssumption DEF AddressChanges, TypeOK, App
<1>12. CASE \E r \in Servers : Deliver(s, r)
  BY <1>12 DEF Deliver, TypeOK
<1>13. CASE Crash(s)
  BY <1>13, FwdServerAssumption DEF Crash, TypeOK
<1>14. CASE Expire(s)
  BY <1>14 DEF Expire, TypeOK
<1>15. CASE fwd_destroy(s)
  BY <1>15, FwdServerAssumption DEF fwd_destroy, TypeOK
<1> QED  BY <1>1, <1>2, <1>3, <1>4, <1>5, <1>6, <1>7, <1>8, <1>9, <1>10, <1>11,
            <1>12, <1>13, <1>14, <1>15 DEF CoreStep, AppStep, EnvStep

\* Type correctness of the election, for any set of servers.
THEOREM FwdServerTypeOK == Spec => []TypeOK
BY TypeInit, TypeStep, PTL DEF Spec

-----------------------------------------------------------------------------
(* One forwarder at a time.                                                *)

\* The invariant of the election holds before any server is started.
LEMMA ElectionInit == Init => ElectionInv
BY TypeInit DEF Init, ElectionInv, NewIsBlank, CountIsFresh, WaitsAlone, Idle

\* Setting an address touches neither the reader nor the core thread, and a
\* server does not come back to waiting or starting by it.
LEMMA LocatorState ==
    ASSUME TypeOK, NEW s \in Servers, EvalLocator(s)
    PROVE  /\ \A r \in Servers \ {s} : st'[r] = st[r]
           /\ st'[s] \in {"wait_local", "starting"} => st'[s] = st[s]
           /\ st'[s] = "disabled" /\ st[s] # "disabled" /\ "publish" \notin MayFail
                  => s \in topic'
           /\ topic \subseteq topic'
<1>1. CASE st[s] \in {"starting", "enabled"} /\ fwd_server_start_forwarding(s)
  <2>1. CASE /\ topic' = topic \cup {s}
             /\ st' = [st EXCEPT ![s] = "enabled"]
    BY <2>1 DEF TypeOK
  <2>2. CASE /\ \E failing \in MayFail :
                    topic' = IF failing = "publish" THEN topic ELSE topic \cup {s}
             /\ st' = [st EXCEPT ![s] = "disabled"]
    <3>1. topic \subseteq topic' /\ ("publish" \notin MayFail => s \in topic')
      BY <2>2
    <3> QED  BY <2>2, <3>1 DEF TypeOK
  <2> QED  BY <1>1, <2>1, <2>2 DEF fwd_server_start_forwarding
<1>2. CASE UNCHANGED <<st, topic, listed, faults>>
  BY <1>2
<1> QED  BY <1>1, <1>2 DEF EvalLocator

\* A step of server s, the reader's included, keeps the invariant.
LEMMA ElectionStep == ElectionInv /\ [Next]_vars => ElectionInv'
<1> SUFFICES ASSUME ElectionInv, [Next]_vars PROVE ElectionInv'
  OBVIOUS
<1> USE DEF fwd, net, bounds
<1>t. TypeOK /\ TypeOK'
  BY TypeStep DEF ElectionInv
<1> SUFFICES NewIsBlank' /\ CountIsFresh' /\ WaitsAlone'
  BY <1>t DEF ElectionInv
<1>i. NewIsBlank /\ CountIsFresh /\ WaitsAlone
  BY DEF ElectionInv
<1>0. CASE UNCHANGED vars
  BY <1>0, <1>i DEF NewIsBlank, CountIsFresh, WaitsAlone, Informed, vars
<1> SUFFICES ASSUME NEW s \in Servers,
                    Start(s) \/ CoreStep(s) \/ AppStep(s) \/ EnvStep(s)
             PROVE  NewIsBlank' /\ CountIsFresh' /\ WaitsAlone'
  BY <1>0 DEF Next
<1> USE <1>i, <1>t DEF NewIsBlank, CountIsFresh, WaitsAlone, Informed
<1>1. CASE Start(s)
  BY <1>1 DEF Start, TypeOK
<1>2. CASE TimerElapses(s)
  BY <1>2 DEF TimerElapses, TypeOK, Timeout, Idle
<1>3. CASE fwd_server_timeout(s)
  <2>1. core[s].what = "timeout"
    BY <1>3 DEF fwd_server_timeout, Timeout
  <2>2. core'[s].what \in {"idle", "asking"} /\ \A r \in Servers \ {s} : core'[r] = core[r]
    BY <1>3 DEF fwd_server_timeout, AskLocator, TypeOK, Idle, Asking
  <2>3. /\ st'[s] = st[s] \/ (st[s] = "wait_local" /\ st'[s] = "starting")
        /\ \A r \in Servers \ {s} : st'[r] = st[r]
    BY <1>3 DEF fwd_server_timeout, AskLocator, TypeOK
  <2>4. UNCHANGED <<up, seen, news>>
    BY <1>3 DEF fwd_server_timeout
  <2> QED  BY <2>1, <2>2, <2>3, <2>4
<1>4. CASE fwd_server_count_instances(s)
  <2>1. /\ core'[s].what = "count" /\ core'[s].n = Cardinality(seen[s])
        /\ \A r \in Servers \ {s} : core'[r] = core[r]
    BY <1>4 DEF fwd_server_count_instances, TypeOK, Count
  <2>2. UNCHANGED <<up, seen, st>> /\ news' = news \ {s}
    BY <1>4 DEF fwd_server_count_instances
  <2> QED  BY <2>1, <2>2
<1>5. CASE fwd_server_on_data(s)
  <2>1. core[s].what = "count" /\ EvalCount(s, core[s].n) /\ UNCHANGED <<up, seen, news>>
    BY <1>5 DEF fwd_server_on_data
  <2>2. core'[s].what \in {"idle", "asking"} /\ \A r \in Servers \ {s} : core'[r] = core[r]
    BY <2>1 DEF EvalCount, AskLocator, TypeOK, Idle, Asking
  <2>3. \A r \in Servers \ {s} : st'[r] = st[r]
    BY <2>1 DEF EvalCount, AskLocator, TypeOK
  <2>4. s \in news \/ core[s].n = Cardinality(seen[s])
    BY <2>1
  <2>5. core[s].n \in Nat /\ (core[s].n > 0 \/ core[s].n = 0)
    BY FwdServerAssumption, FS_CardinalityType DEF TypeOK
  <2>6. st'[s] \in {"wait_local", "starting"} => core[s].n = 0
    BY <2>1, <2>5 DEF EvalCount, AskLocator, GivesWay, TakesOver, TypeOK
  <2>7. st'[s] \in {"wait_local", "starting"} => s \in news \/ seen[s] = {}
    BY <2>4, <2>6, CountType DEF TypeOK
  <2> QED  BY <2>1, <2>2, <2>3, <2>7
<1>6. CASE AnswerNow(s)
  <2>1. core'[s].what = "idle" /\ \A r \in Servers \ {s} : core'[r] = core[r]
    BY <1>6 DEF AnswerNow, TypeOK, Idle
  <2>2. core[s].what = "asking" /\ UNCHANGED <<up, seen, news>>
    BY <1>6 DEF AnswerNow, Asking
  <2> QED  BY <1>6, <2>1, <2>2, LocatorState DEF AnswerNow
<1>7. CASE AnswerLater(s)
  <2>1. core'[s].what = "idle" /\ \A r \in Servers \ {s} : core'[r] = core[r]
    BY <1>7 DEF AnswerLater, TypeOK, Idle
  <2>2. core[s].what = "asking" /\ UNCHANGED <<up, st, seen, news>>
    BY <1>7 DEF AnswerLater, Asking
  <2> QED  BY <2>1, <2>2
<1>8. CASE state_machine_run(s) \/ AppRuns(s) \/ AddressChanges(s)
  BY <1>8 DEF state_machine_run, AppRuns, AddressChanges
<1>9. CASE AppSets(s)
  <2>1. UNCHANGED <<up, core, seen, news>>
    BY <1>9 DEF AppSets
  <2> QED  BY <1>9, <2>1, LocatorState DEF AppSets
<1>10. CASE \E r \in Servers : Deliver(s, r)
  <2>1. s \in news' /\ news \subseteq news' /\ up[s] = "up" /\ UNCHANGED <<up, st, core>>
    BY <1>10 DEF Deliver
  <2>2. \A r \in Servers \ {s} : seen'[r] = seen[r]
    BY <1>10 DEF Deliver, TypeOK
  <2> QED  BY <2>1, <2>2
<1>11. CASE Crash(s)
  BY <1>11 DEF Crash, TypeOK
<1>12. CASE Expire(s)
  BY <1>12 DEF Expire
<1>13. CASE fwd_destroy(s)
  BY <1>13 DEF fwd_destroy, TypeOK
<1> QED  BY <1>1, <1>2, <1>3, <1>4, <1>5, <1>6, <1>7, <1>8, <1>9, <1>10, <1>11,
            <1>12, <1>13 DEF CoreStep, AppStep, EnvStep

\* A server never goes on starting unaware of a forwarder that its reader
\* shows, for any number of servers and whatever fails: fwd_server_on_data
\* counts before it takes the lock, and the count that the state machine gets
\* too late is followed by another.
THEOREM ServerStartsAlone == Spec => []StartsAlone
<1>1. ElectionInv => StartsAlone
  BY DEF ElectionInv, WaitsAlone, StartsAlone
<1> QED  BY ElectionInit, ElectionStep, <1>1, PTL DEF Spec

-----------------------------------------------------------------------------
(* No server rests on one that is gone.                                    *)

\* Every step keeps a reason for each disabled forwarder, unless publishing may fail.
LEMMA ReasonStep ==
    ASSUME "publish" \notin MayFail, ElectionInv, DisabledHasReason, [Next]_vars
    PROVE  DisabledHasReason'
<1> USE DEF fwd, net, bounds
<1>t. TypeOK /\ CountIsFresh
  BY DEF ElectionInv
<1>0. CASE UNCHANGED vars
  BY <1>0 DEF DisabledHasReason, Informed, vars
<1> SUFFICES ASSUME NEW s \in Servers,
                    Start(s) \/ CoreStep(s) \/ AppStep(s) \/ EnvStep(s)
             PROVE  DisabledHasReason'
  BY <1>0 DEF Next
<1> USE <1>t DEF DisabledHasReason, CountIsFresh, Informed
<1>1. CASE Start(s)
  BY <1>1 DEF Start, TypeOK
<1>2. CASE TimerElapses(s)
  BY <1>2 DEF TimerElapses, TypeOK, Timeout, Idle
<1>3. CASE fwd_server_timeout(s)
  <2>1. core[s].what = "timeout"
    BY <1>3 DEF fwd_server_timeout, Timeout
  <2>2. \A r \in Servers \ {s} : core'[r] = core[r] /\ st'[r] = st[r]
    BY <1>3 DEF fwd_server_timeout, AskLocator, TypeOK
  <2>3. st'[s] = "disabled" => st[s] = "disabled"
    BY <1>3 DEF fwd_server_timeout, AskLocator, TypeOK
  <2>4. UNCHANGED <<up, seen, news, topic>>
    BY <1>3 DEF fwd_server_timeout
  <2> QED  BY <2>1, <2>2, <2>3, <2>4
<1>4. CASE fwd_server_count_instances(s)
  <2>1. core'[s].what = "count" /\ \A r \in Servers \ {s} : core'[r] = core[r]
    BY <1>4 DEF fwd_server_count_instances, TypeOK, Count
  <2>2. UNCHANGED <<up, seen, st, topic>> /\ news' = news \ {s}
    BY <1>4 DEF fwd_server_count_instances
  <2> QED  BY <2>1, <2>2
<1>5. CASE fwd_server_on_data(s)
  <2>1. /\ core[s].what = "count" /\ EvalCount(s, core[s].n)
        /\ UNCHANGED <<up, seen, news, topic>>
    BY <1>5 DEF fwd_server_on_data
  <2>2. \A r \in Servers \ {s} : core'[r] = core[r] /\ st'[r] = st[r]
    BY <2>1 DEF EvalCount, AskLocator, TypeOK
  <2>3. s \in news \/ core[s].n = Cardinality(seen[s])
    BY <2>1
  <2>4. st'[s] = "disabled" => core[s].n # 0
    BY <2>1 DEF EvalCount, AskLocator, GivesWay, TakesOver, TypeOK
  <2>5. st'[s] = "disabled" => s \in news \/ seen[s] # {}
    BY <2>3, <2>4, CountType DEF TypeOK
  <2> QED  BY <2>1, <2>2, <2>5
<1>6. CASE AnswerNow(s)
  <2>1. core'[s].what = "idle" /\ \A r \in Servers \ {s} : core'[r] = core[r]
    BY <1>6 DEF AnswerNow, TypeOK, Idle
  <2>2. core[s].what = "asking" /\ UNCHANGED <<up, seen, news>>
    BY <1>6 DEF AnswerNow, Asking
  <2> QED  BY <1>6, <2>1, <2>2, LocatorState DEF AnswerNow
<1>7. CASE AnswerLater(s)
  <2>1. core'[s].what = "idle" /\ \A r \in Servers \ {s} : core'[r] = core[r]
    BY <1>7 DEF AnswerLater, TypeOK, Idle
  <2>2. core[s].what = "asking" /\ UNCHANGED <<up, st, seen, news, topic>>
    BY <1>7 DEF AnswerLater, Asking
  <2> QED  BY <2>1, <2>2
<1>8. CASE state_machine_run(s) \/ AppRuns(s) \/ AddressChanges(s)
  BY <1>8 DEF state_machine_run, AppRuns, AddressChanges
<1>9. CASE AppSets(s)
  <2>1. UNCHANGED <<up, core, seen, news>>
    BY <1>9 DEF AppSets
  <2> QED  BY <1>9, <2>1, LocatorState DEF AppSets
<1>10. CASE \E r \in Servers : Deliver(s, r)
  <2>1. s \in news' /\ news \subseteq news' /\ UNCHANGED <<up, st, core, topic>>
    BY <1>10 DEF Deliver
  <2>2. \A r \in Servers \ {s} : seen'[r] = seen[r]
    BY <1>10 DEF Deliver, TypeOK
  <2> QED  BY <2>1, <2>2
<1>11. CASE Crash(s)
  BY <1>11 DEF Crash, TypeOK
<1>12. CASE Expire(s)
  BY <1>12 DEF Expire
<1>13. CASE fwd_destroy(s)
  BY <1>13 DEF fwd_destroy, TypeOK
<1> QED  BY <1>1, <1>2, <1>3, <1>4, <1>5, <1>6, <1>7, <1>8, <1>9, <1>10, <1>11,
            <1>12, <1>13 DEF CoreStep, AppStep, EnvStep

\* A disabled server sees a forwarder or will be told that there is none, when
\* its announcement on the topic cannot fail.  fwd_server_start_forwarding
\* needs that: a server whose announcement failed disables itself although
\* nobody forwards.
THEOREM ServerDisabledHasReason ==
    ASSUME "publish" \notin MayFail
    PROVE  Spec => []DisabledHasReason
<1>1. Init => DisabledHasReason
  BY DEF Init, DisabledHasReason
<1>2. ElectionInv /\ DisabledHasReason /\ [Next]_vars => DisabledHasReason'
  BY ReasonStep
<1> QED  BY ElectionInit, ElectionStep, <1>1, <1>2, PTL DEF Spec
=============================================================================
