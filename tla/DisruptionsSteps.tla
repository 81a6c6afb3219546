-------------------------- MODULE DisruptionsSteps --------------------------
(***************************************************************************)
(* What a step of Disruptions can be: the scenario that runs is chosen at  *)
(* the start, and its own steps, with those of what it has left in the     *)
(* cluster, are the only ones that change what it keeps.  The proofs about *)
(* each kind of scenario start from this lemma.                            *)
(***************************************************************************)
EXTENDS Disruptions, FiniteSetTheorems, SequenceTheorems, TLAPS

(* SetToSeq lists a finite set: nothing else, and every element once. *)
LEMMA SetListed ==
  ASSUME NEW S, IsFiniteSet(S)
  PROVE  /\ SetToSeq(S) \in [1..Cardinality(S) -> S] /\ Cardinality(S) \in Nat
         /\ \A x \in S : \E i \in DOMAIN SetToSeq(S) : SetToSeq(S)[i] = x
         /\ \A i, j \in DOMAIN SetToSeq(S) : SetToSeq(S)[i] = SetToSeq(S)[j] => i = j
<1> DEFINE n == Cardinality(S)
<1>1. n \in Nat /\ ExistsBijection(1..n, S) BY FS_CardinalityType
<1>2. \E f \in [1..n -> S] : IsInjective(f)
  BY <1>1 DEF ExistsBijection, Bijection, Injection
<1>3. SetToSeq(S) \in [1..n -> S] /\ IsInjective(SetToSeq(S))
  BY <1>2 DEF SetToSeq
<1>4. Cardinality(1..n) = n BY <1>1, FS_Interval
<1>5. SetToSeq(S) \in Surjection(1..n, S)
  BY <1>3, <1>4, FS_Injection DEF Injection
<1> QED BY <1>1, <1>3, <1>5 DEF Surjection, IsInjective

LEMMA OneScenario ==
  ASSUME [Next]_vars
  PROVE  /\ plugin' = plugin
         /\ plugin \in Shaper =>
              \/ ShapeStep \/ Tick \/ \E j \in Job : Strikes(j)
              \/ UNCHANGED <<threadvars, shapevars>>
         /\ plugin = "network_ng" =>
              \/ ModulesStep \/ \E v \in Victim : Recovers(v)
              \/ UNCHANGED <<threadvars, ngvars>>
         /\ plugin \in Deployer =>
              \/ DeployStep \/ KilledNow \/ Signalled \/ \E t \in live : Finishes(t)
              \/ UNCHANGED <<threadvars, deployvars>>
         /\ plugin \in Killer =>
              \/ KillStep \/ \E t \in Quarry : ComesBack(t)
              \/ UNCHANGED <<threadvars, killvars>>
         /\ plugin \in Errander =>
              \/ ErrandStep \/ \E c \in Fleet : Executes(c) \/ Reports(c)
              \/ UNCHANGED <<threadvars, errandvars>>
<1>1. CASE Shapes
  <2>1. plugin \in Shaper /\ plugin' = plugin
    BY <1>1 DEF Shapes, ShapeStep, Probe, Prepare, Create, Called, Launched, Waited, TimedOut,
         Clear, Lift, DeleteJobs, Deletes, Shaping, At, Goes, Raises, Escapes, NextRound, threadvars
  <2> QED BY <1>1, <2>1 DEF Shapes, Shaper, Pods, Deployer, Killer, Errander
<1>2. CASE Modules
  <2>1. plugin = "network_ng" /\ plugin' = plugin
    BY <1>2 DEF Modules, ModulesStep, ModuleStep, NextConfig, JoinModules, Deploy, Examine, Apply,
         Clean, Undo, Cleans, DeletePod, UndoPod, Removes, Down, Poll, In, Same, At, Goes, Return,
         threadvars
  <2> QED BY <1>2, <2>1 DEF Modules, Shaper, Pods, Deployer, Killer, Errander
<1>3. CASE Deploys
  <2>1. ASSUME NEW h \in DOMAIN hands, HandStep(h)
        PROVE  plugin \in Deployer /\ plugin' = plugin
    BY <2>1 DEF HandStep, Passes, Makes, Registers, Unmakes, Trips, Does, Working, Beside, Deploying,
         Kept, At, threadvars, Deployer
  <2>2. ASSUME \/ BeginDeploy \/ JoinHands \/ Lifts \/ CleansPod
               \/ RollBack \/ NameErrors \/ Rolls \/ RolledBack
        PROVE  plugin \in Deployer /\ plugin' = plugin
    <3>1. plugin \in Deployer
      BY <2>2 DEF BeginDeploy, JoinHands, Lifts, CleansPod, RollBack, NameErrors, Rolls, RolledBack,
           Deploying, At
    <3>2. CASE BeginDeploy \/ JoinHands \/ Lifts \/ CleansPod
      BY <3>1, <3>2 DEF BeginDeploy, JoinHands, Lifts, CleansPod, Goes, Return, Raises, threadvars
    <3>3. CASE RollBack \/ NameErrors \/ Rolls \/ RolledBack
      BY <3>1, <3>3 DEF RollBack, NameErrors, Rolls, RolledBack, Goes, threadvars
    <3> QED BY <2>2, <3>2, <3>3
  <2>3. DeployStep BY <1>3 DEF Deploys
  <2>4. plugin \in Deployer /\ plugin' = plugin BY <2>1, <2>2, <2>3 DEF DeployStep
  <2> QED BY <1>3, <2>4 DEF Deploys, Shaper, Pods, Deployer, Killer, Errander
<1>4. CASE Errands1
  <2>1. plugin \in Errander /\ plugin' = plugin
    BY <1>4 DEF Errands1, ErrandStep, TakeOrder, TakeSkew, SendWork, HearStatus, WithdrawWork,
         SkewNode, SkewPod, CheckClock, HearClock, DeleteHelper, Errand, Fails, NextStep, At, Goes,
         Return, Raises, threadvars, Errander
  <2> QED BY <1>4, <2>1 DEF Errands1, Shaper, Pods, Deployer, Killer, Errander
<1>5. CASE Hunts
  <2>1. plugin \in Killer /\ plugin' = plugin
    BY <1>5 DEF Hunts, KillStep, Lists, ChoosePods, KillPod, AwaitPods, Settle, KillContainer,
         EmptyNamespace, ChooseVm, DeleteVm, AwaitNew, AwaitNewBreaks, AwaitPhase, Awaits, VmBreaks,
         VmEntryEnds, NextVm, Finished1, At, Killing, Goes, Return, Raises, threadvars, Killer
  <2> QED BY <1>5, <2>1 DEF Hunts, Shaper, Pods, Deployer, Killer, Errander
<1>6. CASE Crashes
  <2>1. plugin \in Deployer /\ plugin' = plugin
    BY <1>6 DEF Crashes, KilledNow, Signalled, At, Goes, Deployer
  <2> QED BY <1>6, <2>1 DEF Crashes, Shaper, Pods, Deployer, Killer, Errander
<1>7. CASE Ticks
  BY <1>7 DEF Ticks, Tick, threadvars
<1>8. ASSUME NEW v \in Victim, Links(v)
      PROVE  Recovers(v) /\ UNCHANGED <<threadvars, shapevars, deployvars, killvars, errandvars>>
  BY <1>8 DEF Links, Recovers
<1>9. ASSUME NEW t \in live, PodDone(t)
      PROVE  Finishes(t) /\ UNCHANGED <<threadvars, shapevars, ngvars, killvars, errandvars>>
  BY <1>9 DEF PodDone, Finishes
<1>10. ASSUME NEW j \in Job, Struck(j)
       PROVE  Strikes(j) /\ UNCHANGED <<threadvars, ngvars, deployvars, killvars, errandvars>>
  BY <1>10 DEF Struck, Strikes
<1>11. ASSUME NEW t \in Quarry, Restarts(t)
       PROVE  ComesBack(t) /\ UNCHANGED <<threadvars, shapevars, ngvars, deployvars, errandvars>>
  BY <1>11 DEF Restarts, ComesBack
<1>12. ASSUME NEW c \in Fleet, Agents(c)
       PROVE  /\ Executes(c) \/ Reports(c)
              /\ UNCHANGED <<threadvars, shapevars, ngvars, deployvars, killvars>>
  BY <1>12 DEF Agents, Executes, Reports
<1>13. CASE UNCHANGED vars
  BY <1>13 DEF vars, threadvars
<1>14. CASE \E v \in Victim : Links(v)
  BY <1>8, <1>14 DEF threadvars
<1>15. CASE \E t \in live : PodDone(t)
  BY <1>9, <1>15 DEF threadvars
<1>16. CASE \E j \in Job : Struck(j)
  BY <1>10, <1>16 DEF threadvars
<1>17. CASE \E t \in Quarry : Restarts(t)
  BY <1>11, <1>17 DEF threadvars
<1>18. CASE \E c \in Fleet : Agents(c)
  BY <1>12, <1>18 DEF threadvars
<1> QED BY <1>1, <1>2, <1>3, <1>4, <1>5, <1>6, <1>7, <1>13, <1>14, <1>15, <1>16, <1>17, <1>18
        DEF Next, Thread, Time

(* What the other scenarios keep rests, but for what the cluster does with *)
(* it; and there is nothing of theirs in the cluster. *)
LEMMA OthersRest ==
  ASSUME [Next]_vars
  PROVE  /\ plugin \notin Shaper => UNCHANGED shapevars \/ \E j \in Job : Strikes(j)
         /\ plugin # "network_ng" => UNCHANGED ngvars \/ \E v \in Victim : Recovers(v)
         /\ plugin \notin Deployer => UNCHANGED deployvars \/ \E t \in live : Finishes(t)
         /\ plugin \notin Killer => UNCHANGED killvars \/ \E t \in Quarry : ComesBack(t)
         /\ plugin \notin Errander =>
              UNCHANGED errandvars \/ \E c \in Fleet : Executes(c) \/ Reports(c)
<1>1. CASE Shapes
  <2>1. plugin \in Shaper
    BY <1>1 DEF Shapes, ShapeStep, Probe, Prepare, Create, Called, Launched, Waited, TimedOut,
         Clear, Lift, DeleteJobs, Deletes, Shaping, At
  <2> QED BY <1>1, <2>1 DEF Shapes
<1>2. CASE Modules
  <2>1. plugin = "network_ng"
    BY <1>2 DEF Modules, ModulesStep, ModuleStep, NextConfig, JoinModules, Deploy, Examine, Apply,
         Clean, Undo, Cleans, DeletePod, UndoPod, Removes, Down, Poll, In, At
  <2> QED BY <1>2, <2>1 DEF Modules
<1>3. CASE Deploys
  <2>1. plugin \in Deployer
    BY <1>3 DEF Deploys, DeployStep, BeginDeploy, JoinHands, Lifts, CleansPod, RollBack, NameErrors,
         Rolls, RolledBack, HandStep, Passes, Makes, Registers, Unmakes, Trips, Does, Working,
         Beside, Deploying, At, Deployer
  <2> QED BY <1>3, <2>1 DEF Deploys
<1>4. CASE Errands1
  <2>1. plugin \in Errander
    BY <1>4 DEF Errands1, ErrandStep, TakeOrder, TakeSkew, SendWork, HearStatus, WithdrawWork,
         SkewNode, SkewPod, CheckClock, HearClock, DeleteHelper, Errand, At, Errander
  <2> QED BY <1>4, <2>1 DEF Errands1
<1>5. CASE Hunts
  <2>1. plugin \in Killer
    BY <1>5 DEF Hunts, KillStep, Lists, ChoosePods, KillPod, AwaitPods, Settle, KillContainer,
         EmptyNamespace, ChooseVm, DeleteVm, AwaitNew, AwaitNewBreaks, AwaitPhase, Awaits, VmBreaks,
         VmEntryEnds, At, Killing, Killer
  <2> QED BY <1>5, <2>1 DEF Hunts
<1>6. CASE Crashes BY <1>6 DEF Crashes, KilledNow, Signalled, At, Deployer
<1>7. CASE Ticks BY <1>7 DEF Ticks, Tick
<1>8. CASE \E v \in Victim : Links(v) BY <1>8 DEF Links
<1>9. CASE \E t \in live : PodDone(t) BY <1>9 DEF PodDone
<1>10. CASE \E j \in Job : Struck(j) BY <1>10 DEF Struck
<1>11. CASE \E t \in Quarry : Restarts(t) BY <1>11 DEF Restarts
<1>12. CASE \E c \in Fleet : Agents(c) BY <1>12 DEF Agents
<1>13. CASE UNCHANGED vars BY <1>13 DEF vars
<1> QED BY <1>1, <1>2, <1>3, <1>4, <1>5, <1>6, <1>7, <1>8, <1>9, <1>10, <1>11, <1>12, <1>13
        DEF Next, Thread, Time
=============================================================================
