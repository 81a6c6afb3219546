--------------------------- MODULE PodKillsProofs ---------------------------
(***************************************************************************)
(* Proofs about the scenarios that kill pods, containers, namespaces and   *)
(* virtual machines, for any number of them, of kills, of polls and of     *)
(* calls that raise.                                                       *)
(***************************************************************************)
EXTENDS DisruptionsSteps

KillsTypeOK ==
  /\ herd \in [Quarry -> {"running", "gone", "starting"}]
  /\ candidates \subseteq Quarry /\ sent \subseteq Quarry /\ spared \subseteq Quarry
  /\ kill \in Nat /\ count \in Nat /\ breaks \in Nat /\ prey \in Quarry

(* Between the choice of the pods and the end of the entry, what is still  *)
(* to be killed and what has been are together what was asked for, less    *)
(* the pods that are excluded.                                             *)
Asked == (kill - Cardinality(spared))..kill
PodsInv ==
  plugin = "pods" =>
    /\ sent \cap spared = {}
    /\ main \in {"entry", "choose", "kill", "wait", "settle", "returned"}
    /\ main = "choose" => sent = {}
    /\ main = "kill" =>
         /\ candidates \cap (sent \cup spared) = {}
         /\ ~erred => Cardinality(candidates \cup sent) \in Asked
    /\ main \in {"wait", "settle"} \/ (main = "returned" /\ rc = 0) => Cardinality(sent) \in Asked

(* The count of a container or namespace scenario is the number of         *)
(* different things killed, and never passes the number asked for.         *)
CountInv ==
  plugin \in {"containers", "namespaces"} =>
    /\ main \in {"entry", "kill", "settle", "returned"}
    /\ main = "kill" =>
         count = Cardinality(sent) /\ count <= kill /\ candidates \cap sent = {}
    /\ main = "settle" \/ (main = "returned" /\ rc = 0) => Cardinality(sent) = kill

(* As long as nothing raised and none was given up, every instance but the *)
(* one that is treated runs; and that one does, too, between two turns.    *)
VmsInv ==
  plugin = "vms" =>
    /\ main \in {"entry", "kill", "delete", "gone", "phase", "returned"}
    /\ main = "returned" /\ rc = 0 => unrecovered = {}
    /\ breaks = 0 /\ unrecovered = {} =>
         \A t \in Quarry :
           herd[t] = "running" \/ (main \in {"gone", "phase"} /\ t = prey)

KillsInv == plugin \in Killer => KillsTypeOK /\ PodsInv /\ CountInv /\ VmsInv


LEMMA Herds ==
  ASSUME NEW S \in SUBSET Quarry
  PROVE  IsFiniteSet(S) /\ Cardinality(S) \in Nat
BY KillsAssumption, FS_Subset, FS_CardinalityType DEF KillsAssumption

LEMMA OneMore ==
  ASSUME NEW S \in SUBSET Quarry, NEW t \in Quarry, t \notin S
  PROVE  Cardinality(S \cup {t}) = Cardinality(S) + 1
BY Herds, FS_AddElement

(* Of the pods drawn at most those to exclude are left out. *)
LEMMA Drawn1 ==
  ASSUME NEW S \in SUBSET Quarry, NEW T \in SUBSET Quarry
  PROVE  Cardinality(S \ T) \in (Cardinality(S) - Cardinality(T))..Cardinality(S)
<1>1. Cardinality(S \ T) = Cardinality(S) - Cardinality(S \cap T)
  BY Herds, FS_Difference
<1>2. Cardinality(S \cap T) \in Nat /\ Cardinality(S \cap T) <= Cardinality(T)
  BY Herds, FS_Subset, S \cap T \subseteq T
<1>3. Cardinality(S) \in Nat /\ Cardinality(T) \in Nat /\ Cardinality(S \ T) \in Nat
  BY Herds
<1> QED BY <1>1, <1>2, <1>3

LEMMA KillsInvInit == Init => KillsInv
<1> SUFFICES ASSUME Init, plugin \in Killer
             PROVE  KillsTypeOK /\ PodsInv /\ CountInv /\ VmsInv
  BY DEF KillsInv
<1> USE DEF Init, KillsStart, KillsInit
<1>1. KillsTypeOK BY KillsAssumption DEF KillsTypeOK, KillsAssumption
<1>2. PodsInv BY DEF PodsInv
<1>3. CountInv BY DEF CountInv
<1>4. VmsInv BY DEF VmsInv
<1> QED BY <1>1, <1>2, <1>3, <1>4

LEMMA KillsTyped ==
  ASSUME KillsTypeOK, KillStep
  PROVE  KillsTypeOK'
<1> USE DEF KillsTypeOK, Spared, VmSame, killconfig, Break
<1>1. CASE Lists BY <1>1 DEF Lists, Up
<1>2. CASE ChoosePods
  <2>1. Cardinality(candidates) \in Nat BY Herds
  <2> QED BY <1>2, <2>1 DEF ChoosePods
<1>3. CASE KillPod BY <1>3 DEF KillPod, Kill1
<1>4. CASE AwaitPods BY <1>4 DEF AwaitPods
<1>5. CASE Settle BY <1>5 DEF Settle
<1>6. CASE KillContainer BY <1>6 DEF KillContainer
<1>7. CASE EmptyNamespace BY <1>7 DEF EmptyNamespace, Kill1
<1>8. CASE ChooseVm BY <1>8 DEF ChooseVm, NextVm
<1>9. CASE DeleteVm BY <1>9 DEF DeleteVm, NextVm
<1>10. CASE AwaitNew BY <1>10 DEF AwaitNew, Awaits, NextVm
<1>11. CASE AwaitNewBreaks BY <1>11 DEF AwaitNewBreaks, NextVm
<1>12. CASE AwaitPhase BY <1>12 DEF AwaitPhase, Awaits, NextVm
<1>13. CASE VmBreaks("delete") \/ VmBreaks("phase") BY <1>13 DEF VmBreaks
<1> QED BY <1>1, <1>2, <1>3, <1>4, <1>5, <1>6, <1>7, <1>8, <1>9, <1>10, <1>11, <1>12, <1>13
        DEF KillStep

LEMMA PodsKept ==
  ASSUME KillsTypeOK, PodsInv, KillStep, plugin' = plugin
  PROVE  PodsInv'
<1> SUFFICES ASSUME plugin = "pods" PROVE PodsInv' BY DEF PodsInv
<1> USE DEF Spared, killconfig, At, Killing, Goes, Return, Raises, Finished1, threadvars, Asked
<1>1. CASE Lists
  BY <1>1 DEF Lists, PodsInv, KillsTypeOK
<1>2. CASE ChoosePods
  <2>1. CASE Goes("kill")
    <3>1. PICK drawn \in SUBSET candidates :
            Cardinality(drawn) = kill /\ candidates' = drawn \ spared
      BY <1>2, <2>1 DEF ChoosePods
    <3>2. Cardinality(drawn \ spared) \in Asked
      BY <3>1, Drawn1 DEF KillsTypeOK
    <3>3. sent' = {} /\ spared' = spared /\ kill' = kill BY <1>2 DEF ChoosePods, PodsInv
    <3>4. candidates' \cup sent' = drawn \ spared BY <3>1, <3>3
    <3> QED BY <2>1, <3>1, <3>2, <3>3, <3>4 DEF PodsInv
  <2>2. CASE Return(1)
    BY <1>2, <2>2 DEF ChoosePods, PodsInv
  <2> QED BY <1>2, <2>1, <2>2 DEF ChoosePods
<1>3. CASE KillPod
  <2>1. CASE UNCHANGED <<threadvars, erred, breaks>>
    <3>1. PICK t \in candidates : Kill1(t) /\ candidates' = candidates \ {t}
      BY <1>3, <2>1 DEF KillPod, Break, KillsTypeOK
    <3>2. candidates' \cup sent' = candidates \cup sent BY <3>1 DEF Kill1
    <3> QED BY <1>3, <2>1, <3>1, <3>2 DEF KillPod, Kill1, PodsInv
  <2>2. CASE candidates # {} /\ Break /\ UNCHANGED <<herd, sent>>
    BY <1>3, <2>2 DEF KillPod, Break, PodsInv, KillsTypeOK
  <2>3. CASE candidates = {} /\ UNCHANGED <<candidates, herd, sent, erred, breaks>>
    <3>1. candidates \cup sent = sent BY <2>3
    <3> QED BY <1>3, <2>3, <3>1 DEF KillPod, PodsInv
  <2> QED BY <1>3, <2>1, <2>2, <2>3 DEF KillPod
<1>4. CASE AwaitPods BY <1>4 DEF AwaitPods, PodsInv
<1>5. CASE Settle BY <1>5 DEF Settle, PodsInv
<1> QED BY <1>1, <1>2, <1>3, <1>4, <1>5
        DEF KillStep, KillContainer, EmptyNamespace, ChooseVm, DeleteVm, AwaitNew, Awaits,
            AwaitNewBreaks, AwaitPhase, VmBreaks

LEMMA CountKept ==
  ASSUME KillsTypeOK, CountInv, KillStep, plugin' = plugin
  PROVE  CountInv'
<1> SUFFICES ASSUME plugin \in {"containers", "namespaces"} PROVE CountInv' BY DEF CountInv
<1> USE DEF Spared, killconfig, At, Killing, Goes, Return, Raises, Finished1, threadvars
<1>1. CASE Lists
  <2>1. Cardinality({}) = 0 BY FS_EmptySet
  <2> QED BY <1>1, <2>1 DEF Lists, CountInv, KillsTypeOK
<1>2. CASE KillContainer \/ EmptyNamespace
  <2>1. /\ main = "kill" /\ kill' = kill
        /\ count = Cardinality(sent) /\ count <= kill /\ candidates \cap sent = {}
    BY <1>2 DEF KillContainer, EmptyNamespace, CountInv
  <2>2. CASE main' = "kill" /\ count' # count
    <3>1. PICK t \in candidates :
            candidates' = candidates \ {t} /\ sent' = sent \cup {t} /\ count' = count + 1
      BY <1>2, <2>2 DEF KillContainer, EmptyNamespace, Kill1, KillsTypeOK
    <3>2. Cardinality(sent') = Cardinality(sent) + 1 BY <2>1, <3>1, OneMore DEF KillsTypeOK
    <3>3. count < kill BY <1>2, <2>2 DEF KillContainer, EmptyNamespace
    <3> QED BY <2>1, <2>2, <3>1, <3>2, <3>3 DEF CountInv, KillsTypeOK
  <2>3. CASE main' = "kill" /\ count' = count
    <3>1. sent' = sent /\ candidates' \subseteq candidates
      BY <1>2, <2>3 DEF KillContainer, EmptyNamespace, KillsTypeOK
    <3> QED BY <2>1, <2>3, <3>1 DEF CountInv
  <2>4. CASE main' # "kill"
    <3>1. \/ count = kill /\ sent' = sent /\ main' \in {"entry", "settle", "returned"}
          \/ main' = "returned" /\ rc' = 1
      BY <1>2, <2>4, <2>1 DEF KillContainer, EmptyNamespace
    <3> QED BY <2>1, <2>4, <3>1 DEF CountInv
  <2> QED BY <2>2, <2>3, <2>4
<1>3. CASE Settle BY <1>3 DEF Settle, CountInv
<1> QED BY <1>1, <1>2, <1>3
        DEF KillStep, ChoosePods, KillPod, AwaitPods, ChooseVm, DeleteVm, AwaitNew, Awaits,
            AwaitNewBreaks, AwaitPhase, VmBreaks

LEMMA VmsKept ==
  ASSUME KillsTypeOK, VmsInv, KillStep, plugin' = plugin
  PROVE  VmsInv'
<1> SUFFICES ASSUME plugin = "vms" PROVE VmsInv' BY DEF VmsInv
<1> USE DEF VmSame, Spared, killconfig, At, Killing, Goes, Return, Raises, VmEntryEnds, NextVm,
            Unrecovered, threadvars
<1>b. ASSUME Break PROVE breaks' # 0 BY <1>b DEF Break, KillsTypeOK
<1>1. CASE Lists BY <1>1, <1>b DEF Lists, Up, VmsInv
<1>2. CASE ChooseVm BY <1>2, <1>b DEF ChooseVm, VmsInv
<1>3. CASE DeleteVm BY <1>3, <1>b DEF DeleteVm, VmsInv, KillsTypeOK
<1>4. CASE AwaitNew BY <1>4 DEF AwaitNew, Awaits, VmsInv
<1>5. CASE AwaitNewBreaks BY <1>5, <1>b DEF AwaitNewBreaks, VmsInv
<1>6. CASE AwaitPhase BY <1>6 DEF AwaitPhase, Awaits, VmsInv
<1>7. CASE VmBreaks("delete") \/ VmBreaks("phase") BY <1>7, <1>b DEF VmBreaks, VmsInv
<1> QED BY <1>1, <1>2, <1>3, <1>4, <1>5, <1>6, <1>7
        DEF KillStep, ChoosePods, KillPod, AwaitPods, Settle, KillContainer, EmptyNamespace
(* Only virtual machines know a third state; whatever comes back is closer *)
(* to running. *)
LEMMA ComesBackKept ==
  ASSUME KillsInv, plugin \in Killer, NEW t \in Quarry, ComesBack(t)
  PROVE  KillsInv'
<1> USE DEF ComesBack, killconfig, threadvars
<1>1. KillsTypeOK' BY DEF KillsInv, KillsTypeOK
<1>2. PodsInv' BY DEF KillsInv, PodsInv, Asked
<1>3. CountInv' BY DEF KillsInv, CountInv
<1>4. VmsInv' BY DEF KillsInv, KillsTypeOK, VmsInv
<1> QED BY <1>1, <1>2, <1>3, <1>4 DEF KillsInv

LEMMA KillsInvNext == KillsInv /\ [Next]_vars => KillsInv'
<1> SUFFICES ASSUME KillsInv, [Next]_vars, plugin \in Killer
             PROVE  KillsInv'
  BY OneScenario DEF KillsInv
<1>1. plugin' = plugin BY OneScenario
<1>2. CASE KillStep
  <2>1. KillsTypeOK' BY <1>2, KillsTyped DEF KillsInv
  <2>2. PodsInv' BY <1>1, <1>2, PodsKept DEF KillsInv
  <2>3. CountInv' BY <1>1, <1>2, CountKept DEF KillsInv
  <2>4. VmsInv' BY <1>1, <1>2, VmsKept DEF KillsInv
  <2> QED BY <2>1, <2>2, <2>3, <2>4 DEF KillsInv
<1>3. CASE \E t \in Quarry : ComesBack(t) BY <1>3, ComesBackKept
<1>4. CASE UNCHANGED <<threadvars, killvars>>
  BY <1>4 DEF KillsInv, KillsTypeOK, PodsInv, CountInv, VmsInv, Asked, threadvars, killvars,
              killconfig
<1> QED BY <1>2, <1>3, <1>4, OneScenario

LEMMA KillsInvAlways == Spec => []KillsInv
<1> QED BY KillsInvInit, KillsInvNext, PTL DEF Spec

(* Containers are told to stop and namespaces emptied as many as asked     *)
(* for, each of them once; no pod that is excluded is killed, and as many  *)
(* fewer than asked for at most: whatever raises, in whichever entry.      *)
THEOREM KillsAsAskedAlways == Spec => []KillsAsAsked
<1>1. KillsInv => KillsAsAsked
  BY DEF KillsInv, KillsTypeOK, PodsInv, CountInv, KillsAsAsked, Killer, Asked
<1> QED BY <1>1, KillsInvAlways, PTL

(* An outage of virtual machines that returns 0 and had no call that       *)
(* raised has all of them running, whichever were drawn, and how often.    *)
THEOREM VmsComeBackAlways == Spec => []VmsComeBack
<1>1. KillsInv => VmsComeBack
  BY DEF KillsInv, VmsInv, VmsComeBack, Killer, Up
<1> QED BY <1>1, KillsInvAlways, PTL
=============================================================================
