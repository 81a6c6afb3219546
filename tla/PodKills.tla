------------------------------ MODULE PodKills ------------------------------
(***************************************************************************)
(* The scenarios that kill a number of things and wait for them to come    *)
(* back: pods (pod_disruption), containers, virtual machine instances      *)
(* (kubevirt_vm_outage), and the objects of namespaces                     *)
(* (service_disruption).                                                   *)
(***************************************************************************)
EXTENDS ScenarioThread, Naturals, FiniteSets

CONSTANTS
  Quarry, \* what matches the label or the name
  Kills,  \* kill counts considered
  Polls,  \* bound of every wait
  Breaks  \* bound: calls that raise in one behaviour

ASSUME KillsAssumption ==
  {Polls, Breaks} \cup Kills \subseteq Nat /\ IsFiniteSet(Quarry)

Killer == {"pods", "containers", "vms", "namespaces"}

VARIABLES
  kill,        \* kill, count, kill_count, or delete_count
  spared,      \* pods with exclude_label; pods without the container named
  together,    \* execution: parallel; for virtual machines disable_auto_restart
  more,        \* entries, or runs, after this one
  herd,        \* the state of each: running, gone or starting
  halted,      \* virtual machines whose spec says that they do not run
  candidates,  \* what is left to choose from, or to delete
  prey,        \* the virtual machine instance treated
  count,       \* kills so far; for pods, how many there were
  sent,        \* history: what was killed in this entry
  erred,       \* a thread has put an error on the queue
  unrecovered, \* what the status lists so
  polls,
  breaks       \* history: calls that raised

killconfig == <<kill, spared, together>>
killvars == <<killconfig, more, herd, halted, candidates, prey, count, sent, erred,
              unrecovered, polls, breaks>>

KillsInit ==
  /\ herd = [t \in Quarry |-> "running"] /\ halted = {} /\ candidates = {}
  /\ prey \in Quarry /\ count = 0 /\ sent = {} /\ erred = FALSE
  /\ unrecovered = {} /\ polls = 0 /\ breaks = 0
KillsIdle ==
  /\ KillsInit /\ prey = (CHOOSE t \in Quarry : TRUE)
  /\ kill = 0 /\ spared = {} /\ together = FALSE /\ more = 0
KillsStart ==
  /\ KillsInit /\ prey = (CHOOSE t \in Quarry : TRUE)
  /\ kill \in Kills /\ together \in BOOLEAN /\ more \in {0, 1}
  /\ spared \in (IF plugin \in {"pods", "containers"} THEN SUBSET Quarry ELSE {{}})

Killing(which, pc) == At({which}, pc)
Break == breaks < Breaks /\ breaks' = breaks + 1
Up == {t \in Quarry : herd[t] = "running"}
Kill1(t) == herd' = [herd EXCEPT ![t] = "gone"] /\ sent' = sent \cup {t}
Spared == UNCHANGED <<killconfig, halted, prey>>

(* The controllers of the cluster start what is gone. *)
ComesBack(t) ==
  /\ herd[t] # "running" /\ t \notin halted
  /\ herd' = [herd EXCEPT ![t] = IF @ = "gone" /\ plugin = "vms" THEN "starting" ELSE "running"]
  /\ UNCHANGED <<threadvars, killconfig, more, halted, candidates, prey, count, sent, erred,
                 unrecovered, polls, breaks>>

(* execute_scenario catches an exception of its own and answers with the   *)
(* status as it is; run looks at the status of all entries at the end.     *)
VmEntryEnds ==
  IF more > 0 THEN Goes("entry") /\ more' = more - 1
  ELSE Return(IF unrecovered = {} THEN 0 ELSE 1) /\ UNCHANGED more

(* The next entry of the file, or run; its targets are listed.             *)
Lists ==
  /\ At(Killer, "entry")
  /\ \/ /\ Goes(IF plugin = "pods" THEN "choose" ELSE "kill") /\ UNCHANGED <<more, breaks>>
        /\ candidates' = IF plugin \in {"containers", "namespaces"} THEN Quarry ELSE Up
     \/ /\ Break /\ UNCHANGED candidates
        /\ IF plugin = "vms" THEN VmEntryEnds ELSE Return(1) /\ UNCHANGED more
  /\ count' = 0 /\ sent' = {} /\ polls' = 0
  /\ Spared /\ UNCHANGED <<herd, erred, unrecovered>>

Finished1 == IF more > 0 THEN Goes("entry") /\ more' = more - 1 ELSE Return(0) /\ UNCHANGED more

-----------------------------------------------------------------------------
(* Pods. *)

(* Mutant: the pods to exclude are not looked at. *)
ChoosePodsAll ==
  /\ Killing("pods", "choose") /\ Cardinality(candidates) >= kill /\ Goes("kill")
  /\ count' = Cardinality(candidates)
  /\ candidates' \in {drawn \in SUBSET candidates : Cardinality(drawn) = kill}
  /\ Spared /\ UNCHANGED <<more, herd, sent, erred, unrecovered, polls, breaks>>
(* kill pods are drawn; those with the label to exclude are left out.      *)
ChoosePods ==
  /\ Killing("pods", "choose")
  /\ \/ Cardinality(candidates) < kill /\ Return(1) /\ UNCHANGED <<candidates, count>>
     \/ /\ Goes("kill") /\ count' = Cardinality(candidates)
        /\ \E drawn \in SUBSET candidates :
             Cardinality(drawn) = kill /\ candidates' = drawn \ spared
  /\ Spared /\ UNCHANGED <<more, herd, sent, erred, unrecovered, polls, breaks>>

(* One after the other; or in threads, whose errors are looked at when all *)
(* have ended. *)
KillPod ==
  /\ Killing("pods", "kill")
  /\ \/ /\ \E t \in candidates : Kill1(t) /\ candidates' = candidates \ {t}
        /\ UNCHANGED <<threadvars, erred, breaks>>
     \/ /\ candidates # {} /\ Break /\ UNCHANGED <<herd, sent>>
        /\ \/ together /\ erred' = TRUE /\ (\E t \in candidates : candidates' = candidates \ {t})
              /\ UNCHANGED threadvars
           \/ ~together /\ Return(1) /\ UNCHANGED <<erred, candidates>>
     \/ /\ candidates = {} /\ UNCHANGED <<candidates, herd, sent, erred, breaks>>
        /\ IF erred THEN Return(1) ELSE Goes("wait")
  /\ Spared /\ UNCHANGED <<more, count, unrecovered, polls>>

(* Mutant: wait_for_pods has no limit. *)
AwaitPodsForever ==
  /\ Killing("pods", "wait") /\ Cardinality(Up) = count /\ Goes("settle")
  /\ Spared /\ UNCHANGED <<more, herd, candidates, count, sent, erred, unrecovered, polls, breaks>>
(* wait_for_pods polls until there are as many as there were. *)
AwaitPods ==
  /\ Killing("pods", "wait")
  /\ \/ Cardinality(Up) = count /\ Goes("settle") /\ UNCHANGED <<polls, breaks>>
     \/ Cardinality(Up) # count /\ polls < Polls /\ polls' = polls + 1
        /\ UNCHANGED <<threadvars, breaks>>
     \/ Cardinality(Up) # count /\ polls = Polls /\ Raises("settle") /\ UNCHANGED <<polls, breaks>>
     \/ Break /\ Return(1) /\ UNCHANGED polls
  /\ Spared /\ UNCHANGED <<more, herd, candidates, count, sent, erred, unrecovered>>

(* The monitor, a thread of krkn-lib, reports what it has not seen running *)
(* again in the recovery time.  An entry that fails ends the scenario.     *)
Settle ==
  /\ plugin \in {"pods", "containers"} /\ main = "settle"
  /\ \/ sent \subseteq Up /\ rc = 0 /\ Finished1
     \/ ~(sent \subseteq Up) /\ Return(1) /\ UNCHANGED more
     \/ rc = 1 /\ Return(1) /\ UNCHANGED more
  /\ Spared /\ UNCHANGED <<herd, candidates, count, sent, erred, unrecovered, polls, breaks>>

-----------------------------------------------------------------------------
(* Containers. *)

(* Pods are drawn without replacement until count containers have been     *)
(* told to stop, or none is left.  A kill that five times answers with an  *)
(* error counts. *)
KillContainer ==
  /\ Killing("containers", "kill")
  /\ \/ /\ count < kill /\ candidates = {} /\ Return(1)
        /\ UNCHANGED <<candidates, herd, sent, count, breaks>>
     \/ /\ count = kill /\ Goes("settle") /\ UNCHANGED <<candidates, herd, sent, count, breaks>>
     \/ /\ count < kill
        /\ \E t \in candidates :
             /\ candidates' = candidates \ {t}
             /\ IF t \in spared
                THEN /\ UNCHANGED <<herd, sent, count, breaks>>
                     /\ IF count = 0 /\ candidates = {t} THEN Return(1) ELSE UNCHANGED threadvars
                ELSE \/ /\ count' = count + 1 /\ sent' = sent \cup {t}
                        /\ herd' \in {herd, [herd EXCEPT ![t] = "gone"]}
                        /\ UNCHANGED <<threadvars, breaks>>
                     \/ Break /\ Return(1) /\ UNCHANGED <<herd, sent, count>>
  /\ Spared /\ UNCHANGED <<more, erred, unrecovered, polls>>

-----------------------------------------------------------------------------
(* Namespaces: all objects of each of five kinds are deleted. *)

EmptyNamespace ==
  /\ Killing("namespaces", "kill")
  /\ \/ count = kill /\ Finished1 /\ UNCHANGED <<candidates, herd, sent, count, breaks>>
     \/ /\ count < kill /\ candidates = {} /\ Return(1)
        /\ UNCHANGED <<more, candidates, herd, sent, count, breaks>>
     \/ /\ count < kill /\ UNCHANGED more
        /\ \E t \in candidates :
             \/ /\ Kill1(t) /\ candidates' = candidates \ {t} /\ count' = count + 1
                /\ UNCHANGED <<threadvars, breaks>>
             \/ /\ Break /\ Return(1) /\ herd' \in {herd, [herd EXCEPT ![t] = "gone"]}
                /\ UNCHANGED <<candidates, sent, count>>
  /\ Spared /\ UNCHANGED <<erred, unrecovered, polls>>

-----------------------------------------------------------------------------
(* Virtual machines. *)

VmSame == UNCHANGED <<killconfig, erred, sent, candidates>>
NextVm == Goes("kill") /\ count' = count + 1
Unrecovered(t) == unrecovered' = unrecovered \cup {t}

VmBreaks(pc) ==
  /\ Killing("vms", pc) /\ Break /\ VmEntryEnds
  /\ VmSame /\ UNCHANGED <<herd, halted, prey, count, unrecovered, polls>>

(* An instance is drawn from the list, maybe one that was drawn before, or *)
(* that is gone. *)
ChooseVm ==
  /\ Killing("vms", "kill")
  /\ \/ /\ count = kill \/ candidates = {}
        /\ VmEntryEnds /\ UNCHANGED <<prey, count, unrecovered, polls, breaks>>
     \/ /\ count < kill
        /\ \E t \in candidates :
             /\ prey' = t
             /\ \/ herd[t] # "gone" /\ Goes("delete") /\ UNCHANGED <<count, unrecovered, breaks>>
                \/ herd[t] = "gone" /\ NextVm /\ Unrecovered(t) /\ UNCHANGED breaks
                \/ Break /\ NextVm /\ Unrecovered(t)
        /\ polls' = 0 /\ UNCHANGED more
  /\ VmSame /\ UNCHANGED <<herd, halted>>

(* disable_auto_restart: the spec is patched; nothing patches it back.  A  *)
(* patch that fails is only logged. *)
DeleteVm ==
  /\ Killing("vms", "delete")
  /\ \E patched \in IF together THEN BOOLEAN ELSE {FALSE} :
       halted' = IF patched THEN halted \cup {prey} ELSE halted
  /\ \/ /\ Goes("gone") /\ herd' = [herd EXCEPT ![prey] = "gone"]
        /\ UNCHANGED <<count, unrecovered, breaks>>
     \/ Break /\ NextVm /\ Unrecovered(prey) /\ UNCHANGED herd
  /\ VmSame /\ UNCHANGED <<more, prey, polls>>

(* A new instance is waited for, then its phase, each with a timeout.      *)
Awaits(pc, there, onwards) ==
  /\ Killing("vms", pc)
  /\ \/ there /\ onwards /\ polls' = 0 /\ UNCHANGED unrecovered
     \/ ~there /\ polls < Polls /\ polls' = polls + 1
        /\ UNCHANGED <<threadvars, count, unrecovered>>
     \/ ~there /\ polls = Polls /\ NextVm /\ Unrecovered(prey) /\ UNCHANGED polls
  /\ VmSame /\ UNCHANGED <<more, herd, halted, prey, breaks>>
AwaitNew == Awaits("gone", herd[prey] # "gone", Goes("phase") /\ UNCHANGED count)
(* Mutant: the end of the time counts as the phase Running. *)
AwaitPhaseOnce == Awaits("phase", herd[prey] = "running" \/ polls = Polls, NextVm)
AwaitPhase == Awaits("phase", herd[prey] = "running", NextVm)
AwaitNewBreaks ==
  /\ Killing("vms", "gone") /\ Break /\ NextVm /\ Unrecovered(prey)
  /\ VmSame /\ UNCHANGED <<more, herd, halted, prey, polls>>

KillStep ==
  \/ Lists \/ ChoosePods \/ KillPod \/ AwaitPods \/ Settle \/ KillContainer
  \/ EmptyNamespace \/ ChooseVm \/ DeleteVm \/ AwaitNew \/ AwaitNewBreaks \/ AwaitPhase
  \/ VmBreaks("delete") \/ VmBreaks("phase")
=============================================================================
