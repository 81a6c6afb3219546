--------------------------- MODULE NetworkModules ---------------------------
(***************************************************************************)
(* network_chaos_ng_scenarios: every entry of the file runs one module on  *)
(* each of its targets, one after the other or in a thread each.           *)
(*                                                                         *)
(* A module deploys a pod next to its target and runs commands in it: it   *)
(* inserts firewall rules at the head of a chain or adds queueing          *)
(* disciplines, sleeps, removes as many, and deletes the pod.  Only the    *)
(* modules for virtual machines undo after an exception.                   *)
(***************************************************************************)
EXTENDS ScenarioThread, Naturals, SequencesExt

CONSTANTS
  Victim,  \* the targets: nodes, pods or virtual machine instances
  Own,     \* commands that add a rule, for one process
  Foreign, \* rules that were there before
  Pids,    \* numbers of processes of a pod considered
  Plans,   \* the files considered: sequences of entries
  Mishaps, \* bound: calls to the API that raise in one behaviour
  Duds     \* bound: commands of one module that do nothing

Filters == {"node_filter", "pod_filter", "vmi_filter"}
Undoing == {"vmi_filter", "vmi_chaos"}
Module == Filters \cup {"node_chaos", "pod_chaos", "vmi_chaos", "interface_down"}

ASSUME ModulesAssumption ==
  /\ {Own, Foreign, Mishaps, Duds} \cup Pids \subseteq Nat /\ IsFiniteSet(Victim)
  /\ Plans \subseteq Seq([module : Module, parallel : BOOLEAN, ingress : BOOLEAN])

VARIABLES
  plan,    \* the file: [module, parallel, ingress] records
  at,      \* index in plan
  targets, \* the sequence of targets of the entry
  pids,    \* processes of a pod, all in one network namespace
  squad,   \* the module on each target: see NewWorker
  net,     \* the rules at each target, the head first
  link,    \* the interface of the target is up
  uplink,  \* the node reaches the control plane through that interface
  timer,   \* ip link set up is scheduled, in the module's pod
  mishaps  \* history: calls that raised

targetvars == <<net, link, timer>>
ngvars == <<plan, at, targets, pids, squad, uplink, targetvars, mishaps>>

(* pc: where it is; k: commands done; pod: its pod is there; rules: what   *)
(* _rollback would be told to remove is known.  History: was, net at the   *)
(* start; void and stuck, the commands to add and to remove that did       *)
(* nothing.                                                                *)
NewWorker(pc, rules) ==
  [pc |-> pc, k |-> 0, pod |-> FALSE, rules |-> FALSE, was |-> rules, void |-> 0, stuck |-> 0]

ModulesInit ==
  /\ at = 1 /\ targets = <<>> /\ mishaps = 0
  /\ net = [v \in Victim |-> [i \in 1..Foreign |-> "foreign"]]
  /\ squad = [v \in Victim |-> NewWorker("idle", net[v])]
  /\ link = [v \in Victim |-> TRUE] /\ timer = [v \in Victim |-> FALSE]
ModulesIdle == ModulesInit /\ plan = <<>> /\ pids = 1 /\ uplink = FALSE
ModulesStart ==
  ModulesInit /\ plan \in Plans /\ pids \in Pids /\ uplink \in BOOLEAN

Ended == {"done", "failed", "lost"}
Now == plan[at].module
Parallel == plan[at].parallel
(* The module removes whatever it finds first: iptables -D takes the rule  *)
(* at the head, tc del dev ingress the discipline of the device; tc del    *)
(* root names the handle of the module.                                    *)
Blind == Now \in Filters \/ plan[at].ingress

(* A call raises, after or before it has had its effect. *)
Raised == mishaps < Mishaps /\ mishaps' = mishaps + 1

-----------------------------------------------------------------------------
(* The plugin. *)

(* get_targets, and instance_count of them drawn at random. *)
NextConfig ==
  /\ At({"network_ng"}, "entry")
  /\ \/ /\ at > Len(plan) /\ Return(0) /\ UNCHANGED <<targets, squad, mishaps>>
     \/ /\ at <= Len(plan) /\ Raised /\ Return(1) /\ UNCHANGED <<targets, squad>>
     \/ /\ at <= Len(plan) /\ Goes("modules") /\ UNCHANGED mishaps
        /\ \E chosen \in SUBSET Victim :
             /\ targets' = SetToSeq(chosen)
             /\ squad' = [v \in Victim |->
                            NewWorker(IF v \in chosen THEN "deploy" ELSE "idle", net[v])]
  /\ UNCHANGED <<plan, at, pids, uplink, targetvars>>

AllAre(states) == \A i \in DOMAIN targets : squad[targets[i]].pc \in states
SomeFailed == \E i \in DOMAIN targets : squad[targets[i]].pc = "failed"

(* Mutant: the queue of errors is not looked into. *)
JoinModulesUnasked ==
  /\ At({"network_ng"}, "modules")
  /\ \/ AllAre(IF Parallel THEN Ended ELSE {"done"}) /\ Goes("entry") /\ at' = at + 1
     \/ ~Parallel /\ SomeFailed /\ Return(1) /\ UNCHANGED at
  /\ UNCHANGED <<plan, targets, pids, squad, uplink, targetvars, mishaps>>
(* run_parallel joins its threads and then looks into the queue of errors; *)
(* run_serial lets the exception through. *)
JoinModules ==
  /\ At({"network_ng"}, "modules")
  /\ \/ /\ AllAre(IF Parallel THEN Ended ELSE {"done"})
        /\ IF SomeFailed THEN Return(1) /\ UNCHANGED at ELSE Goes("entry") /\ at' = at + 1
     \/ ~Parallel /\ SomeFailed /\ Return(1) /\ UNCHANGED at
  /\ UNCHANGED <<plan, targets, pids, squad, uplink, targetvars, mishaps>>

-----------------------------------------------------------------------------
(* The module on one target. *)

In(v, pc) ==
  /\ At({"network_ng"}, "modules") /\ squad[v].pc = pc
  /\ Parallel \/ \A i \in DOMAIN targets :
                   targets[i] # v => squad[targets[i]].pc \in {"deploy", "done"}
To(v, pc) == [squad EXCEPT ![v].pc = pc, ![v].k = 0]
Count(v) == [squad EXCEPT ![v].k = @ + 1]
Same == UNCHANGED <<threadvars, plan, at, targets, pids, uplink>>

(* The except clause: the error goes to the caller, or on its queue; the   *)
(* modules for virtual machines call _rollback first. *)
Caught(v) ==
  IF Now \notin Undoing THEN "failed"
  ELSE IF squad[v].rules THEN "undo" ELSE "undo_pod"
(* An exception of that _rollback ends the thread before the queue is told.*)
Escaped == IF Parallel THEN "lost" ELSE "failed"

Deploy(v) ==
  /\ In(v, "deploy")
  /\ \/ squad' = [To(v, "probe") EXCEPT ![v].pod = TRUE] /\ UNCHANGED mishaps
     \/ Raised /\ \E made \in BOOLEAN : squad' = [To(v, Caught(v)) EXCEPT ![v].pod = made]
  /\ Same /\ UNCHANGED targetvars

(* Interfaces, processes and disciplines are looked up.  Some modules find *)
(* that there is nothing they can do, and delete their pod.  vmi_chaos has *)
(* from here on what _rollback needs. *)
Examine(v) ==
  /\ In(v, "probe")
  /\ \/ /\ squad' = [To(v, IF Now = "interface_down" THEN "down" ELSE "apply")
                       EXCEPT ![v].rules = (Now = "vmi_chaos")]
        /\ UNCHANGED mishaps
     \/ /\ Now \in Undoing \cup {"node_chaos", "interface_down"}
        /\ squad' = To(v, "remove") /\ UNCHANGED mishaps
     \/ Raised /\ squad' = To(v, Caught(v))
  /\ Same /\ UNCHANGED targetvars

(* generate_namespaced_rules makes the rules once for every process, and   *)
(* clean_network_rules_namespaced removes each of those for every process. *)
Inserts == IF Now \in {"pod_filter", "pod_chaos"} THEN Own * pids ELSE Own
(* Mutant: the processes of the pod are forgotten. *)
DeletionsOnce == Own
Deletions == IF Now = "pod_filter" THEN Inserts * pids ELSE Inserts

(* A command runs in the pod and fails: exec_cmd_in_pod returns what it    *)
(* has printed, which is dropped, or logged.                               *)
Dud(v) == squad[v].void + squad[v].stuck < Duds
Apply(v) ==
  LET more == [net EXCEPT ![v] = <<"own">> \o @]
  IN  /\ In(v, "apply")
      /\ \/ squad[v].k < Inserts /\ net' = more /\ squad' = Count(v) /\ UNCHANGED mishaps
         \/ /\ squad[v].k < Inserts /\ Dud(v) /\ UNCHANGED <<net, mishaps>>
            /\ squad' = [Count(v) EXCEPT ![v].void = squad[v].void + 1]
         \/ /\ squad[v].k < Inserts /\ Raised /\ net' \in {net, more}
            /\ squad' = To(v, Caught(v))
         \/ /\ squad[v].k = Inserts /\ UNCHANGED <<net, mishaps>>
            /\ squad' = [To(v, "clean") EXCEPT ![v].rules = Now \in Undoing]
      /\ Same /\ UNCHANGED <<link, timer>>

Deleted(rules) ==
  IF Blind THEN IF rules = <<>> THEN rules ELSE Tail(rules)
  ELSE RemoveFirst(rules, "own")

Cleans(v, from, then, wrong) ==
  LET fewer == [net EXCEPT ![v] = Deleted(@)]
  IN  /\ In(v, from)
      /\ \/ squad[v].k < Deletions /\ net' = fewer /\ squad' = Count(v) /\ UNCHANGED mishaps
         \/ /\ squad[v].k < Deletions /\ Dud(v) /\ UNCHANGED <<net, mishaps>>
            /\ squad' = [Count(v) EXCEPT ![v].stuck = squad[v].stuck + 1]
         \/ squad[v].k < Deletions /\ Raised /\ net' \in {net, fewer} /\ squad' = To(v, wrong)
         \/ squad[v].k = Deletions /\ squad' = To(v, then) /\ UNCHANGED <<net, mishaps>>
      /\ Same /\ UNCHANGED <<link, timer>>
Clean(v) == Cleans(v, "clean", "remove", Caught(v))
Undo(v) == Cleans(v, "undo", "undo_pod", Escaped)

(* delete_pod returns when the pod is gone, and the kubelet must be        *)
(* reachable for that. *)
Removes(v, from, then, wrong) ==
  /\ In(v, from)
  /\ \/ /\ Now = "interface_down" /\ uplink => link[v]
        /\ squad' = [To(v, then) EXCEPT ![v].pod = FALSE]
        /\ timer' = [timer EXCEPT ![v] = FALSE] /\ UNCHANGED mishaps
     \/ Raised /\ squad' = To(v, wrong) /\ UNCHANGED timer
  /\ Same /\ UNCHANGED <<net, link>>
DeletePod(v) == Removes(v, "remove", "done", Caught(v))
UndoPod(v) == Removes(v, "undo_pod", "failed", Escaped)

(* Mutant: the command takes the interface down, and schedules nothing. *)
DownAlone(v) ==
  /\ In(v, "down")
  /\ \/ squad' = To(v, "poll") /\ UNCHANGED mishaps
     \/ Raised /\ squad' = To(v, "failed")
  /\ link' = [link EXCEPT ![v] = FALSE]
  /\ Same /\ UNCHANGED <<net, timer>>
(* node_interface_down: one command schedules the recovery and takes the   *)
(* interface down; the node is then polled until it is Ready, which it may *)
(* still be from before, or for five minutes. *)
Down(v) ==
  /\ In(v, "down")
  /\ \/ squad' = To(v, "poll") /\ UNCHANGED mishaps
     \/ Raised /\ squad' = To(v, "failed")
  /\ \/ timer' = [timer EXCEPT ![v] = TRUE] /\ link' = [link EXCEPT ![v] = FALSE]
     \/ mishaps' # mishaps /\ UNCHANGED <<timer, link>>
  /\ Same /\ UNCHANGED net
Poll(v) ==
  /\ In(v, "poll")
  /\ \/ squad' = To(v, "remove") /\ UNCHANGED mishaps
     \/ Raised /\ squad' = To(v, "failed")
  /\ Same /\ UNCHANGED targetvars
Recovers(v) ==
  /\ timer[v] /\ timer' = [timer EXCEPT ![v] = FALSE]
  /\ link' = [link EXCEPT ![v] = TRUE]
  /\ UNCHANGED <<threadvars, plan, at, targets, pids, squad, uplink, net, mishaps>>

ModuleStep(v) ==
  \/ Deploy(v) \/ Examine(v) \/ Apply(v) \/ Clean(v) \/ Undo(v)
  \/ DeletePod(v) \/ UndoPod(v) \/ Down(v) \/ Poll(v)
ModulesStep == NextConfig \/ JoinModules \/ \E v \in Victim : ModuleStep(v)
=============================================================================
