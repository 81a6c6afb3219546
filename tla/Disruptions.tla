----------------------------- MODULE Disruptions -----------------------------
(***************************************************************************)
(* The scenarios that disturb a cluster through the Kubernetes API: one of *)
(* them per behaviour, and what they promise.                              *)
(***************************************************************************)
EXTENDS TrafficShaping, NetworkModules, Deployments, PodKills, Errands

vars == <<threadvars, shapevars, ngvars, deployvars, killvars, errandvars>>

Init ==
  /\ plugin \in Shaper \cup {"network_ng"} \cup Deployer \cup Killer \cup Errander
  /\ main = "entry" /\ rc = 0
  /\ IF plugin \in Shaper THEN ShapeStarts ELSE ShapeIdle
  /\ IF plugin = "network_ng" THEN ModulesStart ELSE ModulesIdle
  /\ IF plugin \in Deployer THEN DeployStarts ELSE DeployIdle
  /\ IF plugin \in Killer THEN KillsStart ELSE KillsIdle
  /\ IF plugin \in Errander THEN ErrandsStart ELSE ErrandsIdle

Shapes == ShapeStep /\ UNCHANGED <<ngvars, deployvars, killvars, errandvars>>
Ticks == Tick /\ UNCHANGED <<ngvars, deployvars, killvars, errandvars>>
Struck(j) == Strikes(j) /\ UNCHANGED <<ngvars, deployvars, killvars, errandvars>>
Modules == ModulesStep /\ UNCHANGED <<shapevars, deployvars, killvars, errandvars>>
Links(v) == Recovers(v) /\ UNCHANGED <<shapevars, deployvars, killvars, errandvars>>
Deploys == DeployStep /\ UNCHANGED <<shapevars, ngvars, killvars, errandvars>>
PodDone(t) == Finishes(t) /\ UNCHANGED <<shapevars, ngvars, killvars, errandvars>>
Crashes == (KilledNow \/ Signalled) /\ UNCHANGED <<shapevars, ngvars, killvars, errandvars>>
Hunts == KillStep /\ UNCHANGED <<shapevars, ngvars, deployvars, errandvars>>
Restarts(t) == ComesBack(t) /\ UNCHANGED <<shapevars, ngvars, deployvars, errandvars>>
Errands1 == ErrandStep /\ UNCHANGED <<shapevars, ngvars, deployvars, killvars>>
Agents(c) == (Executes(c) \/ Reports(c)) /\ UNCHANGED <<shapevars, ngvars, deployvars, killvars>>

(* A thread of the process goes on. *)
Thread == Shapes \/ Modules \/ Deploys \/ Hunts \/ Errands1
(* Time goes by, for the scenario that runs: its jobs and its wait, a      *)
(* scheduled recovery, or a pod that ends after its duration.              *)
Time ==
  \/ Ticks
  \/ \E v \in Victim : Links(v)
  \/ \E t \in live : PodDone(t)
Next ==
  \/ Thread \/ Time \/ Crashes
  \/ \E j \in Job : Struck(j)
  \/ \E t \in Quarry : Restarts(t)
  \/ \E c \in Fleet : Agents(c)

(* Nothing is assumed of what else the cluster does. *)
Fairness == WF_vars(Thread) /\ WF_vars(Time)
Spec == Init /\ [][Next]_vars /\ Fairness

-----------------------------------------------------------------------------
(* The type invariant: where the thread is, what it returns, and what the  *)
(* scenario keeps. *)
DisruptionsInv ==
  /\ main \in {"entry", "round", "create", "wait", "clear", "lift", "delete", "modules", "hands",
               "lifting", "clean_pod", "killed", "rolling", "rolled", "choose", "kill", "settle",
               "gone", "phase", "send", "hear", "withdraw", "returned", "exited"}
  /\ rc \in {0, 1} /\ turn \in 1..Rounds /\ job \in [Job ->
       [st : {"none", "pending", "running", "succeeded", "failed", "deleted"},
        age : 0..(Delay + Duration)]]
  /\ listed \cup fresh \cup doomed \subseteq Job
  /\ \A v \in Victim : squad[v].k \in Nat
  /\ live \subseteq made /\ named \subseteq {"pod", "change"} \X Nat \X Nat
  /\ \A h \in DOMAIN hands : hands[h].i \in DOMAIN StepsOf(h)
  /\ sent \subseteq Quarry /\ polls \in 0..Polls
  /\ works \in [Fleet -> {"none", "up", "down", "ran"}] /\ agent \cup status \cup helpers \subseteq Fleet

(* Two jobs never shape one interface at a time: the tc commands of the    *)
(* second would fail or replace the first's, and its removal end both.     *)
(* A parallel run puts all parameters in one job, a serial run waits for   *)
(* the jobs of a parameter before it makes the next ones. *)
OneShaper ==
  \A i, j \in Job : i # j /\ Running(i) /\ Running(j) => Iface(i) # Iface(j)

(* When a traffic scenario is over and no call of its own raised, whether  *)
(* it succeeded, timed out or called sys.exit, no job, no virtual          *)
(* interface and no pod is left; and if it succeeded and no job was        *)
(* killed, no interface is filtered.  The virtual interfaces stay when the *)
(* command that removes them fails, which is not looked at. *)
Tidy ==
  plugin \in Shaper /\ Over =>
    /\ "api" \notin faults => ~tools /\ \A j \in Job : ~Exists(j)
    /\ faults \cap {"api", "command"} = {} => ~ifb
    /\ rc = 0 /\ "job" \notin faults => filter = {}

(* network_chaos_ng returns 0 only if every module of every entry ended    *)
(* without an exception, or died in its own _rollback, whose exception no  *)
(* queue receives. *)
FailuresReported ==
  plugin = "network_ng" /\ main = "returned" /\ rc = 0 =>
    \A v \in Victim : squad[v].pc \in {"idle", "done"} \cup (IF mishaps > 1 THEN {"lost"} ELSE {})

NoOwn(rules) == \A i \in DOMAIN rules : rules[i] # "own"
(* t is s with j of the module's own rules in front, or without its first e. *)
Heads(t, s, j) ==
  /\ Len(t) = j + Len(s)
  /\ \A i \in 1..Len(t) : t[i] = IF i <= j THEN "own" ELSE s[i - j]
Behind(t, s, e) ==
  /\ Len(t) + e >= Len(s)
  /\ \A i \in 1..Len(t) : t[i] = s[i + e]
(* What a module that has ended leaves of the rules of its target.  If     *)
(* every command worked, the rules are what they were, in their order.     *)
(* Otherwise every removal that did nothing leaves one of the module's     *)
(* rules in front; every addition that did nothing costs a rule of others  *)
(* where the module removes what it finds first, and nothing where it      *)
(* names its own.                                                          *)
Settled(v, s) ==
  IF s.void <= s.stuck THEN Heads(net[v], s.was, s.stuck - s.void)
  ELSE IF Blind THEN Behind(net[v], s.was, s.void - s.stuck)
  ELSE NoOwn(s.was) => net[v] = s.was

(* A module that ended without an exception has settled the rules of its   *)
(* target; its pod is gone, and the interface is up if the node depends on *)
(* it.  For pods with several processes the filter deletes more rules than *)
(* it made.  vmi_chaos undoes after an exception, too, and the rules are   *)
(* as they were if its removals worked and name what they remove. *)
NetworkRestored ==
  plugin = "network_ng" /\ main = "modules" =>
    \A v \in Victim :
      LET s == squad[v]
      IN  /\ s.pc = "done" =>
               /\ (Now = "pod_filter" => pids = 1) => Settled(v, s)
               /\ ~s.pod
               /\ Now = "interface_down" /\ uplink => link[v]
          /\ s.pc = "failed" /\ Now = "vmi_chaos" /\ mishaps = 1 =>
               /\ ~Blind /\ s.stuck = 0 /\ NoOwn(s.was) => net[v] = s.was
               /\ ~s.pod

(* A node whose own uplink was taken down has it back in the end, although *)
(* the exception may come after the command, and nothing of the module     *)
(* brings the interface up: the recovery runs in the pod, which cannot be  *)
(* deleted as long as the node is not reached. *)
LinkRecovers == <>[](uplink => \A v \in Victim : link[v])

(* While a scenario holds its disturbance the version file names all that  *)
(* it has in the cluster: a crash can then be undone.  The entries of      *)
(* http_load, and the threads of hogs, write over each other's names. *)
HeldIsNamed ==
  plugin \in Deployer /\ main = "hands" =>
    \A h \in DOMAIN hands :
      hands[h].st = "on" /\ At1(h).do \in {"hold", "await"} =>
        CASE plugin = "http_load" -> At1(h).on \subseteq named
          [] plugin = "hogs" -> units = 1 => made \subseteq named
          [] OTHER -> made \subseteq named

(* When the rollback has gone through, nothing the version file names is   *)
(* left but what it could not reach; and nothing at all if no call of it   *)
(* raised, except for the pods that threads of hogs deployed beside the    *)
(* rollback of a signal: a thread registers its pod before it deploys it.  *)
(* The callables of http_load and storage_throttle reach nothing. *)
RollbackRemoves ==
  plugin \in Deployer /\ main = "rolled" =>
    /\ named \cap made \subseteq unreached \cup late
    /\ plugin \notin Unimported /\ (slips = 0 \/ (slips < 2 /\ rc = 1)) =>
         named \cap made \subseteq late

(* A scenario that returns 0 has taken back what it did, except for the    *)
(* pods of the load scenarios, which have ended if they were waited for;   *)
(* a privileged pod whose deletion failed; and limits of storage_throttle  *)
(* whose reset did nothing, which the code does not see.  Managed clusters *)
(* are as they were told last to be, as long as no wait for a status timed *)
(* out: the status an action waits for is not one from before it. *)
SuccessUndoes ==
  main = "returned" /\ rc = 0 =>
    /\ plugin \in Deployer => \A t \in made : t[1] = "pod" \/ t \in unreached
    /\ plugin \in {"hogs", "hijacking", "pvc"} => made = {}
    /\ plugin = "syn_flood" => live = {}
    /\ plugin = "throttle" => made \subseteq unreached \cup (IF slips = 0 THEN {} ELSE {PodOf(1, 1)})
    /\ plugin = "clocks" => helpers = {}
    /\ plugin = "managed" =>
         \A c \in Fleet : works[c] = "none" /\ (missed \/ (told[c] = "up" <=> c \in agent))

(* An outage of virtual machines that returns 0, with no call that raised, *)
(* has seen every instance run again, although the same one may have been  *)
(* drawn twice. *)
VmsComeBack ==
  plugin = "vms" /\ main = "returned" /\ rc = 0 /\ breaks = 0 => Up = Quarry

(* A scenario that returns 0 has told as many containers to stop as asked  *)
(* for, each once, a container that answers with an error every time       *)
(* included, and emptied as many namespaces.  Pods that are excluded are   *)
(* drawn too, and never killed: as many fewer may be.  Virtual machines    *)
(* are VmsComeBack's. *)
KillsAsAsked ==
  /\ plugin = "pods" => sent \cap spared = {}
  /\ main = "returned" /\ rc = 0 =>
       /\ plugin \in {"containers", "namespaces"} => Cardinality(sent) = kill
       /\ plugin = "pods" => Cardinality(sent) \in (kill - Cardinality(spared))..kill

(* Every scenario ends: waits have limits, or the pods they wait for end   *)
(* by themselves. *)
DisruptionsEnd == <>(Over \/ main \in {"killed", "rolling", "rolled"})
=============================================================================
