---------------------------- MODULE NodeActions ----------------------------
(***************************************************************************)
(* node_scenarios: NodeActionsScenarioPlugin.                              *)
(*                                                                         *)
(* For every entry of the file, for every action of the entry, the plugin  *)
(* picks nodes and runs the action's program on each, serially or in a     *)
(* pool.  Nothing is registered for rollback.  cerberus.get_status after   *)
(* an action may end the process.                                          *)
(***************************************************************************)
EXTENDS NodePool

CONSTANT Entries \* the files considered: sequences of entries

(* names: node_name, or {} for a label selector, whose labels each match   *)
(* all nodes; labels: how many there are; count: instance_count; exclude:  *)
(* the nodes with exclude_label.                                           *)
Entry == [cloud : DOMAIN Backend, actions : Seq(STRING), parallel : BOOLEAN,
          kube : BOOLEAN, names : SUBSET Node, labels : Nat, count : Nat,
          exclude : SUBSET Node, cerberus : BOOLEAN]

ASSUME EntriesAssumption == Entries \subseteq Seq(Entry)

VARIABLES
  file,      \* node_scenarios
  entry,     \* index in file
  act,       \* index in the actions of the entry
  general,   \* node_general, a global of the module
  telemetry  \* scenario_telemetry.affected_nodes

nodevars == <<file, entry, act, general, telemetry>>

NodesInit ==
  /\ file \in Entries /\ entry = 1 /\ act = 1
  /\ general = FALSE /\ telemetry = {}

E == file[entry]
Act == E.actions[act]
NodesAt(pc) == At({"nodes"}, pc)

(* The next entry: get_node_scenario_object builds the client, which may   *)
(* refuse to connect. *)
NextEntry ==
  /\ NodesAt("entry")
  /\ \/ /\ entry > Len(file) /\ Return(0)
        /\ UNCHANGED <<general, affected, asked, refused, act>>
     \/ /\ entry <= Len(file)
        /\ \/ /\ E.actions # <<>> /\ main' = "pick" /\ UNCHANGED rc
              /\ affected' = {} /\ asked' = {} /\ UNCHANGED refused
              /\ general' = (general \/ E.cloud = "generic")
              /\ act' = 1
           \/ /\ Return(1)
              /\ UNCHANGED <<general, affected, asked, refused, act>>
  /\ UNCHANGED <<plugin, parallel, prog, kube, work, cloudvars, file, entry, telemetry>>

(* get_node: all candidates, or instance_count of them drawn at random; a  *)
(* node with two of the labels is listed twice.  What was drawn is then    *)
(* filtered by the exclude label, for which get_node wants a node as well. *)
Candidates == E.labels * Cardinality(Ready)
NoCandidate ==
  \/ Ready = {} \/ E.count > Candidates
  \/ E.exclude # {} /\ E.exclude \cap Ready = {}
Drawn(k) ==
  {s \in [1..k -> Ready \ E.exclude] :
     \A n \in Ready : Cardinality({j \in 1..k : s[j] = n}) <= E.labels}
Picks ==
  LET total == IF E.count = 0 THEN Candidates ELSE E.count
      hidden == E.labels * Cardinality(Ready \cap E.exclude)
  IN  UNION {Drawn(k) : k \in {k \in 0..total : k + hidden >= total}}

(* Mutant: node_general starts as True. *)
SkippedFromStart ==
  Act \notin {"stop_kubelet_scenario", "node_crash_scenario"}

(* An action that is not set up for a generic cloud is skipped once the    *)
(* process has seen one.                                                   *)
Skipped == general /\ Act \notin {"stop_kubelet_scenario", "node_crash_scenario"}
ActProgram == IF Skipped THEN <<>> ELSE Program(E.cloud, Act)

Targets(nodes) ==
  [j \in DOMAIN nodes |->
     IF Act = "stop_start_helper_node_scenario" THEN Helper ELSE nodes[j]]

Pick ==
  /\ NodesAt("pick")
  /\ \/ /\ act > Len(E.actions) /\ main' = "entry" /\ entry' = entry + 1
        /\ UNCHANGED <<rc, work, prog, parallel, kube>>
     \/ /\ act <= Len(E.actions) /\ E.names # {} /\ E.names \subseteq Ready
        /\ main' = "work" /\ UNCHANGED <<rc, entry>>
        /\ Launch(Targets(SetToSeq(E.names)), ActProgram, E.parallel, E.kube)
     \/ \* get_node_by_name returns None: the pool's code swallows the TypeError
        /\ act <= Len(E.actions) /\ E.names # {} /\ ~(E.names \subseteq Ready)
        /\ IF E.parallel THEN main' = "extend" /\ UNCHANGED rc ELSE Return(1)
        /\ work' = <<>> /\ UNCHANGED <<entry, prog, parallel, kube>>
     \/ /\ act <= Len(E.actions) /\ E.names = {} /\ NoCandidate
        /\ Return(1) /\ UNCHANGED <<work, entry, prog, parallel, kube>>
     \/ /\ act <= Len(E.actions) /\ E.names = {} /\ ~NoCandidate
        /\ \E nodes \in Picks :
             /\ Launch(Targets(nodes), ActProgram, E.parallel, E.kube)
             /\ main' = IF nodes = <<>> THEN "extend" ELSE "work"
        /\ UNCHANGED <<rc, entry>>
  /\ UNCHANGED <<plugin, cloudvars, records, file, act, general, telemetry>>

(* The pool is joined and its exceptions are only logged; in a serial run  *)
(* the exception ends the scenario.                                        *)
Join ==
  /\ NodesAt("work")
  /\ \/ (IF parallel THEN Joined ELSE AllDone) /\ main' = "extend" /\ UNCHANGED rc
     \/ ~parallel /\ SomeFailed /\ Return(1)
  /\ UNCHANGED <<plugin, parallel, prog, kube, work, cloudvars, records, nodevars>>

(* Mutant: the telemetry is extended for the first action only. *)
ExtendFirst ==
  /\ NodesAt("extend")
  /\ telemetry' = IF act = 1 THEN telemetry \cup affected ELSE telemetry
  /\ act' = act + 1
  /\ \/ main' = "pick" /\ UNCHANGED rc
     \/ E.cerberus /\ main' \in {"exited", "returned"} /\ rc' = 1
  /\ UNCHANGED <<plugin, parallel, prog, kube, work, cloudvars, records,
                 file, entry, general>>

Extend ==
  /\ NodesAt("extend")
  /\ telemetry' = telemetry \cup affected
  /\ act' = act + 1
  /\ \/ main' = "pick" /\ UNCHANGED rc
     \/ E.cerberus /\ main' \in {"exited", "returned"} /\ rc' = 1
  /\ UNCHANGED <<plugin, parallel, prog, kube, work, cloudvars, records,
                 file, entry, general>>

NodesStep == NextEntry \/ Pick \/ Join \/ Extend

=============================================================================
