------------------------------ MODULE MCOutages ------------------------------
(* Instances of Outages for TLC. *)
EXTENDS Outages, TLC

Of(c, actions, par) ==
  [cloud |-> c, actions |-> actions, parallel |-> par, kube |-> TRUE,
   names |-> {}, labels |-> 1, count |-> 0, exclude |-> {}, cerberus |-> FALSE]

Actions ==
  {"node_start_scenario", "node_stop_scenario", "node_stop_start_scenario",
   "node_termination_scenario", "node_reboot_scenario",
   "node_disk_detach_attach_scenario", "stop_kubelet_scenario",
   "stop_start_kubelet_scenario", "restart_kubelet_scenario", "node_crash_scenario",
   "stop_start_helper_node_scenario", "node_block_scenario", "no_such_scenario"}

(* Every action of every backend, one at a time and in a pool. *)
Each ==
  {<<Of(c, <<a>>, p)>> : c \in DOMAIN Backend, a \in Actions, p \in BOOLEAN}

(* Files with several entries or actions, nodes by name, counts, excluded  *)
(* nodes, overlapping labels.                                              *)
StopStart == Of("aws", <<"node_stop_start_scenario">>, TRUE)
Several ==
  {<<Of("generic", <<"stop_kubelet_scenario">>, FALSE), Of("aws", <<"node_stop_scenario">>, FALSE)>>,
   <<Of("aws", <<"node_stop_scenario", "node_start_scenario">>, FALSE)>>,
   <<Of("aws", <<>>, FALSE)>>,
   <<[Of("az", <<"node_stop_scenario", "node_reboot_scenario">>, FALSE) EXCEPT !.count = 1]>>,
   <<[Of("gcp", <<"node_stop_scenario", "node_start_scenario">>, FALSE) EXCEPT !.names = Node]>>,
   <<[Of("gcp", <<"node_stop_scenario", "node_start_scenario">>, TRUE) EXCEPT !.names = Node]>>,
   <<[StopStart EXCEPT !.count = 1, !.labels = 2, !.kube = FALSE]>>,
   <<[StopStart EXCEPT !.count = 2, !.labels = 2, !.kube = FALSE]>>,
   <<[StopStart EXCEPT !.count = 3]>>,
   <<[StopStart EXCEPT !.exclude = Node, !.cerberus = TRUE]>>,
   <<[Of("ibmpower", <<"node_reboot_scenario">>, FALSE) EXCEPT !.kube = FALSE]>>,
   <<[Of("aws", <<"node_stop_scenario">>, FALSE) EXCEPT !.count = 1],
     [Of("aws", <<"node_stop_scenario">>, FALSE) EXCEPT !.exclude = {CHOOSE n \in Node : TRUE}]>>}

Files == Each \cup Several
NoFiles == {<<>>}
Nodes2 == Permutations(Node)
=============================================================================
