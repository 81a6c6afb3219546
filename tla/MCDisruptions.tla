---------------------------- MODULE MCDisruptions ----------------------------
(* Instances of Disruptions for TLC. *)
EXTENDS Disruptions, TLC

Entry(m, par) == [module |-> m, parallel |-> par, ingress |-> FALSE]
Inwards(m, par) == [Entry(m, par) EXCEPT !.ingress = TRUE]

(* Every module, one target after the other and in parallel, and files of  *)
(* two entries. *)
Files ==
  {<<Entry(m, par)>> : m \in Module, par \in BOOLEAN}
  \cup {<<Inwards(m, par)>> : m \in {"node_chaos", "pod_chaos", "vmi_chaos"}, par \in BOOLEAN}
  \cup {<<Entry("node_filter", TRUE), Entry("interface_down", FALSE)>>,
        <<Entry("pod_filter", TRUE), Entry("vmi_chaos", FALSE)>>}

Order(a, r, n, c) == [act |-> a, runs |-> r, count |-> n, name |-> c]
Skew(a, k, o) == [act |-> a, kind |-> k, objects |-> o]
Named == CHOOSE c \in Fleet : TRUE

(* Every action on one cluster, on some and on more than there are; two    *)
(* actions after each other, on the same cluster or on any. *)
ErrandFiles ==
  [managed |->
     {<<Order(a, r, n, c)>> : a \in Stopping \cup Starting \cup {"none", "managedcluster_reboot_scenario"},
                              r \in {1, 2}, n \in {1, 2, 3}, c \in {Named, Nobody}}
     \cup {<<Order(a, 1, 1, c), Order(b, 1, 1, c)>> :
              a \in Stopping, b \in Starting, c \in {Named, Nobody}},
   clocks |->
     {<<Skew(a, k, o)>> : a \in {"skew_time", "skew"}, k \in {"node", "pod"},
                          o \in {{}, {Named}, Fleet}}
     \cup {<<Skew("skew_date", "node", Fleet), Skew("skew_time", "pod", Fleet)>>}]
=============================================================================
