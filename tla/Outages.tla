------------------------------ MODULE Outages ------------------------------
(***************************************************************************)
(* The scenarios that act on the machines of a cluster through the API of  *)
(* a cloud: one of them per behaviour, and what they promise.              *)
(***************************************************************************)
EXTENDS NodeActions, CloudOutages

vars == <<poolvars, nodevars, outagevars>>

Init ==
  /\ plugin \in {"nodes", "shut_down", "zone", "acl"} /\ main = "entry"
  /\ PoolInit
  /\ IF plugin = "nodes" THEN NodesInit
     ELSE file = <<>> /\ entry = 1 /\ act = 1 /\ general = FALSE
          /\ telemetry = {}
  /\ OutageInit

Worker1(w) == w \in DOMAIN work /\ WorkerStep(w) /\ UNCHANGED <<nodevars, outagevars>>
Cloud(n) == (Takes(n) \/ Detaches(n)) /\ UNCHANGED <<nodevars, outagevars>>
Nodes == NodesStep /\ UNCHANGED outagevars
Shut == OutageStep /\ UNCHANGED nodevars
Killed == (Kill \/ Signal) /\ UNCHANGED nodevars

Next ==
  \/ Nodes \/ Shut \/ Killed
  \/ \E w \in DOMAIN work : Worker1(w)
  \/ \E n \in Node \cup {Helper} : Cloud(n)

(* Every thread of the process goes on; nothing is assumed of the cloud,   *)
(* which may never take a request.  MaxWorkers bounds the pool's threads.  *)
MaxWorkers == 4
Fairness == WF_vars(Nodes) /\ WF_vars(Shut) /\ \A w \in 1..MaxWorkers : WF_vars(Worker1(w))
Spec == Init /\ [][Next]_vars /\ Fairness

-----------------------------------------------------------------------------
OutagesInv ==
  /\ main \in {"entry", "pick", "work", "extend", "returned", "exited", "killed",
               "register", "send_stop", "send_start", "waiting", "rolling", "rolled", "handling", "handled",
               "block", "unblock", "delete"}
  /\ rc \in {0, 1} /\ work \in Seq(Worker)
  /\ \A w \in DOMAIN work :
       work[w].st = "running" => work[w].m \in DOMAIN prog /\ work[w].i \in DOMAIN Steps(w)
  /\ vm \in [Node \cup {Helper} -> Machine]
  /\ azure \in [subnet : {"orig", "chaos"}, group : BOOLEAN]

(* The clients that tell when a request is refused. *)
Reporting == {"aws", "az", "gcp", "bm", "docker", "openstack"}
Reported(f) == \A e \in DOMAIN f : f[e].cloud \in Reporting
Serial(f) == \A e \in DOMAIN f : ~f[e].parallel

(* A serial scenario on a cloud whose client reports refusals returns 0    *)
(* only if no power request was refused: the exception crosses the method, *)
(* run_node and inject_node_scenario. *)
HonestReturn ==
  plugin = "nodes" /\ main = "returned" /\ rc = 0 /\ Reported(file) /\ Serial(file)
    => refused = {}

(* Reversible actions: when all workers have ended without an exception,   *)
(* the last request a stop_start made of each machine is to run, a disk    *)
(* detach and attach on bare metal has left its disks attached, and a      *)
(* block has given the subnet a security group that is not "chaos" and     *)
(* removed that one. *)
(* An action that is skipped repairs nothing, nor does a disk action that  *)
(* finds no disks after one of a pool that failed: hence the first action. *)
Restores ==
  plugin = "nodes" /\ main = "extend" /\ AllDone =>
    \A w \in DOMAIN work :
      LET n == work[w].node
      IN  /\ Act = "node_stop_start_scenario" /\ E.cloud \in Reporting /\ ~Skipped =>
               Final(n) = "running"
          /\ Act = "node_disk_detach_attach_scenario" /\ E.cloud = "bm" /\ entry = 1 /\ act = 1 =>
               vm[n].disks = "in"
          /\ Act = "node_block_scenario" /\ E.cloud = "az" /\ ~Skipped =>
               azure = [subnet |-> "orig", group |-> FALSE]

PowerActions ==
  {"node_start_scenario", "node_stop_scenario", "node_stop_start_scenario",
   "node_termination_scenario", "node_reboot_scenario"}

(* A node the plugin records as affected by power actions only has had a   *)
(* request accepted, on a cloud whose client reports refusals. *)
RecordedWasAsked ==
  /\ plugin = "nodes" /\ main = "extend" /\ E.cloud \in Reporting
  /\ \A a \in DOMAIN E.actions : E.actions[a] \in PowerActions
  => affected \subseteq asked

(* Every node picked for a power action is acted on, unless an entry of    *)
(* the file so far was for a generic cloud: node_general is never reset.   *)
ActsOnAll ==
  /\ plugin = "nodes" /\ main = "extend" /\ AllDone
  /\ E.cloud \in Reporting /\ Act \in PowerActions \ {"node_termination_scenario"}
  /\ \A e \in 1..entry : file[e].cloud # "generic"
  => \A w \in DOMAIN work : work[w].node \in asked

(* Every node recorded by an entry that is done is in the telemetry. *)
TelemetryComplete ==
  plugin = "nodes" /\ main \in {"entry", "returned"} /\ rc = 0 => affected \subseteq telemetry

(* The run method returns (or the process exits) when the waits give up,   *)
(* unless sys.exit is called in a thread of a pool.  A shut down may well  *)
(* ask for ever about a node whose stop was refused.                       *)
GivingUp == {"aws", "az", "gcp", "alibaba", "openstack", "ibm", "ibmpower", "generic"}
Exiting == {"openstack", "ibm", "ibmpower"}
MustReturn ==
  \/ plugin \in {"zone", "acl"}
  \/ /\ plugin = "nodes"
     /\ \A e \in DOMAIN file : /\ file[e].cloud \in GivingUp
                               /\ file[e].parallel => file[e].cloud \notin Exiting
OutagesReturn == MustReturn ~> main \in Ended

(* A shut down starts no node before all nodes are down, and returns 0     *)
(* only with all of them running again, where the waits answer True only   *)
(* after they have seen the state: not on az. *)
AllDownTogether ==
  plugin = "shut_down" /\ cloud # "az" =>
    /\ main = "send_start" => \A n \in Node : vm[n].power = "stopped"
    /\ main = "returned" /\ rc = 0 => \A n \in Node : vm[n].power = "running"

(* A node that was asked to stop is in the version file.  When the rollback *)
(* has gone through it, after a failure, a kill or beside the workers a     *)
(* signal has interrupted, it will run again, unless its own start could    *)
(* not be asked for or its worker had still to send the stop when the       *)
(* signal came: neither one failure nor one late worker keeps the others    *)
(* down. *)
RolledBack == main = "rolled" \/ (main = "handled" /\ left = {})
RollbackStarts ==
  plugin \in {"shut_down", "zone"} =>
    /\ asked \subseteq registered
    /\ RolledBack => \A n \in registered \ (lost \cup unsent) : Final(n) = "running"

(* Violated.  The plugin says of its callable: "Rollback function to       *)
(* restore powered-off nodes back to running state"; after a signal one may *)
(* be powered off by its worker afterwards. *)
RestoresPoweredOff ==
  plugin = "shut_down" /\ RolledBack =>
    \A n \in registered \ lost : Final(n) = "running"

(* A zone outage on aws that returns 0 has given every subnet its ACL back *)
(* and left none of its own.                                               *)
AclsRestored ==
  plugin = "acl" /\ main = "returned" /\ rc = 0 =>
    created = {} /\ \A s \in Subnet : acl[s] = "orig"

=============================================================================
