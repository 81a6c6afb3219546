---------------------------- MODULE CloudOutages ----------------------------
(***************************************************************************)
(* cluster_shut_down_scenarios and zone_outages_scenarios.                 *)
(*                                                                         *)
(* ShutDownScenarioPlugin stops every node of the cluster and starts them  *)
(* again, "runs" times.  ZoneOutageScenarioPlugin stops and starts the     *)
(* nodes of a zone (gcp), or moves subnets to a network ACL that lets      *)
(* nothing through (aws).  The first two register a callable that starts   *)
(* the nodes again; it runs after a failure, an exit or a kill, and in the *)
(* handler of a signal, beside the workers of the pool that was waited for.*)
(***************************************************************************)
EXTENDS NodePool

CONSTANTS
  Subnet,
  ShutClouds, \* clouds of the shut down considered
  ShutRuns    \* "runs" of the shut down

(* The plugin has no client for any other cloud, and returns 1. *)
ASSUME OutageAssumption ==
  /\ ShutRuns \in Nat \ {0} /\ IsFiniteSet(Subnet)
  /\ ShutClouds \subseteq {"aws", "gcp", "az", "openstack", "ibm"}

VARIABLES
  cloud,      \* cloud_type
  round,      \* runs of the shut down so far
  left,       \* what the loop that runs has still to treat
  registered, \* the nodes in the version file's RollbackContent
  lost,       \* history: nodes whose start the rollback could not ask for
  unsent,     \* history: nodes with a stop still to send when a signal came
  acl,        \* the ACL of each subnet: "orig" or "deny"
  created,    \* the subnets for which acl_ids_created has one that exists
  ids         \* subnets whose original ACL is remembered

outagevars == <<cloud, round, left, registered, lost, unsent, acl, created, ids>>
aclvars == <<acl, created, ids>>

OutageInit ==
  /\ round = 0 /\ left = {} /\ registered = {} /\ lost = {} /\ unsent = {}
  /\ acl = [s \in Subnet |-> "orig"] /\ created = {} /\ ids = {}
  /\ cloud \in CASE plugin = "shut_down" -> ShutClouds
                 [] plugin = "acl" -> {"default", "none"}  \* default_acl_id
                 [] OTHER -> {"gcp"}

Pc(which, from) == At({which}, from)
PoolSame == UNCHANGED <<plugin, parallel, prog, kube, work, cloudvars, records>>

-----------------------------------------------------------------------------
(* Shutting the cluster down. *)

(* The client as the plugin uses it: IbmCloud answers False, unnoticed.    *)
Client ==
  CASE cloud = "aws" -> AwsClient [] cloud = "gcp" -> GcpClient
    [] cloud = "az" -> AzClient [] cloud = "openstack" -> OpenstackClient
    [] cloud = "ibm" -> [IbmClient EXCEPT !.ask = {"on"}]
Send(state) == <<Method(<<Ask(state, Client.ask)>>, "raise")>>
EveryNode == SetToSeq(Node)

(* Looks up every node: all of them are recorded as affected, before       *)
(* anything has happened to them. *)
ShutStart ==
  /\ Pc("shut_down", "entry")
  /\ \/ /\ main' = "register" /\ affected' = Node /\ UNCHANGED rc
     \/ "raise" \in Client.lookup /\ Return(1) /\ UNCHANGED affected
     \/ "exit" \in Client.lookup /\ main' = "exited" /\ rc' = 1 /\ UNCHANGED affected
  /\ UNCHANGED <<plugin, parallel, prog, kube, work, cloudvars, asked, refused, outagevars>>

(* set_rollback_callable, then stop_instances for all nodes in a pool. *)
Register ==
  /\ Pc("shut_down", "register")
  /\ registered' = Node /\ main' = "send_stop"
  /\ PoolSame /\ UNCHANGED <<rc, cloud, round, left, lost, unsent, aclvars>>

SendAll(from, state) ==
  /\ Pc("shut_down", from) /\ main' = "work"
  /\ Launch(EveryNode, Send(state), TRUE, FALSE)
  /\ left' = Node
  /\ UNCHANGED <<plugin, rc, cloudvars, records, cloud, registered, lost, unsent, aclvars>>
SendStop == SendAll("send_stop", "stopped") /\ UNCHANGED round
SendStart == SendAll("send_start", "running") /\ round' = round + 1
Phase == prog[1].steps[1].to

(* multiprocess_nodes joins the pool and logs what it raises. *)
Sent ==
  /\ Pc("shut_down", "work") /\ Joined
  /\ main' = "waiting"
  /\ PoolSame /\ UNCHANGED <<rc, outagevars>>

(* Mutant: what the wait returns is ignored. *)
WaitOnce(n) ==
  /\ Pc("shut_down", "waiting") /\ n \in left
  /\ left' = left \ {n}
  /\ PoolSame /\ UNCHANGED <<main, rc, cloud, round, registered, lost, unsent, aclvars>>

(* wait_until_stopped or wait_until_running for a node.  The loop asks     *)
(* again, without end, about the nodes whose wait gave up.  The wait of az *)
(* also answers True while the instance view has fewer than two statuses.  *)
WaitOne(n) ==
  /\ Pc("shut_down", "waiting") /\ n \in left
  /\ \/ /\ vm[n].power = Phase \/ cloud = "az"
        /\ left' = left \ {n} /\ UNCHANGED <<main, rc>>
     \/ "raise" \in Client.await /\ Return(1) /\ UNCHANGED left
     \/ "exit" \in Client.await /\ main' = "exited" /\ rc' = 1 /\ UNCHANGED left
  /\ PoolSame /\ UNCHANGED <<cloud, round, registered, lost, unsent, aclvars>>

Waited ==
  /\ Pc("shut_down", "waiting") /\ left = {}
  /\ IF Phase = "stopped" THEN main' = "send_start" /\ UNCHANGED rc
     ELSE IF round < ShutRuns THEN main' = "register" /\ UNCHANGED rc
     ELSE Return(0)
  /\ PoolSame /\ UNCHANGED outagevars

-----------------------------------------------------------------------------
(* The zone of a gcp cluster: its nodes are registered, stopped in a pool, *)
(* and started in another; an exception ends the scenario at once.         *)

ZoneStart ==
  /\ Pc("zone", "entry")
  /\ \/ \E zone \in SUBSET Node \ {{}} :
          /\ registered' = zone /\ main' = "work" /\ UNCHANGED rc
          /\ Launch(SetToSeq(zone), <<Gcp.stop>>, TRUE, TRUE)
     \/ \* no connection, or no node: ThreadPool(0) raises
        Return(1) /\ UNCHANGED <<registered, work, prog, parallel, kube>>
  /\ UNCHANGED <<plugin, cloudvars, records, cloud, round, left, lost, unsent, aclvars>>

ZoneNext ==
  /\ Pc("zone", "work") /\ Joined
  /\ \/ SomeFailed /\ Return(1) /\ UNCHANGED <<work, prog, parallel, kube>>
     \/ /\ AllDone /\ prog = <<Gcp.stop>> /\ UNCHANGED <<main, rc>>
        /\ Launch([j \in DOMAIN work |-> work[j].node], <<Gcp.start>>, TRUE, TRUE)
     \/ /\ AllDone /\ prog = <<Gcp.start>> /\ Return(0)
        /\ UNCHANGED <<work, prog, parallel, kube>>
  /\ UNCHANGED <<plugin, cloudvars, records, outagevars>>

-----------------------------------------------------------------------------
(* A kill, a signal, and the callable that starts the registered nodes.    *)

Ended == {"returned", "exited", "killed", "rolling", "rolled"} \cup Beside

(* The process dies at once. *)
Kill ==
  /\ plugin \in {"shut_down", "zone"} /\ main \notin Ended
  /\ main' = "killed"
  /\ PoolSame /\ UNCHANGED <<rc, outagevars>>

(* The requests a worker has still to make. *)
StopAhead(w) ==
  /\ work[w].st = "running"
  /\ \E j \in work[w].i..Len(Steps(w)) : Steps(w)[j].do = "ask" /\ Steps(w)[j].to = "stopped"

(* SIGINT or SIGTERM: the handler runs the callable on the main thread.  A *)
(* pool that the main thread was waiting for goes on. *)
Signal ==
  /\ plugin \in {"shut_down", "zone"} /\ main \notin Ended /\ registered # {}
  /\ left' = registered
  /\ IF main = "work"
     THEN main' = "handling" /\ unsent' = {work[w].node : w \in {v \in DOMAIN work : StopAhead(v)}}
     ELSE main' = "rolling" /\ UNCHANGED unsent
  /\ PoolSame /\ UNCHANGED <<rc, cloud, round, registered, lost, aclvars>>

(* After a failure or an exit, or by execute-rollback in a later process;  *)
(* a handler that an exit has cut short leaves the version file.           *)
RollbackStart ==
  /\ plugin \in {"shut_down", "zone"} /\ registered # {}
  /\ \/ main \in {"exited", "killed"} \/ (main = "returned" /\ rc = 1)
     \/ (main = "handled" /\ left # {})
  /\ main' = "rolling" /\ left' = registered /\ unsent' = {}
  /\ PoolSame /\ UNCHANGED <<rc, cloud, round, registered, lost, aclvars>>

RollbackAt(n) ==
  /\ plugin \in {"shut_down", "zone"} /\ main \in {"rolling", "handling"} /\ n \in left
  /\ UNCHANGED <<plugin, rc, parallel, prog, kube, work, azure, records, cloud, round,
                 registered, unsent, aclvars>>

(* Mutant: the first failure ends the loop. *)
RollbackUntilFailure(n) ==
  /\ RollbackAt(n) /\ UNCHANGED main
  /\ \/ /\ vm' = [vm EXCEPT ![n].pending = "running"] /\ left' = left \ {n}
        /\ UNCHANGED lost
     \/ left' = {} /\ lost' = lost \cup {n} /\ UNCHANGED vm

(* One node: an exception is logged and the next node follows; sys.exit    *)
(* ends the rollback too. *)
RollbackNode(n) ==
  /\ RollbackAt(n)
  /\ \/ /\ vm' = [vm EXCEPT ![n].pending = "running"] /\ left' = left \ {n}
        /\ UNCHANGED <<main, lost>>
     \/ /\ lost' = lost \cup {n} /\ UNCHANGED vm
        /\ IF "exit" \in Client.ask
           THEN main' = (IF main = "rolling" THEN "exited" ELSE "handled") /\ UNCHANGED left
           ELSE UNCHANGED main /\ left' = left \ {n}

(* After the handler of SIGTERM the process ends; after that of SIGINT the *)
(* pool is joined, or its threads go on until the process ends.            *)
RollbackEnd ==
  /\ plugin \in {"shut_down", "zone"} /\ left = {}
  /\ \/ main = "rolling" /\ main' = "rolled"
     \/ main = "handling" /\ main' \in {"handled", "rolled"}
  /\ PoolSame /\ UNCHANGED <<rc, outagevars>>

-----------------------------------------------------------------------------
(* The subnets of an aws zone.  Nothing is registered here.                *)

NewAcls(s) == IF cloud = "default" THEN {} ELSE {s}

AclStart ==
  /\ Pc("acl", "entry")
  /\ main' = "block" /\ left' = Subnet
  /\ PoolSame /\ UNCHANGED <<rc, cloud, round, registered, lost, unsent, aclvars>>

(* A subnet: its ACL is described, a new one created unless the user named *)
(* one, and the association replaced; each call may raise.                 *)
AclBlock(s) ==
  /\ Pc("acl", "block") /\ s \in left
  /\ \/ /\ created' = created \cup NewAcls(s)
        /\ acl' = [acl EXCEPT ![s] = "deny"] /\ ids' = ids \cup {s}
        /\ left' = left \ {s} /\ UNCHANGED <<main, rc>>
     \/ /\ created' \in {created, created \cup NewAcls(s)}
        /\ Return(1) /\ UNCHANGED <<acl, ids, left>>
  /\ PoolSame /\ UNCHANGED <<cloud, round, registered, lost, unsent>>

(* Mutant: the dictionary is keyed by the original ACL, which subnets share.*)
AclSleepShared ==
  /\ Pc("acl", "block") /\ left = {}
  /\ main' = "unblock" /\ left' = {CHOOSE s \in ids : TRUE}
  /\ PoolSame /\ UNCHANGED <<rc, cloud, round, registered, lost, unsent, aclvars>>

AclSleep ==
  /\ Pc("acl", "block") /\ left = {}
  /\ main' = "unblock" /\ left' = ids
  /\ PoolSame /\ UNCHANGED <<rc, cloud, round, registered, lost, unsent, aclvars>>

AclRestore(s) ==
  /\ Pc("acl", "unblock") /\ s \in left
  /\ \/ /\ acl' = [acl EXCEPT ![s] = "orig"] /\ left' = left \ {s}
        /\ UNCHANGED <<main, rc>>
     \/ Return(1) /\ UNCHANGED <<acl, left>>
  /\ PoolSame /\ UNCHANGED <<cloud, round, registered, lost, unsent, created, ids>>

AclSleepAgain ==
  /\ Pc("acl", "unblock") /\ left = {}
  /\ main' = "delete" /\ left' = created
  /\ PoolSame /\ UNCHANGED <<rc, cloud, round, registered, lost, unsent, aclvars>>

(* The cloud does not delete an ACL that is associated with a subnet. *)
AclDelete(s) ==
  /\ Pc("acl", "delete") /\ s \in left
  /\ \/ /\ acl[s] # "deny"
        /\ created' = created \ {s} /\ left' = left \ {s}
        /\ UNCHANGED <<main, rc>>
     \/ Return(1) /\ UNCHANGED <<created, left>>
  /\ PoolSame /\ UNCHANGED <<cloud, round, registered, lost, unsent, acl, ids>>

AclEnd ==
  /\ Pc("acl", "delete") /\ left = {} /\ Return(0)
  /\ PoolSame /\ UNCHANGED outagevars

OutageStep ==
  \/ ShutStart \/ Register \/ SendStop \/ SendStart \/ Sent \/ Waited
  \/ \E n \in Node : WaitOne(n) \/ RollbackNode(n)
  \/ ZoneStart \/ ZoneNext \/ RollbackStart \/ RollbackEnd
  \/ AclStart \/ AclSleep \/ AclSleepAgain \/ AclEnd
  \/ \E s \in Subnet : AclBlock(s) \/ AclRestore(s) \/ AclDelete(s)

=============================================================================
