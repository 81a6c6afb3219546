------------------------------ MODULE NodePool ------------------------------
(***************************************************************************)
(* The machines of a cluster, and the workers that act on them.            *)
(*                                                                         *)
(* A scenario acts on its nodes one after the other, or with a ThreadPool  *)
(* of as many threads as nodes.  Each worker runs a program of             *)
(* NodePrograms on one node.  The cloud accepts a request at once and      *)
(* takes it some time later, or never.                                     *)
(***************************************************************************)
EXTENDS NodePrograms, ScenarioThread, FiniteSets

CONSTANTS
  Node,
  Helper \* the openstack helper node

ASSUME NodeAssumption == Helper \notin Node /\ IsFiniteSet(Node)

VARIABLES
  parallel, \* the workers are the threads of a pool
  prog,     \* the program of the workers: a sequence of methods
  kube,     \* kube_check
  work,     \* the workers: a sequence, in the order of the nodes
  vm,       \* the machines, as the cloud has them
  azure,    \* the security group of the subnet, and whether "chaos" exists
  affected, \* affected_nodes_status: the nodes recorded
  asked,    \* history: nodes that had a power request accepted
  refused   \* history: nodes that had one refused

cloudvars == <<vm, azure>>
records == <<affected, asked, refused>>
poolvars == <<threadvars, parallel, prog, kube, work, cloudvars, records>>

Machine == [power : {"running", "stopped", "deleted"},
            pending : {"none", "running", "stopped", "deleted", "reboot"},
            disks : {"in", "leaving", "out"}, kubelet : BOOLEAN]
Worker == [node : Node \cup {Helper}, m : Nat, i : Nat,
           st : {"running", "done", "failed", "lost"}, saved : {"orig", "chaos"}]

PoolInit ==
  /\ rc = 0 /\ parallel = FALSE /\ prog = <<>> /\ kube = TRUE /\ work = <<>>
  /\ vm = [n \in Node \cup {Helper} |->
             [power |-> "running", pending |-> "none", disks |-> "in", kubelet |-> TRUE]]
  /\ azure = [subnet |-> "orig", group |-> FALSE]
  /\ affected = {} /\ asked = {} /\ refused = {}

(* list_killable_nodes: the nodes that are Ready. *)
Ready == {n \in Node : vm[n].power = "running" /\ vm[n].kubelet}

(* What the requests accepted so far make of a machine. *)
Final(n) == IF vm[n].pending \in {"none", "reboot"} THEN vm[n].power ELSE vm[n].pending

-----------------------------------------------------------------------------
(* The cloud. *)

Takes(n) ==
  /\ vm[n].pending # "none"
  /\ vm' = [vm EXCEPT ![n] =
       [@ EXCEPT !.power = Final(n), !.pending = "none",
                 !.kubelet = vm[n].kubelet \/ vm[n].pending \in {"running", "reboot"}]]
  /\ UNCHANGED <<threadvars, parallel, prog, kube, work, azure, records>>

(* A volume that was asked to leave its machine does so. *)
Detaches(n) ==
  /\ vm[n].disks = "leaving" /\ vm' = [vm EXCEPT ![n].disks = "out"]
  /\ UNCHANGED <<threadvars, parallel, prog, kube, work, azure, records>>

-----------------------------------------------------------------------------
(* The workers. *)

(* The workers of a pool also run while the main thread is in a signal     *)
(* handler that interrupted its wait for them, and after it.               *)
Beside == {"handling", "handled"}
Working == {"work"} \cup Beside

(* The thread of the scenario has called run_node for the nodes, or given  *)
(* them to the pool. *)
Launch(nodes, p, par, kubeCheck) ==
  /\ prog' = p /\ parallel' = par /\ kube' = kubeCheck
  /\ work' = [j \in DOMAIN nodes |->
                [node |-> nodes[j], m |-> 1, i |-> 1, saved |-> "orig",
                 st |-> IF p = <<>> THEN "done" ELSE "running"]]

Active(w) ==
  /\ main \in Working /\ work[w].st = "running"
  /\ parallel \/ \A v \in 1..(w - 1) : work[v].st = "done"

Steps(w) == prog[work[w].m].steps
Now(w) == Steps(w)[work[w].i]

(* Mutant: the end of the program goes unnoticed. *)
GotoPast(w, m, i) == [work EXCEPT ![w] = [@ EXCEPT !.m = m, !.i = i]]

Goto(w, m, i) ==
  [work EXCEPT ![w] = [@ EXCEPT !.m = m, !.i = i,
                               !.st = IF m > Len(prog) THEN "done" ELSE work[w].st]]
After(w, i) ==
  IF i <= Len(Steps(w)) THEN Goto(w, work[w].m, i) ELSE Goto(w, work[w].m + 1, 1)
Advance(w) == work' = After(w, work[w].i + 1)

Doing(w, do) == Active(w) /\ Now(w).do = do
OnlyCloud == UNCHANGED <<threadvars, parallel, prog, kube, records>>

Quiet(w) ==
  /\ Active(w)
  /\ \/ Now(w).do \in {"pass", "lookup", "kube", "sleep", "disks", "nic", "service", "merge"}
     \/ Now(w).do = "wrong" /\ ~kube
  /\ Advance(w) /\ OnlyCloud /\ UNCHANGED cloudvars

Request(w) ==
  LET n == work[w].node
  IN  /\ Doing(w, "ask") /\ vm[n].power # "deleted"
      /\ vm' = [vm EXCEPT ![n].pending = Now(w).to]
      /\ asked' = asked \cup {n}
      /\ Advance(w)
      /\ UNCHANGED <<threadvars, parallel, prog, kube, azure, affected, refused>>

Reached(w) ==
  /\ Active(w)
  /\ \/ Now(w).do = "await" /\ vm[work[w].node].power = Now(w).to
     \/ Now(w).do = "gone" /\ vm[work[w].node].power = "deleted"
  /\ Advance(w) /\ OnlyCloud /\ UNCHANGED cloudvars

Append1(w) ==
  /\ Doing(w, "record")
  /\ affected' = affected \cup {work[w].node}
  /\ Advance(w)
  /\ UNCHANGED <<threadvars, parallel, prog, kube, cloudvars, asked, refused>>

(* Commands on the node itself. *)
Command(w) ==
  LET n == work[w].node
  IN  /\ \/ Doing(w, "kubelet") /\ vm' = [vm EXCEPT ![n].kubelet = (Now(w).to = "up")]
         \/ /\ Doing(w, "detach") /\ Now(w).to = "now" /\ vm' = [vm EXCEPT ![n].disks = "out"]
         \/ /\ Doing(w, "detach") /\ Now(w).to = "later"
            /\ vm' = [vm EXCEPT ![n].disks = IF @ = "in" THEN "leaving" ELSE @]
         \/ /\ Doing(w, "attach")
            /\ vm' = [vm EXCEPT ![n].disks = IF @ = "out" THEN "in" ELSE @]
      /\ Advance(w) /\ OnlyCloud /\ UNCHANGED azure

(* create_security_group, update_subnet (which returns the group it found) *)
(* and delete_security_group; all workers use the name "chaos", and the    *)
(* cloud keeps a group that is in use and knows no group that is deleted.  *)
Network(w) ==
  /\ Active(w)
  /\ \/ /\ Now(w).do = "group"
        /\ azure' = [azure EXCEPT !.group = TRUE]
     \/ /\ Now(w).do = "block" /\ azure.group
        /\ azure' = [azure EXCEPT !.subnet = "chaos"]
     \/ /\ Now(w).do = "unblock" /\ (work[w].saved = "chaos" => azure.group)
        /\ azure' = [azure EXCEPT !.subnet = work[w].saved]
     \/ /\ Now(w).do = "drop" /\ azure.group /\ azure.subnet # "chaos"
        /\ azure' = [azure EXCEPT !.group = FALSE]
  /\ work' = [After(w, work[w].i + 1) EXCEPT ![w].saved =
               IF Now(w).do = "block" THEN azure.subnet ELSE @]
  /\ OnlyCloud /\ UNCHANGED vm

(* The except clause of the method. *)
Caught(w) ==
  CASE prog[work[w].m].onError = "raise" -> [work EXCEPT ![w].st = "failed"]
    [] prog[work[w].m].onError = "skip" -> Goto(w, work[w].m + 1, 1)
    [] prog[work[w].m].onError = "record" -> After(w, Len(Steps(w)))

NoWait(w) ==
  CHOOSE j \in (work[w].i + 1)..(Len(Steps(w)) + 1) :
    /\ j \in DOMAIN Steps(w) => Steps(w)[j].do \notin {"await", "kube"}
    /\ \A k \in (work[w].i + 1)..(j - 1) : Steps(w)[k].do \in {"await", "kube"}

(* A call goes wrong.  sys.exit ends the process when the main thread      *)
(* calls it, and in a pool the thread that calls it, whose result the      *)
(* pool then waits for.                                                    *)
Wrong(w) ==
  /\ Active(w) /\ (Now(w).do \in {"kube", "wrong"} => kube)
  /\ \E how \in Now(w).bad :
       /\ work' = CASE how \in {"on", "timeout"} -> After(w, work[w].i + 1)
                    [] how = "nowait" -> After(w, NoWait(w))
                    [] how = "none" -> Goto(w, Len(prog) + 1, 1)
                    [] how = "raise" -> Caught(w)
                    [] how = "escape" -> [work EXCEPT ![w].st = "failed"]
                    [] how = "exit" -> [work EXCEPT ![w].st = "lost"]
       /\ IF how = "exit" /\ ~parallel THEN Raises("exited") ELSE UNCHANGED threadvars
  /\ refused' = IF Now(w).do = "ask" THEN refused \cup {work[w].node} ELSE refused
  /\ UNCHANGED <<parallel, prog, kube, cloudvars, affected, asked>>

WorkerStep(w) ==
  \/ Quiet(w) \/ Request(w) \/ Reached(w) \/ Append1(w)
  \/ Command(w) \/ Network(w) \/ Wrong(w)

AllDone == \A w \in DOMAIN work : work[w].st = "done"
(* starmap returns, or raises the first exception, when all have ended. *)
Joined == \A w \in DOMAIN work : work[w].st \in {"done", "failed"}
SomeFailed == \E w \in DOMAIN work : work[w].st = "failed"

=============================================================================
