---------------------------- MODULE NodePrograms ----------------------------
(***************************************************************************)
(* What the node scenario classes do, backend by backend.                  *)
(*                                                                         *)
(* A method of a node scenario class is straight-line code under one try   *)
(* statement: it is given here as its steps and what its except clause     *)
(* does.  An action of the scenario file is a sequence of such methods.    *)
(* NodeActions runs these programs, one worker per node.  The clients of   *)
(* the clouds appear as the ways their calls can go wrong.                 *)
(***************************************************************************)
EXTENDS Naturals, SequencesExt

CONSTANT Runs \* "runs": how often a method repeats its body
ASSUME RunsAssumption == Runs \in Nat \ {0}

(* How a call goes wrong: "raise", an exception for the except clause;     *)
(* "escape", one the method does not catch; "exit", sys.exit; "on", the    *)
(* code goes on as if nothing had happened; "nowait", it goes on after the *)
(* waits that follow; "timeout", a wait gives up (its result is ignored;   *)
(* without "timeout" it waits for ever); "none", there are no disks.       *)
Step(do, to, bad) == [do |-> do, to |-> to, bad |-> bad]
Lookup(bad)    == Step("lookup", "none", bad)
Ask(to, bad)   == Step("ask", to, bad)
Await(to, bad) == Step("await", to, bad)
Kube(status)   == Step("kube", status, {"raise"})
Record         == Step("record", "none", {})
Sleep          == Step("sleep", "none", {})

(* onError: the except clause re-raises ("raise"), only logs ("skip"), or  *)
(* logs before an append that follows the loop ("record").                 *)
Method(steps, onError) == [steps |-> steps, onError |-> onError]
(* for _ in range(runs) *)
Repeat(body) == [k \in 1..(Runs * Len(body)) |-> body[((k - 1) % Len(body)) + 1]]
Loop(body, onError) == Method(Repeat(body), onError)

Pass == Method(<<Step("pass", "none", {})>>, "raise")  \* pass, or only a message

R == {"raise"}
T == {"timeout"}

-----------------------------------------------------------------------------
(* The clients: how looking a node up, a request and a wait go wrong.      *)

(* Mutants: the exception is logged and not raised again; the waiter has   *)
(* no limit.                                                               *)
AwsLogsOnly == [lookup |-> R, ask |-> {"on"}, await |-> T]
AwsPatient == [lookup |-> R, ask |-> R, await |-> {}]

AwsClient == [lookup |-> R, ask |-> R, await |-> T]
(* get_vm_status is False while the view has fewer than two statuses: the  *)
(* wait ends with True, wherever the machine is. *)
AzClient == [lookup |-> R, ask |-> R, await |-> T \cup R \cup {"on"}]
GcpClient == [lookup |-> R, ask |-> R, await |-> T \cup R]
BmClient == [lookup |-> R, ask |-> R, await |-> R]
DockerClient == [lookup |-> R, ask |-> R, await |-> R]
(* Every command goes through runcommand.invoke, which exits. *)
OpenstackClient ==
  [lookup |-> R \cup {"exit"}, ask |-> {"exit"}, await |-> T \cup {"exit"}]
(* _send_request logs the exception and returns None. *)
AlibabaClient == [lookup |-> R, ask |-> {"on"}, await |-> T]
(* A request is refused (False) or fails; the loops outlive the timeout.   *)
VmwareClient == [lookup |-> {}, ask |-> R \cup {"nowait"}, await |-> {}]
(* Failures are logged and returned as False; an unknown node exits.       *)
IbmClient == [lookup |-> {"exit"}, ask |-> R, await |-> T]
PowerClient == [lookup |-> R \cup {"exit"}, ask |-> {"on"}, await |-> T]

-----------------------------------------------------------------------------
(* The methods. *)

(* Mutant: the node is recorded before the request. *)
RecordFirst(c, state, kube) ==
  <<Lookup(c.lookup), Record, Ask(state, c.ask), Await(state, c.await), Kube(kube)>>

To(c, state, kube) ==
  <<Lookup(c.lookup), Ask(state, c.ask), Await(state, c.await), Kube(kube), Record>>
Reset(c) == <<Lookup(c.lookup), Ask("reboot", c.ask), Kube("Unknown"), Kube("True"), Record>>
Delete(c) ==
  <<Lookup(c.lookup), Ask("deleted", c.ask), Await("deleted", c.await),
    Step("gone", "none", R), Record>>

NoDisks == <<Method(<<Step("missing", "none", {"escape"})>>, "raise")>>

(* Errors of a detach are logged.  The cloud takes it later; attach_volume *)
(* returns at once while it still finds the volume in use. *)
AwsDisks ==
  <<Method(<<Lookup(R), Step("disks", "none", R \cup {"none"})>>, "raise"),
    Loop(<<Lookup(R), Step("detach", "later", {"on"})>>, "raise"),
    Method(<<Sleep>>, "raise"),
    Loop(<<Step("attach", "none", R)>>, "raise")>>

(* Mutant: the except clause of a start only logs. *)
AwsQuietStart ==
  [start |-> Loop(To(AwsClient, "running", "True"), "skip"),
   stop |-> Loop(To(AwsClient, "stopped", "Unknown"), "raise"),
   reboot |-> Loop(Reset(AwsClient), "raise"),
   terminate |-> Loop(Delete(AwsClient), "raise"),
   disks |-> AwsDisks, block |-> Pass, helper |-> <<>>]

Aws ==
  [start |-> Loop(To(AwsClient, "running", "True"), "raise"),
   stop |-> Loop(To(AwsClient, "stopped", "Unknown"), "raise"),
   reboot |-> Loop(Reset(AwsClient), "raise"),
   terminate |-> Loop(Delete(AwsClient), "raise"),
   disks |-> AwsDisks, block |-> Pass, helper |-> <<>>]

AzBlock ==
  <<Lookup(R), Step("nic", "none", R), Step("group", "none", R), Step("block", "none", R), Sleep,
    Step("unblock", "none", R), Step("drop", "none", R), Record>>
Az ==
  [start |-> Loop(To(AzClient, "running", "True"), "raise"),
   stop |-> Loop(To(AzClient, "stopped", "Unknown"), "raise"),
   reboot |-> Loop(<<Lookup(R), Ask("reboot", R), Kube("True"), Record>>, "raise"),
   terminate |-> Loop(Delete(AzClient), "raise"),
   disks |-> NoDisks, block |-> Loop(AzBlock, "raise"), helper |-> <<>>]

Gcp ==
  [start |-> Loop(To(GcpClient, "running", "True"), "raise"),
   stop |-> Loop(To(GcpClient, "stopped", "Unknown"), "raise"),
   reboot |-> Loop(<<Lookup(R), Ask("reboot", R), Kube("Unknown"),
                     Await("running", GcpClient.await), Kube("True"), Record>>, "raise"),
   terminate |-> Loop(Delete(GcpClient), "raise"),
   disks |-> NoDisks, block |-> Pass, helper |-> <<>>]

BmDisks ==
  <<Method(<<Step("disks", "none", R \cup {"none"})>>, "raise"),
    Loop(<<Step("detach", "now", R)>>, "raise"),
    Method(<<Sleep>>, "raise"),
    Loop(<<Step("attach", "none", R)>>, "raise")>>
Bm ==
  [start |-> Loop(To(BmClient, "running", "True"), "raise"),
   stop |-> Loop(To(BmClient, "stopped", "Unknown"), "raise"),
   reboot |-> Loop(Reset(BmClient), "raise"),
   terminate |-> Pass,
   disks |-> BmDisks, block |-> Pass, helper |-> <<>>]

(* stop and restart return when they are done; nothing waits after start.  *)
Docker ==
  [start |-> Loop(<<Lookup(R), Ask("running", R), Kube("True"), Record>>, "raise"),
   stop |-> Loop(To(DockerClient, "stopped", "Unknown"), "raise"),
   reboot |-> Loop(Reset(DockerClient), "raise"),
   terminate |-> Loop(<<Lookup(R), Ask("stopped", R), Await("stopped", R),
                        Ask("deleted", R)>>, "raise"),
   disks |-> NoDisks, block |-> Pass, helper |-> <<>>]

OpenstackHelper ==
  LET Power(state) ==
        <<Lookup({"exit"}), Ask(state, {"exit"}), Await(state, OpenstackClient.await), Record>>
  IN  <<Loop(Power("stopped"), "raise"), Loop(Power("running"), "raise"),
        Method(<<Step("service", "none", R)>>, "raise")>>
Openstack ==
  [start |-> Loop(To(OpenstackClient, "running", "True"), "raise"),
   stop |-> Loop(To(OpenstackClient, "stopped", "False"), "raise"),
   reboot |-> Loop(Reset(OpenstackClient), "raise"),
   terminate |-> Pass,
   disks |-> NoDisks, block |-> Pass, helper |-> OpenstackHelper]

Alibaba ==
  [start |-> Loop(To(AlibabaClient, "running", "True"), "raise"),
   stop |-> Loop(To(AlibabaClient, "stopped", "Unknown"), "raise"),
   reboot |-> Loop(Reset(AlibabaClient), "raise"),
   terminate |-> Loop(<<Lookup(R), Ask("stopped", {"on"}), Await("stopped", T),
                        Ask("deleted", {"on"}), Await("deleted", T), Record>>, "raise"),
   disks |-> NoDisks, block |-> Pass, helper |-> <<>>]

(* Termination is called node_terminate_scenario here and in the two       *)
(* classes of IBM, so that the base class's method, pass, is the one run.  *)
Vmware ==
  [start |-> Loop(To(VmwareClient, "running", "True"), "skip"),
   stop |-> Loop(To(VmwareClient, "stopped", "True"), "skip"),
   reboot |-> Loop(<<Ask("reboot", R \cup {"on"}), Kube("Unknown"), Record>>, "skip"),
   terminate |-> Pass,
   disks |-> NoDisks, block |-> Pass, helper |-> <<>>]

(* A start that is refused is not an error; one append after the loop.     *)
Ibm ==
  [start |-> Method(<<Lookup({"exit"})>>
                    \o Repeat(<<Ask("running", {"nowait"}), Await("running", T), Kube("True")>>)
                    \o <<Record>>, "record"),
   stop |-> Method(<<Lookup({"exit"})>>
                   \o Repeat(<<Ask("stopped", R), Await("stopped", T), Record>>), "skip"),
   reboot |-> Method(<<Lookup({"exit"})>>
                     \o Repeat(<<Ask("reboot", R), Await("running", T), Kube("Unknown"),
                        Kube("True"), Record>>), "skip"),
   terminate |-> Pass,
   disks |-> NoDisks, block |-> Pass, helper |-> <<>>]

(* When the lookup of a start raises, the append has no affected_node to   *)
(* append.  Stops and reboots record nobody.  The waits after a reboot     *)
(* lack an argument and raise. *)
Power ==
  [start |-> Method(<<Lookup({"escape", "exit"})>>
                    \o Repeat(<<Ask("running", {"nowait"}), Await("running", T), Kube("True")>>)
                    \o <<Record>>, "record"),
   stop |-> Method(<<Lookup(PowerClient.lookup)>>
                   \o Repeat(<<Ask("stopped", {"nowait"}), Await("stopped", T)>>), "skip"),
   reboot |-> Method(<<Lookup(PowerClient.lookup)>>
                     \o Repeat(<<Ask("reboot", {"on"}), Await("running", T),
                        Step("wrong", "none", R)>>), "skip"),
   terminate |-> Pass,
   disks |-> NoDisks, block |-> Pass, helper |-> <<>>]

General ==
  [start |-> Pass, stop |-> Pass, reboot |-> Pass, terminate |-> Pass,
   disks |-> NoDisks, block |-> Pass, helper |-> <<>>]

Backend ==
  [aws |-> Aws, az |-> Az, gcp |-> Gcp, bm |-> Bm, docker |-> Docker,
   openstack |-> Openstack, alibaba |-> Alibaba, vmware |-> Vmware, ibm |-> Ibm,
   ibmpower |-> Power, generic |-> General]

-----------------------------------------------------------------------------
(* The actions of a scenario file (AbstractNodeScenarios and run_node).    *)

(* runcommand.run tells nobody whether the command failed. *)
StopKubelet ==
  Loop(<<Step("kubelet", "down", {"on"}), Kube("Unknown"), Record>>, "raise")
RestartKubelet ==
  Loop(<<Step("kubelet", "up", {"on"}), Kube("True"), Record>>, "raise")
Crash == Method(<<Step("kubelet", "down", {"on"})>>, "skip")
Merge == Method(<<Step("merge", "none", {})>>, "raise")

Program(cloud, action) ==
  LET b == Backend[cloud]
  IN  CASE action = "node_start_scenario" -> <<b.start>>
        [] action = "node_stop_scenario" -> <<b.stop>>
        [] action = "node_stop_start_scenario" ->
             <<b.stop, Method(<<Sleep>>, "raise"), b.start, Merge>>
        [] action = "node_termination_scenario" -> <<b.terminate>>
        [] action = "node_reboot_scenario" -> <<b.reboot>>
        [] action = "node_disk_detach_attach_scenario" -> b.disks
        [] action = "stop_kubelet_scenario" -> <<StopKubelet>>
        [] action = "stop_start_kubelet_scenario" -> <<StopKubelet, b.reboot, Merge>>
        [] action = "restart_kubelet_scenario" -> <<RestartKubelet>>
        [] action = "node_crash_scenario" -> <<Crash>>
        [] action = "stop_start_helper_node_scenario" -> b.helper
        [] action = "node_block_scenario" -> <<b.block>>
        [] OTHER -> <<>>

=============================================================================
