--------------------------- MODULE TrafficShaping ---------------------------
(***************************************************************************)
(* The scenarios that shape traffic with Kubernetes jobs: pod_outage,      *)
(* pod_egress_shaping and pod_ingress_shaping of the pod network plugin,   *)
(* the node ingress plugin, and network_chaos.                             *)
(*                                                                         *)
(* A job waits, sets a filter on an interface, waits and removes it, all   *)
(* in the shell command of its pod: a job that is deleted, or whose pod is *)
(* killed, in between leaves the filter.  The plugin creates the jobs,     *)
(* waits for all of them, and deletes them in a finally clause.  Time goes *)
(* by in units of ten seconds.                                             *)
(***************************************************************************)
EXTENDS ScenarioThread, Naturals, FiniteSets, SequencesExt

CONSTANTS
  Target,     \* what is shaped: the interfaces of pods or nodes
  Delay,      \* the first sleep of a job
  Duration,   \* test_duration, the second
  Short,      \* what a serial wait of the pod plugins adds to it
  Long,       \* what the other waits add
  ShapeFaults \* bound: kinds of faults in one behaviour

ASSUME ShapingAssumption ==
  /\ {Delay, Duration, Short, Long, ShapeFaults} \subseteq Nat /\ IsFiniteSet(Target)

Pods == {"pod_outage", "pod_egress", "pod_ingress"}
Ingress == {"pod_ingress", "ingress_node"}
Shaper == Pods \cup {"ingress_node", "network_chaos"}
Rounds == 2 \* directions, or parameters, of the scenario
Job == (1..Rounds) \X Target

VARIABLES
  layout,  \* the calls of a round, each with the targets it makes jobs for
  serial,  \* execution: one parameter after the other
  turn,    \* the direction or parameter
  calls,   \* the calls of the round that are left
  call,    \* the targets of the call that are left
  job,     \* the jobs of the cluster: state, and age of the pod
  listed,  \* job_list
  fresh,   \* the jobs of the call, known to it alone
  doomed,  \* what delete_jobs has still to delete
  elapsed, \* since the wait began
  filter,  \* the interfaces a filter is set on
  ifb,     \* virtual interfaces exist
  tools,   \* a pod that runs commands was left behind
  leaving, \* sys.exit was called
  faults   \* history: what went wrong

progress == <<layout, serial, turn, calls, call>>
lists == <<listed, fresh, doomed>>
leftovers == <<ifb, tools>>
shapevars == <<progress, job, lists, elapsed, filter, leftovers, leaving, faults>>

ShapeInit ==
  /\ turn = 1 /\ calls = <<>> /\ call = <<>> /\ elapsed = 0
  /\ job = [j \in Job |-> [st |-> "none", age |-> 0]]
  /\ listed = {} /\ fresh = {} /\ doomed = {} /\ filter = {} /\ faults = {}
  /\ ifb = FALSE /\ tools = FALSE /\ leaving = FALSE
ShapeIdle == ShapeInit /\ layout = <<>> /\ serial = FALSE

(* One job per interface: pods of one node are shaped by one call, nodes   *)
(* have a call each, and pod_outage makes one call for everything.         *)
AllAtOnce == <<SetToSeq(Target)>>
OneByOne == [i \in 1..Cardinality(Target) |-> <<SetToSeq(Target)[i]>>]
ShapeStarts ==
  /\ ShapeInit
  /\ layout \in (IF plugin = "pod_outage" THEN {AllAtOnce}
                 ELSE IF plugin \in Pods THEN {AllAtOnce, OneByOne} ELSE {OneByOne})
  /\ serial \in (IF plugin = "pod_outage" THEN {FALSE} ELSE BOOLEAN)

Shaping(pc) == At(Shaper, pc)
(* A fault happens. *)
Fault(kind) ==
  /\ kind \in faults \/ Cardinality(faults) < ShapeFaults
  /\ faults' = faults \cup {kind}
Running(j) == job[j].st = "running"
Finished(j) == job[j].st \in {"succeeded", "failed"}
Exists(j) == job[j].st \notin {"none", "deleted"}

(* pod_outage drops packets per direction; the others set one queueing     *)
(* discipline per interface.                                               *)
Iface(j) == IF plugin = "pod_outage" THEN j ELSE <<0, j[2]>>

-----------------------------------------------------------------------------
(* The jobs. *)

Older(j) ==
  IF ~Running(j) THEN job[j]
  ELSE IF job[j].age + 1 < Delay + Duration THEN [job[j] EXCEPT !.age = @ + 1]
  ELSE [st |-> "succeeded", age |-> 0]
Sets == {Iface(j) : j \in {i \in Job : Running(i) /\ job[i].age + 1 = Delay}}
Unsets == {Iface(j) : j \in {i \in Job : Running(i) /\ job[i].age + 1 = Delay + Duration}}

Limit == Duration + (IF plugin \in Pods /\ serial THEN Short ELSE Long)

Tick ==
  /\ plugin \in Shaper
  /\ \E j \in Job : Running(j) \/ main = "wait"
  /\ main = "wait" => elapsed <= Limit
  /\ job' = [j \in Job |-> Older(j)]
  /\ filter' = (filter \cup Sets) \ Unsets
  /\ elapsed' = IF main = "wait" THEN elapsed + 1 ELSE elapsed
  /\ UNCHANGED <<threadvars, progress, lists, leftovers, leaving, faults>>

(* The pod of a job is killed; it could not be scheduled, and now is. *)
Strikes(j) ==
  /\ \/ Running(j) /\ Fault("job") /\ job' = [job EXCEPT ![j] = [st |-> "failed", age |-> 0]]
     \/ job[j].st = "pending" /\ job' = [job EXCEPT ![j].st = "running"] /\ UNCHANGED faults
  /\ UNCHANGED <<threadvars, progress, lists, elapsed, filter, leftovers, leaving>>

-----------------------------------------------------------------------------
(* The plugin. *)

(* An exception of the method: the pod plugins and the node plugin have a  *)
(* finally clause from here on.                                            *)
Escapes(pc) == Fault("api") /\ Raises(pc)
MayLeaveTools == tools' \in {tools, TRUE}

(* The bridge, the pods and the interfaces are looked for, with the help   *)
(* of pods.  A command without output makes list_bridges, or the search of *)
(* an interface, call sys.exit. *)
Probe ==
  /\ Shaping("entry")
  /\ \/ /\ Goes("round") /\ calls' = layout /\ UNCHANGED <<leftovers, leaving, faults>>
     \/ /\ Escapes(IF plugin \in Pods THEN "lift" ELSE "returned")
        /\ MayLeaveTools /\ UNCHANGED <<calls, ifb, leaving>>
     \/ /\ plugin \in Pods \cup {"ingress_node"} /\ Fault("exit")
        /\ Raises(IF plugin \in Pods THEN "lift" ELSE "exited") /\ leaving' = TRUE
        /\ UNCHANGED <<calls, leftovers>>
  /\ UNCHANGED <<layout, serial, turn, call, job, lists, elapsed, filter>>

MakesInterfaces == plugin = "pod_ingress" \/ (plugin = "ingress_node" /\ turn = 1)
(* What a call does before it creates jobs: virtual interfaces, the names  *)
(* of interfaces, a free cookie. *)
Prepare ==
  /\ Shaping("round") /\ calls # <<>>
  /\ \/ /\ Goes("create") /\ call' = Head(calls) /\ calls' = Tail(calls)
        /\ ifb' = (ifb \/ MakesInterfaces) /\ UNCHANGED <<tools, leaving, faults>>
     \/ /\ plugin \in Pods \/ MakesInterfaces
        /\ Escapes("lift") /\ MayLeaveTools /\ ifb' \in {ifb, (ifb \/ MakesInterfaces)}
        /\ UNCHANGED <<calls, call, leaving>>
     \/ /\ plugin = "pod_outage" /\ Fault("exit") /\ Raises("lift") /\ leaving' = TRUE
        /\ UNCHANGED <<calls, call, leftovers>>
  /\ UNCHANGED <<layout, serial, turn, job, lists, elapsed, filter>>

(* The callers add the jobs of a call to job_list when the call returns;   *)
(* network_chaos names a job before it creates it. *)
Enlists(j) == IF plugin = "network_chaos" THEN listed \cup {j} ELSE listed
Create ==
  /\ Shaping("create") /\ call # <<>>
  /\ LET j == <<turn, Head(call)>>
         Turns(state) == job' = [job EXCEPT ![j] = [st |-> state, age |-> 0]]
     IN  /\ listed' = Enlists(j)
         /\ \/ /\ Turns("running") \/ Turns("pending")
               /\ call' = Tail(call) /\ fresh' = fresh \cup {j}
               /\ UNCHANGED <<threadvars, faults>>
            \/ /\ Turns("running") \/ UNCHANGED job
               /\ Escapes("lift") /\ fresh' = {} /\ UNCHANGED call
  /\ UNCHANGED <<layout, serial, turn, calls, doomed, elapsed, filter, leftovers, leaving>>

(* Mutant: the jobs of a call take the place of the list. *)
CalledAfresh ==
  /\ Shaping("create") /\ call = <<>> /\ Goes("round")
  /\ listed' = fresh /\ fresh' = {}
  /\ UNCHANGED <<progress, job, doomed, elapsed, filter, leftovers, leaving, faults>>
Called ==
  /\ Shaping("create") /\ call = <<>> /\ Goes("round")
  /\ listed' = listed \cup fresh /\ fresh' = {}
  /\ UNCHANGED <<progress, job, doomed, elapsed, filter, leftovers, leaving, faults>>

NextRound == turn' = turn + 1 /\ calls' = layout /\ Goes("round")
(* Mutant: a parallel run goes through the parameters, too. *)
LaunchedInTurn ==
  /\ Shaping("round") /\ calls = <<>>
  /\ \/ ~serial /\ turn < Rounds /\ NextRound /\ UNCHANGED elapsed
     \/ (~serial => turn = Rounds) /\ Goes("wait") /\ elapsed' = 0 /\ UNCHANGED <<turn, calls>>
  /\ UNCHANGED <<layout, serial, call, job, lists, filter, leftovers, leaving, faults>>
Launched ==
  /\ Shaping("round") /\ calls = <<>>
  /\ \/ plugin = "pod_outage" /\ turn < Rounds /\ NextRound /\ UNCHANGED elapsed
     \/ /\ plugin = "pod_outage" => turn = Rounds
        /\ Goes("wait") /\ elapsed' = 0 /\ UNCHANGED <<turn, calls>>
  /\ UNCHANGED <<layout, serial, call, job, lists, filter, leftovers, leaving, faults>>

(* wait_for_job is given a copy of the list.  The node plugin deletes the  *)
(* jobs of a parameter before the next one. *)
Waited ==
  /\ Shaping("wait") /\ elapsed <= Limit /\ \A j \in listed : Finished(j)
  /\ \/ serial /\ plugin = "ingress_node" /\ Goes("clear") /\ doomed' = listed
        /\ UNCHANGED <<turn, calls>>
     \/ serial /\ plugin # "ingress_node" /\ turn < Rounds /\ NextRound /\ UNCHANGED doomed
     \/ /\ ~serial \/ (plugin # "ingress_node" /\ turn = Rounds)
        /\ Goes("lift") /\ UNCHANGED <<turn, calls, doomed>>
  /\ UNCHANGED <<layout, serial, call, job, listed, fresh, elapsed, filter, leftovers,
                 leaving, faults>>
TimedOut ==
  /\ Shaping("wait") /\ elapsed > Limit /\ Raises("lift")
  /\ UNCHANGED <<progress, job, lists, elapsed, filter, leftovers, leaving, faults>>

(* delete_jobs deletes every job of its copy; Kubernetes kills the pod. *)
Deletes(from) ==
  /\ Shaping(from)
  /\ \E j \in doomed :
       /\ doomed' = doomed \ {j}
       /\ job' = IF Exists(j) THEN [job EXCEPT ![j] = [st |-> "deleted", age |-> 0]] ELSE job
Clear ==
  /\ \/ /\ Deletes("clear")
        /\ UNCHANGED <<threadvars, listed, turn, calls, faults>>
     \/ /\ Shaping("clear") /\ doomed # {} /\ Escapes("lift")
        /\ UNCHANGED <<doomed, job, listed, turn, calls>>
     \/ /\ Shaping("clear") /\ doomed = {} /\ listed' = {}
        /\ IF turn < Rounds THEN NextRound ELSE Goes("lift") /\ UNCHANGED <<turn, calls>>
        /\ UNCHANGED <<doomed, job, faults>>
  /\ UNCHANGED <<layout, serial, call, fresh, elapsed, filter, leftovers, leaving>>

(* The finally clause: delete_virtual_interfaces, then delete_jobs; an     *)
(* exception in the first keeps the second from running.  What the modprobe*)
(* command of the first answers is not looked at.                          *)
Lift ==
  /\ Shaping("lift")
  /\ \/ /\ Goes("delete") /\ doomed' = listed /\ UNCHANGED tools
        /\ \/ ifb' = (ifb /\ plugin \notin Ingress) /\ UNCHANGED faults
           \/ ifb /\ plugin \in Ingress /\ Fault("command") /\ UNCHANGED ifb
     \/ plugin \in Ingress /\ Escapes("returned") /\ MayLeaveTools
        /\ UNCHANGED <<ifb, doomed>>
  /\ UNCHANGED <<progress, job, listed, fresh, elapsed, filter, leaving>>
DeleteJobs ==
  /\ \/ Deletes("delete") /\ UNCHANGED <<threadvars, faults>>
     \/ Shaping("delete") /\ doomed # {} /\ Escapes("returned") /\ UNCHANGED <<doomed, job>>
     \/ /\ Shaping("delete") /\ doomed = {}
        /\ Goes(IF leaving THEN "exited" ELSE "returned") /\ UNCHANGED <<doomed, job, faults>>
  /\ UNCHANGED <<progress, listed, fresh, elapsed, filter, leftovers, leaving>>

ShapeStep ==
  \/ Probe \/ Prepare \/ Create \/ Called \/ Launched \/ Waited \/ TimedOut
  \/ Clear \/ Lift \/ DeleteJobs
=============================================================================
