------------------------------- MODULE Errands -------------------------------
(***************************************************************************)
(* The scenarios that create an object which runs a command elsewhere,     *)
(* wait, and delete it: managed_cluster, whose ManifestWork has a job that *)
(* scales the agents of a cluster, and time_actions, whose pods run        *)
(* timedatectl and date on a node.                                         *)
(*                                                                         *)
(* time_actions changes no clock: `date --date` prints the date it is      *)
(* given, and timedatectl set-time is sent to a pod that nobody creates.   *)
(* What is left of it is what it creates, and its waits.                   *)
(***************************************************************************)
EXTENDS ScenarioThread, Naturals, FiniteSets, SequencesExt

CONSTANTS
  Fleet,   \* managed clusters; for time_actions nodes or pods
  Nobody,  \* no managedcluster_name
  Orders,  \* the files considered, of each plugin
  Tries,   \* max_retries
  Glitches \* bound: calls that raise in one behaviour

ASSUME ErrandsAssumption ==
  /\ {Tries, Glitches} \subseteq Nat /\ Nobody \notin Fleet /\ IsFiniteSet(Fleet)
  /\ Orders.managed \subseteq
       Seq([act : STRING, runs : Nat, count : Nat, name : Fleet \cup {Nobody}])
  /\ Orders.clocks \subseteq Seq([act : STRING, kind : {"node", "pod"}, objects : SUBSET Fleet])

Errander == {"managed", "clocks"}

VARIABLES
  orders,  \* the actions of the file still to be done
  queue,   \* the steps of this one still to be done
  works,   \* the work of each managed cluster
  agent,   \* managed clusters whose registration agent runs
  status,  \* those that the hub has as Available
  helpers, \* nodes with a pod of time_actions
  tries,
  told,    \* history: what each managed cluster was last told to be
  missed,  \* history: a wait for a status has timed out
  glitches \* history: calls that raised

clusters == <<works, agent, status>>
history == <<told, missed>>
errandvars == <<orders, queue, clusters, helpers, tries, history, glitches>>

ErrandsInit ==
  /\ queue = <<>> /\ works = [c \in Fleet |-> "none"] /\ agent = Fleet /\ status = Fleet
  /\ helpers = {} /\ tries = 0 /\ told = [c \in Fleet |-> "up"] /\ missed = FALSE
  /\ glitches = 0
ErrandsIdle == ErrandsInit /\ orders = <<>>
ErrandsStart == ErrandsInit /\ orders \in Orders[plugin]

Errand(which, pc) == At({which}, pc)
Step == Head(queue)
Glitch == glitches < Glitches /\ glitches' = glitches + 1
NextStep == queue' = Tail(queue) /\ Goes(IF Len(queue) = 1 THEN "entry" ELSE "send")
Fails == Return(1) /\ UNCHANGED queue

-----------------------------------------------------------------------------
(* What an action amounts to. *)

Stopping == {"managedcluster_stop_scenario", "managedcluster_stop_start_scenario",
             "stop_klusterlet_scenario", "stop_start_klusterlet_scenario"}
Starting == {"managedcluster_start_scenario", "managedcluster_stop_start_scenario",
             "start_klusterlet_scenario", "stop_start_klusterlet_scenario"}
Whole == {"managedcluster_start_scenario", "managedcluster_stop_scenario",
          "managedcluster_stop_start_scenario"}

(* runs times stopped, then runs times started; other actions do nothing.  *)
WorkSteps(o, c) ==
  LET times(do) == [r \in 1..o.runs |-> [do |-> do, on |-> c, whole |-> o.act \in Whole]]
  IN  (IF o.act \in Stopping THEN times("down") ELSE <<>>)
        \o (IF o.act \in Starting THEN times("up") ELSE <<>>)

(* get_managedcluster: the one with the name if it is available, or else   *)
(* as many of the available as asked for.                                  *)
Chosen(o) ==
  IF o.name \in status THEN {<<o.name>>}
  ELSE UNION {SetToSeqs(s) : s \in {s \in SUBSET status : Cardinality(s) = o.count}}

TakeOrder ==
  /\ Errand("managed", "entry")
  /\ \/ orders = <<>> /\ Return(0) /\ UNCHANGED <<orders, queue, glitches>>
     \/ /\ orders # <<>> /\ Head(orders).act # "none" /\ UNCHANGED glitches
        /\ \E chosen \in Chosen(Head(orders)) :
             /\ status # {} /\ orders' = Tail(orders)
             /\ queue' = FlattenSeq([i \in DOMAIN chosen |-> WorkSteps(Head(orders), chosen[i])])
             /\ Goes(IF queue' = <<>> THEN "entry" ELSE "send")
     \/ /\ orders # <<>>
        /\ Head(orders).act = "none" \/ status = {} \/ Chosen(Head(orders)) = {}
        /\ Fails /\ UNCHANGED <<orders, glitches>>
     \/ orders # <<>> /\ Head(orders).act # "none" /\ Glitch /\ Fails /\ UNCHANGED orders
  /\ UNCHANGED <<clusters, helpers, tries, history>>

(* The objects are asked for their time, or told one, all of them; then    *)
(* they are checked. *)
TakeSkew ==
  /\ Errand("clocks", "entry")
  /\ \/ orders = <<>> /\ Return(0) /\ UNCHANGED <<orders, queue, glitches>>
     \/ /\ orders # <<>> /\ Head(orders).act \in {"skew_time", "skew_date"}
        /\ \/ Glitch /\ Fails /\ UNCHANGED orders
           \/ /\ Head(orders).kind = "pod" /\ Head(orders).objects = {}
              /\ Fails /\ UNCHANGED <<orders, glitches>>
           \/ /\ Head(orders).kind = "node" \/ Head(orders).objects # {}
              /\ orders' = Tail(orders) /\ UNCHANGED glitches
              /\ \E s \in SetToSeqs(Head(orders).objects) :
                   LET each(do) ==
                         [i \in DOMAIN s |-> [do |-> do, on |-> s[i], kind |-> Head(orders).kind]]
                   IN  queue' = each("skew") \o each("check")
              /\ Goes(IF queue' = <<>> THEN "entry" ELSE "send")
     \/ /\ orders # <<>> /\ Head(orders).act \notin {"skew_time", "skew_date"}
        /\ Fails /\ UNCHANGED <<orders, glitches>>
  /\ UNCHANGED <<clusters, helpers, tries, history>>

-----------------------------------------------------------------------------
(* Managed clusters. *)

SendWork ==
  /\ Errand("managed", "send")
  /\ \/ /\ works' = [works EXCEPT ![Step.on] = Step.do] /\ Goes("hear")
        /\ told' = IF Step.whole THEN [told EXCEPT ![Step.on] = Step.do] ELSE told
        /\ UNCHANGED glitches
     \/ Glitch /\ Raises("withdraw") /\ UNCHANGED <<works, told>>
  /\ UNCHANGED <<orders, queue, agent, status, helpers, tries, missed>>

(* watch_managedcluster_status until the timeout; the actions on a         *)
(* klusterlet only sleep. *)
HearStatus ==
  LET there == (Step.do = "up") <=> (Step.on \in status)
  IN  /\ Errand("managed", "hear")
      /\ \/ Goes("withdraw") /\ missed' = (missed \/ (Step.whole /\ ~there)) /\ UNCHANGED glitches
         \/ Step.whole /\ Glitch /\ Raises("withdraw") /\ UNCHANGED missed
      /\ UNCHANGED <<orders, queue, clusters, helpers, tries, told>>

(* The finally clause. *)
WithdrawWork ==
  /\ Errand("managed", "withdraw")
  /\ \/ /\ works' = [works EXCEPT ![Step.on] = "none"] /\ UNCHANGED glitches
        /\ IF rc = 1 THEN Fails ELSE NextStep
     \/ Glitch /\ Fails /\ UNCHANGED works
  /\ UNCHANGED <<orders, agent, status, helpers, tries, history>>

(* The work agent of the managed cluster runs the job: only the actions on *)
(* whole clusters scale the registration agent.                            *)
Executes(c) ==
  /\ works[c] \in {"down", "up"} /\ works' = [works EXCEPT ![c] = "ran"]
  /\ agent' = IF ~Step.whole THEN agent
              ELSE IF works[c] = "up" THEN agent \cup {c} ELSE agent \ {c}
  /\ UNCHANGED <<threadvars, orders, queue, status, helpers, tries, history, glitches>>

(* The hub notices whether it is there. *)
Reports(c) ==
  /\ status' = IF c \in agent THEN status \cup {c} ELSE status \ {c}
  /\ status' # status
  /\ UNCHANGED <<threadvars, orders, queue, works, agent, helpers, tries, history, glitches>>

-----------------------------------------------------------------------------
(* Clocks. *)

HelperTried == helpers' \in {helpers, helpers \cup {Step.on}}

(* skew_node: timedatectl in a pod of its own; exceptions are swallowed.   *)
SkewNode ==
  /\ Errand("clocks", "send") /\ Step.do = "skew" /\ Step.kind = "node" /\ Goes("withdraw")
  /\ \/ helpers' = helpers \cup {Step.on} /\ UNCHANGED glitches
     \/ Glitch /\ HelperTried
  /\ UNCHANGED <<orders, queue, clusters, tries, history>>

(* Up to five times, until there is an answer. *)
SkewPod ==
  /\ Errand("clocks", "send") /\ Step.do = "skew" /\ Step.kind = "pod"
  /\ \/ NextStep /\ UNCHANGED glitches
     \/ Glitch /\ Fails
  /\ UNCHANGED <<orders, clusters, helpers, tries, history>>

CheckClock ==
  /\ Errand("clocks", "send") /\ Step.do = "check" /\ tries' = 0 /\ UNCHANGED queue
  /\ \/ /\ Goes("hear") /\ UNCHANGED glitches
        /\ helpers' = IF Step.kind = "node" THEN helpers \cup {Step.on} ELSE helpers
     \/ Glitch /\ Return(1) /\ IF Step.kind = "node" THEN HelperTried ELSE UNCHANGED helpers
  /\ UNCHANGED <<orders, clusters, history>>

(* A clock that is not back when the tries are over is only noted.         *)
HearClock ==
  /\ Errand("clocks", "hear")
  /\ \/ /\ IF Step.kind = "node" THEN Goes("withdraw") /\ UNCHANGED queue ELSE NextStep
        /\ UNCHANGED <<tries, glitches>>
     \/ tries < Tries /\ tries' = tries + 1 /\ UNCHANGED <<threadvars, queue, glitches>>
     \/ Glitch /\ Fails /\ UNCHANGED tries
  /\ UNCHANGED <<orders, clusters, helpers, history>>

DeleteHelper ==
  /\ Errand("clocks", "withdraw")
  /\ \/ helpers' = helpers \ {Step.on} /\ NextStep /\ UNCHANGED glitches
     \/ Glitch /\ Fails /\ UNCHANGED helpers
  /\ UNCHANGED <<orders, clusters, tries, history>>

ErrandStep ==
  \/ TakeOrder \/ TakeSkew \/ SendWork \/ HearStatus \/ WithdrawWork
  \/ SkewNode \/ SkewPod \/ CheckClock \/ HearClock \/ DeleteHelper
=============================================================================
