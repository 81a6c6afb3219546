--------------------------- MODULE DisruptionsProofs ---------------------------
(***************************************************************************)
(* Proofs about the jobs that shape traffic, about managed clusters and    *)
(* clocks, and what all the scenarios of Disruptions have in common: for   *)
(* any number of interfaces, any times, any files, and any number of calls *)
(* that raise and jobs that are killed.                                    *)
(***************************************************************************)
EXTENDS DeploymentsProofs, PodKillsProofs, NetworkModulesProofs

-----------------------------------------------------------------------------
(* Traffic shaping: the invariant.                                         *)

JobStates == {"none", "pending", "running", "succeeded", "failed", "deleted"}
JobT == [st : JobStates, age : 0..(Delay + Duration)]
Alive(j) == job[j].st \in {"pending", "running"}
Early == {"entry", "round", "create", "wait", "clear"}
Late == {"lift", "delete", "returned", "exited"}

(* No target is in the calls twice.                                        *)
Once(s) == \A i, k \in DOMAIN s : s[i] = s[k] => i = k
Apart(s) ==
  /\ \A c \in DOMAIN s : Once(s[c])
  /\ \A c, d \in DOMAIN s : \A i \in DOMAIN s[c], k \in DOMAIN s[d] : s[c][i] = s[d][k] => c = d
Unmade(s) == \A i \in DOMAIN s : job[<<turn, s[i]>>].st = "none"

ShapeTypeOK ==
  /\ main \in Early \cup Late /\ rc \in {0, 1} /\ turn \in 1..Rounds
  /\ job \in [Job -> JobT] /\ listed \cup fresh \cup doomed \subseteq Job
  /\ layout \in Seq(Seq(Target)) /\ Apart(layout)
  /\ main \in Early => rc = 0

(* The calls that are left in a round make each of their jobs anew.        *)
CallsInv ==
  /\ main \in {"round", "create"} =>
       calls \in Seq(Seq(Target)) /\ Apart(calls) /\ \A c \in DOMAIN calls : Unmade(calls[c])
  /\ main = "create" =>
       /\ call \in Seq(Target) /\ Once(call) /\ Unmade(call)
       /\ \A c \in DOMAIN calls : \A i \in DOMAIN call, k \in DOMAIN calls[c] : call[i] # calls[c][k]

(* What exists is in a list, unless a call has raised.                     *)
ListsInv ==
  /\ main = "entry" => \A j \in Job : job[j].st = "none"
  /\ main # "create" => fresh = {}
  /\ main \in {"entry", "round", "create", "wait"} =>
       \A j \in Job : Exists(j) => j \in listed \cup fresh
  /\ main = "clear" => \A j \in Job : Exists(j) => j \in doomed
  /\ "api" \notin faults =>
       /\ main = "lift" => \A j \in Job : Exists(j) => j \in listed
       /\ main = "delete" => \A j \in Job : Exists(j) => j \in doomed
       /\ Over => \A j \in Job : ~Exists(j)

(* The jobs of an earlier round have ended, but for pod_outage; all of     *)
(* them have once the wait was over.                                       *)
RoundsInv ==
  /\ \A j \in Job : job[j].st # "none" => j[1] <= turn
  /\ plugin # "pod_outage" /\ turn = 2 => \A j \in Job : j[1] = 1 => ~Alive(j)
  /\ rc = 0 /\ main \in {"clear"} \cup Late => \A j \in Job : ~Alive(j)

(* What is filtered, a job that runs has filtered and will free.           *)
Held(f) ==
  \E j \in Job : Running(j) /\ Iface(j) = f /\ job[j].age >= Delay /\ job[j].age < Delay + Duration
LeftoversInv ==
  /\ tools => "api" \in faults
  /\ ifb => plugin \in Ingress
  /\ main = "entry" => ~ifb
  /\ main \in {"delete", "returned", "exited"} /\ faults \cap {"api", "command"} = {} => ~ifb
  /\ rc = 0 /\ "job" \notin faults => \A f \in filter : Held(f)

ShapeOK == ShapeTypeOK /\ CallsInv /\ ListsInv /\ RoundsInv /\ LeftoversInv
Unshaped == job = [j \in Job |-> [st |-> "none", age |-> 0]]
ShapeInv == IF plugin \in Shaper THEN ShapeOK ELSE Unshaped

-----------------------------------------------------------------------------
(* Errands: the invariant.                                                 *)

Order1 == [act : STRING, runs : Nat, count : Nat, name : Fleet \cup {Nobody}]
WorkStep == [do : {"up", "down"}, on : Fleet, whole : BOOLEAN]
ManagedTypeOK ==
  /\ works \in [Fleet -> {"none", "up", "down", "ran"}] /\ agent \cup status \subseteq Fleet
  /\ told \in [Fleet -> {"up", "down"}] /\ missed \in BOOLEAN
  /\ orders \in Seq(Order1) /\ queue \in Seq(WorkStep) /\ rc \in {0, 1}
  /\ main \in {"entry", "send", "hear", "withdraw", "returned"}
  /\ main \in {"entry", "send", "hear"} => rc = 0
  /\ main \in {"send", "hear", "withdraw"} => queue # <<>>

Acting(c) == main \in {"hear", "withdraw"} /\ c = Step.on
(* No other managed cluster than that of the step has a work.              *)
WorksInv ==
  rc = 0 => \A c \in Fleet :
    /\ works[c] # "none" => Acting(c)
    /\ Acting(c) => works[c] \in {Step.do, "ran"}
(* Between the steps agent and status of a managed cluster are what it was *)
(* last told, as long as no wait has timed out; a status that changes      *)
(* while the step waits follows the agent.                                 *)
SaysSo(c) == (told[c] = "up" <=> c \in agent) /\ (told[c] = "up" <=> c \in status)
Turning(c) ==
  /\ told[c] = Step.do
  /\ works[c] # "ran" => (c \in agent <=> c \in status)
  /\ works[c] = "ran" => (c \in agent <=> Step.do = "up")
ToldInv ==
  rc = 0 /\ ~missed => \A c \in Fleet :
    /\ Acting(c) /\ main = "hear" /\ Step.whole => Turning(c)
    /\ ~(Acting(c) /\ main = "hear" /\ Step.whole) => SaysSo(c)
    /\ Acting(c) /\ Step.whole => told[c] = Step.do
ManagedOK == ManagedTypeOK /\ WorksInv /\ ToldInv

(* The node of the step is the only one with a pod. *)
Skew1 == [act : STRING, kind : {"node", "pod"}, objects : SUBSET Fleet]
ClockStep == [do : {"skew", "check"}, on : Fleet, kind : {"node", "pod"}]
ClocksOK ==
  /\ main \in {"entry", "send", "hear", "withdraw", "returned"} /\ rc \in {0, 1}
  /\ main \in {"send", "hear", "withdraw"} => queue # <<>>
  /\ orders \in Seq(Skew1) /\ queue \in Seq(ClockStep) /\ helpers \subseteq Fleet
  /\ main # "returned" => rc = 0
  /\ main \in {"entry", "send"} \/ (main = "returned" /\ rc = 0) => helpers = {}
  /\ main = "hear" => helpers = IF Step.kind = "node" THEN {Step.on} ELSE {}
  /\ main = "withdraw" => helpers \subseteq {Step.on}

AtRest == works = [c \in Fleet |-> "none"] /\ agent = Fleet /\ status = Fleet
ErrandsInv ==
  /\ plugin = "managed" => ManagedOK
  /\ plugin = "clocks" => ClocksOK
  /\ plugin # "managed" => AtRest
  /\ plugin # "clocks" => helpers = {}

-----------------------------------------------------------------------------
(* Traffic shaping: the invariant is inductive.                            *)

(* Both layouts have every target in one call, and once. *)
LEMMA LayoutIs ==
  /\ AllAtOnce \in Seq(Seq(Target)) /\ Apart(AllAtOnce)
  /\ OneByOne \in Seq(Seq(Target)) /\ Apart(OneByOne)
<1> DEFINE s == SetToSeq(Target)
           n == Cardinality(Target)
<1>1. /\ s \in [1..n -> Target] /\ n \in Nat
      /\ \A i, j \in DOMAIN s : s[i] = s[j] => i = j
  BY SetListed, ShapingAssumption DEF ShapingAssumption
<1> HIDE DEF s, n
<1>2. s \in Seq(Target) /\ DOMAIN s = 1..n BY <1>1
<1>3. <<s>> \in Seq(Seq(Target)) /\ DOMAIN <<s>> = {1} /\ <<s>>[1] = s BY <1>2
<1>4. Apart(<<s>>) BY <1>1, <1>3 DEF Apart, Once
<1> DEFINE one(i) == <<s[i]>>
           t == [i \in 1..n |-> one(i)]
<1>5. \A i \in 1..n : one(i) \in Seq(Target) /\ DOMAIN one(i) = {1} /\ one(i)[1] = s[i]
  BY <1>1
<1> HIDE DEF one
<1>6. t \in Seq(Seq(Target)) /\ DOMAIN t = 1..n /\ \A i \in 1..n : t[i] = one(i) BY <1>1, <1>5
<1> HIDE DEF t
<1>7. \A c \in DOMAIN t : Once(t[c]) BY <1>5, <1>6 DEF Once
<1>8. ASSUME NEW c \in DOMAIN t, NEW d \in DOMAIN t, NEW i \in DOMAIN t[c], NEW k \in DOMAIN t[d],
             t[c][i] = t[d][k]
      PROVE  c = d
  <2>1. t[c][i] = s[c] /\ t[d][k] = s[d] BY <1>5, <1>6, <1>8
  <2> QED BY <1>1, <1>2, <1>6, <1>8, <2>1
<1>9. Apart(t) BY <1>7, <1>8 DEF Apart
<1>10. AllAtOnce = <<s>> BY DEF AllAtOnce, s
<1>11. OneByOne = t BY DEF OneByOne, t, one, s, n
<1> QED BY <1>3, <1>4, <1>6, <1>9, <1>10, <1>11

LEMMA ShapeInit1 == Init => ShapeInv
<1>7. Init /\ plugin \notin Shaper => Unshaped BY DEF Init, ShapeIdle, ShapeInit, Unshaped
<1> SUFFICES ASSUME Init, plugin \in Shaper PROVE ShapeOK BY <1>7 DEF ShapeInv
<1> USE DEF Init, ShapeStarts, ShapeInit
<1>0. Delay \in Nat /\ Duration \in Nat BY ShapingAssumption DEF ShapingAssumption
<1>1. layout \in {AllAtOnce, OneByOne} OBVIOUS
<1>2. layout \in Seq(Seq(Target)) /\ Apart(layout) BY <1>1, LayoutIs
<1>3. job \in [Job -> JobT] /\ \A j \in Job : job[j].st = "none" BY <1>0 DEF JobT, JobStates
<1>4. ShapeTypeOK BY <1>2, <1>3 DEF ShapeTypeOK, Early, Rounds
<1>5. CallsInv /\ ListsInv /\ LeftoversInv BY <1>3 DEF CallsInv, ListsInv, LeftoversInv, Exists, Over
<1>6. RoundsInv BY <1>3 DEF RoundsInv, Alive, Late
<1> QED BY <1>4, <1>5, <1>6 DEF ShapeOK

LEMMA ProbeKept ==
  ASSUME plugin \in Shaper, plugin' = plugin, ShapeOK, Probe
  PROVE  ShapeOK'
<1> USE DEF Probe, Shaping, At, Goes, Raises, Escapes, Fault, progress, lists, leftovers, MayLeaveTools
<1>1. /\ main = "entry" /\ main' \in {"round", "lift", "returned", "exited"}
      /\ UNCHANGED <<layout, job, turn, listed, fresh, doomed, filter, ifb>>
      /\ main' \in {"lift", "returned", "exited"} => rc' = 1
      /\ main' = "round" => calls' = layout /\ rc' = rc
      /\ tools' # tools => "api" \in faults'
      /\ main' = "returned" => "api" \in faults'
      /\ faults \subseteq faults' /\ rc' \in {0, 1}
  <2> USE DEF ShapeOK, ShapeTypeOK
  <2>1. CASE Goes("round") /\ calls' = layout /\ UNCHANGED <<leftovers, leaving, faults>>
    BY <2>1
  <2>2. CASE /\ Escapes(IF plugin \in Pods THEN "lift" ELSE "returned")
             /\ MayLeaveTools /\ UNCHANGED <<calls, ifb, leaving>>
    BY <2>2
  <2>3. CASE /\ plugin \in Pods \cup {"ingress_node"} /\ Fault("exit")
             /\ Raises(IF plugin \in Pods THEN "lift" ELSE "exited") /\ leaving' = TRUE
             /\ UNCHANGED <<calls, leftovers>>
    BY <2>3
  <2> QED BY <2>1, <2>2, <2>3
<1>2. \A j \in Job : job'[j].st = "none" BY <1>1 DEF ShapeOK, ListsInv
<1>3. ShapeTypeOK' BY <1>1 DEF ShapeOK, ShapeTypeOK, Early, Late, Apart, Once
<1>4. \A c \in DOMAIN layout : Unmade(layout[c])'
  <2> SUFFICES ASSUME NEW c \in DOMAIN layout, NEW i \in DOMAIN layout[c]
               PROVE  job'[<<turn', layout[c][i]>>].st = "none"
    BY DEF Unmade
  <2>1. layout[c] \in Seq(Target) /\ layout[c][i] \in Target BY <1>1 DEF ShapeOK, ShapeTypeOK
  <2>2. <<turn', layout[c][i]>> \in Job BY <1>1, <2>1 DEF ShapeOK, ShapeTypeOK, Job, Rounds
  <2> QED BY <1>2, <2>2
<1>5. CallsInv' BY <1>1, <1>4 DEF ShapeOK, ShapeTypeOK, CallsInv, Apart, Once
<1>6. ListsInv' BY <1>1, <1>2 DEF ShapeOK, ListsInv, Exists, Over
<1>7. RoundsInv' BY <1>1, <1>2 DEF ShapeOK, ShapeTypeOK, RoundsInv, Alive, Late
<1>8. LeftoversInv'
  <2>1. filter = {} \/ rc' = 1 \/ "job" \in faults'
    BY <1>1, <1>2 DEF ShapeOK, LeftoversInv, Held, Running
  <2> QED BY <1>1, <2>1 DEF ShapeOK, LeftoversInv
<1> QED BY <1>3, <1>5, <1>6, <1>7, <1>8 DEF ShapeOK

(* A call is taken from those of the round. *)
LEMMA FirstCall ==
  ASSUME NEW s \in Seq(Seq(Target)), s # <<>>, Apart(s)
  PROVE  /\ Head(s) \in Seq(Target) /\ Tail(s) \in Seq(Seq(Target)) /\ Once(Head(s)) /\ Apart(Tail(s))
         /\ Head(s) = s[1] /\ 1 \in DOMAIN s
         /\ \A c \in DOMAIN Tail(s) : c + 1 \in DOMAIN s /\ Tail(s)[c] = s[c + 1]
         /\ \A c \in DOMAIN Tail(s) :
              \A i \in DOMAIN Head(s), k \in DOMAIN Tail(s)[c] : Head(s)[i] # Tail(s)[c][k]
<1>1. /\ Head(s) = s[1] /\ 1 \in DOMAIN s /\ Head(s) \in Seq(Target)
      /\ Tail(s) \in Seq(Seq(Target)) /\ DOMAIN Tail(s) = 1..(Len(s) - 1)
      /\ \A c \in DOMAIN Tail(s) : c + 1 \in DOMAIN s /\ Tail(s)[c] = s[c + 1]
  BY HeadTailProperties
<1>2. Once(Head(s)) BY <1>1 DEF Apart
<1>3. \A c \in DOMAIN Tail(s) : Once(Tail(s)[c]) BY <1>1 DEF Apart
<1>4. ASSUME NEW c \in DOMAIN Tail(s), NEW d \in DOMAIN Tail(s),
             NEW i \in DOMAIN Tail(s)[c], NEW k \in DOMAIN Tail(s)[d], Tail(s)[c][i] = Tail(s)[d][k]
      PROVE  c = d
  <2>1. c + 1 = d + 1 BY <1>1, <1>4 DEF Apart
  <2> QED BY <1>1, <2>1
<1>5. ASSUME NEW c \in DOMAIN Tail(s),
             NEW i \in DOMAIN Head(s), NEW k \in DOMAIN Tail(s)[c], Head(s)[i] = Tail(s)[c][k]
      PROVE  FALSE
  <2>1. c + 1 = 1 BY <1>1, <1>5 DEF Apart
  <2> QED BY <1>1, <2>1
<1>6. Apart(Tail(s)) BY <1>3, <1>4 DEF Apart
<1> QED BY <1>1, <1>2, <1>5, <1>6

LEMMA PrepareKept ==
  ASSUME plugin \in Shaper, plugin' = plugin, ShapeOK, Prepare
  PROVE  ShapeOK'
<1> USE DEF Prepare, Shaping, At, Goes, Raises, Escapes, Fault, progress, lists, leftovers, MayLeaveTools
<1>1. /\ main = "round" /\ calls # <<>> /\ main' \in {"create", "lift"}
      /\ UNCHANGED <<layout, job, turn, listed, fresh, doomed, filter>>
      /\ main' = "lift" => rc' = 1
      /\ main' = "create" => call' = Head(calls) /\ calls' = Tail(calls) /\ rc' = rc
      /\ tools' # tools => "api" \in faults'
      /\ ifb' => ifb \/ MakesInterfaces
      /\ faults \subseteq faults' /\ rc' \in {0, 1}
  <2> USE DEF ShapeOK, ShapeTypeOK
  <2>1. CASE /\ Goes("create") /\ call' = Head(calls) /\ calls' = Tail(calls)
             /\ ifb' = (ifb \/ MakesInterfaces) /\ UNCHANGED <<tools, leaving, faults>>
    <3>1. ifb' => ifb \/ MakesInterfaces BY <2>1, Zenon
    <3>2. /\ main = "round" /\ calls # <<>> /\ main' = "create" /\ rc' = rc
          /\ UNCHANGED <<layout, job, turn, listed, fresh, doomed, filter, tools, faults>>
          /\ call' = Head(calls) /\ calls' = Tail(calls)
      BY <2>1
    <3> QED BY <3>1, <3>2
  <2>2. CASE /\ plugin \in Pods \/ MakesInterfaces
             /\ Escapes("lift") /\ MayLeaveTools /\ ifb' \in {ifb, (ifb \/ MakesInterfaces)}
             /\ UNCHANGED <<calls, call, leaving>>
    <3>1. ifb' => ifb \/ MakesInterfaces BY <2>2, Zenon
    <3>2. /\ main = "round" /\ calls # <<>> /\ main' = "lift" /\ rc' = 1
          /\ UNCHANGED <<layout, job, turn, listed, fresh, doomed, filter>>
          /\ faults' = faults \cup {"api"}
      BY <2>2
    <3> QED BY <3>1, <3>2
  <2>3. CASE /\ plugin = "pod_outage" /\ Fault("exit") /\ Raises("lift") /\ leaving' = TRUE
             /\ UNCHANGED <<calls, call, leftovers>>
    BY <2>3
  <2> QED BY <2>1, <2>2, <2>3
<1>2. ShapeTypeOK' BY <1>1 DEF ShapeOK, ShapeTypeOK, Early, Late, Apart, Once
<1>3. CallsInv'
  <2> SUFFICES ASSUME main' = "create" PROVE CallsInv' BY <1>1 DEF CallsInv
  <2>1. calls \in Seq(Seq(Target)) /\ Apart(calls) /\ \A c \in DOMAIN calls : Unmade(calls[c])
    BY <1>1 DEF ShapeOK, CallsInv
  <2> DEFINE h == Head(calls)
             t == Tail(calls)
  <2>2. /\ h \in Seq(Target) /\ t \in Seq(Seq(Target)) /\ Once(h) /\ Apart(t)
        /\ h = calls[1] /\ 1 \in DOMAIN calls
        /\ \A c \in DOMAIN t : c + 1 \in DOMAIN calls /\ t[c] = calls[c + 1]
        /\ \A c \in DOMAIN t : \A i \in DOMAIN h, k \in DOMAIN t[c] : h[i] # t[c][k]
    BY <1>1, <2>1, FirstCall
  <2>3. call' = h /\ calls' = t /\ turn' = turn /\ job' = job BY <1>1
  <2> HIDE DEF h, t
  <2>4. Unmade(h) /\ \A c \in DOMAIN t : Unmade(t[c]) BY <2>1, <2>2
  <2> QED BY <2>2, <2>3, <2>4 DEF CallsInv, Apart, Once, Unmade
<1>4. ListsInv' BY <1>1 DEF ShapeOK, ListsInv, Exists, Over
<1>5. RoundsInv' BY <1>1 DEF ShapeOK, RoundsInv, Alive, Late
<1>6. LeftoversInv'
  <2>1. MakesInterfaces => plugin \in Ingress BY DEF MakesInterfaces, Ingress
  <2>2. rc' = 0 /\ "job" \notin faults' => \A f \in filter : Held(f)'
    BY <1>1 DEF ShapeOK, ShapeTypeOK, Early, LeftoversInv, Held, Running, Iface
  <2> QED BY <1>1, <2>1, <2>2 DEF ShapeOK, LeftoversInv
<1> QED BY <1>2, <1>3, <1>4, <1>5, <1>6 DEF ShapeOK

(* A step that leaves jobs, lists and calls as they are. *)
LEMMA CalledKept ==
  ASSUME plugin \in Shaper, plugin' = plugin, ShapeOK, Called
  PROVE  ShapeOK'
<1> USE DEF Called, Shaping, At, Goes, progress, lists, leftovers
<1>1. ShapeTypeOK' BY DEF ShapeOK, ShapeTypeOK, Early, Late, Apart, Once
<1>2. CallsInv' BY DEF ShapeOK, CallsInv, Apart, Once, Unmade
<1>3. ListsInv' BY DEF ShapeOK, ListsInv, Exists, Over
<1>4. RoundsInv' BY DEF ShapeOK, RoundsInv, Alive, Late
<1>5. LeftoversInv' BY DEF ShapeOK, LeftoversInv, Held, Running, Iface
<1> QED BY <1>1, <1>2, <1>3, <1>4, <1>5 DEF ShapeOK

(* The jobs of the next round are still to be made. *)
LEMMA NextRoundKept ==
  ASSUME ShapeOK, NextRound, turn < Rounds, UNCHANGED <<layout, job>>
  PROVE  turn' \in 1..Rounds /\ CallsInv'
<1> USE DEF NextRound, Goes, Rounds
<1>1. turn' \in 1..Rounds /\ turn' = turn + 1 /\ turn' > turn BY DEF ShapeOK, ShapeTypeOK
<1>2. ASSUME NEW c \in DOMAIN layout, NEW i \in DOMAIN layout[c]
      PROVE  job'[<<turn', layout[c][i]>>].st = "none"
  <2>1. layout[c] \in Seq(Target) /\ layout[c][i] \in Target BY DEF ShapeOK, ShapeTypeOK
  <2>2. <<turn', layout[c][i]>> \in Job BY <1>1, <2>1 DEF Job
  <2>3. ~(turn' <= turn) BY <1>1 DEF ShapeOK, ShapeTypeOK
  <2> QED BY <2>2, <2>3 DEF ShapeOK, RoundsInv
<1>3. \A c \in DOMAIN layout : Unmade(layout[c])' BY <1>2 DEF Unmade
<1> QED BY <1>1, <1>3 DEF ShapeOK, ShapeTypeOK, CallsInv, Apart, Once

(* The job of a call is made where there was none; or the call raises,     *)
(* with the job made or not. *)
LEMMA CreateIs ==
  ASSUME plugin \in Shaper, plugin' = plugin, ShapeOK, Create
  PROVE  \E j \in Job :
           /\ main = "create" /\ call # <<>> /\ j = <<turn, Head(call)>> /\ job[j].st = "none"
           /\ UNCHANGED <<layout, turn, calls, doomed, filter, ifb, tools>>
           /\ listed \subseteq listed' /\ listed' \subseteq listed \cup {j} /\ faults \subseteq faults'
           /\ \/ job' = job
              \/ \E state \in {"running", "pending"} :
                   job' = [job EXCEPT ![j] = [st |-> state, age |-> 0]]
           /\ \/ /\ call' = Tail(call) /\ fresh' = fresh \cup {j} /\ UNCHANGED <<threadvars, faults>>
              \/ main' = "lift" /\ rc' = 1 /\ fresh' = {} /\ "api" \in faults'
<1> USE DEF Create, Shaping, At, Raises, Escapes, Fault, leftovers
<1> DEFINE j == <<turn, Head(call)>>
<1>1. main = "create" /\ call # <<>> /\ call \in Seq(Target) /\ Unmade(call)
  BY DEF ShapeOK, CallsInv
<1>2. Head(call) \in Target /\ Head(call) = call[1] /\ 1 \in DOMAIN call
  BY <1>1, HeadTailProperties
<1>3. j \in Job BY <1>2 DEF ShapeOK, ShapeTypeOK, Job, Rounds
<1>4. job[j].st = "none" BY <1>1, <1>2 DEF Unmade
<1>5. listed \subseteq listed' /\ listed' \subseteq listed \cup {j} BY DEF Enlists
<1>6. /\ \/ job' = job
         \/ \E state \in {"running", "pending"} :
              job' = [job EXCEPT ![j] = [st |-> state, age |-> 0]]
      /\ \/ /\ call' = Tail(call) /\ fresh' = fresh \cup {j} /\ UNCHANGED <<threadvars, faults>>
         \/ /\ main' = "lift" /\ rc' = 1 /\ fresh' = {} /\ "api" \in faults'
            /\ faults \subseteq faults'
  <2> HIDE DEF j
  <2>1. LET Turns(state) == job' = [job EXCEPT ![j] = [st |-> state, age |-> 0]]
        IN  \/ /\ Turns("running") \/ Turns("pending")
               /\ call' = Tail(call) /\ fresh' = fresh \cup {j}
               /\ UNCHANGED <<threadvars, faults>>
            \/ /\ Turns("running") \/ UNCHANGED job
               /\ Escapes("lift") /\ fresh' = {} /\ UNCHANGED call
    BY DEF j
  <2> QED BY <2>1
<1>7. UNCHANGED <<layout, turn, calls, doomed, filter, ifb, tools>> OBVIOUS
<1> HIDE DEF j
<1> QED BY <1>1, <1>3, <1>4, <1>5, <1>6, <1>7 DEF j

LEMMA CreateKept ==
  ASSUME plugin \in Shaper, plugin' = plugin, ShapeOK, Create
  PROVE  ShapeOK'
<1>1. PICK j \in Job :
        /\ main = "create" /\ call # <<>> /\ j = <<turn, Head(call)>> /\ job[j].st = "none"
        /\ UNCHANGED <<layout, turn, calls, doomed, filter, ifb, tools>>
        /\ listed \subseteq listed' /\ listed' \subseteq listed \cup {j} /\ faults \subseteq faults'
        /\ \/ job' = job
           \/ \E state \in {"running", "pending"} :
                job' = [job EXCEPT ![j] = [st |-> state, age |-> 0]]
        /\ \/ /\ call' = Tail(call) /\ fresh' = fresh \cup {j} /\ UNCHANGED <<threadvars, faults>>
           \/ main' = "lift" /\ rc' = 1 /\ fresh' = {} /\ "api" \in faults'
  BY CreateIs
<1>2. /\ job' \in [Job -> JobT] /\ \A i \in Job : i # j => job'[i] = job[i]
      /\ job'[j].st \in {"none", "running", "pending"}
  <2>1. Delay \in Nat /\ Duration \in Nat /\ 0 \in 0..(Delay + Duration)
    BY ShapingAssumption DEF ShapingAssumption
  <2>2. job \in [Job -> JobT] BY DEF ShapeOK, ShapeTypeOK
  <2>3. CASE job' = job BY <1>1, <2>2, <2>3
  <2>4. ASSUME NEW state \in {"running", "pending"},
               job' = [job EXCEPT ![j] = [st |-> state, age |-> 0]]
        PROVE  /\ job' \in [Job -> JobT] /\ \A i \in Job : i # j => job'[i] = job[i]
               /\ job'[j].st \in {"none", "running", "pending"}
    <3>1. [st |-> state, age |-> 0] \in JobT BY <2>1 DEF JobT, JobStates
    <3> QED BY <2>2, <2>4, <3>1
  <2> QED BY <1>1, <2>3, <2>4
<1>3. rc = 0 /\ rc' \in {0, 1} /\ main' \in {"create", "lift"} /\ (rc' = 0 => main' = "create")
  BY <1>1 DEF ShapeOK, ShapeTypeOK, Early, threadvars
<1>4. ShapeTypeOK'
  <2>1. listed' \cup fresh' \cup doomed' \subseteq Job
    BY <1>1 DEF ShapeOK, ShapeTypeOK
  <2>2. turn' = turn /\ layout' = layout BY <1>1
  <2>3. main' \in Early \cup Late /\ (main' \in Early => rc' = 0)
    BY <1>1, <1>3 DEF Early, Late, threadvars
  <2> QED BY <1>2, <1>3, <2>1, <2>2, <2>3 DEF ShapeOK, ShapeTypeOK, Apart, Once
<1>5. CallsInv'
  <2> SUFFICES ASSUME main' = "create" PROVE CallsInv' BY <1>3 DEF CallsInv
  <2>1. /\ calls \in Seq(Seq(Target)) /\ Apart(calls) /\ \A c \in DOMAIN calls : Unmade(calls[c])
        /\ call \in Seq(Target) /\ Once(call) /\ Unmade(call)
        /\ \A c \in DOMAIN calls : \A i \in DOMAIN call, k \in DOMAIN calls[c] : call[i] # calls[c][k]
    BY <1>1 DEF ShapeOK, CallsInv
  <2>2. call' = Tail(call) /\ calls' = calls /\ turn' = turn BY <1>1
  <2>3. /\ Head(call) = call[1] /\ 1 \in DOMAIN call /\ Tail(call) \in Seq(Target)
        /\ \A i \in DOMAIN Tail(call) :
             /\ i + 1 \in DOMAIN call /\ Tail(call)[i] = call[i + 1] /\ i + 1 # 1 /\ i \in Nat
    BY <1>1, <2>1, HeadTailProperties
  <2> DEFINE t == Tail(call)
  <2> HIDE DEF t
  <2>4. t \in Seq(Target) /\ Once(t) /\ \A i \in DOMAIN t : t[i] # Head(call)
    BY <2>1, <2>3 DEF t, Once
  <2>5. \A x \in Target : x # Head(call) => job'[<<turn, x>>] = job[<<turn, x>>]
    <3>1. \A x \in Target : <<turn, x>> \in Job BY DEF ShapeOK, ShapeTypeOK, Job, Rounds
    <3> QED BY <1>1, <1>2, <3>1
  <2>6. \A i \in DOMAIN t : job'[<<turn, t[i]>>].st = "none"
    <3> SUFFICES ASSUME NEW i \in DOMAIN t PROVE job'[<<turn, t[i]>>].st = "none" OBVIOUS
    <3>1. t[i] \in Target /\ t[i] # Head(call) BY <2>4
    <3>2. job[<<turn, t[i]>>].st = "none" BY <2>1, <2>3 DEF t, Unmade
    <3> QED BY <2>5, <3>1, <3>2
  <2>7. \A c \in DOMAIN calls : \A k \in DOMAIN calls[c] : job'[<<turn, calls[c][k]>>].st = "none"
    <3> SUFFICES ASSUME NEW c \in DOMAIN calls, NEW k \in DOMAIN calls[c]
                 PROVE  job'[<<turn, calls[c][k]>>].st = "none"
      OBVIOUS
    <3>1. calls[c] \in Seq(Target) /\ calls[c][k] \in Target BY <2>1
    <3>2. calls[c][k] # Head(call) BY <2>1, <2>3
    <3>3. job[<<turn, calls[c][k]>>].st = "none" BY <2>1 DEF Unmade
    <3> QED BY <2>5, <3>1, <3>2, <3>3
  <2>8. \A c \in DOMAIN calls : \A i \in DOMAIN t, k \in DOMAIN calls[c] : t[i] # calls[c][k]
    BY <2>1, <2>3 DEF t
  <2>9. call' = t BY <2>2 DEF t
  <2>10. Unmade(call)' /\ Once(call)' /\ call' \in Seq(Target)
    BY <2>2, <2>4, <2>6, <2>9 DEF Unmade, Once
  <2>11. calls' \in Seq(Seq(Target)) /\ Apart(calls)' /\ \A c \in DOMAIN calls' : Unmade(calls[c])'
    BY <2>1, <2>2, <2>7 DEF Unmade, Apart, Once
  <2>12. \A c \in DOMAIN calls' : \A i \in DOMAIN call', k \in DOMAIN calls'[c] : call'[i] # calls'[c][k]
    BY <2>2, <2>8, <2>9
  <2> QED BY <2>10, <2>11, <2>12 DEF CallsInv
<1>6. ListsInv'
  BY <1>1, <1>2, <1>3 DEF ShapeOK, ListsInv, Exists, Over, threadvars
<1>7. RoundsInv'
  <2>1. j[1] = turn /\ turn \in 1..2 BY <1>1 DEF ShapeOK, ShapeTypeOK, Rounds
  <2>2. \A i \in Job : job'[i].st # "none" => i[1] <= turn'
    BY <1>1, <1>2, <2>1 DEF ShapeOK, RoundsInv
  <2>3. plugin' # "pod_outage" /\ turn' = 2 => \A i \in Job : i[1] = 1 => ~Alive(i)'
    BY <1>1, <1>2, <2>1 DEF ShapeOK, RoundsInv, Alive
  <2> QED BY <1>3, <2>2, <2>3 DEF RoundsInv, Late
<1>8. LeftoversInv'
  <2>1. \A i \in Job : Running(i) => job'[i] = job[i] BY <1>1, <1>2 DEF Running
  <2>2. \A f : Held(f) => Held(f)' BY <2>1 DEF Held, Running, Iface
  <2> QED BY <1>1, <1>3, <2>2 DEF ShapeOK, LeftoversInv, threadvars
<1> QED BY <1>4, <1>5, <1>6, <1>7, <1>8 DEF ShapeOK

(* The jobs of the round before have ended, for pod_outage apart. *)
LEMMA TurnKept ==
  ASSUME ShapeOK, NextRound, turn < Rounds, UNCHANGED <<layout, job>>, plugin' = plugin,
         plugin = "pod_outage" \/ \A j \in Job : ~Alive(j)
  PROVE  RoundsInv'
<1>1. turn' = turn + 1 /\ turn \in 1..2 /\ main' = "round" /\ job' = job
  BY DEF NextRound, Goes, ShapeOK, ShapeTypeOK, Rounds
<1>2. \A j \in Job : j[1] \in 1..2 BY DEF Job, Rounds
<1>3. \A j \in Job : job'[j].st # "none" => j[1] <= turn'
  <2> SUFFICES ASSUME NEW j \in Job, job[j].st # "none" PROVE j[1] <= turn' BY <1>1
  <2>1. j[1] <= turn BY DEF ShapeOK, RoundsInv
  <2> QED BY <1>1, <1>2, <2>1
<1>4. plugin' # "pod_outage" => \A j \in Job : ~Alive(j)' BY <1>1 DEF Alive
<1> QED BY <1>1, <1>3, <1>4 DEF RoundsInv, Late

(* A step that leaves the jobs alone keeps what is filtered. *)
LEMMA HeldKept ==
  ASSUME ShapeOK, UNCHANGED <<plugin, job, filter>>, rc' = 0 => rc = 0, faults \subseteq faults'
  PROVE  rc' = 0 /\ "job" \notin faults' => \A f \in filter' : Held(f)'
BY DEF ShapeOK, LeftoversInv, Held, Running, Iface

LEMMA LaunchedKept ==
  ASSUME plugin \in Shaper, plugin' = plugin, ShapeOK, Launched
  PROVE  ShapeOK'
<1> USE DEF Launched, Shaping, At, lists, leftovers
<1>1. /\ main = "round" /\ UNCHANGED <<layout, job, listed, fresh, doomed, filter, ifb, tools, faults>>
      /\ main' \in {"round", "wait"} /\ rc' = rc
      /\ main' = "round" => NextRound /\ plugin = "pod_outage" /\ turn < Rounds
      /\ main' = "wait" => turn' = turn
  BY DEF NextRound, Goes
<1>2. turn' \in 1..Rounds /\ CallsInv'
  BY <1>1, NextRoundKept DEF CallsInv, ShapeOK, ShapeTypeOK
<1>3. ShapeTypeOK' BY <1>1, <1>2 DEF ShapeOK, ShapeTypeOK, Early, Late, Apart, Once
<1>4. ListsInv' BY <1>1 DEF ShapeOK, ListsInv, Exists, Over
<1>5. RoundsInv'
  <2>1. CASE main' = "round" BY <1>1, <2>1, TurnKept
  <2>2. CASE main' = "wait" BY <1>1, <2>2 DEF ShapeOK, RoundsInv, Alive, Late
  <2> QED BY <1>1, <2>1, <2>2
<1>6. LeftoversInv' BY <1>1, HeldKept DEF ShapeOK, LeftoversInv
<1> QED BY <1>2, <1>3, <1>4, <1>5, <1>6 DEF ShapeOK

LEMMA WaitedKept ==
  ASSUME plugin \in Shaper, plugin' = plugin, ShapeOK, Waited
  PROVE  ShapeOK'
<1> USE DEF Waited, Shaping, At, lists, leftovers
<1>1. /\ main = "wait" /\ UNCHANGED <<layout, job, listed, fresh, filter, ifb, tools, faults>>
      /\ \A j \in listed : Finished(j)
      /\ main' \in {"round", "clear", "lift"} /\ rc' = rc
      /\ main' = "round" => NextRound /\ turn < Rounds /\ doomed' = doomed
      /\ main' = "clear" => turn' = turn /\ doomed' = listed
      /\ main' = "lift" => turn' = turn /\ doomed' = doomed
  BY DEF NextRound, Goes
<1>2. \A j \in Job : Exists(j) => j \in listed BY <1>1 DEF ShapeOK, ListsInv
<1>3. \A j \in Job : ~Alive(j) BY <1>1, <1>2 DEF Alive, Exists, Finished
<1>4. turn' \in 1..Rounds /\ CallsInv'
  BY <1>1, NextRoundKept DEF CallsInv, ShapeOK, ShapeTypeOK
<1>5. ShapeTypeOK' BY <1>1, <1>4 DEF ShapeOK, ShapeTypeOK, Early, Late, Apart, Once
<1>6. ListsInv' BY <1>1, <1>2 DEF ShapeOK, ListsInv, Exists, Over
<1>7. RoundsInv'
  <2>1. CASE main' = "round" BY <1>1, <1>3, <2>1, TurnKept
  <2>2. CASE main' # "round" BY <1>1, <1>3, <2>2 DEF ShapeOK, RoundsInv, Alive
  <2> QED BY <2>1, <2>2
<1>8. LeftoversInv' BY <1>1, HeldKept DEF ShapeOK, LeftoversInv
<1> QED BY <1>4, <1>5, <1>6, <1>7, <1>8 DEF ShapeOK

LEMMA TimedOutKept ==
  ASSUME plugin \in Shaper, plugin' = plugin, ShapeOK, TimedOut
  PROVE  ShapeOK'
<1> USE DEF TimedOut, Shaping, At, Raises, lists, leftovers, progress
<1>1. /\ main = "wait" /\ main' = "lift" /\ rc' = 1
      /\ UNCHANGED <<layout, turn, job, listed, fresh, doomed, filter, ifb, tools, faults>>
  OBVIOUS
<1>2. ShapeTypeOK' BY <1>1 DEF ShapeOK, ShapeTypeOK, Early, Late, Apart, Once
<1>3. CallsInv' BY <1>1 DEF CallsInv
<1>4. ListsInv' BY <1>1 DEF ShapeOK, ListsInv, Exists, Over
<1>5. RoundsInv' BY <1>1 DEF ShapeOK, RoundsInv, Alive
<1>6. LeftoversInv' BY <1>1 DEF ShapeOK, LeftoversInv
<1> QED BY <1>2, <1>3, <1>4, <1>5, <1>6 DEF ShapeOK

LEMMA LiftKept ==
  ASSUME plugin \in Shaper, plugin' = plugin, ShapeOK, Lift
  PROVE  ShapeOK'
<1> USE DEF Lift, Shaping, At, Goes, Raises, Escapes, Fault, MayLeaveTools, progress
<1>1. /\ main = "lift" /\ UNCHANGED <<layout, turn, job, listed, fresh, filter>>
      /\ main' \in {"delete", "returned"}
      /\ main' = "delete" => doomed' = listed /\ rc' = rc
      /\ main' = "returned" => doomed' = doomed /\ rc' = 1 /\ "api" \in faults'
      /\ tools' # tools => "api" \in faults'
      /\ faults \subseteq faults' /\ rc' \in {0, 1} /\ (rc' = 0 => rc = 0)
  BY DEF ShapeOK, ShapeTypeOK
<1>2. ifb' => ifb BY Zenon
<1>3. main' = "delete" => (ifb' => plugin \notin Ingress \/ faults' = faults \cup {"command"})
  BY Zenon
<1>4. ShapeTypeOK' BY <1>1 DEF ShapeOK, ShapeTypeOK, Early, Late, Apart, Once
<1>5. CallsInv' BY <1>1 DEF CallsInv
<1>6. ListsInv' BY <1>1 DEF ShapeOK, ListsInv, Exists, Over
<1>7. RoundsInv' BY <1>1 DEF ShapeOK, RoundsInv, Alive, Late
<1>8. LeftoversInv'
  <2>1. rc' = 0 /\ "job" \notin faults' => \A f \in filter' : Held(f)' BY <1>1, HeldKept
  <2>2. main' = "delete" /\ faults' \cap {"api", "command"} = {} => ~ifb'
    BY <1>2, <1>3 DEF ShapeOK, LeftoversInv
  <2> QED BY <1>1, <1>2, <2>1, <2>2 DEF ShapeOK, LeftoversInv
<1> QED BY <1>4, <1>5, <1>6, <1>7, <1>8 DEF ShapeOK

(* A job that is to be deleted is gone, and the other jobs are as before. *)
LEMMA DeletesIs ==
  ASSUME ShapeOK, NEW from, Deletes(from)
  PROVE  \E j \in doomed :
           /\ doomed' = doomed \ {j} /\ j \in Job /\ job' \in [Job -> JobT]
           /\ \A i \in Job : i # j => job'[i] = job[i]
           /\ job'[j].st \in {"none", "deleted"} /\ (job[j].st = "none" => job'[j].st = "none")
<1>1. PICK j \in doomed :
        /\ doomed' = doomed \ {j}
        /\ job' = IF Exists(j) THEN [job EXCEPT ![j] = [st |-> "deleted", age |-> 0]] ELSE job
  BY DEF Deletes
<1>2. j \in Job /\ job \in [Job -> JobT] BY DEF ShapeOK, ShapeTypeOK
<1>3. [st |-> "deleted", age |-> 0] \in JobT
  BY ShapingAssumption DEF ShapingAssumption, JobT, JobStates
<1>4. CASE Exists(j)
  <2>1. job' = [job EXCEPT ![j] = [st |-> "deleted", age |-> 0]] BY <1>1, <1>4
  <2>2. job' \in [Job -> JobT] /\ job'[j] = [st |-> "deleted", age |-> 0]
        /\ \A i \in Job : i # j => job'[i] = job[i]
    BY <1>2, <1>3, <2>1
  <2> QED BY <1>1, <1>2, <1>4, <2>2 DEF Exists
<1>5. CASE ~Exists(j)
  <2>1. job' = job BY <1>1, <1>5
  <2>2. job'[j].st \in {"none", "deleted"} /\ (job[j].st = "none" => job'[j].st = "none")
    BY <1>5, <2>1 DEF Exists
  <2>3. job' \in [Job -> JobT] /\ \A i \in Job : i # j => job'[i] = job[i] BY <1>2, <2>1
  <2> QED BY <1>1, <1>2, <2>2, <2>3
<1> QED BY <1>4, <1>5

(* Deleting jobs keeps the invariant: what is deleted was to be deleted,   *)
(* and none of it ran if nothing has gone wrong. *)
LEMMA DeletesKept ==
  ASSUME plugin \in Shaper, plugin' = plugin, ShapeOK, NEW from \in {"clear", "delete"}, Deletes(from),
         UNCHANGED <<main, rc, layout, turn, calls, call, listed, fresh, filter, ifb, tools, faults>>
  PROVE  ShapeOK'
<1>1. main = from BY DEF Deletes, Shaping, At
<1>2. PICK j \in doomed :
        /\ doomed' = doomed \ {j} /\ j \in Job /\ job' \in [Job -> JobT]
        /\ \A i \in Job : i # j => job'[i] = job[i]
        /\ job'[j].st \in {"none", "deleted"} /\ (job[j].st = "none" => job'[j].st = "none")
  BY DeletesIs
<1>3. ShapeTypeOK' BY <1>2 DEF ShapeOK, ShapeTypeOK, Apart, Once
<1>4. CallsInv' BY <1>1 DEF CallsInv
<1>5. ListsInv'
  <2>1. \A i \in Job : Exists(i)' => Exists(i) /\ i # j BY <1>2 DEF Exists
  <2> QED BY <1>1, <1>2, <2>1 DEF ShapeOK, ListsInv, Over
<1>6. \A i \in Job : Alive(i)' => Alive(i) BY <1>2 DEF Alive
<1>7. RoundsInv'
  <2>1. \A i \in Job : job'[i].st # "none" => job[i].st # "none" BY <1>2
  <2>2. \A i \in Job : job'[i].st # "none" => i[1] <= turn' BY <2>1 DEF ShapeOK, RoundsInv
  <2> QED BY <1>1, <1>6, <2>2 DEF ShapeOK, RoundsInv, Late
<1>8. LeftoversInv'
  <2>1. rc = 0 => \A i \in Job : ~Alive(i) BY <1>1 DEF ShapeOK, RoundsInv, Late
  <2>2. rc = 0 /\ "job" \notin faults => filter = {}
    BY <2>1 DEF ShapeOK, LeftoversInv, Held, Alive, Running
  <2> QED BY <1>1, <2>2 DEF ShapeOK, LeftoversInv
<1> QED BY <1>3, <1>4, <1>5, <1>7, <1>8 DEF ShapeOK

LEMMA ClearKept ==
  ASSUME plugin \in Shaper, plugin' = plugin, ShapeOK, Clear
  PROVE  ShapeOK'
<1> USE DEF Clear, Shaping, At, Raises, Escapes, Fault, leftovers
<1>1. CASE Deletes("clear") /\ UNCHANGED <<threadvars, listed, turn, calls, faults>>
  BY <1>1, DeletesKept DEF threadvars
<1>2. CASE /\ Shaping("clear") /\ doomed # {} /\ Escapes("lift")
           /\ UNCHANGED <<doomed, job, listed, turn, calls>>
  <2>1. /\ main = "clear" /\ main' = "lift" /\ rc' = 1 /\ faults \subseteq faults' /\ "api" \in faults'
        /\ UNCHANGED <<layout, turn, job, listed, fresh, doomed, filter, ifb, tools>>
    BY <1>2
  <2>2. ShapeTypeOK' BY <2>1 DEF ShapeOK, ShapeTypeOK, Early, Late, Apart, Once
  <2>3. CallsInv' BY <2>1 DEF CallsInv
  <2>4. ListsInv' BY <2>1 DEF ShapeOK, ListsInv, Exists, Over
  <2>5. RoundsInv' BY <2>1 DEF ShapeOK, RoundsInv, Alive
  <2>6. LeftoversInv' BY <2>1 DEF ShapeOK, LeftoversInv
  <2> QED BY <2>2, <2>3, <2>4, <2>5, <2>6 DEF ShapeOK
<1>3. CASE /\ Shaping("clear") /\ doomed = {} /\ listed' = {}
           /\ IF turn < Rounds THEN NextRound ELSE Goes("lift") /\ UNCHANGED <<turn, calls>>
           /\ UNCHANGED <<doomed, job, faults>>
  <2>1. /\ main = "clear" /\ doomed = {} /\ listed' = {} /\ rc' = rc
        /\ UNCHANGED <<layout, job, fresh, doomed, filter, ifb, tools, faults>>
        /\ main' \in {"round", "lift"}
        /\ main' = "round" => NextRound /\ turn < Rounds
        /\ main' = "lift" => turn' = turn
    BY <1>3 DEF NextRound, Goes
  <2>2. \A j \in Job : ~Exists(j) BY <2>1 DEF ShapeOK, ListsInv
  <2>3. \A j \in Job : ~Alive(j)
    <3>1. rc = 0 BY <2>1 DEF ShapeOK, ShapeTypeOK, Early
    <3> QED BY <2>1, <3>1 DEF ShapeOK, RoundsInv
  <2>4. turn' \in 1..Rounds /\ CallsInv'
    BY <2>1, NextRoundKept DEF CallsInv, ShapeOK, ShapeTypeOK
  <2>5. ShapeTypeOK' BY <2>1, <2>4 DEF ShapeOK, ShapeTypeOK, Early, Late, Apart, Once
  <2>6. ListsInv' BY <2>1, <2>2 DEF ShapeOK, ListsInv, Exists, Over
  <2>7. RoundsInv'
    <3>1. CASE main' = "round" BY <2>1, <2>3, <3>1, TurnKept
    <3>2. CASE main' # "round" BY <2>1, <2>3, <3>2 DEF ShapeOK, RoundsInv, Alive
    <3> QED BY <3>1, <3>2
  <2>8. LeftoversInv' BY <2>1, HeldKept DEF ShapeOK, LeftoversInv
  <2> QED BY <2>4, <2>5, <2>6, <2>7, <2>8 DEF ShapeOK
<1> QED BY <1>1, <1>2, <1>3

LEMMA DeleteJobsKept ==
  ASSUME plugin \in Shaper, plugin' = plugin, ShapeOK, DeleteJobs
  PROVE  ShapeOK'
<1> USE DEF DeleteJobs, Shaping, At, Raises, Escapes, Fault, leftovers, progress
<1>1. CASE Deletes("delete") /\ UNCHANGED <<threadvars, faults>>
  BY <1>1, DeletesKept DEF threadvars
<1>2. CASE Shaping("delete") /\ doomed # {} /\ Escapes("returned") /\ UNCHANGED <<doomed, job>>
  <2>1. /\ main = "delete" /\ main' = "returned" /\ rc' = 1 /\ faults \subseteq faults' /\ "api" \in faults'
        /\ UNCHANGED <<layout, turn, job, listed, fresh, doomed, filter, ifb, tools>>
    BY <1>2
  <2>2. ShapeTypeOK' BY <2>1 DEF ShapeOK, ShapeTypeOK, Early, Late, Apart, Once
  <2>3. CallsInv' BY <2>1 DEF CallsInv
  <2>4. ListsInv' BY <2>1 DEF ShapeOK, ListsInv, Exists, Over
  <2>5. RoundsInv' BY <2>1 DEF ShapeOK, RoundsInv, Alive
  <2>6. LeftoversInv' BY <2>1 DEF ShapeOK, LeftoversInv
  <2> QED BY <2>2, <2>3, <2>4, <2>5, <2>6 DEF ShapeOK
<1>3. CASE /\ Shaping("delete") /\ doomed = {}
           /\ Goes(IF leaving THEN "exited" ELSE "returned") /\ UNCHANGED <<doomed, job, faults>>
  <2>1. /\ main = "delete" /\ main' \in {"returned", "exited"} /\ rc' = rc /\ doomed = {}
        /\ UNCHANGED <<layout, turn, job, listed, fresh, doomed, filter, ifb, tools, faults>>
    BY <1>3 DEF Goes
  <2>2. ShapeTypeOK' BY <2>1 DEF ShapeOK, ShapeTypeOK, Early, Late, Apart, Once
  <2>3. CallsInv' BY <2>1 DEF CallsInv
  <2>4. ListsInv' BY <2>1 DEF ShapeOK, ListsInv, Exists, Over
  <2>5. RoundsInv' BY <2>1 DEF ShapeOK, RoundsInv, Alive, Late
  <2>6. LeftoversInv' BY <2>1, HeldKept DEF ShapeOK, LeftoversInv
  <2> QED BY <2>2, <2>3, <2>4, <2>5, <2>6 DEF ShapeOK
<1> QED BY <1>1, <1>2, <1>3

(* A unit of time: a job is at its age or ends. *)
LEMMA OlderIs ==
  ASSUME ShapeOK, NEW j \in Job
  PROVE  /\ Older(j) \in JobT
         /\ Older(j).st = "none" <=> job[j].st = "none"
         /\ Older(j).st = "deleted" <=> job[j].st = "deleted"
         /\ Older(j).st \in {"pending", "running"} => Alive(j)
         /\ Running(j) /\ job[j].age + 1 < Delay + Duration =>
              Older(j).st = "running" /\ Older(j).age = job[j].age + 1
<1>1. Delay \in Nat /\ Duration \in Nat BY ShapingAssumption DEF ShapingAssumption
<1>2. job[j] \in JobT BY DEF ShapeOK, ShapeTypeOK
<1>3. CASE ~Running(j) BY <1>2, <1>3 DEF Older, Alive, Running
<1>4. CASE Running(j) /\ job[j].age + 1 < Delay + Duration
  <2>1. Older(j) = [job[j] EXCEPT !.age = job[j].age + 1] BY <1>4 DEF Older
  <2>2. job[j].age + 1 \in 0..(Delay + Duration) BY <1>1, <1>2, <1>4 DEF JobT
  <2> QED BY <1>2, <1>4, <2>1, <2>2 DEF JobT, Running, Alive
<1>5. CASE Running(j) /\ ~(job[j].age + 1 < Delay + Duration)
  <2>1. Older(j) = [st |-> "succeeded", age |-> 0] BY <1>5 DEF Older
  <2>2. 0 \in 0..(Delay + Duration) BY <1>1
  <2> QED BY <1>5, <2>1, <2>2 DEF JobT, JobStates, Running
<1> QED BY <1>3, <1>4, <1>5

(* What the cluster does to jobs makes and forgets none. *)
LEMMA CallsStay ==
  ASSUME ShapeOK, UNCHANGED <<main, turn, calls, call>>,
         \A j \in Job : job'[j].st = "none" <=> job[j].st = "none"
  PROVE  CallsInv'
<1>1. turn' = turn /\ turn \in 1..2 BY DEF ShapeOK, ShapeTypeOK, Rounds
<1>2. \A s \in Seq(Target) : Unmade(s) => Unmade(s)'
  <2> SUFFICES ASSUME NEW s \in Seq(Target), Unmade(s), NEW i \in DOMAIN s
               PROVE  job'[<<turn', s[i]>>].st = "none"
    BY DEF Unmade
  <2>1. <<turn, s[i]>> \in Job BY <1>1 DEF Job, Rounds
  <2> QED BY <1>1, <2>1 DEF Unmade
<1>3. main \in {"round", "create"} => \A c \in DOMAIN calls : Unmade(calls[c])'
  <2> SUFFICES ASSUME main \in {"round", "create"}, NEW c \in DOMAIN calls PROVE Unmade(calls[c])'
    OBVIOUS
  <2>1. calls \in Seq(Seq(Target)) /\ Unmade(calls[c]) BY DEF ShapeOK, CallsInv
  <2>2. calls[c] \in Seq(Target) /\ calls' = calls BY <1>1, <2>1
  <2> QED BY <1>2, <2>1, <2>2 DEF Unmade
<1>4. main = "create" => Unmade(call)' BY <1>1, <1>2 DEF ShapeOK, CallsInv, Unmade
<1> QED BY <1>1, <1>3, <1>4 DEF ShapeOK, CallsInv, Apart, Once, Unmade

LEMMA TickKept ==
  ASSUME plugin \in Shaper, plugin' = plugin, ShapeOK, Tick
  PROVE  ShapeOK'
<1> USE DEF progress, lists, leftovers, threadvars
<1>1. /\ UNCHANGED <<main, rc, layout, turn, calls, call, listed, fresh, doomed, ifb, tools, faults>>
      /\ \A j \in Job : job'[j] = Older(j)
      /\ filter' = (filter \cup Sets) \ Unsets
      /\ job' \in [Job -> JobT]
  BY OlderIs DEF Tick
<1>2. \A j \in Job : Exists(j)' <=> Exists(j) BY <1>1, OlderIs DEF Exists
<1>3. \A j \in Job : Alive(j)' => Alive(j) BY <1>1, OlderIs DEF Alive
<1>4. \A j \in Job : job'[j].st = "none" <=> job[j].st = "none" BY <1>1, OlderIs
<1>5. ShapeTypeOK' BY <1>1 DEF ShapeOK, ShapeTypeOK, Apart, Once
<1>6. CallsInv' BY <1>1, <1>4, CallsStay
<1>7. ListsInv' BY <1>1, <1>2, <1>4 DEF ShapeOK, ListsInv, Over
<1>8. RoundsInv' BY <1>1, <1>3, <1>4 DEF ShapeOK, RoundsInv
<1>9. LeftoversInv'
  <2>1. SUFFICES ASSUME rc = 0, "job" \notin faults, NEW f \in filter' PROVE Held(f)'
    BY <1>1 DEF ShapeOK, LeftoversInv
  <2>2. Delay \in Nat /\ Duration \in Nat BY ShapingAssumption DEF ShapingAssumption
  <2>3. f \notin Unsets /\ f \in filter \cup Sets BY <1>1, <2>1
  <2>4. \E j \in Job : /\ Running(j) /\ Iface(j) = f /\ job[j].age + 1 >= Delay
                       /\ job[j].age + 1 < Delay + Duration
    <3>1. CASE f \in Sets
      <4>1. PICK j \in Job : Running(j) /\ job[j].age + 1 = Delay /\ Iface(j) = f BY <3>1 DEF Sets
      <4>2. job[j].age + 1 # Delay + Duration BY <2>3, <4>1 DEF Unsets
      <4> QED BY <2>2, <4>1, <4>2
    <3>2. CASE f \in filter
      <4>1. PICK j \in Job : /\ Running(j) /\ Iface(j) = f /\ job[j].age >= Delay
                             /\ job[j].age < Delay + Duration
        BY <2>1, <3>2 DEF ShapeOK, LeftoversInv, Held
      <4>2. job[j].age + 1 # Delay + Duration BY <2>3, <4>1 DEF Unsets
      <4>3. job[j].age \in Nat BY DEF ShapeOK, ShapeTypeOK, JobT
      <4> QED BY <2>2, <4>1, <4>2, <4>3
    <3> QED BY <2>3, <3>1, <3>2
  <2>5. PICK j \in Job : /\ Running(j) /\ Iface(j) = f /\ job[j].age + 1 >= Delay
                         /\ job[j].age + 1 < Delay + Duration
    BY <2>4
  <2>6. job'[j].st = "running" /\ job'[j].age = job[j].age + 1 BY <1>1, <2>5, OlderIs
  <2> QED BY <2>5, <2>6 DEF Held, Running, Iface
<1> QED BY <1>5, <1>6, <1>7, <1>8, <1>9 DEF ShapeOK

(* The pod of a job is killed, or starts. *)
LEMMA StrikesKept ==
  ASSUME plugin \in Shaper, plugin' = plugin, ShapeOK, NEW j \in Job, Strikes(j)
  PROVE  ShapeOK'
<1> USE DEF progress, lists, leftovers, threadvars
<1>1. job[j] \in JobT /\ job \in [Job -> JobT] BY DEF ShapeOK, ShapeTypeOK
<1>2. /\ UNCHANGED <<main, rc, layout, turn, calls, call, listed, fresh, doomed, filter, ifb, tools>>
      /\ faults \subseteq faults' /\ Alive(j)
      /\ job' \in [Job -> JobT] /\ \A i \in Job : i # j => job'[i] = job[i]
      /\ job'[j].st \in {"failed", "running"}
      /\ "job" \notin faults' => job[j].st = "pending"
      /\ "api" \in faults' <=> "api" \in faults
  <2>1. CASE Running(j) /\ Fault("job") /\ job' = [job EXCEPT ![j] = [st |-> "failed", age |-> 0]]
    <3>1. [st |-> "failed", age |-> 0] \in JobT
      BY ShapingAssumption DEF ShapingAssumption, JobT, JobStates
    <3>2. /\ job' \in [Job -> JobT] /\ \A i \in Job : i # j => job'[i] = job[i]
          /\ job'[j].st = "failed"
      BY <1>1, <2>1, <3>1
    <3>3. faults' = faults \cup {"job"} BY <2>1 DEF Fault
    <3> QED BY <2>1, <3>2, <3>3 DEF Strikes, Running, Alive
  <2>2. CASE job[j].st = "pending" /\ job' = [job EXCEPT ![j].st = "running"] /\ UNCHANGED faults
    <3>1. [job[j] EXCEPT !.st = "running"] \in JobT BY <1>1 DEF JobT, JobStates
    <3>2. job' = [job EXCEPT ![j] = [job[j] EXCEPT !.st = "running"]] BY <2>2
    <3>3. /\ job' \in [Job -> JobT] /\ \A i \in Job : i # j => job'[i] = job[i]
          /\ job'[j].st = "running"
      BY <1>1, <3>1, <3>2 DEF JobT
    <3> QED BY <2>2, <3>3 DEF Strikes, Alive
  <2> QED BY <2>1, <2>2 DEF Strikes
<1>3. job[j].st # "none" /\ Exists(j) BY <1>2 DEF Alive, Exists
<1>4. \A i \in Job : Exists(i)' => Exists(i) BY <1>2, <1>3 DEF Exists
<1>5. \A i \in Job : Alive(i)' => Alive(i) BY <1>2 DEF Alive
<1>6. \A i \in Job : job'[i].st = "none" <=> job[i].st = "none" BY <1>2, <1>3
<1>7. ShapeTypeOK' BY <1>2 DEF ShapeOK, ShapeTypeOK, Apart, Once
<1>8. CallsInv' BY <1>2, <1>6, CallsStay
<1>9. ListsInv' BY <1>2, <1>4, <1>6 DEF ShapeOK, ListsInv, Over
<1>10. RoundsInv' BY <1>2, <1>5, <1>6 DEF ShapeOK, RoundsInv
<1>11. LeftoversInv'
  <2>1. "job" \notin faults' => \A i \in Job : Running(i) => job'[i] = job[i]
    BY <1>2 DEF Running
  <2>2. "job" \notin faults' => \A f : Held(f) => Held(f)' BY <2>1 DEF Held, Running, Iface
  <2> QED BY <1>2, <2>2 DEF ShapeOK, LeftoversInv
<1> QED BY <1>7, <1>8, <1>9, <1>10, <1>11 DEF ShapeOK

LEMMA ShapeOKNext ==
  ASSUME plugin \in Shaper, plugin' = plugin, ShapeOK,
         \/ ShapeStep \/ Tick \/ \E j \in Job : Strikes(j)
         \/ UNCHANGED <<threadvars, shapevars>>
  PROVE  ShapeOK'
<1>1. CASE ShapeStep
  BY <1>1, ProbeKept, PrepareKept, CreateKept, CalledKept, LaunchedKept,
     WaitedKept, TimedOutKept, ClearKept, LiftKept, DeleteJobsKept DEF ShapeStep
<1>2. CASE UNCHANGED <<threadvars, shapevars>>
  BY <1>2 DEF ShapeOK, ShapeTypeOK, CallsInv, ListsInv, RoundsInv, LeftoversInv, Apart, Once,
     Unmade, Exists, Alive, Held, Running, Iface, Over, threadvars, shapevars, progress, lists,
     leftovers
<1> QED BY <1>1, <1>2, TickKept, StrikesKept

LEMMA ShapeInvNext == ShapeInv /\ [Next]_vars => ShapeInv'
<1> SUFFICES ASSUME ShapeInv, [Next]_vars PROVE ShapeInv' OBVIOUS
<1>1. plugin' = plugin BY OneScenario
<1>2. CASE plugin \in Shaper
  <2>1. ShapeOK BY <1>2 DEF ShapeInv
  <2>2. ShapeOK' BY <1>1, <1>2, <2>1, OneScenario, ShapeOKNext
  <2> QED BY <1>1, <1>2, <2>2 DEF ShapeInv
<1>3. CASE plugin \notin Shaper
  <2>1. Unshaped BY <1>3 DEF ShapeInv
  <2>2. \A j \in Job : ~Strikes(j) BY <2>1 DEF Unshaped, Strikes, Running
  <2>3. job' = job BY <1>3, <2>2, OthersRest DEF shapevars
  <2> QED BY <1>1, <1>3, <2>1, <2>3 DEF ShapeInv, Unshaped
<1> QED BY <1>2, <1>3

LEMMA ShapeInvAlways == Spec => []ShapeInv
BY ShapeInit1, ShapeInvNext, PTL DEF Spec

(* Two jobs that run never shape one interface, for any number of          *)
(* interfaces and times: an interface has one job per parameter, a         *)
(* parallel run goes through one, and a serial run waits for the jobs of   *)
(* it, or deletes them, before it makes those of the next.                 *)
THEOREM OneShaperAlways == Spec => []OneShaper
<1>1. ASSUME ShapeInv, NEW i \in Job, NEW j \in Job, i # j, Running(i), Running(j),
             Iface(i) = Iface(j)
      PROVE  FALSE
  <2>1. ShapeOK BY <1>1 DEF ShapeInv, Unshaped, Running
  <2>2. plugin # "pod_outage" /\ i[2] = j[2] BY <1>1 DEF Iface
  <2>3. /\ i[1] \in 1..2 /\ j[1] \in 1..2 /\ turn \in 1..2 /\ i[1] # j[1]
        /\ i = <<i[1], i[2]>> /\ j = <<j[1], j[2]>>
    BY <1>1, <2>1, <2>2 DEF Job, Rounds, ShapeOK, ShapeTypeOK
  <2>4. i[1] <= turn /\ j[1] <= turn BY <1>1, <2>1 DEF ShapeOK, RoundsInv, Running
  <2>5. turn = 2 BY <2>3, <2>4
  <2>6. ~(i[1] = 1) /\ ~(j[1] = 1) BY <1>1, <2>1, <2>2, <2>5 DEF ShapeOK, RoundsInv, Alive, Running
  <2> QED BY <2>3, <2>6
<1>2. ShapeInv => OneShaper BY <1>1 DEF OneShaper
<1> QED BY <1>2, ShapeInvAlways, PTL

(* When a traffic scenario is over, no job, virtual interface or pod of it *)
(* is left unless a call has raised, whether it succeeded, timed out or    *)
(* called sys.exit, but for an interface whose removal failed, which the   *)
(* code does not look at; and if it succeeded and no job was killed, the filters *)
(* are gone: a job that filters runs, and none did when the wait was over. *)
THEOREM TidyAlways == Spec => []Tidy
<1>1. ASSUME ShapeInv, plugin \in Shaper, Over
      PROVE  /\ "api" \notin faults => ~tools /\ \A j \in Job : ~Exists(j)
             /\ faults \cap {"api", "command"} = {} => ~ifb
             /\ rc = 0 /\ "job" \notin faults => filter = {}
  <2>1. ShapeOK /\ main \in {"returned", "exited"} BY <1>1 DEF ShapeInv, Over
  <2>2. ("api" \notin faults => ~tools) /\ (faults \cap {"api", "command"} = {} => ~ifb)
    BY <2>1 DEF ShapeOK, LeftoversInv
  <2>3. "api" \notin faults => \A j \in Job : ~Exists(j) BY <1>1, <2>1 DEF ShapeOK, ListsInv
  <2>4. rc = 0 => \A j \in Job : ~Running(j) BY <2>1 DEF ShapeOK, RoundsInv, Alive, Running, Late
  <2>5. rc = 0 /\ "job" \notin faults => filter = {} BY <2>1, <2>4 DEF ShapeOK, LeftoversInv, Held
  <2> QED BY <2>2, <2>3, <2>5
<1>2. ShapeInv => Tidy BY <1>1 DEF Tidy
<1> QED BY <1>2, ShapeInvAlways, PTL

-----------------------------------------------------------------------------
(* Errands: the invariant is inductive.                                    *)

LEMMA ErrandsAre ==
  /\ Orders.managed \subseteq Seq(Order1) /\ Orders.clocks \subseteq Seq(Skew1)
  /\ IsFiniteSet(Fleet)
BY ErrandsAssumption DEF ErrandsAssumption, Order1, Skew1

LEMMA ErrandsInit1 == Init => ErrandsInv
<1> SUFFICES ASSUME Init PROVE ErrandsInv OBVIOUS
<1> USE DEF Init, ErrandsStart, ErrandsIdle, ErrandsInit
<1>1. AtRest /\ helpers = {} /\ main = "entry" /\ rc = 0 /\ queue = <<>>
  BY DEF AtRest, Errander
<1>2. CASE plugin = "managed"
  <2>1. orders \in Seq(Order1) BY <1>2, ErrandsAre DEF Errander
  <2>2. ManagedTypeOK
    <3>1. works \in [Fleet -> {"none", "up", "down", "ran"}] /\ told \in [Fleet -> {"up", "down"}]
      OBVIOUS
    <3>2. agent \in SUBSET Fleet /\ status \in SUBSET Fleet /\ missed \in BOOLEAN OBVIOUS
    <3>3. queue \in Seq(WorkStep) BY <1>1
    <3> QED BY <1>1, <1>2, <2>1, <3>1, <3>2, <3>3 DEF ManagedTypeOK, Errander
  <2>3. WorksInv /\ ToldInv BY <1>1, <1>2 DEF WorksInv, ToldInv, SaysSo, Acting, AtRest, Errander
  <2> QED BY <1>1, <1>2, <2>2, <2>3 DEF ErrandsInv, ManagedOK
<1>3. CASE plugin = "clocks"
  <2>1. orders \in Seq(Skew1) BY <1>3, ErrandsAre DEF Errander
  <2> QED BY <1>1, <1>3, <2>1 DEF ErrandsInv, ClocksOK
<1>4. CASE plugin \notin {"managed", "clocks"} BY <1>1, <1>4 DEF ErrandsInv
<1> QED BY <1>2, <1>3, <1>4

(* The steps of an action on managed clusters. *)
LEMMA WorkStepsAre ==
  ASSUME NEW o \in Order1, NEW c \in Fleet
  PROVE  WorkSteps(o, c) \in Seq(WorkStep)
<1> DEFINE times(do) == [r \in 1..o.runs |-> [do |-> do, on |-> c, whole |-> o.act \in Whole]]
           a == IF o.act \in Stopping THEN times("down") ELSE <<>>
           b == IF o.act \in Starting THEN times("up") ELSE <<>>
<1>1. o.runs \in Nat BY DEF Order1
<1>2. \A do \in {"up", "down"} : [do |-> do, on |-> c, whole |-> o.act \in Whole] \in WorkStep
  BY DEF WorkStep
<1>3. \A do \in {"up", "down"} : times(do) \in Seq(WorkStep) BY <1>1, <1>2
<1> HIDE DEF times
<1>4. a \in Seq(WorkStep) /\ b \in Seq(WorkStep) BY <1>3
<1> HIDE DEF a, b
<1>5. a \o b \in Seq(WorkStep) BY <1>4
<1> QED BY <1>5 DEF WorkSteps, a, b, times

LEMMA ChosenAre ==
  ASSUME status \subseteq Fleet, NEW o \in Order1, NEW chosen \in Chosen(o)
  PROVE  FlattenSeq([i \in DOMAIN chosen |-> WorkSteps(o, chosen[i])]) \in Seq(WorkStep)
<1> DEFINE p == [i \in DOMAIN chosen |-> WorkSteps(o, chosen[i])]
<1>1. \E n \in Nat : DOMAIN chosen = 1..n /\ \A i \in 1..n : chosen[i] \in Fleet
  <2>1. CASE o.name \in status
    <3>1. chosen = <<o.name>> BY <2>1 DEF Chosen
    <3> QED BY <2>1, <3>1
  <2>2. CASE o.name \notin status
    <3>1. PICK s \in SUBSET status : chosen \in SetToSeqs(s) BY <2>2 DEF Chosen
    <3>2. IsFiniteSet(s) BY <3>1, ErrandsAre, FS_Subset
    <3>3. Cardinality(s) \in Nat BY <3>2, FS_CardinalityType
    <3>4. chosen \in [1..Cardinality(s) -> s] BY <3>1 DEF SetToSeqs
    <3> QED BY <3>1, <3>3, <3>4
  <2> QED BY <2>1, <2>2
<1>2. PICK n \in Nat : DOMAIN chosen = 1..n /\ \A i \in 1..n : chosen[i] \in Fleet BY <1>1
<1>3. \A i \in 1..n : p[i] \in Seq(WorkStep) BY <1>2, WorkStepsAre
<1>4. p \in Seq(Seq(WorkStep)) BY <1>2, <1>3
<1> HIDE DEF p
<1>5. FlattenSeq(p) \in Seq(WorkStep) BY <1>4, Windows
<1> QED BY <1>5 DEF p

(* The next step, or the end of the action. *)
LEMMA NextStepIs ==
  ASSUME NEW S, queue \in Seq(S), queue # <<>>, NextStep
  PROVE  /\ queue' \in Seq(S) /\ main' \in {"entry", "send"} /\ rc' = rc
         /\ main' = "send" => queue' # <<>>
<1>1. queue' = Tail(queue) /\ main' = (IF Len(queue) = 1 THEN "entry" ELSE "send") /\ rc' = rc
  BY DEF NextStep, Goes
<1>2. Tail(queue) \in Seq(S) /\ Len(queue) \in Nat /\ Len(Tail(queue)) = Len(queue) - 1
  BY HeadTailProperties
<1>3. Len(queue) # 1 => Tail(queue) # <<>>
  <2>1. Len(queue) # 0 BY EmptySeq
  <2>2. Len(queue) # 1 => Len(Tail(queue)) # 0 BY <1>2, <2>1
  <2> QED BY <2>2, EmptySeq, Zenon
<1> QED BY <1>1, <1>2, <1>3

LEMMA FirstStep ==
  ASSUME NEW S, queue \in Seq(S), queue # <<>>
  PROVE  Step \in S
BY HeadTailProperties DEF Step

(* Where no step is under way, before and after, nothing is to be shown of *)
(* what the managed clusters were told. *)
LEMMA NobodyActs ==
  ASSUME WorksInv, ToldInv, UNCHANGED <<clusters, history>>, rc' = 0 => rc = 0,
         main \in {"entry", "send"}, main' \in {"entry", "send", "returned"}
  PROVE  WorksInv' /\ ToldInv'
<1>1. \A c \in Fleet : ~Acting(c) /\ ~Acting(c)' BY DEF Acting
<1>2. WorksInv' BY <1>1 DEF WorksInv, clusters
<1>3. ASSUME rc' = 0, ~missed', NEW c \in Fleet PROVE SaysSo(c)'
  <2>1. rc = 0 /\ ~missed BY <1>3 DEF history
  <2>2. SaysSo(c) BY <1>1, <2>1 DEF ToldInv
  <2> QED BY <2>2 DEF SaysSo, clusters, history
<1> QED BY <1>1, <1>2, <1>3 DEF ToldInv

LEMMA TakeOrderKept ==
  ASSUME ManagedOK, TakeOrder PROVE ManagedOK'
<1> USE DEF Fails, Return, Goes
<1>1. /\ main = "entry" /\ rc = 0 /\ UNCHANGED <<clusters, history>>
      /\ orders \in Seq(Order1) /\ queue \in Seq(WorkStep)
  BY DEF TakeOrder, Errand, At, ManagedOK, ManagedTypeOK
<1>2. /\ orders' \in Seq(Order1) /\ queue' \in Seq(WorkStep) /\ rc' \in {0, 1}
      /\ main' \in {"entry", "send", "returned"}
      /\ main' # "returned" => rc' = 0
      /\ main' = "send" => queue' # <<>>
  <2>1. CASE orders = <<>> /\ Return(0) /\ UNCHANGED <<orders, queue, glitches>>
    BY <1>1, <2>1
  <2>2. CASE /\ orders # <<>>
             /\ \E chosen \in Chosen(Head(orders)) :
                  /\ orders' = Tail(orders)
                  /\ queue' = FlattenSeq([i \in DOMAIN chosen |->
                                            WorkSteps(Head(orders), chosen[i])])
                  /\ Goes(IF queue' = <<>> THEN "entry" ELSE "send")
    <3>1. Head(orders) \in Order1 /\ Tail(orders) \in Seq(Order1)
      BY <1>1, <2>2, HeadTailProperties
    <3>2. status \subseteq Fleet BY DEF ManagedOK, ManagedTypeOK
    <3>3. queue' \in Seq(WorkStep) BY <2>2, <3>1, <3>2, ChosenAre
    <3> QED BY <1>1, <2>2, <3>1, <3>3
  <2>3. CASE Fails /\ UNCHANGED orders BY <1>1, <2>3
  <2> QED BY <2>1, <2>2, <2>3 DEF TakeOrder
<1>3. WorksInv' /\ ToldInv' BY <1>1, <1>2, NobodyActs DEF ManagedOK
<1> QED BY <1>1, <1>2, <1>3 DEF ManagedOK, ManagedTypeOK, clusters, history

LEMMA SendWorkKept ==
  ASSUME ManagedOK, SendWork PROVE ManagedOK'
<1> DEFINE s == Step
<1>1. /\ main = "send" /\ rc = 0 /\ queue # <<>> /\ s \in WorkStep
      /\ UNCHANGED <<orders, queue, agent, status, missed>> /\ Step' = s /\ Step = s
  <2>1. main = "send" /\ UNCHANGED <<orders, queue, agent, status, missed>>
    BY DEF SendWork, Errand, At
  <2>2. queue \in Seq(WorkStep) /\ queue # <<>> /\ rc = 0
    BY <2>1 DEF ManagedOK, ManagedTypeOK
  <2> QED BY <2>1, <2>2, FirstStep DEF Step
<1> HIDE DEF s
<1>2. CASE /\ works' = [works EXCEPT ![s.on] = s.do] /\ Goes("hear")
           /\ told' = IF s.whole THEN [told EXCEPT ![s.on] = s.do] ELSE told
  <2>1. /\ main' = "hear" /\ rc' = 0 /\ s.on \in Fleet /\ s.do \in {"up", "down"}
        /\ s.whole \in BOOLEAN
    BY <1>1, <1>2 DEF Goes, WorkStep
  <2>2. /\ works' \in [Fleet -> {"none", "up", "down", "ran"}] /\ works'[s.on] = s.do
        /\ \A c \in Fleet : c # s.on => works'[c] = works[c]
    BY <1>2, <2>1 DEF ManagedOK, ManagedTypeOK
  <2>3. /\ told' \in [Fleet -> {"up", "down"}]
        /\ s.whole => told'[s.on] = s.do
        /\ \A c \in Fleet : c # s.on \/ ~s.whole => told'[c] = told[c]
    BY <1>2, <2>1 DEF ManagedOK, ManagedTypeOK
  <2>4. ManagedTypeOK'
    <3>1. ManagedTypeOK BY DEF ManagedOK
    <3>2. queue' # <<>> /\ queue' \in Seq(WorkStep) /\ orders' \in Seq(Order1)
      BY <1>1, <3>1 DEF ManagedTypeOK
    <3>3. agent' \cup status' \subseteq Fleet /\ missed' \in BOOLEAN
      BY <1>1, <3>1 DEF ManagedTypeOK
    <3>4. rc' \in {0, 1} /\ main' = "hear" BY <2>1
    <3>5. works' \in [Fleet -> {"none", "up", "down", "ran"}] /\ told' \in [Fleet -> {"up", "down"}]
      BY <2>2, <2>3
    <3> QED BY <2>1, <3>2, <3>3, <3>4, <3>5 DEF ManagedTypeOK
  <2>5. \A c \in Fleet : Acting(c)' <=> c = s.on BY <1>1, <2>1 DEF Acting
  <2>6. \A c \in Fleet : works[c] = "none" BY <1>1 DEF ManagedOK, WorksInv, Acting
  <2>7. WorksInv' BY <1>1, <2>2, <2>5, <2>6 DEF WorksInv
  <2>8. ASSUME ~missed', NEW c \in Fleet
        PROVE  /\ c = s.on /\ s.whole => Turning(c)' /\ told'[c] = s.do
               /\ ~(c = s.on /\ s.whole) => SaysSo(c)'
    <3>1. SaysSo(c) BY <1>1, <2>8 DEF ManagedOK, ToldInv
    <3>2. c = s.on => works'[c] # "ran" BY <2>1, <2>2
    <3>3. CASE c = s.on /\ s.whole
      <4>1. told'[c] = s.do BY <2>3, <3>3
      <4>2. works'[c] # "ran" BY <3>2, <3>3
      <4>3. (c \in agent <=> c \in status) BY <3>1 DEF SaysSo
      <4> QED BY <1>1, <3>3, <4>1, <4>2, <4>3 DEF Turning
    <3>4. CASE ~(c = s.on /\ s.whole)
      <4>1. told'[c] = told[c] BY <2>3, <3>4
      <4> QED BY <1>1, <3>1, <3>4, <4>1 DEF SaysSo
    <3> QED BY <3>3, <3>4
  <2>9. ToldInv' BY <1>1, <2>1, <2>5, <2>8 DEF ToldInv
  <2> QED BY <2>4, <2>7, <2>9 DEF ManagedOK
<1>3. CASE Raises("withdraw") /\ UNCHANGED <<works, told>>
  <2>1. main' = "withdraw" /\ rc' = 1 BY <1>3 DEF Raises
  <2> QED BY <1>1, <1>3, <2>1 DEF ManagedOK, ManagedTypeOK, WorksInv, ToldInv
<1> QED BY <1>2, <1>3 DEF SendWork, s

(* A wait for a status that does not time out ends with what was told.     *)
LEMMA HearStatusKept ==
  ASSUME ManagedOK, HearStatus PROVE ManagedOK'
<1> DEFINE s == Step
           there == (s.do = "up") <=> (s.on \in status)
<1>1. /\ main = "hear" /\ rc = 0 /\ queue # <<>> /\ s \in WorkStep
      /\ UNCHANGED <<orders, queue, clusters, told>> /\ Step' = s
  <2>1. main = "hear" /\ UNCHANGED <<orders, queue, clusters, told>>
    BY DEF HearStatus, Errand, At
  <2>2. queue \in Seq(WorkStep) /\ queue # <<>> /\ rc = 0
    BY <2>1 DEF ManagedOK, ManagedTypeOK
  <2> QED BY <2>1, <2>2, FirstStep DEF Step
<1>2. CASE Goes("withdraw") /\ missed' = (missed \/ (s.whole /\ ~there))
  <2>1. main' = "withdraw" /\ rc' = 0 BY <1>1, <1>2 DEF Goes
  <2>2. missed' \in BOOLEAN BY <1>2 DEF ManagedOK, ManagedTypeOK
  <2>3. ManagedTypeOK' BY <1>1, <2>1, <2>2 DEF ManagedOK, ManagedTypeOK, clusters
  <2>4. \A c \in Fleet : (Acting(c)' <=> c = s.on) /\ (Acting(c) <=> c = s.on)
    BY <1>1, <2>1 DEF Acting
  <2>5. WorksInv' BY <1>1, <2>1, <2>4 DEF ManagedOK, WorksInv, clusters
  <2>6. ASSUME ~missed', NEW c \in Fleet
        PROVE  SaysSo(c)' /\ (c = s.on /\ s.whole => told'[c] = s.do)
    <3>1. ~missed /\ (s.whole => there) BY <1>2, <2>6
    <3>2. /\ c = s.on /\ s.whole => Turning(c) /\ told[c] = s.do
          /\ ~(c = s.on /\ s.whole) => SaysSo(c)
      BY <1>1, <2>4, <3>1 DEF ManagedOK, ToldInv
    <3>3. c = s.on /\ s.whole => SaysSo(c) BY <3>1, <3>2 DEF Turning, SaysSo
    <3> QED BY <1>1, <3>2, <3>3 DEF SaysSo, clusters
  <2>7. ToldInv' BY <1>1, <2>1, <2>4, <2>6 DEF ToldInv
  <2> QED BY <2>3, <2>5, <2>7 DEF ManagedOK
<1>3. CASE Raises("withdraw") /\ UNCHANGED missed
  <2>1. main' = "withdraw" /\ rc' = 1 BY <1>3 DEF Raises
  <2> QED BY <1>1, <1>3, <2>1 DEF ManagedOK, ManagedTypeOK, WorksInv, ToldInv, clusters
<1> QED BY <1>2, <1>3 DEF HearStatus

LEMMA WithdrawWorkKept ==
  ASSUME ManagedOK, WithdrawWork PROVE ManagedOK'
<1> DEFINE s == Step
<1>1. /\ main = "withdraw" /\ queue # <<>> /\ queue \in Seq(WorkStep) /\ s.on \in Fleet
      /\ UNCHANGED <<orders, agent, status, history>>
  <2>1. main = "withdraw" /\ UNCHANGED <<orders, agent, status, history>>
    BY DEF WithdrawWork, Errand, At
  <2>2. queue \in Seq(WorkStep) /\ queue # <<>> BY <2>1 DEF ManagedOK, ManagedTypeOK
  <2>3. s \in WorkStep BY <2>2, FirstStep
  <2> QED BY <2>1, <2>2, <2>3 DEF WorkStep
<1>2. CASE Fails /\ works' \in [Fleet -> {"none", "up", "down", "ran"}]
  <2>1. main' = "returned" /\ rc' = 1 /\ queue' = queue BY <1>2 DEF Fails, Return
  <2> QED BY <1>1, <1>2, <2>1 DEF ManagedOK, ManagedTypeOK, WorksInv, ToldInv, history
<1>3. CASE rc # 1 /\ NextStep /\ works' = [works EXCEPT ![s.on] = "none"]
  <2>1. rc = 0 BY <1>3 DEF ManagedOK, ManagedTypeOK
  <2>2. /\ queue' \in Seq(WorkStep) /\ main' \in {"entry", "send"} /\ rc' = 0
        /\ main' = "send" => queue' # <<>>
    BY <1>1, <1>3, <2>1, NextStepIs
  <2>3. \A c \in Fleet : works[c] # "none" => c = s.on
    BY <2>1 DEF ManagedOK, WorksInv, Acting
  <2>4. works' = [c \in Fleet |-> "none"]
    <3>1. works \in [Fleet -> {"none", "up", "down", "ran"}] BY DEF ManagedOK, ManagedTypeOK
    <3> HIDE DEF s
    <3> QED BY <1>1, <1>3, <2>3, <3>1
  <2>5. ManagedTypeOK'
    <3>1. works' \in [Fleet -> {"none", "up", "down", "ran"}] BY <2>4
    <3> QED BY <1>1, <2>2, <3>1 DEF ManagedOK, ManagedTypeOK, history
  <2>6. \A c \in Fleet : ~Acting(c)' BY <2>2 DEF Acting
  <2>7. WorksInv' BY <2>4, <2>6 DEF WorksInv
  <2>8. ASSUME ~missed', NEW c \in Fleet PROVE SaysSo(c)'
    <3>1. SaysSo(c) BY <1>1, <2>1, <2>8 DEF ManagedOK, ToldInv, history
    <3> QED BY <1>1, <3>1 DEF SaysSo, history
  <2>9. ToldInv' BY <2>6, <2>8 DEF ToldInv
  <2> QED BY <2>5, <2>7, <2>9 DEF ManagedOK
<1>4. [works EXCEPT ![s.on] = "none"] \in [Fleet -> {"none", "up", "down", "ran"}]
  BY DEF ManagedOK, ManagedTypeOK
<1>5. works \in [Fleet -> {"none", "up", "down", "ran"}] BY DEF ManagedOK, ManagedTypeOK
<1> QED BY <1>2, <1>3, <1>4, <1>5 DEF WithdrawWork

(* The job runs during its step, as the thread wants it. *)
LEMMA ExecutesKept ==
  ASSUME ManagedOK, NEW c \in Fleet, Executes(c) PROVE ManagedOK'
<1> DEFINE s == Step
<1>1. /\ works[c] \in {"down", "up"} /\ works' = [works EXCEPT ![c] = "ran"]
      /\ agent' = IF ~s.whole THEN agent ELSE IF works[c] = "up" THEN agent \cup {c} ELSE agent \ {c}
      /\ UNCHANGED <<main, rc, orders, queue, status, history>> /\ Step' = s /\ Step = s
  BY DEF Executes, threadvars, Step
<1> HIDE DEF s
<1>2. /\ works' \in [Fleet -> {"none", "up", "down", "ran"}] /\ works'[c] = "ran"
      /\ \A d \in Fleet : d # c => works'[d] = works[d]
  BY <1>1 DEF ManagedOK, ManagedTypeOK
<1>3. /\ agent' \subseteq Fleet /\ \A d \in Fleet : d # c => (d \in agent' <=> d \in agent)
      /\ s.whole => (c \in agent' <=> works[c] = "up")
      /\ ~s.whole => agent' = agent
  BY <1>1 DEF ManagedOK, ManagedTypeOK
<1>4. ManagedTypeOK'
  <2>1. ManagedTypeOK BY DEF ManagedOK
  <2> QED BY <1>1, <1>2, <1>3, <2>1 DEF ManagedTypeOK, history
<1>5. \A d \in Fleet : Acting(d)' <=> Acting(d) BY <1>1 DEF Acting
<1>6. rc = 0 => Acting(c) /\ works[c] = s.do /\ main \in {"hear", "withdraw"}
  BY <1>1 DEF ManagedOK, WorksInv, Acting
<1>7. WorksInv' BY <1>1, <1>2, <1>5, <1>6 DEF ManagedOK, WorksInv
<1>8. ASSUME rc = 0, ~missed, NEW d \in Fleet
      PROVE  /\ Acting(d) /\ main = "hear" /\ s.whole => Turning(d)'
             /\ ~(Acting(d) /\ main = "hear" /\ s.whole) => SaysSo(d)'
  <2>1. /\ Acting(d) /\ main = "hear" /\ s.whole => Turning(d)
        /\ ~(Acting(d) /\ main = "hear" /\ s.whole) => SaysSo(d)
        /\ Acting(d) /\ s.whole => told[d] = s.do
    BY <1>1, <1>8 DEF ManagedOK, ToldInv
  <2>2. CASE d # c BY <1>1, <1>2, <1>3, <2>1, <2>2 DEF Turning, SaysSo, history
  <2>3. CASE d = c /\ s.whole
    <3>1. /\ told'[d] = s.do /\ (d \in agent' <=> s.do = "up") /\ Acting(d)
          /\ status' = status /\ told' = told
      BY <1>1, <1>3, <1>6, <1>8, <2>1, <2>3 DEF history
    <3>2. Turning(d)' BY <1>1, <1>2, <2>3, <3>1 DEF Turning
    <3>3. ~(Acting(d) /\ main = "hear" /\ s.whole) => SaysSo(d)'
      BY <2>1, <3>1 DEF SaysSo
    <3> QED BY <3>2, <3>3
  <2>4. CASE d = c /\ ~s.whole
    <3>1. SaysSo(d) BY <2>1, <2>4
    <3> QED BY <1>1, <1>3, <2>4, <3>1 DEF SaysSo, history
  <2> QED BY <2>2, <2>3, <2>4
<1>9. ToldInv' BY <1>1, <1>5, <1>8 DEF ManagedOK, ToldInv, history
<1> QED BY <1>4, <1>7, <1>9 DEF ManagedOK

LEMMA ReportsKept ==
  ASSUME ManagedOK, NEW c \in Fleet, Reports(c) PROVE ManagedOK'
<1>1. /\ status' = IF c \in agent THEN status \cup {c} ELSE status \ {c}
      /\ UNCHANGED <<main, rc, orders, queue, works, agent, history>> /\ Step' = Step
  BY DEF Reports, threadvars, Step
<1>2. /\ status' \subseteq Fleet /\ (c \in status' <=> c \in agent)
      /\ \A d \in Fleet : d # c => (d \in status' <=> d \in status)
  BY <1>1 DEF ManagedOK, ManagedTypeOK
<1>3. ManagedTypeOK'
  <2>1. ManagedTypeOK BY DEF ManagedOK
  <2> QED BY <1>1, <1>2, <2>1 DEF ManagedTypeOK, history
<1>4. \A d \in Fleet : Acting(d)' <=> Acting(d) BY <1>1 DEF Acting
<1>5. WorksInv' BY <1>1, <1>4 DEF ManagedOK, WorksInv
<1>6. \A d \in Fleet : (SaysSo(d) => SaysSo(d)') /\ (Turning(d) => Turning(d)')
  <2> SUFFICES ASSUME NEW d \in Fleet
               PROVE  (SaysSo(d) => SaysSo(d)') /\ (Turning(d) => Turning(d)')
    OBVIOUS
  <2>1. told' = told /\ agent' = agent /\ works' = works BY <1>1 DEF history
  <2>2. CASE d = c BY <1>1, <1>2, <2>1, <2>2 DEF SaysSo, Turning
  <2>3. CASE d # c BY <1>1, <1>2, <2>1, <2>3 DEF SaysSo, Turning
  <2> QED BY <2>2, <2>3
<1>7. ToldInv' BY <1>1, <1>4, <1>6 DEF ManagedOK, ToldInv, history
<1> QED BY <1>3, <1>5, <1>7 DEF ManagedOK

LEMMA ManagedNext ==
  ASSUME plugin = "managed", ManagedOK,
         \/ ErrandStep \/ \E c \in Fleet : Executes(c) \/ Reports(c)
         \/ UNCHANGED <<threadvars, errandvars>>
  PROVE  ManagedOK'
<1>1. CASE ErrandStep
  <2>1. ~(TakeSkew \/ SkewNode \/ SkewPod \/ CheckClock \/ HearClock \/ DeleteHelper)
    BY DEF TakeSkew, SkewNode, SkewPod, CheckClock, HearClock, DeleteHelper, Errand, At
  <2> QED BY <1>1, <2>1, TakeOrderKept, SendWorkKept, HearStatusKept, WithdrawWorkKept
          DEF ErrandStep
<1>2. CASE UNCHANGED <<threadvars, errandvars>>
  BY <1>2 DEF ManagedOK, ManagedTypeOK, WorksInv, ToldInv, Acting, SaysSo, Turning, Step,
     threadvars, errandvars, clusters, history
<1> QED BY <1>1, <1>2, ExecutesKept, ReportsKept

(* Clocks. *)
LEMMA TakeSkewKept ==
  ASSUME ClocksOK, TakeSkew PROVE ClocksOK'
<1> USE DEF Fails, Return, Goes
<1>1. /\ main = "entry" /\ orders \in Seq(Skew1) /\ queue \in Seq(ClockStep)
      /\ rc = 0 /\ helpers' = helpers /\ helpers = {}
  BY DEF TakeSkew, Errand, At, ClocksOK
<1>2. /\ orders' \in Seq(Skew1) /\ queue' \in Seq(ClockStep) /\ rc' \in {0, 1}
      /\ main' \in {"entry", "send", "returned"}
      /\ main' = "send" => queue' # <<>>
      /\ main' # "returned" => rc' = 0
  <2>1. CASE orders = <<>> /\ Return(0) /\ UNCHANGED <<orders, queue, glitches>>
    BY <1>1, <2>1
  <2>2. CASE /\ orders # <<>> /\ orders' = Tail(orders)
             /\ \E s \in SetToSeqs(Head(orders).objects) :
                  LET each(do) ==
                        [i \in DOMAIN s |-> [do |-> do, on |-> s[i], kind |-> Head(orders).kind]]
                  IN  queue' = each("skew") \o each("check")
             /\ Goes(IF queue' = <<>> THEN "entry" ELSE "send")
    <3>1. Head(orders) \in Skew1 /\ Tail(orders) \in Seq(Skew1)
      BY <1>1, <2>2, HeadTailProperties
    <3>2. PICK s \in SetToSeqs(Head(orders).objects) :
            LET each(do) ==
                  [i \in DOMAIN s |-> [do |-> do, on |-> s[i], kind |-> Head(orders).kind]]
            IN  queue' = each("skew") \o each("check")
      BY <2>2
    <3> DEFINE all == Head(orders).objects
               kind == Head(orders).kind
               each(do) == [i \in DOMAIN s |-> [do |-> do, on |-> s[i], kind |-> kind]]
    <3>3. all \subseteq Fleet /\ kind \in {"node", "pod"} BY <3>1 DEF Skew1
    <3>4. Cardinality(all) \in Nat BY <3>3, ErrandsAre, FS_Subset, FS_CardinalityType
    <3>5. s \in [1..Cardinality(all) -> all] BY <3>2 DEF SetToSeqs
    <3> HIDE DEF all, kind
    <3>6. \A do \in {"skew", "check"} : each(do) \in Seq(ClockStep)
      <4> SUFFICES ASSUME NEW do \in {"skew", "check"} PROVE each(do) \in Seq(ClockStep)
        OBVIOUS
      <4> DEFINE n == Cardinality(all)
      <4>1. \A i \in 1..n : [do |-> do, on |-> s[i], kind |-> kind] \in ClockStep
        BY <3>3, <3>5 DEF ClockStep
      <4>2. DOMAIN s = 1..n /\ n \in Nat BY <3>4, <3>5
      <4> HIDE DEF n
      <4>3. each(do) \in [1..n -> ClockStep] BY <4>1, <4>2
      <4> QED BY <4>2, <4>3
    <3>7. queue' = each("skew") \o each("check") BY <3>2 DEF kind
    <3> HIDE DEF each
    <3>8. queue' \in Seq(ClockStep) BY <3>6, <3>7
    <3> QED BY <1>1, <2>2, <3>1, <3>8
  <2>3. CASE Fails /\ UNCHANGED orders BY <1>1, <2>3
  <2> QED BY <2>1, <2>2, <2>3 DEF TakeSkew
<1> QED BY <1>1, <1>2 DEF ClocksOK

LEMMA ClockStepIs ==
  ASSUME ClocksOK, main \in {"send", "hear", "withdraw"}
  PROVE  /\ queue # <<>> /\ queue \in Seq(ClockStep)
         /\ Step.on \in Fleet /\ Step.kind \in {"node", "pod"}
<1>1. queue # <<>> /\ queue \in Seq(ClockStep) BY DEF ClocksOK
<1> QED BY <1>1, FirstStep DEF ClockStep

LEMMA AskKept ==
  ASSUME ClocksOK, SkewNode \/ SkewPod \/ CheckClock PROVE ClocksOK'
<1>1. main = "send" /\ UNCHANGED orders
  BY DEF SkewNode, SkewPod, CheckClock, Errand, At
<1>2. /\ queue # <<>> /\ queue \in Seq(ClockStep) /\ Step.on \in Fleet
      /\ rc = 0 /\ helpers = {}
  BY <1>1, ClockStepIs DEF ClocksOK
<1>3. CASE SkewNode
  <2>1. main' = "withdraw" /\ UNCHANGED <<rc, queue>> /\ Step' = Step
        /\ helpers' \in {helpers, helpers \cup {Step.on}}
    BY <1>3 DEF SkewNode, HelperTried, Goes, Step
  <2> QED BY <1>1, <1>2, <2>1 DEF ClocksOK
<1>4. CASE SkewPod
  <2>1. CASE NextStep
    <3>1. /\ queue' \in Seq(ClockStep) /\ main' \in {"entry", "send"} /\ rc' = rc
          /\ main' = "send" => queue' # <<>>
      BY <1>2, <2>1, NextStepIs
    <3> QED BY <1>1, <1>2, <1>4, <3>1 DEF ClocksOK, SkewPod
  <2>2. CASE Fails BY <1>1, <1>2, <1>4, <2>2 DEF ClocksOK, SkewPod, Fails, Return
  <2> QED BY <1>4, <2>1, <2>2 DEF SkewPod
<1>5. CASE CheckClock
  <2>1. queue' = queue /\ Step' = Step BY <1>5 DEF CheckClock, Step
  <2>2. CASE Goes("hear") /\ helpers' = IF Step.kind = "node" THEN helpers \cup {Step.on} ELSE helpers
    BY <1>1, <1>2, <2>1, <2>2 DEF ClocksOK, Goes
  <2>3. CASE Return(1) /\ helpers' \in {helpers, helpers \cup {Step.on}}
    BY <1>1, <1>2, <2>1, <2>3 DEF ClocksOK, Return
  <2> QED BY <1>5, <2>2, <2>3 DEF CheckClock, HelperTried
<1> QED BY <1>3, <1>4, <1>5

LEMMA AnswerKept ==
  ASSUME ClocksOK, HearClock \/ DeleteHelper PROVE ClocksOK'
<1>1. main \in {"hear", "withdraw"} /\ UNCHANGED orders
  BY DEF HearClock, DeleteHelper, Errand, At
<1>2. /\ queue # <<>> /\ queue \in Seq(ClockStep) /\ Step.on \in Fleet
      /\ rc = 0 /\ helpers \subseteq Fleet
  BY <1>1, ClockStepIs DEF ClocksOK
<1>3. ASSUME NextStep, helpers' = {} PROVE ClocksOK'
  <2>1. /\ queue' \in Seq(ClockStep) /\ main' \in {"entry", "send"} /\ rc' = rc
        /\ main' = "send" => queue' # <<>>
    BY <1>2, <1>3, NextStepIs
  <2> QED BY <1>1, <1>2, <1>3, <2>1 DEF ClocksOK
<1>4. ASSUME Fails, helpers' = helpers PROVE ClocksOK'
  BY <1>1, <1>2, <1>4 DEF ClocksOK, Fails, Return
<1>5. CASE HearClock
  <2>1. /\ main = "hear" /\ helpers' = helpers
        /\ helpers = IF Step.kind = "node" THEN {Step.on} ELSE {}
    BY <1>5 DEF HearClock, Errand, At, ClocksOK
  <2>2. CASE Step.kind = "node" /\ Goes("withdraw") /\ UNCHANGED queue
    BY <1>1, <1>2, <2>1, <2>2 DEF ClocksOK, Goes, Step
  <2>3. CASE Step.kind # "node" /\ NextStep BY <1>2, <1>3, <2>1, <2>3
  <2>4. CASE UNCHANGED <<threadvars, queue>>
    BY <1>1, <1>2, <2>1, <2>4 DEF ClocksOK, threadvars, Step
  <2> QED BY <1>4, <1>5, <2>1, <2>2, <2>3, <2>4 DEF HearClock
<1>6. CASE DeleteHelper
  <2>1. main = "withdraw" /\ helpers \subseteq {Step.on}
    BY <1>6 DEF DeleteHelper, Errand, At, ClocksOK
  <2> QED BY <1>2, <1>3, <1>4, <1>6, <2>1 DEF DeleteHelper
<1> QED BY <1>5, <1>6

(* There is no work and no cluster to report of but for managed_cluster.   *)
LEMMA AgentsRest ==
  ASSUME AtRest, NEW c \in Fleet PROVE ~Executes(c) /\ ~Reports(c)
<1>1. works[c] = "none" /\ c \in agent /\ status \cup {c} = status BY DEF AtRest
<1> QED BY <1>1 DEF Executes, Reports

LEMMA ClocksNext ==
  ASSUME plugin = "clocks", ClocksOK, ErrandStep \/ UNCHANGED <<threadvars, errandvars>>
  PROVE  ClocksOK'
<1>1. CASE ErrandStep
  <2>1. ~(TakeOrder \/ SendWork \/ HearStatus \/ WithdrawWork)
    BY DEF TakeOrder, SendWork, HearStatus, WithdrawWork, Errand, At
  <2> QED BY <1>1, <2>1, TakeSkewKept, AskKept, AnswerKept DEF ErrandStep
<1>2. CASE UNCHANGED <<threadvars, errandvars>>
  BY <1>2 DEF ClocksOK, Step, threadvars, errandvars
<1> QED BY <1>1, <1>2

LEMMA ClustersRest ==
  ASSUME plugin = "clocks", ErrandStep PROVE UNCHANGED clusters
BY DEF ErrandStep, TakeOrder, SendWork, HearStatus, WithdrawWork, TakeSkew, SkewNode, SkewPod,
   CheckClock, HearClock, DeleteHelper, Errand, At

LEMMA HelpersRest ==
  ASSUME plugin = "managed", ErrandStep \/ \E c \in Fleet : Executes(c) \/ Reports(c)
  PROVE  UNCHANGED helpers
BY DEF ErrandStep, TakeOrder, SendWork, HearStatus, WithdrawWork, TakeSkew, SkewNode, SkewPod,
   CheckClock, HearClock, DeleteHelper, Errand, At, Executes, Reports

LEMMA ErrandsInvNext == ErrandsInv /\ [Next]_vars => ErrandsInv'
<1> SUFFICES ASSUME ErrandsInv, [Next]_vars PROVE ErrandsInv' OBVIOUS
<1>1. plugin' = plugin BY OneScenario
<1>2. CASE plugin = "managed"
  <2>1. plugin \in Errander BY <1>2 DEF Errander
  <2>2. \/ ErrandStep \/ \E c \in Fleet : Executes(c) \/ Reports(c)
        \/ UNCHANGED <<threadvars, errandvars>>
    BY <2>1, OneScenario
  <2>3. ManagedOK' BY <1>2, <2>2, ManagedNext DEF ErrandsInv
  <2>4. helpers' = {} BY <1>2, <2>2, HelpersRest DEF ErrandsInv, errandvars
  <2> QED BY <1>1, <1>2, <2>3, <2>4 DEF ErrandsInv
<1>3. CASE plugin = "clocks"
  <2>1. plugin \in Errander /\ AtRest /\ ClocksOK BY <1>3 DEF Errander, ErrandsInv
  <2>2. ErrandStep \/ UNCHANGED <<threadvars, errandvars>>
    <3>1. \/ ErrandStep \/ \E c \in Fleet : Executes(c) \/ Reports(c)
          \/ UNCHANGED <<threadvars, errandvars>>
      BY <2>1, OneScenario
    <3> QED BY <2>1, <3>1, AgentsRest
  <2>3. ClocksOK' BY <1>3, <2>1, <2>2, ClocksNext
  <2>4. AtRest' BY <1>3, <2>1, <2>2, ClustersRest DEF AtRest, clusters, errandvars
  <2> QED BY <1>1, <1>3, <2>3, <2>4 DEF ErrandsInv
<1>4. CASE plugin \notin {"managed", "clocks"}
  <2>1. AtRest /\ helpers = {} /\ plugin \notin Errander BY <1>4 DEF Errander, ErrandsInv
  <2>2. UNCHANGED errandvars BY <2>1, OthersRest, AgentsRest
  <2> QED BY <1>1, <1>4, <2>1, <2>2 DEF ErrandsInv, AtRest, errandvars, clusters
<1> QED BY <1>2, <1>3, <1>4

LEMMA ErrandsInvAlways == Spec => []ErrandsInv
BY ErrandsInit1, ErrandsInvNext, PTL DEF Spec

(* A scenario that returns 0 has taken back what it did: what is left of a *)
(* deploying one are the pods that are meant to stay, and the limits that  *)
(* a reset of storage_throttle did not lift, unseen; time_actions has      *)
(* deleted every pod that it made; and the agents of managed clusters are  *)
(* as these were told last, if no wait for a status timed out.             *)
THEOREM SuccessUndoesAlways == Spec => []SuccessUndoes
<1>1. ASSUME DeployInv, main = "returned", rc = 0, plugin \in Deployer
      PROVE  /\ \A t \in made : t[1] = "pod" \/ t \in unreached
             /\ plugin \in {"hogs", "hijacking", "pvc"} => made = {}
             /\ plugin = "syn_flood" => live = {}
             /\ plugin = "throttle" =>
                  made \subseteq unreached \cup (IF slips = 0 THEN {} ELSE {PodOf(1, 1)})
  <2>1. AfterSuccess /\ DeployTypeOK BY <1>1 DEF DeployInv
  <2>2. \A t \in made : Stays(t) \/ t \in unreached BY <1>1, <2>1 DEF AfterSuccess
  <2>3. \A t \in made : t[1] = "pod" \/ t \in unreached BY <2>2 DEF Stays, PodOf
  <2>4. plugin # "throttle" => unreached = {} BY <1>1, <2>1 DEF DeployTypeOK, Rolling
  <2>5. plugin \in {"hogs", "hijacking", "pvc"} => made = {} BY <2>2, <2>4 DEF Stays
  <2>6. plugin = "throttle" =>
          made \subseteq unreached \cup (IF slips = 0 THEN {} ELSE {PodOf(1, 1)})
    BY <1>1, <2>1, <2>2 DEF AfterSuccess, Stays
  <2>7. plugin = "syn_flood" => live = {} BY <1>1, <2>1 DEF AfterSuccess
  <2> QED BY <2>3, <2>5, <2>6, <2>7
<1>2. ASSUME ErrandsInv, main = "returned", rc = 0, plugin = "managed", NEW c \in Fleet
      PROVE  works[c] = "none" /\ (missed \/ (told[c] = "up" <=> c \in agent))
  <2>1. WorksInv /\ ToldInv /\ missed \in BOOLEAN /\ ~Acting(c)
    BY <1>2 DEF ErrandsInv, ManagedOK, ManagedTypeOK, Acting
  <2>2. works[c] = "none" BY <1>2, <2>1 DEF WorksInv
  <2>3. ~missed => SaysSo(c) BY <1>2, <2>1 DEF ToldInv
  <2> QED BY <2>1, <2>2, <2>3 DEF SaysSo
<1>3. ASSUME ErrandsInv, main = "returned", rc = 0, plugin = "clocks" PROVE helpers = {}
  BY <1>3 DEF ErrandsInv, ClocksOK
<1>4. ASSUME main = "returned", DeployInv, ErrandsInv, rc = 0 PROVE SuccessUndoes
  <2>1. plugin \in {"hogs", "hijacking", "pvc", "syn_flood", "throttle"} => plugin \in Deployer
    BY DEF Deployer
  <2> QED BY <1>1, <1>2, <1>3, <1>4, <2>1 DEF SuccessUndoes
<1>5. DeployInv /\ ErrandsInv => SuccessUndoes BY <1>4 DEF SuccessUndoes
<1> QED BY <1>5, DeployInvAlways, ErrandsInvAlways, PTL

-----------------------------------------------------------------------------
(* The type invariant of all of them: what the invariants above leave out, *)
(* and what a scenario that does not run keeps at rest.                    *)
TypesInv ==
  /\ plugin \in Shaper \cup {"network_ng"} \cup Deployer \cup Killer \cup Errander
  /\ rc \in {0, 1} /\ polls \in 0..Polls
  /\ plugin \notin Shaper => turn = 1 /\ listed = {} /\ fresh = {} /\ doomed = {}
  /\ plugin # "network_ng" => \A v \in Victim : squad[v].k \in Nat
  /\ plugin \in Deployer =>
       named \subseteq Thing /\ \A h \in DOMAIN hands : hands[h].i \in DOMAIN StepsOf(h)
  /\ plugin \notin Deployer => hands = <<>> /\ made = {} /\ live = {} /\ named = {}
  /\ plugin \notin Killer => sent = {}

LEMMA TypesInit == Init => TypesInv
<1> SUFFICES ASSUME Init PROVE TypesInv OBVIOUS
<1>1. /\ plugin \in Shaper \cup {"network_ng"} \cup Deployer \cup Killer \cup Errander
      /\ rc = 0
  BY DEF Init
<1>2. polls \in 0..Polls /\ sent = {}
  BY KillsAssumption DEF KillsAssumption, Init, KillsStart, KillsIdle, KillsInit
<1>3. turn = 1 /\ listed = {} /\ fresh = {} /\ doomed = {}
  BY DEF Init, ShapeStarts, ShapeIdle, ShapeInit
<1>4. \A v \in Victim : squad[v].k \in Nat
  BY DEF Init, ModulesStart, ModulesIdle, ModulesInit, NewWorker
<1>5. hands = <<>> /\ made = {} /\ live = {} /\ named = {}
  BY DEF Init, DeployStarts, DeployIdle, DeployInit
<1>6. \A h \in DOMAIN hands : hands[h].i \in DOMAIN StepsOf(h)
  <2>1. DOMAIN hands = {} BY <1>5
  <2> QED BY <2>1
<1> QED BY <1>1, <1>2, <1>3, <1>4, <1>5, <1>6 DEF TypesInv

LEMMA ModulesTyped ==
  ASSUME rc \in {0, 1}, ModulesStep \/ \E v \in Victim : Recovers(v) PROVE rc' \in {0, 1}
BY DEF ModulesStep, NextConfig, JoinModules, ModuleStep, Deploy, Examine, Apply, Clean, Undo,
   Cleans, DeletePod, UndoPod, Removes, Down, Poll, Recovers, Same, Goes, Return, threadvars

LEMMA KillsReturn ==
  ASSUME rc \in {0, 1}, KillStep PROVE rc' \in {0, 1}
BY DEF KillStep, Lists, ChoosePods, KillPod, AwaitPods, Settle, KillContainer, EmptyNamespace,
   ChooseVm, DeleteVm, AwaitNew, AwaitNewBreaks, AwaitPhase, Awaits, VmBreaks, VmEntryEnds, NextVm,
   Finished1, Goes, Return, Raises, threadvars

LEMMA PollsTyped ==
  ASSUME polls \in 0..Polls, KillStep PROVE polls' \in 0..Polls
<1>1. Polls \in Nat BY KillsAssumption DEF KillsAssumption
<1>2. polls' \in {polls, 0} \/ (polls < Polls /\ polls' = polls + 1)
  BY DEF KillStep, Lists, ChoosePods, KillPod, AwaitPods, Settle, KillContainer, EmptyNamespace,
     ChooseVm, DeleteVm, AwaitNew, AwaitNewBreaks, AwaitPhase, Awaits, VmBreaks
<1> QED BY <1>1, <1>2

(* The steps of the hands are set before they start, and not changed after *)
(* they have ended; a kill of the process ends them. *)
LEMMA HandsRest ==
  ASSUME \/ DeployStep \/ KilledNow \/ Signalled \/ \E t \in live : Finishes(t)
         \/ UNCHANGED <<threadvars, deployvars>>
  PROVE  /\ units' = units
         /\ named' = named \/ \E h \in DOMAIN hands : HandStep(h) /\ named' = At1(h).on
         /\ \/ hands' = <<>> \/ hands' = hands \/ main' = "hands"
            \/ \E h \in DOMAIN hands : HandStep(h)
<1>1. CASE DeployStep
  <2>1. CASE BeginDeploy
    BY <2>1 DEF BeginDeploy, Deploying, At, Goes, Return
  <2>2. CASE JoinHands \/ Lifts \/ CleansPod \/ RollBack \/ NameErrors \/ Rolls \/ RolledBack
    BY <2>2 DEF JoinHands, Lifts, CleansPod, RollBack, NameErrors, Rolls, RolledBack, Goes, Return,
       Raises, threadvars, deployvars
  <2>3. ASSUME NEW h \in DOMAIN hands, HandStep(h)
        PROVE  units' = units /\ (named' = named \/ named' = At1(h).on)
    BY <2>3 DEF HandStep, Passes, Makes, Registers, Unmakes, Trips, Does, Kept
  <2> QED BY <1>1, <2>1, <2>2, <2>3 DEF DeployStep
<1>2. CASE KilledNow \/ Signalled BY <1>2 DEF KilledNow, Signalled
<1>3. CASE \E t \in live : Finishes(t) BY <1>3 DEF Finishes, threadvars
<1>4. CASE UNCHANGED <<threadvars, deployvars>> BY <1>4 DEF threadvars, deployvars
<1> QED BY <1>1, <1>2, <1>3, <1>4

LEMMA HandsTyped ==
  ASSUME plugin \in Deployer, DeployInv, HandsInv
  PROVE  /\ \A h \in DOMAIN hands : hands[h].i \in DOMAIN StepsOf(h)
         /\ \A h \in DOMAIN hands : At1(h).on \subseteq Thing
<1>1. DeployTypeOK /\ HandsOK BY DEF DeployInv, HandsInv
<1> SUFFICES ASSUME NEW h \in DOMAIN hands
             PROVE  hands[h].i \in DOMAIN StepsOf(h) /\ At1(h).on \subseteq Thing
  OBVIOUS
<1>2. h \in Crew BY <1>1 DEF HandsOK
<1>3. hands[h].i \in 1..Len(StepsOf(h)) /\ At1(h) \in Instruction /\ StepsOf(h) \in Seq(Instruction)
  BY <1>1, <1>2, HandIsAt DEF Proper
<1> QED BY <1>3 DEF Instruction

LEMMA DeploysTyped ==
  ASSUME plugin \in Deployer, plugin' = plugin, DeployInv, DeployInv', named \subseteq Thing,
         \A h \in DOMAIN hands : hands[h].i \in DOMAIN StepsOf(h),
         \/ DeployStep \/ KilledNow \/ Signalled \/ \E t \in live : Finishes(t)
         \/ UNCHANGED <<threadvars, deployvars>>
  PROVE  /\ named' \subseteq Thing
         /\ \A h \in DOMAIN hands' : hands'[h].i \in DOMAIN StepsOf(h)'
<1>1. units' = units BY HandsRest
<1>2. named' \subseteq Thing
  <2>1. CASE named' = named BY <2>1
  <2>2. ASSUME NEW h \in DOMAIN hands, HandStep(h), named' = At1(h).on
        PROVE  named' \subseteq Thing
    <3>1. HandsInv BY <2>2, HandStepKeeps
    <3> QED BY <2>2, <3>1, HandsTyped
  <2> QED BY <2>1, <2>2, HandsRest
<1>3. Crew' = Crew /\ \A h : StepsOf(h)' = StepsOf(h) BY <1>1, StepsStay
<1>4. CASE main' = "hands" \/ \E h \in DOMAIN hands : HandStep(h)
  <2>1. HandsOK' /\ units \in Nat \ {0}
    <3>1. units \in Nat \ {0} BY DEF DeployInv, DeployTypeOK
    <3>2. CASE main' = "hands" BY <3>1, <3>2 DEF DeployInv, HandsInv
    <3>3. ASSUME NEW h \in DOMAIN hands, HandStep(h) PROVE HandsOK'
      BY <3>3, HandStepKeeps DEF HandsInv
    <3> QED BY <1>4, <3>1, <3>2, <3>3
  <2>2. DOMAIN hands' = Crew /\ \A h \in Crew : hands'[h].i \in 1..Len(StepsOf(h))
    BY <1>3, <2>1 DEF HandsOK
  <2>3. \A h \in Crew : StepsOf(h) \in Seq(Instruction) BY <2>1, CrewIs DEF Proper
  <2> QED BY <1>2, <1>3, <2>2, <2>3
<1>5. CASE hands' = <<>>
  <2>1. DOMAIN hands' = {} BY <1>5
  <2> QED BY <1>2, <2>1
<1>6. CASE hands' = hands BY <1>2, <1>3, <1>6
<1> QED BY <1>4, <1>5, <1>6, HandsRest

(* Killers and modules apart, the invariants above type rc. *)
LEMMA RcTyped ==
  ASSUME TypesInv, [Next]_vars, ShapeInv', DeployInv', ErrandsInv' PROVE rc' \in {0, 1}
<1>1. plugin' = plugin /\ rc \in {0, 1} BY OneScenario DEF TypesInv
<1>2. CASE plugin \in Shaper BY <1>1, <1>2 DEF ShapeInv, ShapeOK, ShapeTypeOK
<1>3. CASE plugin = "network_ng"
  <2>1. ModulesStep \/ (\E v \in Victim : Recovers(v)) \/ UNCHANGED <<threadvars, ngvars>>
    BY <1>3, OneScenario
  <2> QED BY <1>1, <2>1, ModulesTyped DEF threadvars
<1>4. CASE plugin \in Deployer BY <1>1, <1>4 DEF DeployInv, DeployTypeOK
<1>5. CASE plugin \in Killer
  <2>1. KillStep \/ (\E t \in Quarry : ComesBack(t)) \/ UNCHANGED <<threadvars, killvars>>
    BY <1>5, OneScenario
  <2>2. CASE KillStep BY <1>1, <2>2, KillsReturn
  <2>3. CASE (\E t \in Quarry : ComesBack(t)) \/ UNCHANGED <<threadvars, killvars>>
    BY <1>1, <2>3 DEF ComesBack, threadvars
  <2> QED BY <2>1, <2>2, <2>3
<1>6. CASE plugin \in Errander
  BY <1>1, <1>6 DEF Errander, ErrandsInv, ManagedOK, ManagedTypeOK, ClocksOK
<1> QED BY <1>2, <1>3, <1>4, <1>5, <1>6 DEF TypesInv

LEMMA TypesNext ==
  ASSUME TypesInv, ShapeInv, DeployInv, ShapeInv', DeployInv', ErrandsInv', [Next]_vars
  PROVE  TypesInv'
<1>1. plugin' = plugin BY OneScenario
<1>2. rc' \in {0, 1} BY RcTyped
<1>3. polls' \in 0..Polls /\ (plugin \notin Killer => sent' = {})
  <2>1. CASE plugin \in Killer
    <3>1. KillStep \/ (\E t \in Quarry : ComesBack(t)) \/ UNCHANGED <<threadvars, killvars>>
      BY <2>1, OneScenario
    <3>2. CASE KillStep BY <2>1, <3>2, PollsTyped DEF TypesInv
    <3>3. CASE (\E t \in Quarry : ComesBack(t)) \/ UNCHANGED <<threadvars, killvars>>
      BY <2>1, <3>3 DEF TypesInv, ComesBack, killvars
    <3> QED BY <3>1, <3>2, <3>3
  <2>2. CASE plugin \notin Killer
    <3>1. UNCHANGED killvars \/ \E t \in Quarry : ComesBack(t) BY <2>2, OthersRest
    <3>2. UNCHANGED <<polls, sent>> BY <3>1 DEF ComesBack, killvars
    <3> QED BY <2>2, <3>2 DEF TypesInv
  <2> QED BY <2>1, <2>2
<1>4. plugin \notin Shaper => turn' = 1 /\ listed' = {} /\ fresh' = {} /\ doomed' = {}
  <2> SUFFICES ASSUME plugin \notin Shaper
               PROVE  turn' = 1 /\ listed' = {} /\ fresh' = {} /\ doomed' = {}
    OBVIOUS
  <2>1. UNCHANGED shapevars \/ \E j \in Job : Strikes(j) BY OthersRest
  <2>2. UNCHANGED <<turn, listed, fresh, doomed>>
    BY <2>1 DEF Strikes, shapevars, progress, lists
  <2> QED BY <2>2 DEF TypesInv
<1>5. plugin # "network_ng" => \A v \in Victim : squad'[v].k \in Nat
  <2> SUFFICES ASSUME plugin # "network_ng" PROVE \A v \in Victim : squad'[v].k \in Nat
    OBVIOUS
  <2>1. UNCHANGED ngvars \/ \E v \in Victim : Recovers(v) BY OthersRest
  <2>2. squad' = squad BY <2>1 DEF Recovers, ngvars
  <2> QED BY <2>2 DEF TypesInv
<1>6. plugin \in Deployer =>
        named' \subseteq Thing /\ \A h \in DOMAIN hands' : hands'[h].i \in DOMAIN StepsOf(h)'
  BY <1>1, OneScenario, DeploysTyped DEF TypesInv
<1>7. plugin \notin Deployer => hands' = <<>> /\ made' = {} /\ live' = {} /\ named' = {}
  <2> SUFFICES ASSUME plugin \notin Deployer
               PROVE  hands' = <<>> /\ made' = {} /\ live' = {} /\ named' = {}
    OBVIOUS
  <2>1. UNCHANGED deployvars \/ \E t \in live : Finishes(t) BY OthersRest
  <2>2. live = {} BY DEF TypesInv
  <2>3. UNCHANGED <<hands, made, live, named>> BY <2>1, <2>2 DEF deployvars, clustervars
  <2> QED BY <2>3 DEF TypesInv
<1> QED BY <1>1, <1>2, <1>3, <1>4, <1>5, <1>6, <1>7 DEF TypesInv

LEMMA TypesInvAlways == Spec => []TypesInv
<1>1. /\ TypesInv /\ ShapeInv /\ DeployInv /\ ShapeInv' /\ DeployInv' /\ ErrandsInv' /\ [Next]_vars
      => TypesInv'
  BY TypesNext
<1> QED BY <1>1, TypesInit, ShapeInvAlways, DeployInvAlways, ErrandsInvAlways, PTL DEF Spec

(* Where the thread of a scenario can be, what it returns, and what the    *)
(* scenario keeps: jobs, modules, the steps of hands, the version file,    *)
(* kills, polls and managed clusters, for all values of the constants.     *)
THEOREM DisruptionsInvAlways == Spec => []DisruptionsInv
<1> DEFINE Mains == {"entry", "round", "create", "wait", "clear", "lift", "delete", "modules",
                     "hands", "lifting", "clean_pod", "killed", "rolling", "rolled", "choose",
                     "kill", "settle", "gone", "phase", "send", "hear", "withdraw", "returned",
                     "exited"}
<1>1. ASSUME ShapeInv, NgInv, DeployInv, KillsInv, ErrandsInv, TypesInv PROVE DisruptionsInv
  <2>1. main \in Mains
    <3>1. plugin \in Shaper => main \in Mains
      BY <1>1 DEF ShapeInv, ShapeOK, ShapeTypeOK, Early, Late
    <3>2. plugin = "network_ng" => main \in Mains BY <1>1 DEF NgInv, EntriesInv
    <3>3. plugin \in Deployer => main \in Mains BY <1>1 DEF DeployInv, DeployTypeOK
    <3>4. plugin \in Killer => main \in Mains
      BY <1>1 DEF KillsInv, PodsInv, CountInv, VmsInv, Killer
    <3>5. plugin \in Errander => main \in Mains
      BY <1>1 DEF ErrandsInv, ManagedOK, ManagedTypeOK, ClocksOK, Errander
    <3> QED BY <1>1, <3>1, <3>2, <3>3, <3>4, <3>5 DEF TypesInv
  <2>2. /\ turn \in 1..Rounds /\ job \in [Job -> JobT] /\ listed \cup fresh \cup doomed \subseteq Job
    <3>1. CASE plugin \in Shaper BY <1>1, <3>1 DEF ShapeInv, ShapeOK, ShapeTypeOK
    <3>2. CASE plugin \notin Shaper
      <4>1. job = [j \in Job |-> [st |-> "none", age |-> 0]] BY <1>1, <3>2 DEF ShapeInv, Unshaped
      <4>2. [st |-> "none", age |-> 0] \in JobT
        BY ShapingAssumption DEF ShapingAssumption, JobT, JobStates
      <4>3. job \in [Job -> JobT] BY <4>1, <4>2
      <4> QED BY <1>1, <3>2, <4>3 DEF TypesInv, Rounds
    <3> QED BY <3>1, <3>2
  <2>3. \A v \in Victim : squad[v].k \in Nat
    <3>1. plugin = "network_ng" => \A v \in Victim : squad[v].k \in Nat
      BY <1>1 DEF NgInv, NgTypeOK, NgWorker
    <3> QED BY <1>1, <3>1 DEF TypesInv
  <2>4. /\ live \subseteq made /\ named \subseteq {"pod", "change"} \X Nat \X Nat
        /\ \A h \in DOMAIN hands : hands[h].i \in DOMAIN StepsOf(h)
    <3>1. CASE plugin \in Deployer BY <1>1, <3>1 DEF DeployInv, DeployTypeOK, TypesInv, Thing
    <3>2. CASE plugin \notin Deployer
      <4>1. hands = <<>> /\ live = {} /\ named = {} BY <1>1, <3>2 DEF TypesInv
      <4>2. DOMAIN hands = {} BY <4>1
      <4> QED BY <4>1, <4>2
    <3> QED BY <3>1, <3>2
  <2>5. sent \subseteq Quarry BY <1>1 DEF KillsInv, KillsTypeOK, TypesInv
  <2>6. /\ works \in [Fleet -> {"none", "up", "down", "ran"}]
        /\ agent \cup status \cup helpers \subseteq Fleet
    <3>1. CASE plugin = "managed" BY <1>1, <3>1 DEF ErrandsInv, ManagedOK, ManagedTypeOK
    <3>2. CASE plugin # "managed"
      <4>1. AtRest /\ helpers \subseteq Fleet BY <1>1, <3>2 DEF ErrandsInv, ClocksOK
      <4> QED BY <4>1 DEF AtRest
    <3> QED BY <3>1, <3>2
  <2> QED BY <1>1, <2>1, <2>2, <2>3, <2>4, <2>5, <2>6 DEF DisruptionsInv, TypesInv, JobT, JobStates
<1> QED BY <1>1, ShapeInvAlways, NgInvAlways, DeployInvAlways, KillsInvAlways, ErrandsInvAlways,
           TypesInvAlways, PTL
=============================================================================
