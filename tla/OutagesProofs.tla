---------------------------- MODULE OutagesProofs ----------------------------
(***************************************************************************)
(* Proofs about the scenarios that act on the machines of a cluster: for   *)
(* any machines, any file of node scenarios, any number of repetitions,    *)
(* and a cloud that takes, refuses or forgets what it is asked.            *)
(***************************************************************************)
EXTENDS Outages, FiniteSetTheorems, SequenceTheorems, TLAPS

-----------------------------------------------------------------------------
(* The programs: what is known of the steps of a method.                   *)

Deeds == {"pass", "lookup", "kube", "sleep", "disks", "nic", "service", "merge", "wrong", "ask",
          "await", "gone", "record", "kubelet", "detach", "attach", "group", "block", "unblock",
          "drop", "missing"}
Hows == {"raise", "escape", "exit", "on", "nowait", "timeout", "none"}
Wanted == {"running", "stopped", "deleted", "reboot"}
Aims == Wanted \cup {"none", "True", "False", "Unknown", "up", "down", "now", "later"}
StepT == {s \in [do : Deeds, to : Aims, bad : SUBSET Hows] : s.do = "ask" => s.to \in Wanted}
Steps1 == Seq(StepT) \ {<<>>}
MethodT == [steps : Steps1, onError : {"raise", "skip", "record"}]

HasAsk(steps) == \E j \in DOMAIN steps : steps[j].do = "ask"
(* A refused request raises (or exits), and nothing else lets the method   *)
(* go on than a wait that gave up.                                         *)
Tells(steps) ==
  \A j \in DOMAIN steps :
    /\ steps[j].bad \subseteq {"raise", "exit", "timeout", "on"}
    /\ steps[j].do = "ask" => steps[j].bad \subseteq {"raise", "exit"}
(* A node is recorded after a request. *)
AskedFirst(steps) ==
  \A i \in DOMAIN steps : steps[i].do = "record" => \E j \in 1..(i - 1) : steps[j].do = "ask"

LEMMA ModIs ==
  ASSUME NEW a \in Nat, NEW n \in Nat, n > 0
  PROVE  /\ a % n \in 0..(n - 1) /\ a % n <= a
         /\ \A i \in 0..(a % n) : (a - i) % n = (a % n) - i
<1>1. a % n \in 0..(n - 1) OBVIOUS
<1>2. a % n <= a OBVIOUS
<1>3. \A i \in 0..(a % n) : (a - i) % n = (a % n) - i OBVIOUS
<1> QED BY <1>1, <1>2, <1>3

(* The k-th step of a loop is a step of its body, and the steps before it  *)
(* in the body come just before it in the loop.                            *)
LEMMA RepeatIs ==
  ASSUME NEW S, NEW b \in Seq(S), b # <<>>
  PROVE  /\ Repeat(b) \in Seq(S) /\ Repeat(b) # <<>>
         /\ \A k \in DOMAIN Repeat(b) :
              \E j \in 1..Len(b) :
                 j <= k /\ \A i \in 0..(j - 1) : /\ k - i \in DOMAIN Repeat(b)
                                                 /\ Repeat(b)[k - i] = b[j - i]
         /\ \A k \in 1..Len(b) : k \in DOMAIN Repeat(b) /\ Repeat(b)[k] = b[k]
<1> DEFINE n == Len(b)
           N == Runs * n
           idx(k) == ((k - 1) % n) + 1
<1>1. n \in Nat /\ n > 0 /\ \A j \in 1..n : b[j] \in S BY EmptySeq
<1>2. N \in Nat /\ N >= n BY <1>1, RunsAssumption DEF RunsAssumption
<1>3. Repeat(b) = [k \in 1..N |-> b[idx(k)]] BY DEF Repeat
<1> HIDE DEF n, N
<1>4. ASSUME NEW k \in 1..N
      PROVE  /\ idx(k) \in 1..n /\ idx(k) <= k
             /\ \A i \in 0..(idx(k) - 1) : k - i \in 1..N /\ idx(k - i) = idx(k) - i
             /\ k <= n => idx(k) = k
  <2>1. k - 1 \in Nat BY <1>2
  <2> DEFINE r == (k - 1) % n
  <2>2. r \in 0..(n - 1) /\ r <= k - 1 /\ \A i \in 0..r : (k - 1 - i) % n = r - i
    BY <1>1, <2>1, ModIs
  <2> HIDE DEF r
  <2>3. idx(k) = r + 1 BY DEF r
  <2>4. ASSUME NEW i \in 0..r PROVE k - i \in 1..N /\ idx(k - i) = (r + 1) - i
    <3>1. (k - i) - 1 = k - 1 - i BY <1>2, <2>2
    <3>2. k - i \in 1..N BY <1>2, <2>2
    <3> QED BY <1>1, <2>2, <3>1, <3>2
  <2>5. k <= n => r = k - 1 BY <1>1, <2>1 DEF r
  <2>6. (r + 1) - 1 = r BY <1>1, <2>2
  <2> QED BY <1>1, <2>1, <2>2, <2>3, <2>4, <2>5, <2>6
<1>5. DOMAIN Repeat(b) = 1..N /\ \A k \in 1..N : Repeat(b)[k] = b[idx(k)] BY <1>3
<1>6. Repeat(b) \in Seq(S)
  <2>1. \A k \in 1..N : b[idx(k)] \in S BY <1>1, <1>4
  <2> HIDE DEF idx
  <2>2. [k \in 1..N |-> b[idx(k)]] \in Seq(S) BY <1>2, <2>1, IsASeq
  <2> QED BY <2>2, <1>3
<1> HIDE DEF idx
<1>7. Repeat(b) # <<>> BY <1>1, <1>2, <1>5
<1>8. ASSUME NEW k \in 1..N
      PROVE  \E j \in 1..n : j <= k /\ \A i \in 0..(j - 1) : /\ k - i \in 1..N
                                                             /\ Repeat(b)[k - i] = b[j - i]
  <2>1. \A i \in 0..(idx(k) - 1) : k - i \in 1..N /\ Repeat(b)[k - i] = b[idx(k) - i]
    BY <1>4, <1>5
  <2> QED BY <1>4, <2>1
<1>9. \A k \in 1..n : k \in 1..N /\ Repeat(b)[k] = b[k]
  <2>1. \A k \in 1..n : k \in 1..N BY <1>1, <1>2
  <2> QED BY <2>1, <1>4, <1>5
<1> QED BY <1>5, <1>6, <1>7, <1>8, <1>9 DEF n

LEMMA LoopIs ==
  ASSUME NEW b \in Steps1, NEW e \in {"raise", "skip", "record"}
  PROVE  /\ Loop(b, e) \in MethodT /\ Loop(b, e).onError = e
         /\ Tells(b) => Tells(Loop(b, e).steps)
         /\ AskedFirst(b) => AskedFirst(Loop(b, e).steps)
         /\ HasAsk(b) => HasAsk(Loop(b, e).steps)
<1> DEFINE r == Repeat(b)
<1>1. b \in Seq(StepT) /\ b # <<>> /\ DOMAIN b = 1..Len(b) /\ Len(b) \in Nat BY DEF Steps1
<1>2. /\ r \in Seq(StepT) /\ r # <<>>
      /\ \A k \in DOMAIN r :
           \E j \in 1..Len(b) :
              j <= k /\ \A i \in 0..(j - 1) : k - i \in DOMAIN r /\ r[k - i] = b[j - i]
      /\ \A k \in 1..Len(b) : k \in DOMAIN r /\ r[k] = b[k]
  BY <1>1, RepeatIs
<1>3. DOMAIN r = 1..Len(r) /\ Len(r) \in Nat BY <1>2
<1>4. Loop(b, e) = [steps |-> r, onError |-> e] BY DEF Loop, Method
<1> HIDE DEF r
<1>5. Loop(b, e) \in MethodT /\ Loop(b, e).onError = e /\ Loop(b, e).steps = r
  BY <1>2, <1>4 DEF MethodT, Steps1
<1>6. ASSUME NEW k \in DOMAIN r PROVE \E j \in DOMAIN b : r[k] = b[j]
  <2>1. PICK j \in 1..Len(b) : \A i \in 0..(j - 1) : r[k - i] = b[j - i] BY <1>2
  <2>2. 0 \in 0..(j - 1) /\ k - 0 = k /\ j - 0 = j BY <1>1, <1>3
  <2> QED BY <1>1, <2>1, <2>2
<1>7. ASSUME Tells(b) PROVE Tells(r) BY <1>6, <1>7 DEF Tells
<1>8. ASSUME AskedFirst(b) PROVE AskedFirst(r)
  <2> SUFFICES ASSUME NEW k \in DOMAIN r, r[k].do = "record"
               PROVE  \E l \in 1..(k - 1) : r[l].do = "ask"
    BY DEF AskedFirst
  <2>1. PICK j \in 1..Len(b) :
          j <= k /\ \A i \in 0..(j - 1) : k - i \in DOMAIN r /\ r[k - i] = b[j - i]
    BY <1>2
  <2>2. 0 \in 0..(j - 1) /\ k - 0 = k /\ j - 0 = j /\ k \in Nat BY <1>1, <1>3
  <2>3. b[j].do = "record" BY <2>1, <2>2
  <2>4. PICK q \in 1..(j - 1) : b[q].do = "ask" BY <1>1, <1>8, <2>3 DEF AskedFirst
  <2>5. j - q \in 0..(j - 1) /\ j - (j - q) = q /\ k - (j - q) \in 1..(k - 1)
    BY <1>1, <2>1, <2>2, <2>4
  <2>6. r[k - (j - q)] = b[q] BY <2>1, <2>5
  <2> QED BY <2>4, <2>5, <2>6
<1>9. ASSUME HasAsk(b) PROVE HasAsk(r) BY <1>1, <1>2, <1>9 DEF HasAsk
<1> QED BY <1>5, <1>7, <1>8, <1>9

(* Methods that may be run by a power action of a client that reports. *)
Reports1(x) == HasAsk(x.steps) => x.onError = "raise" /\ Tells(x.steps)
PowerT == {x \in MethodT : Reports1(x) /\ AskedFirst(x.steps)}
AskingT == {x \in PowerT : HasAsk(x.steps)}

HonestT == {x \in MethodT : Reports1(x)}

(* A step of a client that reports; the second step of the body of a power *)
(* action is the request.                                                  *)
FairStep == {s \in StepT : /\ s.bad \subseteq {"raise", "exit", "timeout", "on"}
                           /\ s.do = "ask" => s.bad \subseteq {"raise", "exit"}}

LEMMA AskingBody ==
  ASSUME NEW b \in Seq(FairStep), Len(b) >= 2, b[1].do # "record", b[2].do = "ask"
  PROVE  Loop(b, "raise") \in AskingT
<1>1. DOMAIN b = 1..Len(b) /\ Len(b) \in Nat /\ \A j \in 1..Len(b) : b[j] \in FairStep OBVIOUS
<1>2. b \in Steps1 BY <1>1 DEF Steps1, FairStep
<1>3. Tells(b) BY <1>1 DEF Tells, FairStep
<1>4. HasAsk(b) BY <1>1 DEF HasAsk
<1>5. AskedFirst(b)
  <2>1. \A i \in 1..Len(b) : b[i].do = "record" => i # 1 /\ i # 2 BY <1>1
  <2>2. \A i \in 1..Len(b) : i # 1 /\ i # 2 => 2 \in 1..(i - 1) BY <1>1
  <2> QED BY <1>1, <2>1, <2>2 DEF AskedFirst
<1> QED BY <1>2, <1>3, <1>4, <1>5, LoopIs DEF AskingT, PowerT, Reports1

LEMMA StepIs ==
  ASSUME NEW do \in Deeds \ {"ask"}, NEW to \in Aims, NEW bad \in SUBSET Hows
  PROVE  /\ Step(do, to, bad) \in StepT /\ Step(do, to, bad).do = do
         /\ bad \subseteq {"raise", "exit", "timeout", "on"} => Step(do, to, bad) \in FairStep
BY DEF Step, StepT, FairStep

ClientT == [lookup : SUBSET {"raise", "exit"}, ask : SUBSET {"raise", "exit"},
            await : SUBSET {"raise", "exit", "timeout", "on"}]

LEMMA PlainSteps ==
  /\ \A status \in Aims : Kube(status) \in FairStep /\ Kube(status).do = "kube"
  /\ Record \in FairStep /\ Record.do = "record" /\ Sleep \in FairStep /\ Sleep.do = "sleep"
  /\ \A bad \in SUBSET {"raise", "exit"} :
       Lookup(bad) \in FairStep /\ Lookup(bad).do = "lookup"
  /\ \A bad \in SUBSET {"raise", "exit"}, to \in Wanted :
       Ask(to, bad) \in FairStep /\ Ask(to, bad).do = "ask" /\ Ask(to, bad).to = to
  /\ \A bad \in SUBSET {"raise", "exit", "timeout", "on"}, to \in Wanted :
       Await(to, bad) \in FairStep /\ Await(to, bad).do = "await"
<1>1. /\ {"kube", "record", "sleep", "lookup", "await"} \subseteq Deeds \ {"ask"}
      /\ "ask" \in Deeds /\ "none" \in Aims /\ Wanted \subseteq Aims
      /\ {"raise", "exit", "timeout", "on"} \subseteq Hows
  BY DEF Deeds, Aims, Hows, Wanted
<1>2. ASSUME NEW do \in Deeds \ {"ask"}, NEW to \in Aims,
             NEW bad \in SUBSET {"raise", "exit", "timeout", "on"}
      PROVE  Step(do, to, bad) \in FairStep /\ Step(do, to, bad).do = do
  BY <1>1 DEF Step, StepT, FairStep
<1>3. ASSUME NEW to \in Wanted, NEW bad \in SUBSET {"raise", "exit"}
      PROVE  Ask(to, bad) \in FairStep /\ Ask(to, bad).do = "ask" /\ Ask(to, bad).to = to
  BY <1>1 DEF Ask, Step, StepT, FairStep
<1>4. \A status \in Aims : Kube(status) \in FairStep /\ Kube(status).do = "kube"
  BY <1>1, <1>2 DEF Kube
<1>5. Record \in FairStep /\ Record.do = "record" /\ Sleep \in FairStep /\ Sleep.do = "sleep"
  BY <1>1, <1>2 DEF Record, Sleep
<1>6. \A bad \in SUBSET {"raise", "exit"} :
        Lookup(bad) \in FairStep /\ Lookup(bad).do = "lookup"
  BY <1>1, <1>2 DEF Lookup
<1>7. \A bad \in SUBSET {"raise", "exit", "timeout", "on"}, to \in Wanted :
        Await(to, bad) \in FairStep /\ Await(to, bad).do = "await"
  BY <1>1, <1>2 DEF Await
<1> QED BY <1>3, <1>4, <1>5, <1>6, <1>7

LEMMA ClientSteps ==
  ASSUME NEW c \in ClientT, NEW to \in Wanted
  PROVE  /\ Lookup(c.lookup) \in FairStep /\ Lookup(c.lookup).do = "lookup"
         /\ Ask(to, c.ask) \in FairStep /\ Ask(to, c.ask).do = "ask" /\ Ask(to, c.ask).to = to
         /\ Await(to, c.await) \in FairStep
<1>1. /\ c.lookup \in SUBSET {"raise", "exit"} /\ c.ask \in SUBSET {"raise", "exit"}
      /\ c.await \in SUBSET {"raise", "exit", "timeout", "on"}
  BY DEF ClientT
<1>2. Lookup(c.lookup) \in FairStep /\ Lookup(c.lookup).do = "lookup" BY <1>1, PlainSteps
<1>3. Ask(to, c.ask) \in FairStep /\ Ask(to, c.ask).do = "ask" /\ Ask(to, c.ask).to = to
  BY <1>1, PlainSteps
<1>4. Await(to, c.await) \in FairStep BY <1>1, PlainSteps
<1> QED BY <1>2, <1>3, <1>4

LEMMA ToGood ==
  ASSUME NEW c \in ClientT, NEW state \in Wanted, NEW kube1 \in Aims
  PROVE  Loop(To(c, state, kube1), "raise") \in AskingT
<1> DEFINE b == To(c, state, kube1)
<1>1. Kube(kube1) \in FairStep /\ Record \in FairStep BY PlainSteps
<1>2. b = <<Lookup(c.lookup), Ask(state, c.ask), Await(state, c.await), Kube(kube1), Record>>
  BY DEF To
<1>3. b \in Seq(FairStep) /\ Len(b) = 5 /\ b[1] = Lookup(c.lookup) /\ b[2] = Ask(state, c.ask)
  BY <1>1, <1>2, ClientSteps
<1> HIDE DEF b
<1>4. b[1].do # "record" /\ b[2].do = "ask" /\ Len(b) >= 2 BY <1>3, ClientSteps
<1>5. Loop(b, "raise") \in AskingT BY <1>3, <1>4, AskingBody
<1> QED BY <1>5 DEF b

LEMMA ResetGood ==
  ASSUME NEW c \in ClientT
  PROVE  Loop(Reset(c), "raise") \in AskingT
<1> DEFINE b == Reset(c)
<1>1. "reboot" \in Wanted /\ "Unknown" \in Aims /\ "True" \in Aims BY DEF Wanted, Aims
<1>2. Kube("Unknown") \in FairStep /\ Kube("True") \in FairStep /\ Record \in FairStep
  BY <1>1, PlainSteps
<1>3. b = <<Lookup(c.lookup), Ask("reboot", c.ask), Kube("Unknown"), Kube("True"), Record>>
  BY DEF Reset
<1>4. b \in Seq(FairStep) /\ Len(b) = 5 /\ b[1] = Lookup(c.lookup) /\ b[2] = Ask("reboot", c.ask)
  BY <1>1, <1>2, <1>3, ClientSteps
<1> HIDE DEF b
<1>5. b[1].do # "record" /\ b[2].do = "ask" /\ Len(b) >= 2 BY <1>1, <1>4, ClientSteps
<1>6. Loop(b, "raise") \in AskingT BY <1>4, <1>5, AskingBody
<1> QED BY <1>6 DEF b

LEMMA DeleteGood ==
  ASSUME NEW c \in ClientT
  PROVE  Loop(Delete(c), "raise") \in AskingT
<1> DEFINE b == Delete(c)
<1>1. "deleted" \in Wanted /\ Record \in FairStep BY PlainSteps DEF Wanted
<1>2. Step("gone", "none", R) \in FairStep BY StepIs DEF Deeds, Aims, Hows, R
<1>3. b = <<Lookup(c.lookup), Ask("deleted", c.ask), Await("deleted", c.await),
            Step("gone", "none", R), Record>>
  BY DEF Delete
<1>c. /\ Lookup(c.lookup) \in FairStep /\ Ask("deleted", c.ask) \in FairStep
      /\ Await("deleted", c.await) \in FairStep
  BY <1>1, ClientSteps
<1> DEFINE gone == Step("gone", "none", R)
<1>d. /\ b = <<Lookup(c.lookup), Ask("deleted", c.ask), Await("deleted", c.await), gone, Record>>
      /\ gone \in FairStep
  BY <1>2, <1>3
<1> HIDE DEF gone, b
<1>4. b \in Seq(FairStep) /\ Len(b) = 5 /\ b[1] = Lookup(c.lookup) /\ b[2] = Ask("deleted", c.ask)
  BY <1>1, <1>c, <1>d
<1> HIDE DEF b
<1>5. b[1].do # "record" /\ b[2].do = "ask" /\ Len(b) >= 2 BY <1>1, <1>4, ClientSteps
<1>6. Loop(b, "raise") \in AskingT BY <1>4, <1>5, AskingBody
<1> QED BY <1>6 DEF b

(* Methods without a request. *)
QuietStep == {s \in StepT : s.do # "ask"}

LEMMA QuietMethod ==
  ASSUME NEW b \in Seq(QuietStep), b # <<>>, NEW e \in {"raise", "skip", "record"}
  PROVE  Loop(b, e) \in HonestT /\ Method(b, e) \in HonestT
<1>1. ASSUME NEW t \in Seq(QuietStep), t # <<>> PROVE Method(t, e) \in HonestT
  <2>1. t \in Seq(StepT) /\ \A j \in DOMAIN t : t[j].do # "ask" BY DEF QuietStep
  <2>2. Method(t, e) = [steps |-> t, onError |-> e] BY DEF Method
  <2>3. Method(t, e) \in MethodT BY <1>1, <2>1, <2>2 DEF MethodT, Steps1
  <2>4. Method(t, e).steps = t BY <2>2
  <2>5. ~HasAsk(t) BY <2>1 DEF HasAsk
  <2> QED BY <2>3, <2>4, <2>5 DEF HonestT, Reports1
<1>2. Repeat(b) \in Seq(QuietStep) /\ Repeat(b) # <<>> BY RepeatIs
<1> QED BY <1>1, <1>2 DEF Loop

LEMMA QuietIs ==
  ASSUME NEW do \in Deeds \ {"ask"}, NEW to \in Aims, NEW bad \in SUBSET Hows
  PROVE  Step(do, to, bad) \in QuietStep
BY StepIs DEF QuietStep

LEMMA Words ==
  /\ "raise" \in {"raise", "skip", "record"} /\ "skip" \in {"raise", "skip", "record"}
  /\ "record" \in {"raise", "skip", "record"}
  /\ "none" \in Aims /\ "True" \in Aims /\ "False" \in Aims /\ "Unknown" \in Aims
  /\ "up" \in Aims /\ "down" \in Aims /\ "now" \in Aims /\ "later" \in Aims
  /\ "running" \in Wanted /\ "stopped" \in Wanted /\ "deleted" \in Wanted
  /\ "reboot" \in Wanted
  /\ R = {"raise"} /\ T = {"timeout"} /\ R \in SUBSET {"raise", "exit"}
  /\ R \in SUBSET {"raise", "exit", "timeout", "on"} /\ R \in SUBSET Hows /\ {} \in SUBSET Hows
BY DEF Aims, Wanted, Hows, R, T

(* The steps that ask for nothing, one by one. *)
LEMMA QuietSteps ==
  /\ Step("pass", "none", {}) \in QuietStep /\ Step("merge", "none", {}) \in QuietStep
  /\ Step("missing", "none", {"escape"}) \in QuietStep
  /\ Step("disks", "none", R \cup {"none"}) \in QuietStep
  /\ Step("detach", "later", {"on"}) \in QuietStep /\ Step("detach", "now", R) \in QuietStep
  /\ Step("attach", "none", R) \in QuietStep /\ Step("nic", "none", R) \in QuietStep
  /\ Step("group", "none", R) \in QuietStep /\ Step("block", "none", R) \in QuietStep
  /\ Step("unblock", "none", R) \in QuietStep /\ Step("drop", "none", R) \in QuietStep
  /\ Step("service", "none", R) \in QuietStep /\ Step("wrong", "none", R) \in QuietStep
  /\ Step("kubelet", "down", {"on"}) \in QuietStep /\ Step("kubelet", "up", {"on"}) \in QuietStep
  /\ Sleep \in QuietStep /\ Record \in QuietStep /\ Lookup(R) \in QuietStep
  /\ \A status \in Aims : Kube(status) \in QuietStep
<1>1. ASSUME NEW do \in Deeds \ {"ask"}, NEW to \in Aims, NEW bad \in SUBSET Hows
      PROVE  Step(do, to, bad) \in QuietStep
  BY DEF Step, QuietStep, StepT
<1>2. /\ {"pass", "merge", "missing", "disks", "detach", "attach", "nic", "group", "block",
         "unblock", "drop", "service", "wrong", "kubelet", "sleep", "record", "lookup", "kube"}
         \subseteq Deeds \ {"ask"}
  BY DEF Deeds
<1>3. {} \in SUBSET Hows /\ {"escape"} \in SUBSET Hows /\ {"on"} \in SUBSET Hows
  BY DEF Hows
<1>4. R \in SUBSET Hows /\ R \cup {"none"} \in SUBSET Hows /\ {"raise"} \in SUBSET Hows
  BY DEF Hows, R
<1>5. /\ "none" \in Aims /\ "up" \in Aims /\ "down" \in Aims /\ "now" \in Aims
      /\ "later" \in Aims
  BY Words
<1>6. ASSUME NEW do \in {"pass", "merge"} PROVE Step(do, "none", {}) \in QuietStep
  BY <1>1, <1>2, <1>3, <1>5
<1>7. ASSUME NEW do \in {"attach", "nic", "group", "block", "unblock", "drop", "service", "wrong",
                         "lookup"}
      PROVE Step(do, "none", R) \in QuietStep
  BY <1>1, <1>2, <1>4, <1>5
<1>8. Step("missing", "none", {"escape"}) \in QuietStep BY <1>1, <1>2, <1>3, <1>5
<1>9. Step("disks", "none", R \cup {"none"}) \in QuietStep BY <1>1, <1>2, <1>4, <1>5
<1>10. Step("detach", "later", {"on"}) \in QuietStep /\ Step("detach", "now", R) \in QuietStep
  BY <1>1, <1>2, <1>3, <1>4, <1>5
<1>11. /\ Step("kubelet", "down", {"on"}) \in QuietStep
       /\ Step("kubelet", "up", {"on"}) \in QuietStep
  BY <1>1, <1>2, <1>3, <1>5
<1>12. Sleep \in QuietStep /\ Record \in QuietStep
  BY <1>1, <1>2, <1>3, <1>5 DEF Sleep, Record
<1>13. Lookup(R) \in QuietStep BY <1>7 DEF Lookup
<1>14. \A status \in Aims : Kube(status) \in QuietStep BY <1>1, <1>2, <1>4 DEF Kube
<1> QED BY <1>6, <1>7, <1>8, <1>9, <1>10, <1>11, <1>12, <1>13, <1>14

LEMMA PassGood == Pass \in PowerT
<1> DEFINE s1 == Step("pass", "none", {})
<1>1. s1 \in StepT /\ s1.do = "pass" BY StepIs DEF Deeds, Aims
<1> HIDE DEF s1
<1>2. <<s1>> \in Seq(StepT) /\ <<s1>> # <<>> /\ DOMAIN <<s1>> = 1..1 /\ <<s1>>[1] = s1 BY <1>1
<1> DEFINE t == <<s1>>
<1>3. t \in Steps1 /\ ~HasAsk(t) /\ AskedFirst(t) BY <1>1, <1>2 DEF Steps1, HasAsk, AskedFirst
<1> HIDE DEF t
<1>4. Pass = [steps |-> t, onError |-> "raise"] BY DEF Pass, Method, s1, t
<1>5. Pass \in MethodT /\ Pass.steps = t BY <1>3, <1>4 DEF MethodT
<1> QED BY <1>3, <1>5 DEF PowerT, Reports1

(* sleep, and the message of a merge. *)
LEMMA SleepGood == Method(<<Sleep>>, "raise") \in HonestT /\ Merge \in HonestT
<1> DEFINE s1 == Step("merge", "none", {})
<1>1. Sleep \in QuietStep BY QuietIs DEF Sleep, Deeds, Aims
<1>2. s1 \in QuietStep BY QuietIs DEF Deeds, Aims
<1> HIDE DEF s1
<1>3. <<Sleep>> \in Seq(QuietStep) /\ <<Sleep>> # <<>> BY <1>1
<1>4. <<s1>> \in Seq(QuietStep) /\ <<s1>> # <<>> BY <1>2
<1>5. Method(<<Sleep>>, "raise") \in HonestT BY <1>3, QuietMethod
<1>6. Method(<<s1>>, "raise") \in HonestT BY <1>4, QuietMethod
<1> QED BY <1>5, <1>6 DEF Merge, s1

LEMMA QuietOne ==
  ASSUME NEW s \in QuietStep, NEW e \in {"raise", "skip", "record"}
  PROVE  Loop(<<s>>, e) \in HonestT /\ Method(<<s>>, e) \in HonestT
<1>1. <<s>> \in Seq(QuietStep) /\ <<s>> # <<>> OBVIOUS
<1> QED BY <1>1, QuietMethod

LEMMA DisksGood ==
  NoDisks \in Seq(HonestT) /\ AwsDisks \in Seq(HonestT) /\ BmDisks \in Seq(HonestT)
<1> DEFINE missing == Step("missing", "none", {"escape"})
           found == Step("disks", "none", R \cup {"none"})
           off(to, bad) == Step("detach", to, bad)
           back == Step("attach", "none", R)
<1>0. "raise" \in {"raise", "skip", "record"} OBVIOUS
<1>1. missing \in QuietStep BY QuietIs DEF Deeds, Aims, Hows
<1>2. found \in QuietStep BY QuietIs DEF Deeds, Aims, Hows, R
<1>3. off("later", {"on"}) \in QuietStep /\ off("now", R) \in QuietStep BY QuietIs DEF Deeds, Aims, Hows, R
<1>4. back \in QuietStep BY QuietIs DEF Deeds, Aims, Hows, R
<1>5. Lookup(R) \in QuietStep BY QuietIs DEF Lookup, Deeds, Aims, Hows, R
<1> HIDE DEF missing, found, off, back
<1>6. Method(<<missing>>, "raise") \in HonestT BY <1>1, QuietOne
<1>7. Method(<<Lookup(R), found>>, "raise") \in HonestT
  <2>1. <<Lookup(R), found>> \in Seq(QuietStep) /\ <<Lookup(R), found>> # <<>> BY <1>2, <1>5
  <2> QED BY <2>1, QuietMethod
<1>8. Loop(<<Lookup(R), off("later", {"on"})>>, "raise") \in HonestT
  <2> DEFINE o == off("later", {"on"})
  <2>1. o \in QuietStep BY <1>3
  <2> HIDE DEF o
  <2>2. <<Lookup(R), o>> \in Seq(QuietStep) /\ <<Lookup(R), o>> # <<>> BY <2>1, <1>5
  <2>3. Loop(<<Lookup(R), o>>, "raise") \in HonestT BY <2>2, QuietMethod
  <2> QED BY <2>3 DEF o
<1>9. Loop(<<back>>, "raise") \in HonestT BY <1>4, QuietOne
<1>10. Method(<<found>>, "raise") \in HonestT BY <1>2, QuietOne
<1>11. Loop(<<off("now", R)>>, "raise") \in HonestT
  <2> DEFINE o == off("now", R)
  <2>1. o \in QuietStep BY <1>3
  <2> HIDE DEF o
  <2>2. Loop(<<o>>, "raise") \in HonestT BY <2>1, QuietOne
  <2> QED BY <2>2 DEF o
<1>12. NoDisks \in Seq(HonestT)
  <2> DEFINE x == Method(<<missing>>, "raise")
  <2>1. NoDisks = <<x>> BY DEF NoDisks, missing
  <2> HIDE DEF x
  <2> QED BY <2>1, <1>6 DEF x
<1>13. AwsDisks \in Seq(HonestT)
  <2> DEFINE x == Method(<<Lookup(R), found>>, "raise")
             y == Loop(<<Lookup(R), off("later", {"on"})>>, "raise")
             z == Method(<<Sleep>>, "raise")
             u == Loop(<<back>>, "raise")
  <2>1. AwsDisks = <<x, y, z, u>> BY DEF AwsDisks, found, off, back
  <2>2. x \in HonestT /\ y \in HonestT /\ z \in HonestT /\ u \in HonestT
    BY <1>7, <1>8, <1>9, SleepGood
  <2> HIDE DEF x, y, z, u
  <2> QED BY <2>1, <2>2
<1>14. BmDisks \in Seq(HonestT)
  <2> DEFINE x == Method(<<found>>, "raise")
             y == Loop(<<off("now", R)>>, "raise")
             z == Method(<<Sleep>>, "raise")
             u == Loop(<<back>>, "raise")
  <2>1. BmDisks = <<x, y, z, u>> BY DEF BmDisks, found, off, back
  <2>2. x \in HonestT /\ y \in HonestT /\ z \in HonestT /\ u \in HonestT
    BY <1>10, <1>11, <1>9, SleepGood
  <2> HIDE DEF x, y, z, u
  <2> QED BY <2>1, <2>2
<1> QED BY <1>12, <1>13, <1>14

-----------------------------------------------------------------------------
(* The backends whose clients report.                                      *)

Reports(b) ==
  /\ b.start \in AskingT /\ b.stop \in AskingT /\ b.reboot \in AskingT
  /\ b.terminate \in PowerT /\ b.block \in HonestT
  /\ b.disks \in Seq(HonestT) /\ b.helper \in Seq(HonestT)

LEMMA PowerIsHonest == AskingT \subseteq PowerT /\ PowerT \subseteq HonestT
BY DEF AskingT, PowerT, HonestT

LEMMA Clients ==
  /\ AwsClient \in ClientT /\ AzClient \in ClientT /\ GcpClient \in ClientT
  /\ BmClient \in ClientT /\ DockerClient \in ClientT /\ OpenstackClient \in ClientT
BY DEF AwsClient, AzClient, GcpClient, BmClient, DockerClient, OpenstackClient, ClientT, R, T

LEMMA BlockGood == Loop(AzBlock, "raise") \in HonestT
<1> DEFINE nic == Step("nic", "none", R)
           group == Step("group", "none", R)
           block == Step("block", "none", R)
           unblock == Step("unblock", "none", R)
           drop == Step("drop", "none", R)
           look == Lookup(R)
           b == AzBlock
<1>1. /\ nic \in QuietStep /\ group \in QuietStep /\ block \in QuietStep
      /\ unblock \in QuietStep /\ drop \in QuietStep /\ look \in QuietStep
      /\ Sleep \in QuietStep /\ Record \in QuietStep
  BY QuietSteps
<1>2. b = <<look, nic, group, block, Sleep, unblock, drop, Record>> BY DEF AzBlock
<1> HIDE DEF nic, group, block, unblock, drop, look, b
<1>3. b \in Seq(QuietStep) /\ b # <<>> BY <1>1, <1>2
<1>4. Loop(b, "raise") \in HonestT BY <1>3, QuietMethod
<1> QED BY <1>4 DEF b

LEMMA AzGood == Reports(Az)
<1> DEFINE look == Lookup(R)
           ask == Ask("reboot", R)
           kube1 == Kube("True")
           b == <<look, ask, kube1, Record>>
<1>1. /\ look \in FairStep /\ look.do = "lookup" /\ ask \in FairStep /\ ask.do = "ask"
      /\ kube1 \in FairStep /\ Record \in FairStep
  BY PlainSteps, Words
<1>2. Loop(b, "raise") \in AskingT
  <2> HIDE DEF look, ask, kube1
  <2>1. b \in Seq(FairStep) /\ Len(b) = 4 /\ b[1] = look /\ b[2] = ask BY <1>1
  <2> HIDE DEF b
  <2>2. Len(b) >= 2 /\ b[1].do # "record" /\ b[2].do = "ask" BY <1>1, <2>1
  <2> QED BY <2>1, <2>2, AskingBody
<1> DEFINE start == Loop(To(AzClient, "running", "True"), "raise")
           stop == Loop(To(AzClient, "stopped", "Unknown"), "raise")
           reboot == Loop(b, "raise")
           term == Loop(Delete(AzClient), "raise")
           block == Loop(AzBlock, "raise")
<1>3. start \in AskingT /\ stop \in AskingT BY ToGood, Clients, Words
<1>4. term \in PowerT BY DeleteGood, Clients, PowerIsHonest
<1>5. block \in HonestT /\ NoDisks \in Seq(HonestT) BY BlockGood, DisksGood
<1>6. Az = [start |-> start, stop |-> stop, reboot |-> reboot, terminate |-> term,
            disks |-> NoDisks, block |-> block, helper |-> <<>>]
  BY DEF Az
<1>7. reboot \in AskingT BY <1>2
<1> HIDE DEF start, stop, reboot, term, block
<1>8. <<>> \in Seq(HonestT) OBVIOUS
<1> QED BY <1>3, <1>4, <1>5, <1>6, <1>7, <1>8 DEF Reports

LEMMA GcpGood == Reports(Gcp)
<1> DEFINE look == Lookup(R)
           ask == Ask("reboot", R)
           kube1 == Kube("Unknown")
           wait == Await("running", GcpClient.await)
           kube2 == Kube("True")
           b == <<look, ask, kube1, wait, kube2, Record>>
<1>0. GcpClient.await \in SUBSET {"raise", "exit", "timeout", "on"} BY Clients DEF ClientT
<1>1. /\ look \in FairStep /\ look.do = "lookup" /\ ask \in FairStep /\ ask.do = "ask"
      /\ kube1 \in FairStep /\ kube2 \in FairStep /\ Record \in FairStep /\ wait \in FairStep
  BY <1>0, PlainSteps, Words
<1>2. Loop(b, "raise") \in AskingT
  <2> HIDE DEF look, ask, kube1, kube2, wait
  <2>1. b \in Seq(FairStep) /\ Len(b) = 6 /\ b[1] = look /\ b[2] = ask BY <1>1
  <2> HIDE DEF b
  <2>2. Len(b) >= 2 /\ b[1].do # "record" /\ b[2].do = "ask" BY <1>1, <2>1
  <2> QED BY <2>1, <2>2, AskingBody
<1> DEFINE start == Loop(To(GcpClient, "running", "True"), "raise")
           stop == Loop(To(GcpClient, "stopped", "Unknown"), "raise")
           reboot == Loop(b, "raise")
           term == Loop(Delete(GcpClient), "raise")
<1>3. start \in AskingT /\ stop \in AskingT BY ToGood, Clients, Words
<1>4. term \in PowerT BY DeleteGood, Clients, PowerIsHonest
<1>5. Pass \in HonestT /\ NoDisks \in Seq(HonestT) BY PassGood, PowerIsHonest, DisksGood
<1>6. Gcp = [start |-> start, stop |-> stop, reboot |-> reboot, terminate |-> term,
             disks |-> NoDisks, block |-> Pass, helper |-> <<>>]
  BY DEF Gcp
<1>7. reboot \in AskingT BY <1>2
<1> HIDE DEF start, stop, reboot, term
<1>8. <<>> \in Seq(HonestT) OBVIOUS
<1> QED BY <1>3, <1>4, <1>5, <1>6, <1>7, <1>8 DEF Reports

LEMMA AwsGood == Reports(Aws)
<1> DEFINE start == Loop(To(AwsClient, "running", "True"), "raise")
           stop == Loop(To(AwsClient, "stopped", "Unknown"), "raise")
           reboot == Loop(Reset(AwsClient), "raise")
           term == Loop(Delete(AwsClient), "raise")
<1>1. start \in AskingT /\ stop \in AskingT BY ToGood, Clients, Words
<1>2. reboot \in AskingT BY ResetGood, Clients
<1>3. term \in PowerT BY DeleteGood, Clients, PowerIsHonest
<1>4. Pass \in HonestT /\ AwsDisks \in Seq(HonestT) BY PassGood, PowerIsHonest, DisksGood
<1>5. Aws = [start |-> start, stop |-> stop, reboot |-> reboot, terminate |-> term,
             disks |-> AwsDisks, block |-> Pass, helper |-> <<>>]
  BY DEF Aws
<1> HIDE DEF start, stop, reboot, term
<1>6. <<>> \in Seq(HonestT) OBVIOUS
<1> QED BY <1>1, <1>2, <1>3, <1>4, <1>5, <1>6 DEF Reports

LEMMA BmGood == Reports(Bm)
<1> DEFINE start == Loop(To(BmClient, "running", "True"), "raise")
           stop == Loop(To(BmClient, "stopped", "Unknown"), "raise")
           reboot == Loop(Reset(BmClient), "raise")
<1>1. start \in AskingT /\ stop \in AskingT BY ToGood, Clients, Words
<1>2. reboot \in AskingT BY ResetGood, Clients
<1>3. Pass \in PowerT /\ Pass \in HonestT /\ BmDisks \in Seq(HonestT)
  BY PassGood, PowerIsHonest, DisksGood
<1>4. Bm = [start |-> start, stop |-> stop, reboot |-> reboot, terminate |-> Pass,
            disks |-> BmDisks, block |-> Pass, helper |-> <<>>]
  BY DEF Bm
<1> HIDE DEF start, stop, reboot
<1>5. <<>> \in Seq(HonestT) OBVIOUS
<1> QED BY <1>1, <1>2, <1>3, <1>4, <1>5 DEF Reports

LEMMA DockerGood == Reports(Docker)
<1> DEFINE look == Lookup(R)
           run == Ask("running", R)
           kube1 == Kube("True")
           stop1 == Ask("stopped", R)
           wait == Await("stopped", R)
           del == Ask("deleted", R)
           b == <<look, run, kube1, Record>>
           d == <<look, stop1, wait, del>>
<1>1. /\ look \in FairStep /\ look.do = "lookup" /\ run \in FairStep /\ run.do = "ask"
      /\ kube1 \in FairStep /\ Record \in FairStep /\ stop1 \in FairStep /\ stop1.do = "ask"
      /\ wait \in FairStep /\ del \in FairStep
  BY PlainSteps, Words
<1>2. Loop(b, "raise") \in AskingT
  <2> HIDE DEF look, run, kube1
  <2>1. b \in Seq(FairStep) /\ Len(b) = 4 /\ b[1] = look /\ b[2] = run BY <1>1
  <2> HIDE DEF b
  <2>2. Len(b) >= 2 /\ b[1].do # "record" /\ b[2].do = "ask" BY <1>1, <2>1
  <2> QED BY <2>1, <2>2, AskingBody
<1>3. Loop(d, "raise") \in AskingT
  <2> HIDE DEF look, stop1, wait, del
  <2>1. d \in Seq(FairStep) /\ Len(d) = 4 /\ d[1] = look /\ d[2] = stop1 BY <1>1
  <2> HIDE DEF d
  <2>2. Len(d) >= 2 /\ d[1].do # "record" /\ d[2].do = "ask" BY <1>1, <2>1
  <2> QED BY <2>1, <2>2, AskingBody
<1> DEFINE start == Loop(b, "raise")
           stop == Loop(To(DockerClient, "stopped", "Unknown"), "raise")
           reboot == Loop(Reset(DockerClient), "raise")
           term == Loop(d, "raise")
<1>4. start \in AskingT /\ term \in PowerT BY <1>2, <1>3, PowerIsHonest
<1>5. stop \in AskingT BY ToGood, Clients, Words
<1>6. reboot \in AskingT BY ResetGood, Clients
<1>7. Pass \in HonestT /\ NoDisks \in Seq(HonestT) BY PassGood, PowerIsHonest, DisksGood
<1>8. Docker = [start |-> start, stop |-> stop, reboot |-> reboot, terminate |-> term,
                disks |-> NoDisks, block |-> Pass, helper |-> <<>>]
  BY DEF Docker
<1> HIDE DEF start, stop, reboot, term
<1>9. <<>> \in Seq(HonestT) OBVIOUS
<1> QED BY <1>4, <1>5, <1>6, <1>7, <1>8, <1>9 DEF Reports

LEMMA HelperGood == OpenstackHelper \in Seq(HonestT)
<1> DEFINE look == Lookup({"exit"})
           ask(state) == Ask(state, {"exit"})
           wait(state) == Await(state, OpenstackClient.await)
           power(state) == <<look, ask(state), wait(state), Record>>
           service == Step("service", "none", R)
<1>1. OpenstackClient.await \in SUBSET {"raise", "exit", "timeout", "on"} BY Clients DEF ClientT
<1>2. ASSUME NEW state \in {"running", "stopped"}
      PROVE  Loop(power(state), "raise") \in HonestT
  <2> DEFINE a == ask(state)
             w == wait(state)
             p == power(state)
  <2>1. /\ look \in FairStep /\ look.do = "lookup" /\ a \in FairStep /\ a.do = "ask"
        /\ w \in FairStep /\ Record \in FairStep
    BY <1>1, PlainSteps, Words
  <2>2. p = <<look, a, w, Record>> OBVIOUS
  <2> HIDE DEF look, a, w, p
  <2>3. p \in Seq(FairStep) /\ Len(p) = 4 /\ p[1] = look /\ p[2] = a BY <2>1, <2>2
  <2>4. Len(p) >= 2 /\ p[1].do # "record" /\ p[2].do = "ask" BY <2>1, <2>3
  <2>5. Loop(p, "raise") \in HonestT BY <2>3, <2>4, AskingBody, PowerIsHonest
  <2> QED BY <2>5 DEF p, a, w, look
<1>3. Method(<<service>>, "raise") \in HonestT BY QuietSteps, QuietOne, Words
<1> DEFINE x == Loop(power("stopped"), "raise")
           y == Loop(power("running"), "raise")
           z == Method(<<service>>, "raise")
<1>4. OpenstackHelper = <<x, y, z>> BY DEF OpenstackHelper
<1>5. x \in HonestT /\ y \in HonestT /\ z \in HonestT BY <1>2, <1>3
<1> HIDE DEF x, y, z
<1> QED BY <1>4, <1>5

LEMMA OpenstackGood == Reports(Openstack)
<1> DEFINE start == Loop(To(OpenstackClient, "running", "True"), "raise")
           stop == Loop(To(OpenstackClient, "stopped", "False"), "raise")
           reboot == Loop(Reset(OpenstackClient), "raise")
<1>1. start \in AskingT /\ stop \in AskingT BY ToGood, Clients, Words
<1>2. reboot \in AskingT BY ResetGood, Clients
<1>3. Pass \in PowerT /\ Pass \in HonestT /\ NoDisks \in Seq(HonestT)
  BY PassGood, PowerIsHonest, DisksGood
<1>4. Openstack = [start |-> start, stop |-> stop, reboot |-> reboot, terminate |-> Pass,
                   disks |-> NoDisks, block |-> Pass, helper |-> OpenstackHelper]
  BY DEF Openstack
<1> HIDE DEF start, stop, reboot
<1> QED BY <1>1, <1>2, <1>3, <1>4, HelperGood DEF Reports

LEMMA ReportingGood == \A c \in Reporting : c \in DOMAIN Backend /\ Reports(Backend[c])
<1>1. /\ Backend["aws"] = Aws /\ Backend["az"] = Az /\ Backend["gcp"] = Gcp
      /\ Backend["bm"] = Bm /\ Backend["docker"] = Docker /\ Backend["openstack"] = Openstack
      /\ Reporting \subseteq DOMAIN Backend
  BY DEF Backend, Reporting
<1> QED BY <1>1, AwsGood, AzGood, GcpGood, BmGood, DockerGood, OpenstackGood DEF Reporting

-----------------------------------------------------------------------------
(* The backends whose clients do not report: their methods are methods.    *)

Typed(b) ==
  /\ b.start \in MethodT /\ b.stop \in MethodT /\ b.reboot \in MethodT
  /\ b.terminate \in MethodT /\ b.block \in MethodT
  /\ b.disks \in Seq(MethodT) /\ b.helper \in Seq(MethodT)

LEMMA ReportsTyped == ASSUME NEW b, Reports(b) PROVE Typed(b)
<1>1. HonestT \subseteq MethodT /\ Seq(HonestT) \subseteq Seq(MethodT) BY DEF HonestT
<1> QED BY <1>1, PowerIsHonest DEF Reports, Typed

LEMMA TypedSteps ==
  /\ \A bad \in SUBSET Hows : Lookup(bad) \in StepT
  /\ \A bad \in SUBSET Hows, to \in Wanted : Ask(to, bad) \in StepT /\ Await(to, bad) \in StepT
  /\ \A status \in Aims : Kube(status) \in StepT
  /\ Record \in StepT /\ Step("wrong", "none", R) \in StepT
<1>1. {"kube", "record", "lookup", "await"} \subseteq Deeds \ {"ask"} /\ "ask" \in Deeds
      /\ "none" \in Aims /\ Wanted \subseteq Aims
  BY DEF Deeds, Aims, Wanted
<1>2. Record \in StepT /\ Step("wrong", "none", R) \in StepT
  BY QuietSteps DEF QuietStep
<1>3. \A status \in Aims : Kube(status) \in StepT BY PlainSteps DEF FairStep
<1>4. \A bad \in SUBSET Hows : Lookup(bad) \in StepT BY <1>1, StepIs DEF Lookup
<1>5. \A bad \in SUBSET Hows, to \in Wanted : Await(to, bad) \in StepT
  BY <1>1, StepIs DEF Await
<1>6. \A bad \in SUBSET Hows, to \in Wanted : Ask(to, bad) \in StepT
  BY <1>1 DEF Ask, Step, StepT
<1> QED BY <1>2, <1>3, <1>4, <1>5, <1>6

LEMMA LoopTyped ==
  ASSUME NEW b \in Seq(StepT), b # <<>>, NEW e \in {"raise", "skip", "record"}
  PROVE  Loop(b, e) \in MethodT
BY LoopIs DEF Steps1

(* A body that is repeated, between steps that are not. *)
LEMMA AroundTyped ==
  ASSUME NEW s \in StepT, NEW b \in Seq(StepT), b # <<>>, NEW e \in {"raise", "skip", "record"}
  PROVE  /\ Method(<<s>> \o Repeat(b), e) \in MethodT
         /\ Method(<<s>> \o Repeat(b) \o <<Record>>, e) \in MethodT
<1> DEFINE r == Repeat(b)
<1>1. r \in Seq(StepT) BY RepeatIs
<1>2. <<s>> \in Seq(StepT) /\ <<Record>> \in Seq(StepT) /\ <<s>> # <<>> BY TypedSteps
<1> HIDE DEF r
<1>3. \A x \in Seq(StepT), y \in Seq(StepT) : x # <<>> => x \o y \in Seq(StepT) /\ x \o y # <<>>
  OBVIOUS
<1>4. <<s>> \o r \in Seq(StepT) /\ <<s>> \o r # <<>> BY <1>1, <1>2, <1>3
<1>5. (<<s>> \o r) \o <<Record>> \in Seq(StepT) /\ (<<s>> \o r) \o <<Record>> # <<>>
  BY <1>2, <1>3, <1>4
<1>6. \A x \in Seq(StepT) : x # <<>> => Method(x, e) \in MethodT
  BY DEF Method, MethodT, Steps1
<1>7. Method(<<s>> \o r, e) \in MethodT /\ Method((<<s>> \o r) \o <<Record>>, e) \in MethodT
  BY <1>4, <1>5, <1>6
<1> QED BY <1>7 DEF r

AnyClient == [lookup : SUBSET Hows, ask : SUBSET Hows, await : SUBSET Hows]

LEMMA ToTyped ==
  ASSUME NEW c \in AnyClient, NEW state \in Wanted, NEW kube1 \in Aims,
         NEW e \in {"raise", "skip", "record"}
  PROVE  Loop(To(c, state, kube1), e) \in MethodT
<1> DEFINE look == Lookup(c.lookup)
           ask == Ask(state, c.ask)
           wait == Await(state, c.await)
           k == Kube(kube1)
           b == To(c, state, kube1)
<1>0. c.lookup \in SUBSET Hows /\ c.ask \in SUBSET Hows /\ c.await \in SUBSET Hows
  BY DEF AnyClient
<1>1. look \in StepT /\ ask \in StepT /\ wait \in StepT /\ k \in StepT /\ Record \in StepT
  BY <1>0, TypedSteps
<1>2. b = <<look, ask, wait, k, Record>> BY DEF To
<1> HIDE DEF look, ask, wait, k, b
<1>3. b \in Seq(StepT) /\ b # <<>> BY <1>1, <1>2
<1>4. Loop(b, e) \in MethodT BY <1>3, LoopTyped
<1> QED BY <1>4 DEF b

LEMMA ResetTyped ==
  ASSUME NEW c \in AnyClient
  PROVE  Loop(Reset(c), "raise") \in MethodT
<1> DEFINE look == Lookup(c.lookup)
           ask == Ask("reboot", c.ask)
           k1 == Kube("Unknown")
           k2 == Kube("True")
           b == Reset(c)
<1>0. c.lookup \in SUBSET Hows /\ c.ask \in SUBSET Hows BY DEF AnyClient
<1>1. look \in StepT /\ ask \in StepT /\ k1 \in StepT /\ k2 \in StepT /\ Record \in StepT
  BY <1>0, TypedSteps, Words
<1>2. b = <<look, ask, k1, k2, Record>> BY DEF Reset
<1> HIDE DEF look, ask, k1, k2, b
<1>3. b \in Seq(StepT) /\ b # <<>> BY <1>1, <1>2
<1>4. Loop(b, "raise") \in MethodT BY <1>3, LoopTyped, Words
<1> QED BY <1>4 DEF b

LEMMA OtherClients ==
  /\ AlibabaClient \in AnyClient /\ VmwareClient \in AnyClient
  /\ IbmClient \in AnyClient /\ PowerClient \in AnyClient
BY DEF AlibabaClient, VmwareClient, IbmClient, PowerClient, AnyClient, Hows, R, T

LEMMA PassTyped ==
  /\ Pass \in MethodT /\ NoDisks \in Seq(MethodT) /\ <<>> \in Seq(MethodT)
<1>1. HonestT \subseteq MethodT BY DEF HonestT
<1>2. Seq(HonestT) \subseteq Seq(MethodT) BY <1>1
<1> QED BY <1>1, <1>2, PassGood, PowerIsHonest, DisksGood

LEMMA GeneralTyped == Typed(General)
BY PassTyped DEF General, Typed

LEMMA AlibabaTyped == Typed(Alibaba)
<1> DEFINE look == Lookup(R)
           stop1 == Ask("stopped", {"on"})
           wait1 == Await("stopped", T)
           del == Ask("deleted", {"on"})
           wait2 == Await("deleted", T)
           d == <<look, stop1, wait1, del, wait2, Record>>
<1>0. {"on"} \in SUBSET Hows /\ R \in SUBSET Hows /\ T \in SUBSET Hows BY DEF Hows, R, T
<1>1. /\ look \in StepT /\ stop1 \in StepT /\ wait1 \in StepT /\ del \in StepT
      /\ wait2 \in StepT /\ Record \in StepT
  BY <1>0, TypedSteps, Words
<1>2. Loop(d, "raise") \in MethodT
  <2> HIDE DEF look, stop1, wait1, del, wait2
  <2>1. d \in Seq(StepT) /\ d # <<>> BY <1>1
  <2> QED BY <2>1, LoopTyped, Words
<1> DEFINE start == Loop(To(AlibabaClient, "running", "True"), "raise")
           stop == Loop(To(AlibabaClient, "stopped", "Unknown"), "raise")
           reboot == Loop(Reset(AlibabaClient), "raise")
           term == Loop(d, "raise")
<1>3. start \in MethodT /\ stop \in MethodT BY ToTyped, OtherClients, Words
<1>4. reboot \in MethodT BY ResetTyped, OtherClients
<1>5. term \in MethodT BY <1>2
<1>6. Alibaba = [start |-> start, stop |-> stop, reboot |-> reboot, terminate |-> term,
                 disks |-> NoDisks, block |-> Pass, helper |-> <<>>]
  BY DEF Alibaba
<1> HIDE DEF start, stop, reboot, term
<1> QED BY <1>3, <1>4, <1>5, <1>6, PassTyped DEF Typed

LEMMA VmwareTyped == Typed(Vmware)
<1> DEFINE ask == Ask("reboot", R \cup {"on"})
           k == Kube("Unknown")
           b == <<ask, k, Record>>
<1>0. R \cup {"on"} \in SUBSET Hows BY DEF Hows, R
<1>1. ask \in StepT /\ k \in StepT /\ Record \in StepT BY <1>0, TypedSteps, Words
<1>2. Loop(b, "skip") \in MethodT
  <2> HIDE DEF ask, k
  <2>1. b \in Seq(StepT) /\ b # <<>> BY <1>1
  <2> QED BY <2>1, LoopTyped, Words
<1> DEFINE start == Loop(To(VmwareClient, "running", "True"), "skip")
           stop == Loop(To(VmwareClient, "stopped", "True"), "skip")
           reboot == Loop(b, "skip")
<1>3. start \in MethodT /\ stop \in MethodT BY ToTyped, OtherClients, Words
<1>4. reboot \in MethodT BY <1>2
<1>5. Vmware = [start |-> start, stop |-> stop, reboot |-> reboot, terminate |-> Pass,
                disks |-> NoDisks, block |-> Pass, helper |-> <<>>]
  BY DEF Vmware
<1> HIDE DEF start, stop, reboot
<1> QED BY <1>3, <1>4, <1>5, PassTyped DEF Typed

LEMMA IbmTyped == Typed(Ibm)
<1> DEFINE look == Lookup({"exit"})
           run == Ask("running", {"nowait"})
           up == Await("running", T)
           stp == Ask("stopped", R)
           down == Await("stopped", T)
           boot == Ask("reboot", R)
           k1 == Kube("True")
           k2 == Kube("Unknown")
           b1 == <<run, up, k1>>
           b2 == <<stp, down, Record>>
           b3 == <<boot, up, k2, k1, Record>>
           start == Method(<<look>> \o Repeat(b1) \o <<Record>>, "record")
           stop == Method(<<look>> \o Repeat(b2), "skip")
           reboot == Method(<<look>> \o Repeat(b3), "skip")
<1>1. {"exit"} \in SUBSET Hows /\ {"nowait"} \in SUBSET Hows /\ T \in SUBSET Hows
  BY DEF Hows, T
<1>2. /\ look \in StepT /\ run \in StepT /\ up \in StepT /\ stp \in StepT /\ down \in StepT
      /\ boot \in StepT /\ k1 \in StepT /\ k2 \in StepT /\ Record \in StepT
  BY <1>1, TypedSteps, Words
<1>3. Ibm = [start |-> start, stop |-> stop, reboot |-> reboot, terminate |-> Pass,
             disks |-> NoDisks, block |-> Pass, helper |-> <<>>]
  BY DEF Ibm
<1> HIDE DEF look, run, up, stp, down, boot, k1, k2
<1>4. b1 \in Seq(StepT) /\ b1 # <<>> BY <1>2
<1>5. b2 \in Seq(StepT) /\ b2 # <<>> BY <1>2
<1>6. b3 \in Seq(StepT) /\ b3 # <<>> BY <1>2
<1> HIDE DEF b1, b2, b3
<1>7. start \in MethodT /\ stop \in MethodT /\ reboot \in MethodT
  BY <1>2, <1>4, <1>5, <1>6, AroundTyped, Words
<1> HIDE DEF start, stop, reboot
<1> QED BY <1>3, <1>7, PassTyped DEF Typed

LEMMA PowerTyped == Typed(Power)
<1> DEFINE look1 == Lookup({"escape", "exit"})
           look == Lookup(PowerClient.lookup)
           run == Ask("running", {"nowait"})
           up == Await("running", T)
           stp == Ask("stopped", {"nowait"})
           down == Await("stopped", T)
           boot == Ask("reboot", {"on"})
           k1 == Kube("True")
           wrong == Step("wrong", "none", R)
           b1 == <<run, up, k1>>
           b2 == <<stp, down>>
           b3 == <<boot, up, wrong>>
           start == Method(<<look1>> \o Repeat(b1) \o <<Record>>, "record")
           stop == Method(<<look>> \o Repeat(b2), "skip")
           reboot == Method(<<look>> \o Repeat(b3), "skip")
<1>1. /\ {"escape", "exit"} \in SUBSET Hows /\ {"nowait"} \in SUBSET Hows
      /\ {"on"} \in SUBSET Hows /\ T \in SUBSET Hows
  BY DEF Hows, T
<1>2. PowerClient.lookup \in SUBSET Hows BY OtherClients DEF AnyClient
<1>3. /\ look1 \in StepT /\ look \in StepT /\ run \in StepT /\ up \in StepT /\ stp \in StepT
      /\ down \in StepT /\ boot \in StepT /\ k1 \in StepT /\ wrong \in StepT /\ Record \in StepT
  BY <1>1, <1>2, TypedSteps, Words
<1>4. Power = [start |-> start, stop |-> stop, reboot |-> reboot, terminate |-> Pass,
               disks |-> NoDisks, block |-> Pass, helper |-> <<>>]
  BY DEF Power
<1> HIDE DEF look1, look, run, up, stp, down, boot, k1, wrong
<1>5. b1 \in Seq(StepT) /\ b1 # <<>> BY <1>3
<1>6. b2 \in Seq(StepT) /\ b2 # <<>> BY <1>3
<1>7. b3 \in Seq(StepT) /\ b3 # <<>> BY <1>3
<1> HIDE DEF b1, b2, b3
<1>8. start \in MethodT /\ stop \in MethodT /\ reboot \in MethodT
  BY <1>3, <1>5, <1>6, <1>7, AroundTyped, Words
<1> HIDE DEF start, stop, reboot
<1> QED BY <1>4, <1>8, PassTyped DEF Typed

LEMMA BackendsTyped == \A c \in DOMAIN Backend : Typed(Backend[c])
<1>1. /\ DOMAIN Backend = Reporting \cup {"alibaba", "vmware", "ibm", "ibmpower", "generic"}
      /\ Backend["alibaba"] = Alibaba /\ Backend["vmware"] = Vmware /\ Backend["ibm"] = Ibm
      /\ Backend["ibmpower"] = Power /\ Backend["generic"] = General
  BY DEF Backend, Reporting
<1>2. \A c \in Reporting : Typed(Backend[c]) BY ReportingGood, ReportsTyped
<1> QED BY <1>1, <1>2, AlibabaTyped, VmwareTyped, IbmTyped, PowerTyped, GeneralTyped

-----------------------------------------------------------------------------
(* The programs of the actions of a file.                                  *)

LEMMA ActionMethods ==
  /\ StopKubelet \in HonestT /\ RestartKubelet \in HonestT /\ Crash \in HonestT
<1> DEFINE down == Step("kubelet", "down", {"on"})
           up == Step("kubelet", "up", {"on"})
           k1 == Kube("Unknown")
           k2 == Kube("True")
<1>1. /\ down \in QuietStep /\ up \in QuietStep /\ k1 \in QuietStep /\ k2 \in QuietStep
      /\ Record \in QuietStep
  BY QuietSteps, Words
<1> HIDE DEF down, up, k1, k2
<1>2. <<down, k1, Record>> \in Seq(QuietStep) /\ <<down, k1, Record>> # <<>> BY <1>1
<1>3. <<up, k2, Record>> \in Seq(QuietStep) /\ <<up, k2, Record>> # <<>> BY <1>1
<1>4. Loop(<<down, k1, Record>>, "raise") \in HonestT BY <1>2, QuietMethod, Words
<1>5. Loop(<<up, k2, Record>>, "raise") \in HonestT BY <1>3, QuietMethod, Words
<1>6. Method(<<down>>, "skip") \in HonestT BY <1>1, QuietOne, Words
<1> QED BY <1>4, <1>5, <1>6 DEF StopKubelet, RestartKubelet, Crash, down, up, k1, k2

LEMMA ProgramTyped ==
  ASSUME NEW c \in DOMAIN Backend, NEW a
  PROVE  Program(c, a) \in Seq(MethodT)
<1> DEFINE b == Backend[c]
           s == Method(<<Sleep>>, "raise")
<1>1. /\ b.start \in MethodT /\ b.stop \in MethodT /\ b.reboot \in MethodT
      /\ b.terminate \in MethodT /\ b.block \in MethodT
      /\ b.disks \in Seq(MethodT) /\ b.helper \in Seq(MethodT)
  BY BackendsTyped DEF Typed
<1>2. s \in MethodT /\ Merge \in MethodT /\ StopKubelet \in MethodT
      /\ RestartKubelet \in MethodT /\ Crash \in MethodT
  BY SleepGood, ActionMethods DEF HonestT
<1> HIDE DEF b, s
<1>3. \A x \in MethodT, y \in MethodT, z \in MethodT, u \in MethodT :
        <<x>> \in Seq(MethodT) /\ <<x, y, z>> \in Seq(MethodT) /\ <<x, y, z, u>> \in Seq(MethodT)
  OBVIOUS
<1>4. <<>> \in Seq(MethodT) OBVIOUS
<1>5. /\ <<b.start>> \in Seq(MethodT) /\ <<b.stop>> \in Seq(MethodT)
      /\ <<b.stop, s, b.start, Merge>> \in Seq(MethodT)
      /\ <<b.terminate>> \in Seq(MethodT) /\ <<b.reboot>> \in Seq(MethodT)
      /\ <<StopKubelet>> \in Seq(MethodT) /\ <<StopKubelet, b.reboot, Merge>> \in Seq(MethodT)
      /\ <<RestartKubelet>> \in Seq(MethodT) /\ <<Crash>> \in Seq(MethodT)
      /\ <<b.block>> \in Seq(MethodT)
  BY <1>1, <1>2, <1>3
<1> QED BY <1>1, <1>4, <1>5 DEF Program, b, s

(* On a backend that reports. *)
LEMMA ProgramHonest ==
  ASSUME NEW c \in Reporting, NEW a
  PROVE  Program(c, a) \in Seq(HonestT)
<1> DEFINE b == Backend[c]
           s == Method(<<Sleep>>, "raise")
<1>1. /\ b.start \in HonestT /\ b.stop \in HonestT /\ b.reboot \in HonestT
      /\ b.terminate \in HonestT /\ b.block \in HonestT
      /\ b.disks \in Seq(HonestT) /\ b.helper \in Seq(HonestT)
  BY ReportingGood, PowerIsHonest DEF Reports
<1>2. s \in HonestT /\ Merge \in HonestT /\ StopKubelet \in HonestT
      /\ RestartKubelet \in HonestT /\ Crash \in HonestT
  BY SleepGood, ActionMethods
<1> HIDE DEF b, s
<1>3. \A x \in HonestT, y \in HonestT, z \in HonestT, u \in HonestT :
        <<x>> \in Seq(HonestT) /\ <<x, y, z>> \in Seq(HonestT) /\ <<x, y, z, u>> \in Seq(HonestT)
  OBVIOUS
<1>4. <<>> \in Seq(HonestT) OBVIOUS
<1>5. /\ <<b.start>> \in Seq(HonestT) /\ <<b.stop>> \in Seq(HonestT)
      /\ <<b.stop, s, b.start, Merge>> \in Seq(HonestT)
      /\ <<b.terminate>> \in Seq(HonestT) /\ <<b.reboot>> \in Seq(HonestT)
      /\ <<StopKubelet>> \in Seq(HonestT) /\ <<StopKubelet, b.reboot, Merge>> \in Seq(HonestT)
      /\ <<RestartKubelet>> \in Seq(HonestT) /\ <<Crash>> \in Seq(HonestT)
      /\ <<b.block>> \in Seq(HonestT)
  BY <1>1, <1>2, <1>3
<1> QED BY <1>1, <1>4, <1>5 DEF Program, b, s

(* A power action asks in its first method, but the termination of some.   *)
LEMMA ProgramPower ==
  ASSUME NEW c \in Reporting, NEW a \in PowerActions
  PROVE  /\ Program(c, a) \in Seq(PowerT)
         /\ a # "node_termination_scenario" =>
              Program(c, a) # <<>> /\ Program(c, a)[1] \in AskingT
<1> DEFINE b == Backend[c]
           s == Method(<<Sleep>>, "raise")
<1>1. /\ b.start \in AskingT /\ b.stop \in AskingT /\ b.reboot \in AskingT
      /\ b.terminate \in PowerT /\ AskingT \subseteq PowerT
  BY ReportingGood, PowerIsHonest DEF Reports
<1>2. s \in PowerT /\ Merge \in PowerT
  <2> DEFINE m == Step("merge", "none", {})
  <2>1. Sleep.do # "record" /\ m.do # "record" /\ Sleep.do # "ask" /\ m.do # "ask"
    BY DEF Sleep, Step
  <2>2. \A t : t.do # "record" => AskedFirst(<<t>>) BY DEF AskedFirst
  <2>3. s.steps = <<Sleep>> /\ Merge.steps = <<m>> BY DEF Method, Merge
  <2> HIDE DEF s, m
  <2> QED BY <2>1, <2>2, <2>3, SleepGood DEF PowerT, HonestT, s
<1> HIDE DEF b, s
<1>3. \A x \in PowerT, y \in PowerT, z \in PowerT, u \in PowerT :
        <<x>> \in Seq(PowerT) /\ <<x, y, z, u>> \in Seq(PowerT)
  OBVIOUS
<1>4. /\ <<b.start>> \in Seq(PowerT) /\ <<b.stop>> \in Seq(PowerT)
      /\ <<b.stop, s, b.start, Merge>> \in Seq(PowerT)
      /\ <<b.terminate>> \in Seq(PowerT) /\ <<b.reboot>> \in Seq(PowerT)
  BY <1>1, <1>2, <1>3
<1>5. \A x, y, z, u : <<x>> # <<>> /\ <<x>>[1] = x /\ <<x, y, z, u>> # <<>> /\ <<x, y, z, u>>[1] = x
  OBVIOUS
<1>6. CASE a = "node_start_scenario" BY <1>1, <1>4, <1>5, <1>6 DEF Program, b
<1>7. CASE a = "node_stop_scenario" BY <1>1, <1>4, <1>5, <1>7 DEF Program, b
<1>8. CASE a = "node_stop_start_scenario" BY <1>1, <1>4, <1>5, <1>8 DEF Program, b, s
<1>9. CASE a = "node_termination_scenario" BY <1>1, <1>4, <1>5, <1>9 DEF Program, b
<1>10. CASE a = "node_reboot_scenario" BY <1>1, <1>4, <1>5, <1>10 DEF Program, b
<1> QED BY <1>6, <1>7, <1>8, <1>9, <1>10 DEF PowerActions

-----------------------------------------------------------------------------
(* Types.                                                                  *)

Place == Node \cup {Helper}
InPlace(x) == x.st = "running" => x.m \in DOMAIN prog /\ x.i \in DOMAIN prog[x.m].steps

PoolOK ==
  /\ rc \in {0, 1} /\ parallel \in BOOLEAN /\ kube \in BOOLEAN
  /\ prog \in Seq(MethodT) /\ work \in Seq(Worker)
  /\ \A w \in DOMAIN work : InPlace(work[w])
  /\ vm \in [Place -> Machine]
  /\ azure \in [subnet : {"orig", "chaos"}, group : BOOLEAN]
  /\ affected \in SUBSET Place /\ asked \in SUBSET Place /\ refused \in SUBSET Place

NodePcs == {"entry", "pick", "work", "extend", "returned", "exited"}
ShutPcs == {"entry", "register", "send_stop", "send_start", "work", "waiting", "returned",
            "exited", "killed", "rolling", "rolled", "handling", "handled"}
ZonePcs == {"entry", "work", "returned", "exited", "killed", "rolling", "rolled", "handling",
            "handled"}
AclPcs == {"entry", "block", "unblock", "delete", "returned"}

NodesOK ==
  /\ file \in Seq(Entry) /\ entry \in Nat \ {0} /\ act \in Nat \ {0}
  /\ general \in BOOLEAN /\ telemetry \in SUBSET Place
  /\ plugin = "nodes" =>
       /\ main \in NodePcs
       /\ main \in {"pick", "work", "extend"} => entry \in DOMAIN file
       /\ main \in {"work", "extend"} => act \in DOMAIN E.actions

ShutOK ==
  /\ plugin = "shut_down" => main \in ShutPcs /\ cloud \in ShutClouds
  /\ plugin = "zone" => main \in ZonePcs /\ cloud = "gcp"
  /\ plugin = "acl" => main \in AclPcs
  /\ round \in Nat /\ registered \in SUBSET Node /\ lost \in SUBSET Node
  /\ unsent \in SUBSET Place
  /\ plugin \in {"shut_down", "zone"} => left \in SUBSET Node
  /\ plugin = "acl" => left \in SUBSET Subnet
  /\ acl \in [Subnet -> {"orig", "deny"}]
  /\ created \in SUBSET Subnet /\ ids \in SUBSET Subnet

(* The actions that are not of the plugin that runs are of no thread.      *)
OutTypeOK ==
  /\ plugin \in {"nodes", "shut_down", "zone", "acl"}
  /\ PoolOK /\ NodesOK /\ ShutOK

LEMMA SetListed ==
  ASSUME NEW S, IsFiniteSet(S)
  PROVE  /\ SetToSeq(S) \in [1..Cardinality(S) -> S] /\ Cardinality(S) \in Nat
         /\ \A x \in S : \E i \in DOMAIN SetToSeq(S) : SetToSeq(S)[i] = x
         /\ \A i, j \in DOMAIN SetToSeq(S) : SetToSeq(S)[i] = SetToSeq(S)[j] => i = j
<1> DEFINE n == Cardinality(S)
<1>1. n \in Nat /\ ExistsBijection(1..n, S) BY FS_CardinalityType
<1>2. \E f \in [1..n -> S] : IsInjective(f)
  BY <1>1 DEF ExistsBijection, Bijection, Injection
<1>3. SetToSeq(S) \in [1..n -> S] /\ IsInjective(SetToSeq(S))
  BY <1>2 DEF SetToSeq
<1>4. Cardinality(1..n) = n BY <1>1, FS_Interval
<1>5. SetToSeq(S) \in Surjection(1..n, S)
  BY <1>3, <1>4, FS_Injection DEF Injection
<1> QED BY <1>1, <1>3, <1>5 DEF Surjection, IsInjective

LEMMA NodesListed ==
  ASSUME NEW S \in SUBSET Node
  PROVE  /\ SetToSeq(S) \in Seq(S) /\ Len(SetToSeq(S)) \in Nat
         /\ DOMAIN SetToSeq(S) = 1..Len(SetToSeq(S))
         /\ \A x \in S : \E i \in DOMAIN SetToSeq(S) : SetToSeq(S)[i] = x
         /\ \A i, j \in DOMAIN SetToSeq(S) : SetToSeq(S)[i] = SetToSeq(S)[j] => i = j
<1>1. IsFiniteSet(S) BY NodeAssumption, FS_Subset
<1> QED BY <1>1, SetListed

-----------------------------------------------------------------------------
(* What a step of a worker can be.                                         *)

(* The worker that goes to step i of method m. *)
At1(x, m, i) == [x EXCEPT !.m = m, !.i = i, !.st = IF m > Len(prog) THEN "done" ELSE @]
Past1(x, i) == IF i <= Len(prog[x.m].steps) THEN At1(x, x.m, i) ELSE At1(x, x.m + 1, 1)

LEMMA GotoIs ==
  ASSUME NEW w \in DOMAIN work, NEW m, NEW i
  PROVE  Goto(w, m, i) = [work EXCEPT ![w] = At1(work[w], m, i)]
BY DEF Goto, At1

LEMMA AfterIs ==
  ASSUME NEW w \in DOMAIN work, NEW i
  PROVE  After(w, i) = [work EXCEPT ![w] = Past1(work[w], i)]
BY GotoIs DEF After, Past1, Steps

LEMMA At1Is ==
  ASSUME NEW x \in Worker, x.st = "running", NEW m \in Nat, NEW i \in Nat
  PROVE  /\ At1(x, m, i) \in Worker /\ At1(x, m, i).node = x.node
         /\ At1(x, m, i).m = m /\ At1(x, m, i).i = i /\ At1(x, m, i).saved = x.saved
         /\ At1(x, m, i).st = IF m > Len(prog) THEN "done" ELSE "running"
BY DEF At1, Worker

LEMMA Past1Is ==
  ASSUME PoolOK, NEW x \in Worker, x.st = "running", InPlace(x), NEW i \in Nat, i > x.i
  PROVE  /\ Past1(x, i) \in Worker /\ Past1(x, i).node = x.node /\ Past1(x, i).saved = x.saved
         /\ InPlace(Past1(x, i))
         /\ Past1(x, i).st \in {"running", "done"}
         /\ i \in DOMAIN prog[x.m].steps =>
              Past1(x, i).m = x.m /\ Past1(x, i).i = i /\ Past1(x, i).st = "running"
         /\ i \notin DOMAIN prog[x.m].steps =>
              /\ Past1(x, i).m = x.m + 1 /\ Past1(x, i).i = 1
              /\ Past1(x, i).st = "done" <=> x.m = Len(prog)
<1> DEFINE s == prog[x.m].steps
<1>1. /\ x.m \in DOMAIN prog /\ x.i \in DOMAIN s /\ x.m \in Nat /\ x.i \in Nat
      /\ DOMAIN prog = 1..Len(prog) /\ Len(prog) \in Nat /\ \A m \in DOMAIN prog : prog[m] \in MethodT
  BY DEF PoolOK, InPlace, Worker
<1>2. s \in Seq(StepT) /\ DOMAIN s = 1..Len(s) /\ Len(s) \in Nat BY <1>1 DEF MethodT, Steps1
<1>3. \A m \in DOMAIN prog : 1 \in DOMAIN prog[m].steps
  <2> TAKE m \in DOMAIN prog
  <2> DEFINE t == prog[m].steps
  <2>1. t \in Seq(StepT) /\ t # <<>> BY <1>1 DEF MethodT, Steps1
  <2> HIDE DEF t
  <2>2. 1 \in DOMAIN t BY <2>1, EmptySeq
  <2> QED BY <2>2 DEF t
<1> HIDE DEF s
<1>4. CASE i \in DOMAIN s
  <2>1. Past1(x, i) = At1(x, x.m, i) BY <1>2, <1>4 DEF Past1, s
  <2>2. ~(x.m > Len(prog)) BY <1>1
  <2>3. /\ Past1(x, i) \in Worker /\ Past1(x, i).node = x.node /\ Past1(x, i).saved = x.saved
        /\ Past1(x, i).m = x.m /\ Past1(x, i).i = i /\ Past1(x, i).st = "running"
    BY <1>1, <2>1, <2>2, At1Is
  <2> QED BY <1>1, <1>4, <2>3 DEF InPlace, s
<1>5. CASE i \notin DOMAIN s
  <2>1. Past1(x, i) = At1(x, x.m + 1, 1) BY <1>1, <1>2, <1>5 DEF Past1, s
  <2>2. x.m + 1 \in Nat /\ (x.m + 1 > Len(prog) <=> x.m = Len(prog))
        /\ (x.m # Len(prog) => x.m + 1 \in DOMAIN prog)
    BY <1>1
  <2>3. /\ Past1(x, i) \in Worker /\ Past1(x, i).node = x.node /\ Past1(x, i).saved = x.saved
        /\ Past1(x, i).m = x.m + 1 /\ Past1(x, i).i = 1
        /\ Past1(x, i).st = IF x.m + 1 > Len(prog) THEN "done" ELSE "running"
    BY <2>1, <2>2, At1Is
  <2> QED BY <1>3, <1>5, <2>2, <2>3 DEF InPlace, s
<1> QED BY <1>4, <1>5

LEMMA LeastOf ==
  ASSUME NEW I \in SUBSET Nat, I # {}
  PROVE  \E x \in I : \A y \in I : x <= y
<1> DEFINE S == {1..x : x \in I}
<1>1. S \subseteq FiniteSubsetsOf(Nat) /\ S # {}
  <2>1. \A x \in I : 1..x \in SUBSET Nat /\ IsFiniteSet(1..x) BY FS_Interval
  <2>2. S # {} OBVIOUS
  <2> QED BY <2>1, <2>2 DEF FiniteSubsetsOf
<1>2. PICK t \in S : \A u \in S : ~(<<u, t>> \in StrictSubsetOrdering(Nat))
  BY <1>1, FS_StrictSubsetOrderingWellFounded, WFMin
<1>3. PICK x \in I : t = 1..x BY <1>2
<1>4. ASSUME NEW y \in I, y < x PROVE FALSE
  <2>1. 1..y \in S OBVIOUS
  <2>2. 1..y \subseteq 1..x /\ x \in 1..x /\ x \notin 1..y BY <1>4
  <2>3. 1..y # 1..x BY <2>2
  <2>4. 1..y \in SUBSET Nat /\ 1..x \in SUBSET Nat OBVIOUS
  <2>5. <<1..y, 1..x>> \in StrictSubsetOrdering(Nat)
    BY <2>2, <2>3, <2>4 DEF StrictSubsetOrdering
  <2> QED BY <1>2, <1>3, <2>1, <2>5
<1> QED BY <1>3, <1>4

(* Where the worker is, and what it is about to do. *)
LEMMA Here ==
  ASSUME PoolOK, NEW w \in DOMAIN work, work[w].st = "running"
  PROVE  /\ work[w] \in Worker /\ InPlace(work[w])
         /\ work[w].m \in Nat /\ work[w].i \in Nat /\ work[w].i >= 1
         /\ work[w].m \in DOMAIN prog /\ prog[work[w].m] \in MethodT
         /\ Steps(w) = prog[work[w].m].steps
         /\ Steps(w) \in Seq(StepT) /\ Len(Steps(w)) \in Nat /\ DOMAIN Steps(w) = 1..Len(Steps(w))
         /\ work[w].i \in DOMAIN Steps(w) /\ Now(w) \in StepT /\ Now(w) = Steps(w)[work[w].i]
<1> DEFINE x == work[w]
<1>1. x \in Worker /\ InPlace(x) BY DEF PoolOK
<1>2. x.m \in DOMAIN prog /\ x.i \in DOMAIN prog[x.m].steps /\ x.m \in Nat /\ x.i \in Nat
  BY <1>1 DEF InPlace, Worker
<1>3. prog[x.m] \in MethodT BY <1>2 DEF PoolOK
<1>4. Steps(w) = prog[x.m].steps BY DEF Steps
<1>5. Steps(w) \in Seq(StepT) BY <1>3, <1>4 DEF MethodT, Steps1
<1>6. Len(Steps(w)) \in Nat /\ DOMAIN Steps(w) = 1..Len(Steps(w)) BY <1>5
<1>7. x.i \in 1..Len(Steps(w)) BY <1>2, <1>4, <1>6
<1>8. Now(w) = Steps(w)[x.i] BY DEF Now
<1>9. Now(w) \in StepT BY <1>5, <1>6, <1>7, <1>8
<1> QED BY <1>1, <1>2, <1>3, <1>4, <1>5, <1>6, <1>7, <1>8, <1>9

(* The step after the waits that follow. *)
LEMMA NoWaitIs ==
  ASSUME PoolOK, NEW w \in DOMAIN work, work[w].st = "running"
  PROVE  NoWait(w) \in Nat /\ NoWait(w) > work[w].i
<1> DEFINE s == Steps(w)
           i == work[w].i
           skip == {"await", "kube"}
           I == {j \in (i + 1)..(Len(s) + 1) : j \in DOMAIN s => s[j].do \notin skip}
<1>1. i \in Nat /\ Len(s) \in Nat /\ DOMAIN s = 1..Len(s) /\ i \in 1..Len(s) BY Here
<1>2. NoWait(w) = CHOOSE j \in (i + 1)..(Len(s) + 1) :
                    /\ j \in DOMAIN s => s[j].do \notin skip
                    /\ \A k \in (i + 1)..(j - 1) : s[k].do \in skip
  BY DEF NoWait
<1> HIDE DEF s, i, skip
<1>3. Len(s) + 1 \in I BY <1>1
<1>4. I \in SUBSET Nat BY <1>1
<1>5. PICK j \in I : \A k \in I : j <= k BY <1>3, <1>4, LeastOf
<1>6. \A k \in (i + 1)..(j - 1) : s[k].do \in skip
  <2> TAKE k \in (i + 1)..(j - 1)
  <2>1. k \in (i + 1)..(Len(s) + 1) /\ k < j BY <1>1, <1>5
  <2>2. k \notin I BY <1>1, <1>4, <1>5, <2>1
  <2> QED BY <2>1, <2>2
<1>7. NoWait(w) \in (i + 1)..(Len(s) + 1) BY <1>2, <1>5, <1>6
<1> QED BY <1>1, <1>7 DEF i

(* A step that goes as it should takes the worker to the next one. *)
GoesOn(w, y) ==
  LET p == Past1(work[w], work[w].i + 1)
  IN  /\ y \in Worker /\ InPlace(y) /\ work' = [work EXCEPT ![w] = y]
      /\ y.node = work[w].node /\ y.m = p.m /\ y.i = p.i /\ y.st = p.st
      /\ y.st \in {"running", "done"}

LEMMA GoingOn ==
  ASSUME PoolOK, NEW w \in DOMAIN work, work[w].st = "running"
  PROVE  /\ Advance(w) => GoesOn(w, Past1(work[w], work[w].i + 1))
         /\ \A v \in {"orig", "chaos"} :
              LET y == [Past1(work[w], work[w].i + 1) EXCEPT !.saved = v]
              IN  work' = [After(w, work[w].i + 1) EXCEPT ![w].saved = v] => GoesOn(w, y)
<1> DEFINE x == work[w]
           p == Past1(x, x.i + 1)
<1>1. x \in Worker /\ InPlace(x) /\ x.st = "running" /\ x.i \in Nat /\ x.i + 1 > x.i
      /\ x.i + 1 \in Nat
  BY Here
<1>2. p \in Worker /\ p.node = x.node /\ InPlace(p) /\ p.st \in {"running", "done"}
  BY <1>1, Past1Is
<1>3. After(w, x.i + 1) = [work EXCEPT ![w] = p] BY AfterIs
<1>4. Advance(w) => GoesOn(w, p)
  <2>1. Advance(w) => work' = [work EXCEPT ![w] = p] BY <1>3 DEF Advance
  <2> HIDE DEF p
  <2> QED BY <1>2, <2>1 DEF GoesOn, p
<1>5. ASSUME NEW v \in {"orig", "chaos"},
             work' = [After(w, x.i + 1) EXCEPT ![w].saved = v]
      PROVE  GoesOn(w, [p EXCEPT !.saved = v])
  <2> DEFINE y == [p EXCEPT !.saved = v]
  <2> HIDE DEF p
  <2>1. y \in Worker /\ y.node = p.node /\ y.m = p.m /\ y.i = p.i /\ y.st = p.st
    BY <1>2 DEF Worker
  <2>2. [[work EXCEPT ![w] = p] EXCEPT ![w].saved = v] = [work EXCEPT ![w] = y]
    OBVIOUS
  <2>3. work' = [work EXCEPT ![w] = y] BY <1>3, <1>5, <2>2
  <2>4. InPlace(y) BY <1>2, <2>1 DEF InPlace
  <2>5. p = Past1(work[w], work[w].i + 1) BY DEF p
  <2>6. y = [p EXCEPT !.saved = v] OBVIOUS
  <2> HIDE DEF y, x
  <2>7. y.node = work[w].node /\ y.st \in {"running", "done"} BY <1>2, <2>1 DEF x
  <2>8. GoesOn(w, y) BY <2>1, <2>3, <2>4, <2>5, <2>7 DEF GoesOn
  <2> QED BY <2>6, <2>8
<1> QED BY <1>4, <1>5

Fine(w) ==
  Quiet(w) \/ Request(w) \/ Reached(w) \/ Append1(w) \/ Command(w) \/ Network(w)

LEMMA FineIs ==
  ASSUME PoolOK, NEW w \in DOMAIN work, Fine(w)
  PROVE  /\ main \in Working /\ work[w].st = "running"
         /\ parallel \/ \A v \in 1..(w - 1) : work[v].st = "done"
         /\ UNCHANGED <<threadvars, parallel, prog, kube, refused>>
         /\ \E y : GoesOn(w, y) /\ (Now(w).do # "block" /\ ~Network(w) => y.saved = work[w].saved)
         /\ affected' \in SUBSET Place /\ asked' \in SUBSET Place
         /\ asked \subseteq asked' /\ affected \subseteq affected'
         /\ Now(w).do = "ask" => Request(w)
         /\ ~Append1(w) => affected' = affected
         /\ ~Request(w) => asked' = asked
         /\ ~Network(w) => azure' = azure
         /\ ~Request(w) /\ ~Command(w) => vm' = vm
         /\ vm' \in [Place -> Machine]
         /\ azure' \in [subnet : {"orig", "chaos"}, group : BOOLEAN]
<1>1. Active(w) BY DEF Fine, Quiet, Request, Reached, Append1, Command, Network, Doing
<1>2. /\ work[w].st = "running" /\ main \in Working
      /\ parallel \/ \A v \in 1..(w - 1) : work[v].st = "done"
  BY <1>1 DEF Active
<1>3. Now(w).do = "ask" => Request(w)
  BY DEF Fine, Quiet, Request, Reached, Append1, Command, Network, Doing
<1>4. work[w] \in Worker /\ Now(w) \in StepT BY <1>2, Here
<1>5. work[w].node \in Place /\ work[w].saved \in {"orig", "chaos"} BY <1>4 DEF Worker, Place
<1>6. vm \in [Place -> Machine] /\ azure \in [subnet : {"orig", "chaos"}, group : BOOLEAN]
  BY DEF PoolOK
<1>7. CASE Quiet(w) \/ Reached(w)
  <2>1. /\ Advance(w) /\ UNCHANGED <<threadvars, parallel, prog, kube, affected, asked, refused,
                                     vm, azure>>
    BY <1>7 DEF Quiet, Reached, OnlyCloud, cloudvars, records
  <2>2. GoesOn(w, Past1(work[w], work[w].i + 1)) BY <1>2, <2>1, GoingOn
  <2>3. Past1(work[w], work[w].i + 1).saved = work[w].saved BY <1>2, Here, Past1Is
  <2> QED BY <1>2, <1>3, <1>6, <2>1, <2>2, <2>3 DEF PoolOK
<1>8. CASE Request(w)
  <2> DEFINE n == work[w].node
  <2>1. /\ Advance(w)
        /\ UNCHANGED <<threadvars, parallel, prog, kube, affected, refused, azure>>
        /\ asked' = asked \cup {n} /\ vm' = [vm EXCEPT ![n].pending = Now(w).to]
        /\ Now(w).do = "ask"
    BY <1>8 DEF Request, Doing
  <2>2. GoesOn(w, Past1(work[w], work[w].i + 1)) BY <1>2, <2>1, GoingOn
  <2>3. Past1(work[w], work[w].i + 1).saved = work[w].saved BY <1>2, Here, Past1Is
  <2>4. Now(w).to \in Wanted BY <1>4, <2>1 DEF StepT
  <2>5. vm[n] \in Machine BY <1>5, <1>6
  <2>6. [vm[n] EXCEPT !.pending = Now(w).to] \in Machine BY <2>4, <2>5 DEF Machine, Wanted
  <2>7. vm' \in [Place -> Machine] BY <1>5, <1>6, <2>1, <2>6
  <2> QED BY <1>2, <1>3, <1>5, <1>6, <1>8, <2>1, <2>2, <2>3, <2>7 DEF PoolOK
<1>9. CASE Append1(w)
  <2>1. /\ Advance(w)
        /\ UNCHANGED <<threadvars, parallel, prog, kube, vm, azure, asked, refused>>
        /\ affected' = affected \cup {work[w].node}
    BY <1>9 DEF Append1, cloudvars
  <2>2. GoesOn(w, Past1(work[w], work[w].i + 1)) BY <1>2, <2>1, GoingOn
  <2>3. Past1(work[w], work[w].i + 1).saved = work[w].saved BY <1>2, Here, Past1Is
  <2> QED BY <1>2, <1>3, <1>5, <1>6, <1>9, <2>1, <2>2, <2>3 DEF PoolOK
<1>10. CASE Command(w)
  <2> DEFINE n == work[w].node
  <2>1. /\ Advance(w)
        /\ UNCHANGED <<threadvars, parallel, prog, kube, affected, asked, refused, azure>>
        /\ \/ vm' = [vm EXCEPT ![n].kubelet = (Now(w).to = "up")]
           \/ \E d \in {"in", "leaving", "out"} : vm' = [vm EXCEPT ![n].disks = d]
    <3>1. vm[n].disks \in {"in", "leaving", "out"} BY <1>5, <1>6 DEF Machine
    <3>2. CASE Doing(w, "kubelet") /\ vm' = [vm EXCEPT ![n].kubelet = (Now(w).to = "up")]
      BY <1>10, <3>2 DEF Command, OnlyCloud, records
    <3>3. CASE vm' = [vm EXCEPT ![n].disks = "out"]
      BY <1>10, <3>3 DEF Command, OnlyCloud, records
    <3>4. CASE vm' = [vm EXCEPT ![n].disks = IF @ = "in" THEN "leaving" ELSE @]
      <4>1. PICK d \in {"in", "leaving", "out"} : d = IF vm[n].disks = "in" THEN "leaving" ELSE vm[n].disks
        BY <3>1
      <4>2. vm' = [vm EXCEPT ![n].disks = d] BY <3>4, <4>1
      <4> QED BY <1>10, <4>2 DEF Command, OnlyCloud, records
    <3>5. CASE vm' = [vm EXCEPT ![n].disks = IF @ = "out" THEN "in" ELSE @]
      <4>1. PICK d \in {"in", "leaving", "out"} : d = IF vm[n].disks = "out" THEN "in" ELSE vm[n].disks
        BY <3>1
      <4>2. vm' = [vm EXCEPT ![n].disks = d] BY <3>5, <4>1
      <4> QED BY <1>10, <4>2 DEF Command, OnlyCloud, records
    <3> QED BY <1>10, <3>2, <3>3, <3>4, <3>5 DEF Command
  <2>2. GoesOn(w, Past1(work[w], work[w].i + 1)) BY <1>2, <2>1, GoingOn
  <2>3. Past1(work[w], work[w].i + 1).saved = work[w].saved BY <1>2, Here, Past1Is
  <2>4. vm[n] \in Machine BY <1>5, <1>6
  <2>5. /\ \A b \in BOOLEAN : [vm[n] EXCEPT !.kubelet = b] \in Machine
        /\ \A d \in {"in", "leaving", "out"} : [vm[n] EXCEPT !.disks = d] \in Machine
    BY <2>4 DEF Machine
  <2>6. (Now(w).to = "up") \in BOOLEAN OBVIOUS
  <2>7. vm' \in [Place -> Machine] BY <1>5, <1>6, <2>1, <2>5, <2>6
  <2> QED BY <1>2, <1>3, <1>6, <1>10, <2>1, <2>2, <2>3, <2>7 DEF PoolOK
<1>11. CASE Network(w)
  <2> DEFINE v == IF Now(w).do = "block" THEN azure.subnet ELSE After(w, work[w].i + 1)[w].saved
  <2>1. After(w, work[w].i + 1)[w] = Past1(work[w], work[w].i + 1) BY AfterIs DEF PoolOK
  <2>2. Past1(work[w], work[w].i + 1).saved = work[w].saved BY <1>2, Here, Past1Is
  <2>3. v \in {"orig", "chaos"} BY <1>5, <1>6, <2>1, <2>2
  <2>4. /\ work' = [After(w, work[w].i + 1) EXCEPT ![w].saved = v]
        /\ UNCHANGED <<threadvars, parallel, prog, kube, affected, asked, refused, vm>>
    BY <1>11 DEF Network, OnlyCloud, records
  <2>5. \E y : GoesOn(w, y)
    <3> HIDE DEF v
    <3> QED BY <1>2, <2>3, <2>4, GoingOn
  <2>6. azure' \in [subnet : {"orig", "chaos"}, group : BOOLEAN]
    BY <1>5, <1>6, <1>11 DEF Network
  <2> QED BY <1>2, <1>3, <1>6, <1>11, <2>4, <2>5, <2>6 DEF PoolOK
<1> QED BY <1>7, <1>8, <1>9, <1>10, <1>11 DEF Fine

(* A step that goes wrong. *)
Ends(w, y, st) ==
  /\ y = [work[w] EXCEPT !.st = st] /\ y \in Worker /\ y.node = work[w].node
  /\ y.st = st /\ y.m = work[w].m /\ y.i = work[w].i /\ y.saved = work[w].saved
  /\ InPlace(y) /\ work' = [work EXCEPT ![w] = y]
(* It goes on from somewhere else. *)
Leaps(w, y) ==
  /\ y \in Worker /\ InPlace(y) /\ work' = [work EXCEPT ![w] = y]
  /\ y.node = work[w].node /\ y.saved = work[w].saved /\ y.st \in {"running", "done"}
  /\ \/ y.m = work[w].m /\ y.st = "running"
     \/ y.m > work[w].m /\ y.i = 1

LEMMA EndsIs ==
  ASSUME PoolOK, NEW w \in DOMAIN work, NEW st \in {"failed", "lost"},
         work' = [work EXCEPT ![w].st = st]
  PROVE  Ends(w, [work[w] EXCEPT !.st = st], st)
<1> DEFINE y == [work[w] EXCEPT !.st = st]
<1>1. work[w] \in Worker BY DEF PoolOK
<1>2. /\ y \in Worker /\ y.node = work[w].node /\ y.st = st /\ y.m = work[w].m
      /\ y.i = work[w].i /\ y.saved = work[w].saved
  BY <1>1 DEF Worker
<1>3. work' = [work EXCEPT ![w] = y] OBVIOUS
<1>4. InPlace(y) BY <1>2 DEF InPlace
<1> QED BY <1>2, <1>3, <1>4 DEF Ends

LEMMA LeapsTo ==
  ASSUME PoolOK, NEW w \in DOMAIN work, work[w].st = "running"
  PROVE  /\ work' = Goto(w, work[w].m + 1, 1) => Leaps(w, At1(work[w], work[w].m + 1, 1))
         /\ work' = Goto(w, Len(prog) + 1, 1) => Leaps(w, At1(work[w], Len(prog) + 1, 1))
         /\ \A i \in Nat : i > work[w].i /\ work' = After(w, i) => Leaps(w, Past1(work[w], i))
<1> DEFINE x == work[w]
<1>1. /\ x \in Worker /\ InPlace(x) /\ x.st = "running" /\ x.i \in Nat /\ x.m \in DOMAIN prog
      /\ x.m \in Nat
  BY Here
<1>2. Len(prog) \in Nat /\ DOMAIN prog = 1..Len(prog) BY DEF PoolOK
<1>3. ASSUME NEW m \in {x.m + 1, Len(prog) + 1}, work' = Goto(w, m, 1)
      PROVE  Leaps(w, At1(x, m, 1))
  <2> DEFINE y == At1(x, m, 1)
  <2>1. m \in Nat /\ m > x.m /\ 1 \in Nat BY <1>1, <1>2
  <2>2. /\ y \in Worker /\ y.node = x.node /\ y.m = m /\ y.i = 1 /\ y.saved = x.saved
        /\ y.st = IF m > Len(prog) THEN "done" ELSE "running"
    BY <1>1, <2>1, At1Is
  <2>3. work' = [work EXCEPT ![w] = y] BY <1>3, GotoIs
  <2>4. y.st = "running" => m \in DOMAIN prog
    <3>1. m >= 1 BY <1>1, <2>1
    <3>2. ~(m > Len(prog)) => m \in 1..Len(prog) BY <1>2, <2>1, <3>1
    <3> QED BY <1>2, <2>2, <3>2
  <2>5. \A k \in DOMAIN prog : 1 \in DOMAIN prog[k].steps
    <3> TAKE k \in DOMAIN prog
    <3> DEFINE t == prog[k].steps
    <3>0. prog[k] \in MethodT BY DEF PoolOK
    <3>1. t \in Seq(StepT) /\ t # <<>> BY <3>0 DEF MethodT, Steps1
    <3> HIDE DEF t
    <3>2. 1 \in DOMAIN t BY <3>1, EmptySeq
    <3> QED BY <3>2 DEF t
  <2>6. InPlace(y) BY <2>2, <2>4, <2>5 DEF InPlace
  <2>7. y.node = work[w].node /\ y.saved = work[w].saved /\ y.m > work[w].m
    BY <2>1, <2>2
  <2>8. y.st \in {"running", "done"} BY <2>2
  <2> HIDE DEF y
  <2>9. Leaps(w, y) BY <2>2, <2>3, <2>6, <2>7, <2>8 DEF Leaps
  <2> QED BY <2>9 DEF y
<1>4. ASSUME NEW i \in Nat, i > x.i, work' = After(w, i) PROVE Leaps(w, Past1(x, i))
  <2> DEFINE y == Past1(x, i)
  <2>1. /\ y \in Worker /\ y.node = x.node /\ y.saved = x.saved
        /\ InPlace(y) /\ y.st \in {"running", "done"}
        /\ i \in DOMAIN prog[x.m].steps => y.m = x.m /\ y.i = i /\ y.st = "running"
        /\ i \notin DOMAIN prog[x.m].steps => y.m = x.m + 1 /\ y.i = 1
    BY <1>1, <1>4, Past1Is
  <2>2. work' = [work EXCEPT ![w] = y] BY <1>4, AfterIs
  <2>3. /\ y.node = work[w].node /\ y.saved = work[w].saved
        /\ (y.m = work[w].m /\ y.st = "running") \/ (y.m > work[w].m /\ y.i = 1)
    BY <1>1, <2>1
  <2> HIDE DEF y
  <2>4. Leaps(w, y) BY <2>1, <2>2, <2>3 DEF Leaps
  <2> QED BY <2>4 DEF y
<1> QED BY <1>3, <1>4

LEMMA WrongIs ==
  ASSUME PoolOK, NEW w \in DOMAIN work, Wrong(w)
  PROVE  /\ main \in Working /\ work[w].st = "running"
         /\ parallel \/ \A v \in 1..(w - 1) : work[v].st = "done"
         /\ UNCHANGED <<plugin, parallel, prog, kube, vm, azure, affected, asked>>
         /\ refused' \in SUBSET Place
         /\ Now(w).do # "ask" => refused' = refused
         /\ \E y, how :
              /\ how \in Now(w).bad
              /\ Ends(w, y, "failed") \/ Ends(w, y, "lost") \/ Leaps(w, y)
              /\ how \in {"on", "timeout"} => GoesOn(w, y)
              /\ how = "raise" /\ prog[work[w].m].onError = "raise" => Ends(w, y, "failed")
              /\ how = "exit" => Ends(w, y, "lost")
              /\ IF how = "exit" /\ ~parallel THEN main' = "exited" /\ rc' = 1
                 ELSE main' = main /\ rc' = rc
<1> DEFINE x == work[w]
<1>1. /\ x.st = "running" /\ main \in Working
      /\ parallel \/ \A v \in 1..(w - 1) : work[v].st = "done"
  BY DEF Wrong, Active
<1>2. x \in Worker /\ Now(w) \in StepT /\ x.i \in Nat /\ x.m \in DOMAIN prog
      /\ prog[x.m] \in MethodT /\ Len(Steps(w)) \in Nat /\ DOMAIN Steps(w) = 1..Len(Steps(w))
      /\ x.i \in DOMAIN Steps(w)
  BY <1>1, Here
<1>3. x.node \in Place BY <1>2 DEF Worker, Place
<1>4. PICK how \in Now(w).bad :
        /\ work' = CASE how \in {"on", "timeout"} -> After(w, x.i + 1)
                     [] how = "nowait" -> After(w, NoWait(w))
                     [] how = "none" -> Goto(w, Len(prog) + 1, 1)
                     [] how = "raise" -> Caught(w)
                     [] how = "escape" -> [work EXCEPT ![w].st = "failed"]
                     [] how = "exit" -> [work EXCEPT ![w].st = "lost"]
        /\ IF how = "exit" /\ ~parallel THEN Raises("exited") ELSE UNCHANGED threadvars
  BY DEF Wrong
<1>5. /\ UNCHANGED <<parallel, prog, kube, vm, azure, affected, asked>>
      /\ refused' = IF Now(w).do = "ask" THEN refused \cup {x.node} ELSE refused
  BY DEF Wrong, cloudvars
<1>6. how \in Hows BY <1>2 DEF StepT
<1>7. /\ plugin' = plugin
      /\ IF how = "exit" /\ ~parallel THEN main' = "exited" /\ rc' = 1
         ELSE main' = main /\ rc' = rc
  BY <1>4 DEF Raises, threadvars
<1>8. refused' \in SUBSET Place BY <1>3, <1>5 DEF PoolOK
<1>9. \E y : /\ Ends(w, y, "failed") \/ Ends(w, y, "lost") \/ Leaps(w, y)
             /\ how \in {"on", "timeout"} => GoesOn(w, y)
             /\ how = "raise" /\ prog[work[w].m].onError = "raise" => Ends(w, y, "failed")
             /\ how = "exit" => Ends(w, y, "lost")
  <2>1. CASE how \in {"on", "timeout"}
    <3>1. work' = After(w, x.i + 1) BY <1>4, <2>1
    <3>2. x.i + 1 \in Nat /\ x.i + 1 > x.i BY <1>2
    <3>3. Leaps(w, Past1(x, x.i + 1)) BY <1>1, <3>1, <3>2, LeapsTo
    <3>4. GoesOn(w, Past1(x, x.i + 1)) BY <1>1, <3>1, GoingOn DEF Advance
    <3> QED BY <2>1, <3>3, <3>4
  <2>2. CASE how = "nowait"
    <3>1. work' = After(w, NoWait(w)) BY <1>4, <2>2
    <3>2. NoWait(w) \in Nat /\ NoWait(w) > x.i BY <1>1, NoWaitIs
    <3>3. Leaps(w, Past1(x, NoWait(w))) BY <1>1, <3>1, <3>2, LeapsTo
    <3> QED BY <2>2, <3>3
  <2>3. CASE how = "none"
    <3>1. work' = Goto(w, Len(prog) + 1, 1) BY <1>4, <2>3
    <3>2. Leaps(w, At1(x, Len(prog) + 1, 1)) BY <1>1, <3>1, LeapsTo
    <3> QED BY <2>3, <3>2
  <2>4. CASE how = "escape"
    <3>1. work' = [work EXCEPT ![w].st = "failed"] BY <1>4, <2>4
    <3>2. Ends(w, [x EXCEPT !.st = "failed"], "failed") BY <3>1, EndsIs
    <3> QED BY <2>4, <3>2
  <2>5. CASE how = "exit"
    <3>1. work' = [work EXCEPT ![w].st = "lost"] BY <1>4, <2>5
    <3>2. Ends(w, [x EXCEPT !.st = "lost"], "lost") BY <3>1, EndsIs
    <3> QED BY <2>5, <3>2
  <2>6. CASE how = "raise"
    <3>1. work' = Caught(w) BY <1>4, <2>6
    <3>2. prog[x.m].onError \in {"raise", "skip", "record"} BY <1>2 DEF MethodT
    <3>3. CASE prog[x.m].onError = "raise"
      <4>1. work' = [work EXCEPT ![w].st = "failed"] BY <3>1, <3>3 DEF Caught
      <4>2. Ends(w, [x EXCEPT !.st = "failed"], "failed") BY <4>1, EndsIs
      <4> QED BY <2>6, <4>2
    <3>4. CASE prog[x.m].onError = "skip"
      <4>1. work' = Goto(w, x.m + 1, 1) BY <3>1, <3>4 DEF Caught
      <4>2. Leaps(w, At1(x, x.m + 1, 1)) BY <1>1, <4>1, LeapsTo
      <4> QED BY <2>6, <3>4, <4>2
    <3>5. CASE prog[x.m].onError = "record"
      <4>1. work' = After(w, Len(Steps(w))) BY <3>1, <3>5 DEF Caught
      <4>2. CASE Len(Steps(w)) > x.i
        <5>1. Leaps(w, Past1(x, Len(Steps(w)))) BY <1>1, <1>2, <4>1, <4>2, LeapsTo
        <5> QED BY <2>6, <3>5, <5>1
      <4>3. CASE Len(Steps(w)) = x.i
        <5> DEFINE y == At1(x, x.m, x.i)
        <5>1. work' = Goto(w, x.m, x.i) BY <1>2, <4>1, <4>3 DEF After
        <5>2. work' = [work EXCEPT ![w] = y] BY <5>1, GotoIs
        <5>3. x.m \in Nat /\ ~(x.m > Len(prog)) BY <1>2 DEF PoolOK, Worker
        <5>4. /\ y \in Worker /\ y.node = x.node /\ y.saved = x.saved /\ y.m = x.m
              /\ y.i = x.i /\ y.st = "running"
          BY <1>1, <1>2, <5>3, At1Is
        <5>5. InPlace(y) BY <1>1, <5>4, Here DEF InPlace
        <5>6. y.m = work[w].m /\ y.node = work[w].node /\ y.saved = work[w].saved BY <5>4
        <5> HIDE DEF y
        <5>7. Leaps(w, y) BY <5>2, <5>4, <5>5, <5>6 DEF Leaps
        <5> QED BY <2>6, <3>5, <5>7
      <4> QED BY <1>2, <4>2, <4>3
    <3> QED BY <3>2, <3>3, <3>4, <3>5
  <2> QED BY <1>6, <2>1, <2>2, <2>3, <2>4, <2>5, <2>6 DEF Hows
<1>10. PICK y : /\ Ends(w, y, "failed") \/ Ends(w, y, "lost") \/ Leaps(w, y)
                /\ how \in {"on", "timeout"} => GoesOn(w, y)
                /\ how = "raise" /\ prog[work[w].m].onError = "raise" => Ends(w, y, "failed")
                /\ how = "exit" => Ends(w, y, "lost")
  BY <1>9
<1>11. \E z, h :
         /\ h \in Now(w).bad
         /\ Ends(w, z, "failed") \/ Ends(w, z, "lost") \/ Leaps(w, z)
         /\ h \in {"on", "timeout"} => GoesOn(w, z)
         /\ h = "raise" /\ prog[work[w].m].onError = "raise" => Ends(w, z, "failed")
         /\ h = "exit" => Ends(w, z, "lost")
         /\ IF h = "exit" /\ ~parallel THEN main' = "exited" /\ rc' = 1
            ELSE main' = main /\ rc' = rc
  <2> WITNESS y, how
  <2> QED BY <1>4, <1>7, <1>10
<1>12. Now(w).do # "ask" => refused' = refused BY <1>5
<1> QED BY <1>1, <1>5, <1>7, <1>8, <1>11, <1>12

(* What every step of a worker leaves alone, whatever it does. *)
LEMMA WorkerShape ==
  ASSUME PoolOK, NEW w \in DOMAIN work, WorkerStep(w)
  PROVE  /\ PoolOK'
         /\ main \in Working /\ work[w].st = "running"
         /\ UNCHANGED <<plugin, parallel, prog, kube>> /\ DOMAIN work' = DOMAIN work
         /\ \/ main' = main /\ rc' = rc
            \/ main' = "exited" /\ rc' = 1 /\ ~parallel
         /\ \E y \in Worker : work' = [work EXCEPT ![w] = y] /\ y.node = work[w].node
         /\ asked' \subseteq asked \cup {work[w].node}
<1>1. \/ Fine(w) \/ Wrong(w) BY DEF WorkerStep, Fine
<1> DEFINE Rest ==
             /\ main \in Working /\ work[w].st = "running"
             /\ UNCHANGED <<plugin, parallel, prog, kube>>
             /\ \/ main' = main /\ rc' = rc
                \/ main' = "exited" /\ rc' = 1 /\ ~parallel
             /\ asked' \subseteq asked \cup {work[w].node}
             /\ affected' \in SUBSET Place /\ asked' \in SUBSET Place /\ refused' \in SUBSET Place
             /\ vm' \in [Place -> Machine]
             /\ azure' \in [subnet : {"orig", "chaos"}, group : BOOLEAN]
           Move(y) == /\ y \in Worker /\ InPlace(y) /\ work' = [work EXCEPT ![w] = y]
                      /\ y.node = work[w].node
<1>2. ASSUME Fine(w) PROVE Rest /\ \E y : Move(y)
  <2>1. /\ main \in Working /\ work[w].st = "running"
        /\ UNCHANGED <<threadvars, parallel, prog, kube, refused>>
        /\ affected' \in SUBSET Place /\ asked' \in SUBSET Place
        /\ vm' \in [Place -> Machine]
        /\ azure' \in [subnet : {"orig", "chaos"}, group : BOOLEAN]
        /\ ~Request(w) => asked' = asked
    BY <1>2, FineIs
  <2>2. Request(w) => asked' = asked \cup {work[w].node} BY DEF Request
  <2>3. asked' \subseteq asked \cup {work[w].node} BY <2>1, <2>2
  <2>4. refused' \in SUBSET Place BY <2>1 DEF PoolOK
  <2>5. Rest BY <2>1, <2>3, <2>4 DEF threadvars
  <2>6. PICK y : GoesOn(w, y) BY <1>2, FineIs
  <2>7. Move(y) BY <2>6 DEF GoesOn
  <2> QED BY <2>5, <2>7
<1>3. ASSUME Wrong(w) PROVE Rest /\ \E y : Move(y)
  <2>1. /\ main \in Working /\ work[w].st = "running"
        /\ UNCHANGED <<plugin, parallel, prog, kube, vm, azure, affected, asked>>
        /\ refused' \in SUBSET Place
    BY <1>3, WrongIs
  <2>2. PICK y, how :
          /\ Ends(w, y, "failed") \/ Ends(w, y, "lost") \/ Leaps(w, y)
          /\ IF how = "exit" /\ ~parallel THEN main' = "exited" /\ rc' = 1
             ELSE main' = main /\ rc' = rc
    BY <1>3, WrongIs
  <2>3. Move(y) BY <2>2 DEF Ends, Leaps
  <2>4. \/ main' = main /\ rc' = rc
        \/ main' = "exited" /\ rc' = 1 /\ ~parallel
    BY <2>2
  <2>5. /\ affected' \in SUBSET Place /\ asked' \in SUBSET Place /\ vm' \in [Place -> Machine]
        /\ azure' \in [subnet : {"orig", "chaos"}, group : BOOLEAN]
    BY <2>1 DEF PoolOK
  <2>6. Rest BY <2>1, <2>4, <2>5
  <2> QED BY <2>3, <2>6
<1>4. Rest /\ \E y : Move(y) BY <1>1, <1>2, <1>3
<1>5. PICK y : Move(y) BY <1>4
<1>6. work' \in Seq(Worker) /\ DOMAIN work' = DOMAIN work
  <2>1. work \in Seq(Worker) /\ y \in Worker /\ work' = [work EXCEPT ![w] = y]
    BY <1>5 DEF PoolOK
  <2> QED BY <2>1
<1>7. prog' = prog /\ parallel' = parallel /\ kube' = kube BY <1>4
<1>8. \A v \in DOMAIN work' :
        work'[v].st = "running" =>
          work'[v].m \in DOMAIN prog' /\ work'[v].i \in DOMAIN prog'[work'[v].m].steps
  <2> TAKE v \in DOMAIN work'
  <2>1. work'[v] = IF v = w THEN y ELSE work[v] BY <1>5, <1>6
  <2>2. InPlace(work'[v]) BY <1>5, <1>6, <2>1 DEF PoolOK
  <2> QED BY <1>7, <2>2 DEF InPlace
<1>9. rc' \in {0, 1} BY <1>4 DEF PoolOK
<1>10. PoolOK' BY <1>4, <1>6, <1>7, <1>8, <1>9 DEF PoolOK, InPlace
<1> QED BY <1>4, <1>5, <1>6, <1>10

LEMMA LaunchIs ==
  ASSUME NEW nodes \in Seq(Place), NEW p \in Seq(MethodT), NEW par \in BOOLEAN,
         NEW k \in BOOLEAN, Launch(nodes, p, par, k)
  PROVE  /\ prog' = p /\ parallel' = par /\ kube' = k
         /\ work' \in Seq(Worker) /\ DOMAIN work' = DOMAIN nodes
         /\ \A j \in DOMAIN nodes :
              /\ work'[j].node = nodes[j] /\ work'[j].m = 1 /\ work'[j].i = 1
              /\ work'[j].st = IF p = <<>> THEN "done" ELSE "running"
              /\ work'[j].saved = "orig"
         /\ \A w \in DOMAIN work' : InPlace(work[w])'
<1> DEFINE st == IF p = <<>> THEN "done" ELSE "running"
           new(j) == [node |-> nodes[j], m |-> 1, i |-> 1, saved |-> "orig", st |-> st]
<1>1. prog' = p /\ parallel' = par /\ kube' = k /\ work' = [j \in DOMAIN nodes |-> new(j)]
  BY DEF Launch
<1>2. \A j \in DOMAIN nodes : new(j) \in Worker BY DEF Worker, Place
<1>3. DOMAIN nodes = 1..Len(nodes) /\ Len(nodes) \in Nat OBVIOUS
<1>4. work' \in Seq(Worker) /\ DOMAIN work' = DOMAIN nodes
  <2> HIDE DEF new
  <2>1. \A j \in 1..Len(nodes) : new(j) \in Worker BY <1>2, <1>3
  <2>2. [j \in 1..Len(nodes) |-> new(j)] \in Seq(Worker) BY <1>3, <2>1, IsASeq
  <2> QED BY <1>1, <1>3, <2>2
<1>5. \A j \in DOMAIN nodes : work'[j] = new(j) BY <1>1
<1>6. p # <<>> => 1 \in DOMAIN p /\ 1 \in DOMAIN p[1].steps
  <2> SUFFICES ASSUME p # <<>> PROVE 1 \in DOMAIN p /\ 1 \in DOMAIN p[1].steps OBVIOUS
  <2>1. 1 \in DOMAIN p BY EmptySeq
  <2>2. p[1] \in MethodT BY <2>1
  <2> DEFINE t == p[1].steps
  <2>3. t \in Seq(StepT) /\ t # <<>> BY <2>2 DEF MethodT, Steps1
  <2> HIDE DEF t
  <2>4. 1 \in DOMAIN t BY <2>3, EmptySeq
  <2> QED BY <2>1, <2>4 DEF t
<1>7. \A j \in DOMAIN nodes :
        /\ work'[j].node = nodes[j] /\ work'[j].m = 1 /\ work'[j].i = 1
        /\ work'[j].st = st /\ work'[j].saved = "orig"
  <2> TAKE j \in DOMAIN nodes
  <2> DEFINE a == nodes[j]
  <2> HIDE DEF st
  <2>1. work'[j] = [node |-> a, m |-> 1, i |-> 1, saved |-> "orig", st |-> st] BY <1>5
  <2> HIDE DEF a
  <2>2. /\ work'[j].node = a /\ work'[j].m = 1 /\ work'[j].i = 1
        /\ work'[j].st = st /\ work'[j].saved = "orig"
    BY <2>1
  <2> QED BY <2>2 DEF a
<1>8. \A w \in DOMAIN work' : InPlace(work[w])'
  BY <1>1, <1>4, <1>6, <1>7 DEF InPlace
<1> QED BY <1>1, <1>4, <1>7, <1>8

-----------------------------------------------------------------------------
(* The type invariant.                                                     *)

(* What the plugin needs of an entry, and the nodes it picks.              *)
LEMMA EntryIs ==
  ASSUME NodesOK, entry \in DOMAIN file
  PROVE  /\ E \in Entry /\ E.cloud \in DOMAIN Backend /\ E.parallel \in BOOLEAN
         /\ E.kube \in BOOLEAN /\ E.names \in SUBSET Node /\ E.exclude \in SUBSET Node
         /\ E.actions \in Seq(STRING) /\ E.labels \in Nat /\ E.count \in Nat
         /\ ActProgram \in Seq(MethodT)
<1>1. E \in Entry BY DEF E, NodesOK
<1>2. E.cloud \in DOMAIN Backend BY <1>1 DEF Entry
<1>3. Program(E.cloud, Act) \in Seq(MethodT) BY <1>2, ProgramTyped
<1>4. ActProgram \in Seq(MethodT) BY <1>3, PassTyped DEF ActProgram
<1> QED BY <1>1, <1>2, <1>4 DEF Entry

LEMMA TargetsIs ==
  ASSUME NEW nodes \in Seq(Node)
  PROVE  /\ Targets(nodes) \in Seq(Place) /\ DOMAIN Targets(nodes) = DOMAIN nodes
         /\ (Targets(nodes) = <<>>) <=> (nodes = <<>>)
         /\ \A j \in DOMAIN nodes :
              Targets(nodes)[j] = IF Act = "stop_start_helper_node_scenario" THEN Helper
                                  ELSE nodes[j]
<1> DEFINE t(j) == IF Act = "stop_start_helper_node_scenario" THEN Helper ELSE nodes[j]
<1>1. DOMAIN nodes = 1..Len(nodes) /\ Len(nodes) \in Nat OBVIOUS
<1>2. Targets(nodes) = [j \in 1..Len(nodes) |-> t(j)] BY <1>1 DEF Targets
<1>3. \A j \in 1..Len(nodes) : t(j) \in Place BY <1>1 DEF Place
<1> HIDE DEF t
<1>4. Targets(nodes) \in Seq(Place) BY <1>1, <1>2, <1>3, IsASeq
<1>5. DOMAIN Targets(nodes) = 1..Len(nodes) BY <1>2
<1>6. (Targets(nodes) = <<>>) <=> (nodes = <<>>)
  <2>1. \A s : s \in Seq(Place) \/ s \in Seq(Node) => (s = <<>> <=> DOMAIN s = {})
    <3>1. \A s \in Seq(Place) : s = <<>> <=> DOMAIN s = {} BY EmptySeq
    <3>2. \A s \in Seq(Node) : s = <<>> <=> DOMAIN s = {} BY EmptySeq
    <3> QED BY <3>1, <3>2
  <2> QED BY <1>1, <1>4, <1>5, <2>1
<1>7. \A j \in DOMAIN nodes : Targets(nodes)[j] = t(j) BY <1>1, <1>2
<1> QED BY <1>1, <1>4, <1>5, <1>6, <1>7 DEF t

LEMMA PicksIs ==
  ASSUME NEW nodes \in Picks
  PROVE  nodes \in Seq(Node)
<1>1. PICK k \in Nat : nodes \in Drawn(k)
  BY DEF Picks
<1>2. nodes \in [1..k -> Ready \ E.exclude] BY <1>1 DEF Drawn
<1>3. nodes \in [1..k -> Node] BY <1>2 DEF Ready
<1> QED BY <1>1, <1>3

LEMMA PoolStays ==
  ASSUME PoolOK, rc' \in {0, 1}, UNCHANGED <<parallel, prog, kube, work, cloudvars, records>>
  PROVE  PoolOK'
<1>1. /\ parallel' = parallel /\ prog' = prog /\ kube' = kube /\ work' = work /\ vm' = vm
      /\ azure' = azure /\ affected' = affected /\ asked' = asked /\ refused' = refused
  BY DEF cloudvars, records
<1> QED BY <1>1 DEF PoolOK, InPlace

LEMMA NextEntryType ==
  ASSUME OutTypeOK, NextEntry PROVE PoolOK' /\ NodesOK'
<1>1. plugin = "nodes" /\ plugin' = plugin /\ PoolOK /\ NodesOK
  BY DEF NextEntry, NodesAt, At, OutTypeOK
<1>2. /\ UNCHANGED <<parallel, prog, kube, work, vm, azure, file, entry, telemetry>>
      /\ \/ UNCHANGED <<general, affected, asked, refused, act>> /\ main' = "returned"
            /\ rc' \in {0, 1}
         \/ /\ entry <= Len(file) /\ E.actions # <<>> /\ main' = "pick" /\ rc' = rc
            /\ affected' = {} /\ asked' = {} /\ refused' = refused
            /\ general' = (general \/ E.cloud = "generic") /\ act' = 1
  BY DEF NextEntry, Return, cloudvars
<1>3. /\ affected' \in SUBSET Place /\ asked' \in SUBSET Place /\ refused' \in SUBSET Place
      /\ rc' \in {0, 1} /\ act' \in Nat \ {0} /\ main' \in {"returned", "pick"}
  BY <1>1, <1>2 DEF PoolOK, NodesOK
<1>g. general' \in BOOLEAN
  <2>1. general' = general \/ general' = (general \/ E.cloud = "generic") BY <1>2
  <2>2. general \in BOOLEAN BY <1>1 DEF NodesOK
  <2>3. (general \/ E.cloud = "generic") \in BOOLEAN OBVIOUS
  <2> QED BY <2>1, <2>2, <2>3
<1>4. PoolOK' BY <1>1, <1>2, <1>3 DEF PoolOK, InPlace
<1>5. main' = "pick" => entry' \in DOMAIN file'
  BY <1>1, <1>2 DEF NodesOK
<1> QED BY <1>1, <1>2, <1>3, <1>4, <1>5, <1>g DEF NodesOK, NodePcs

LEMMA PickType ==
  ASSUME OutTypeOK, Pick PROVE PoolOK' /\ NodesOK'
<1>1. /\ plugin = "nodes" /\ plugin' = plugin /\ PoolOK /\ NodesOK /\ main = "pick"
      /\ entry \in DOMAIN file
  BY DEF Pick, NodesAt, At, OutTypeOK, NodesOK
<1>2. /\ UNCHANGED <<vm, azure, affected, asked, refused, file, act, general, telemetry>>
  BY DEF Pick, cloudvars, records
<1>3. Len(E.actions) \in Nat /\ DOMAIN E.actions = 1..Len(E.actions) BY <1>1, EntryIs
<1>4. act <= Len(E.actions) => act \in DOMAIN E.actions BY <1>1, <1>3 DEF NodesOK
<1> DEFINE Goal == /\ rc' \in {0, 1} /\ parallel' \in BOOLEAN /\ kube' \in BOOLEAN
                   /\ prog' \in Seq(MethodT) /\ work' \in Seq(Worker)
                   /\ \A w \in DOMAIN work' : InPlace(work[w])'
                   /\ entry' \in Nat \ {0} /\ main' \in NodePcs
                   /\ main' \in {"pick", "work", "extend"} =>
                        entry' = entry /\ act \in DOMAIN E.actions
<1>5. ASSUME act > Len(E.actions), main' = "entry", entry' = entry + 1,
             UNCHANGED <<rc, work, prog, parallel, kube>>
      PROVE  Goal
  <2>1. rc' \in {0, 1} /\ PoolOK' BY <1>1, <1>2, <1>5, PoolStays DEF PoolOK, cloudvars, records
  <2> QED BY <1>1, <1>5, <2>1 DEF PoolOK, NodesOK, NodePcs
<1>6. ASSUME NEW nodes \in Seq(Node), act <= Len(E.actions),
             Launch(Targets(nodes), ActProgram, E.parallel, E.kube),
             main' \in {"work", "extend"}, UNCHANGED <<rc, entry>>
      PROVE  Goal
  <2>1. /\ ActProgram \in Seq(MethodT) /\ E.parallel \in BOOLEAN /\ E.kube \in BOOLEAN
    BY <1>1, EntryIs
  <2>2. Targets(nodes) \in Seq(Place) BY TargetsIs
  <2>3. /\ prog' = ActProgram /\ parallel' = E.parallel /\ kube' = E.kube
        /\ work' \in Seq(Worker) /\ \A w \in DOMAIN work' : InPlace(work[w])'
    BY <1>6, <2>1, <2>2, LaunchIs
  <2>4. rc' \in {0, 1} /\ entry' \in Nat \ {0} BY <1>1, <1>6 DEF PoolOK, NodesOK
  <2> QED BY <1>4, <1>6, <2>1, <2>3, <2>4 DEF NodePcs
<1>7. ASSUME work' = <<>> \/ work' = work, UNCHANGED <<entry, prog, parallel, kube>>,
             main' = "extend" \/ main' = "returned", rc' = rc \/ rc' = 1,
             act <= Len(E.actions)
      PROVE  Goal
  <2>1. <<>> \in Seq(Worker) /\ DOMAIN <<>> = {} OBVIOUS
  <2>2. rc' \in {0, 1} /\ parallel' \in BOOLEAN /\ kube' \in BOOLEAN /\ prog' \in Seq(MethodT)
    BY <1>1, <1>7 DEF PoolOK
  <2>3. CASE work' = <<>>
    <3>1. DOMAIN work' = {} /\ work' \in Seq(Worker) BY <2>1, <2>3
    <3> QED BY <1>1, <1>4, <1>7, <2>2, <3>1 DEF NodesOK, NodePcs
  <2>4. CASE work' = work
    <3>1. work' \in Seq(Worker) /\ \A w \in DOMAIN work' : InPlace(work[w])'
      BY <1>1, <1>7, <2>4 DEF PoolOK, InPlace
    <3> QED BY <1>1, <1>4, <1>7, <2>2, <3>1 DEF NodesOK, NodePcs
  <2> QED BY <1>7, <2>3, <2>4
<1>8. Goal
  <2>1. CASE act > Len(E.actions) BY <1>3, <1>5, <2>1 DEF Pick, NodesOK, OutTypeOK
  <2>2. CASE act <= Len(E.actions) /\ E.names # {} /\ E.names \subseteq Ready
    <3>1. SetToSeq(E.names) \in Seq(Node)
      <4>1. E.names \in SUBSET Node BY <1>1, EntryIs
      <4> QED BY <4>1, NodesListed
    <3> QED BY <1>3, <1>6, <2>2, <3>1 DEF Pick, OutTypeOK, NodesOK
  <2>3. CASE act <= Len(E.actions) /\ E.names = {} /\ ~NoCandidate
    <3>1. PICK nodes \in Picks :
            /\ Launch(Targets(nodes), ActProgram, E.parallel, E.kube)
            /\ main' = IF nodes = <<>> THEN "extend" ELSE "work"
            /\ UNCHANGED <<rc, entry>>
      BY <1>3, <2>3 DEF Pick, OutTypeOK, NodesOK
    <3>2. nodes \in Seq(Node) BY PicksIs
    <3> QED BY <1>6, <2>3, <3>1, <3>2
  <2>4. CASE act <= Len(E.actions) /\ E.names # {} /\ ~(E.names \subseteq Ready)
    BY <1>3, <1>7, <2>4 DEF Pick, Return, OutTypeOK, NodesOK
  <2>5. CASE act <= Len(E.actions) /\ E.names = {} /\ NoCandidate
    BY <1>3, <1>7, <2>5 DEF Pick, Return, OutTypeOK, NodesOK
  <2> QED BY <1>1, <1>3, <2>1, <2>2, <2>3, <2>4, <2>5 DEF NodesOK
<1>9. PoolOK' BY <1>1, <1>2, <1>8 DEF PoolOK
<1>10. NodesOK' BY <1>1, <1>2, <1>8 DEF NodesOK, E
<1> QED BY <1>9, <1>10

LEMMA JoinExtendType ==
  ASSUME OutTypeOK, Join \/ Extend PROVE PoolOK' /\ NodesOK'
<1>1. /\ plugin = "nodes" /\ PoolOK /\ NodesOK /\ main \in {"work", "extend"}
      /\ entry \in DOMAIN file
  BY DEF Join, Extend, NodesAt, At, OutTypeOK, NodesOK
<1>2. Len(E.actions) \in Nat /\ act \in Nat /\ act # 0 BY <1>1, EntryIs DEF NodesOK
<1>3. /\ plugin' = plugin /\ rc' \in {0, 1}
      /\ UNCHANGED <<parallel, prog, kube, work, vm, azure, affected, asked, refused, file,
                     entry, general>>
      /\ telemetry' \in {telemetry, telemetry \cup affected}
      /\ \/ main' = "extend" /\ act' = act /\ main = "work"
         \/ main' \in {"returned", "exited", "pick"} /\ act' \in {act, act + 1}
  <2>1. CASE Join
    BY <1>1, <2>1 DEF Join, NodesAt, At, Return, nodevars, cloudvars, records, PoolOK
  <2>2. CASE Extend
    BY <1>1, <2>2 DEF Extend, NodesAt, At, cloudvars, records, PoolOK
  <2> QED BY <2>1, <2>2
<1>4. PoolOK' BY <1>1, <1>3, PoolStays DEF cloudvars, records
<1>5. /\ telemetry' \in SUBSET Place /\ act' \in Nat \ {0} /\ main' \in NodePcs
      /\ general' \in BOOLEAN /\ file' \in Seq(Entry) /\ entry' \in Nat \ {0}
  BY <1>1, <1>2, <1>3 DEF NodesOK, PoolOK, NodePcs
<1>6. main' \in {"work", "extend"} => act' \in DOMAIN E.actions
  BY <1>1, <1>3 DEF NodesOK
<1> QED BY <1>1, <1>3, <1>4, <1>5, <1>6 DEF NodesOK, E

LEMMA ClientIs ==
  ASSUME cloud \in {"aws", "gcp", "az", "openstack", "ibm"}
  PROVE  Client.ask \in {{"raise"}, {"exit"}, {"on"}}
<1>1. CASE cloud = "aws" BY <1>1 DEF Client, AwsClient, R
<1>2. CASE cloud = "gcp" BY <1>2 DEF Client, GcpClient, R
<1>3. CASE cloud = "az" BY <1>3 DEF Client, AzClient, R
<1>4. CASE cloud = "openstack" BY <1>4 DEF Client, OpenstackClient
<1>5. CASE cloud = "ibm"
  <2>1. Client = [IbmClient EXCEPT !.ask = {"on"}] BY <1>5 DEF Client
  <2> QED BY <2>1 DEF IbmClient
<1> QED BY <1>1, <1>2, <1>3, <1>4, <1>5

(* What is run on each node of a cluster that is shut down: one request.   *)
LEMMA SendIs ==
  ASSUME cloud \in {"aws", "gcp", "az", "openstack", "ibm"}, NEW state \in {"stopped", "running"}
  PROVE  /\ Send(state) \in Seq(MethodT) /\ Len(Send(state)) = 1
         /\ Len(Send(state)[1].steps) = 1 /\ Send(state)[1].steps[1].do = "ask"
         /\ Send(state)[1].steps[1].to = state /\ Send(state)[1].onError = "raise"
         /\ Send(state)[1].steps[1].bad \in {{"raise"}, {"exit"}, {"on"}}
<1> DEFINE a == Ask(state, Client.ask)
           m == Method(<<a>>, "raise")
<1>1. Client.ask \in {{"raise"}, {"exit"}, {"on"}} BY ClientIs
<1>2. Client.ask \in SUBSET Hows BY <1>1 DEF Hows
<1>3. state \in Wanted BY DEF Wanted
<1>4. a \in StepT BY <1>2, <1>3, TypedSteps
<1>5. a.do = "ask" /\ a.to = state /\ a.bad = Client.ask BY DEF Ask, Step
<1> HIDE DEF a
<1>6. m = [steps |-> <<a>>, onError |-> "raise"] BY DEF Method
<1>7. <<a>> \in Seq(StepT) /\ <<a>> # <<>> /\ Len(<<a>>) = 1 /\ <<a>>[1] = a BY <1>4
<1>8. m \in MethodT
  <2> DEFINE t == <<a>>
  <2>1. t \in Steps1 /\ m = [steps |-> t, onError |-> "raise"] BY <1>6, <1>7 DEF Steps1
  <2> HIDE DEF t, m
  <2>2. m \in MethodT BY <2>1 DEF MethodT
  <2> QED BY <2>2 DEF m
<1>9. m.steps = <<a>> /\ m.onError = "raise" BY <1>6
<1>10. Send(state) = <<m>> BY DEF Send, a
<1> HIDE DEF m
<1>11. <<m>> \in Seq(MethodT) /\ Len(<<m>>) = 1 /\ <<m>>[1] = m BY <1>8
<1> QED BY <1>1, <1>5, <1>7, <1>9, <1>10, <1>11

Clouded == plugin = "shut_down" => cloud \in {"aws", "gcp", "az", "openstack", "ibm"}
LEMMA CloudedIs == ASSUME ShutOK PROVE Clouded
BY OutageAssumption DEF ShutOK, Clouded, OutageAssumption

(* A launch by the scenarios that are not node scenarios. *)
LEMMA SendAllType ==
  ASSUME OutTypeOK, NEW from, NEW state \in {"stopped", "running"}, SendAll(from, state),
         round' \in {round, round + 1}
  PROVE  PoolOK' /\ ShutOK'
<1>1. plugin = "shut_down" /\ plugin' = plugin /\ PoolOK /\ ShutOK /\ Clouded
  BY CloudedIs DEF SendAll, Pc, At, OutTypeOK
<1>2. Send(state) \in Seq(MethodT) BY <1>1, SendIs DEF Clouded
<1>3. EveryNode \in Seq(Place)
  <2>1. EveryNode \in Seq(Node) BY NodesListed DEF EveryNode
  <2> QED BY <2>1 DEF Place
<1>4. Launch(EveryNode, Send(state), TRUE, FALSE) BY DEF SendAll
<1>5. /\ prog' = Send(state) /\ parallel' = TRUE /\ kube' = FALSE /\ work' \in Seq(Worker)
      /\ \A w \in DOMAIN work' : InPlace(work[w])'
  <2> DEFINE yes == TRUE
             no == FALSE
  <2>1. yes \in BOOLEAN /\ no \in BOOLEAN OBVIOUS
  <2> QED BY <1>2, <1>3, <1>4, <2>1, LaunchIs
<1>6. UNCHANGED <<rc, vm, azure, affected, asked, refused, cloud, registered, lost, unsent, acl, created,
                  ids>> /\ left' = Node /\ main' = "work"
  BY DEF SendAll, cloudvars, records, aclvars
<1>7. PoolOK' BY <1>1, <1>2, <1>5, <1>6 DEF PoolOK
<1>8. round' \in Nat BY <1>1 DEF ShutOK
<1> QED BY <1>1, <1>6, <1>7, <1>8 DEF ShutOK, ShutPcs

LEMMA ZoneType ==
  ASSUME OutTypeOK, ZoneStart \/ ZoneNext
  PROVE  PoolOK' /\ ShutOK'
<1>1. /\ plugin = "zone" /\ plugin' = plugin /\ PoolOK /\ ShutOK /\ rc \in {0, 1}
      /\ main' \in ZonePcs
  BY DEF ZoneStart, ZoneNext, Pc, At, OutTypeOK, Return, PoolOK, ShutOK, ZonePcs
<1>2. Gcp.stop \in MethodT /\ Gcp.start \in MethodT
  BY GcpGood, ReportsTyped DEF Typed
<1>3. <<Gcp.stop>> \in Seq(MethodT) /\ <<Gcp.start>> \in Seq(MethodT)
  <2> DEFINE x == Gcp.stop
             y == Gcp.start
  <2>1. x \in MethodT /\ y \in MethodT BY <1>2
  <2> HIDE DEF x, y
  <2>2. <<x>> \in Seq(MethodT) /\ <<y>> \in Seq(MethodT) BY <2>1
  <2> QED BY <2>2 DEF x, y
<1> DEFINE Launched ==
             /\ prog' \in Seq(MethodT) /\ parallel' \in BOOLEAN /\ kube' \in BOOLEAN
             /\ work' \in Seq(Worker) /\ \A w \in DOMAIN work' : InPlace(work[w])'
<1>4. ASSUME NEW nodes \in Seq(Place), NEW p \in Seq(MethodT), Launch(nodes, p, TRUE, TRUE)
      PROVE  Launched
  <2> DEFINE yes == TRUE
  <2>1. yes \in BOOLEAN OBVIOUS
  <2> QED BY <1>4, <2>1, LaunchIs
<1>5. UNCHANGED <<work, prog, parallel, kube>> => Launched BY <1>1 DEF PoolOK, InPlace
<1>6. [j \in DOMAIN work |-> work[j].node] \in Seq(Place)
  <2>1. work \in Seq(Worker) /\ Len(work) \in Nat /\ DOMAIN work = 1..Len(work)
    BY <1>1 DEF PoolOK
  <2>2. \A j \in 1..Len(work) : work[j].node \in Place
    <3>1. \A j \in 1..Len(work) : work[j] \in Worker BY <2>1
    <3>2. \A x \in Worker : x.node \in Place BY DEF Worker, Place
    <3> QED BY <3>1, <3>2
  <2>3. [j \in 1..Len(work) |-> work[j].node] \in Seq(Place) BY <2>1, <2>2, IsASeq
  <2> QED BY <2>1, <2>3
<1>7. CASE ZoneStart
  <2>1. /\ UNCHANGED <<vm, azure, affected, asked, refused, cloud, round, left, lost, unsent, acl, created,
                       ids>>
        /\ rc' \in {0, 1}
    BY <1>1, <1>7 DEF ZoneStart, Return, cloudvars, records, aclvars
  <2>2. registered' \in SUBSET Node /\ Launched
    <3>1. CASE UNCHANGED <<registered, work, prog, parallel, kube>>
      BY <1>1, <1>5, <3>1 DEF ShutOK
    <3>2. CASE \E zone \in SUBSET Node \ {{}} :
                 registered' = zone /\ Launch(SetToSeq(zone), <<Gcp.stop>>, TRUE, TRUE)
      <4>1. PICK zone \in SUBSET Node \ {{}} :
              registered' = zone /\ Launch(SetToSeq(zone), <<Gcp.stop>>, TRUE, TRUE)
        BY <3>2
      <4>2. SetToSeq(zone) \in Seq(Place)
        <5>1. SetToSeq(zone) \in Seq(zone) BY NodesListed
        <5> QED BY <5>1 DEF Place
      <4> QED BY <1>3, <1>4, <4>1, <4>2
    <3> QED BY <1>7, <3>1, <3>2 DEF ZoneStart
  <2>3. PoolOK' BY <1>1, <2>1, <2>2 DEF PoolOK
  <2> QED BY <1>1, <2>1, <2>2, <2>3 DEF ShutOK
<1>8. CASE ZoneNext
  <2>1. /\ UNCHANGED <<vm, azure, affected, asked, refused, cloud, round, left, registered, lost, unsent, acl,
                       created, ids>>
        /\ rc' \in {0, 1}
    BY <1>1, <1>8 DEF ZoneNext, Return, cloudvars, records, outagevars
  <2>2. Launched
    <3>1. CASE UNCHANGED <<work, prog, parallel, kube>> BY <1>5, <3>1
    <3>2. CASE Launch([j \in DOMAIN work |-> work[j].node], <<Gcp.start>>, TRUE, TRUE)
      BY <1>3, <1>4, <1>6, <3>2
    <3> QED BY <1>8, <3>1, <3>2 DEF ZoneNext
  <2>3. PoolOK' BY <1>1, <2>1, <2>2 DEF PoolOK
  <2> QED BY <1>1, <2>1, <2>3 DEF ShutOK
<1> QED BY <1>7, <1>8

(* The steps that run nothing on the nodes. *)
LEMMA ShutRestType ==
  ASSUME OutTypeOK,
         \/ ShutStart \/ Register \/ Sent \/ Waited \/ RollbackStart \/ RollbackEnd \/ Kill \/ Signal
         \/ \E n \in Node : WaitOne(n)
  PROVE  PoolOK' /\ ShutOK'
<1>1. plugin \in {"shut_down", "zone"} /\ plugin' = plugin /\ PoolOK /\ ShutOK
  BY DEF ShutStart, Register, Sent, Waited, RollbackStart, RollbackEnd, Kill, Signal, WaitOne, Pc, At,
         PoolSame, Return, OutTypeOK
<1>2. /\ UNCHANGED <<parallel, prog, kube, work, vm, azure, asked, refused>>
      /\ UNCHANGED <<cloud, round, lost, acl, created, ids>>
      /\ affected' \in {affected, Node} /\ rc' \in {0, 1}
      /\ unsent' \in {unsent, {}, {work[w].node : w \in {v \in DOMAIN work : StopAhead(v)}}}
  <2>1. rc \in {0, 1} BY <1>1 DEF PoolOK
  <2>2. CASE ShutStart
    BY <2>1, <2>2 DEF ShutStart, Return, cloudvars, outagevars
  <2>3. CASE Register BY <2>1, <2>3 DEF Register, PoolSame, cloudvars, records, aclvars
  <2>4. CASE Sent BY <2>1, <2>4 DEF Sent, PoolSame, cloudvars, records, outagevars
  <2>5. CASE Waited BY <2>1, <2>5 DEF Waited, Return, PoolSame, cloudvars, records, outagevars
  <2>6. CASE RollbackStart BY <2>1, <2>6 DEF RollbackStart, PoolSame, cloudvars, records, aclvars
  <2>7. CASE RollbackEnd BY <2>1, <2>7 DEF RollbackEnd, PoolSame, cloudvars, records, outagevars
  <2>8. CASE Kill BY <2>1, <2>8 DEF Kill, PoolSame, cloudvars, records, outagevars
  <2>10. CASE Signal BY <2>1, <2>10 DEF Signal, PoolSame, cloudvars, records, aclvars
  <2>9. CASE \E n \in Node : WaitOne(n)
    BY <2>1, <2>9 DEF WaitOne, Return, PoolSame, cloudvars, records, aclvars
  <2> QED BY <2>2, <2>3, <2>4, <2>5, <2>6, <2>7, <2>8, <2>9, <2>10
<1>3. affected' \in SUBSET Place BY <1>1, <1>2 DEF PoolOK, Place
<1>4. PoolOK' BY <1>1, <1>2, <1>3 DEF PoolOK, InPlace
<1>5. /\ registered' \in SUBSET Node /\ left' \in SUBSET Node
      /\ plugin = "shut_down" => main' \in ShutPcs
      /\ plugin = "zone" => main' \in ZonePcs
  <2>0. registered \in SUBSET Node /\ left \in SUBSET Node BY <1>1 DEF ShutOK
  <2>2. CASE ShutStart
    BY <2>0, <2>2 DEF ShutStart, Return, Pc, At, outagevars, ShutPcs
  <2>3. CASE Register BY <2>0, <2>3 DEF Register, Pc, At, ShutPcs
  <2>4. CASE Sent BY <2>0, <2>4 DEF Sent, Pc, At, outagevars, ShutPcs
  <2>5. CASE Waited BY <2>0, <2>5 DEF Waited, Return, Pc, At, outagevars, ShutPcs
  <2>6. CASE RollbackStart BY <2>0, <2>6 DEF RollbackStart, ShutPcs, ZonePcs
  <2>7. CASE RollbackEnd BY <2>0, <2>7 DEF RollbackEnd, outagevars, ShutPcs, ZonePcs
  <2>8. CASE Kill BY <2>0, <2>8 DEF Kill, outagevars, ShutPcs, ZonePcs
  <2>10. CASE Signal BY <2>0, <2>10 DEF Signal, ShutPcs, ZonePcs
  <2>9. CASE \E n \in Node : WaitOne(n)
    <3>1. PICK n \in Node : WaitOne(n) BY <2>9
    <3>2. registered' = registered /\ left' \in {left, left \ {n}} BY <3>1 DEF WaitOne
    <3>3. plugin = "shut_down" /\ main' \in {"waiting", "returned", "exited"}
      BY <3>1 DEF WaitOne, Pc, At, Return
    <3> QED BY <2>0, <3>2, <3>3 DEF ShutPcs
  <2> QED BY <2>2, <2>3, <2>4, <2>5, <2>6, <2>7, <2>8, <2>9, <2>10
<1>6. unsent' \in SUBSET Place
  <2>1. work \in Seq(Worker) /\ unsent \in SUBSET Place BY <1>1 DEF PoolOK, ShutOK
  <2>2. \A w \in DOMAIN work : work[w].node \in Place
    <3> TAKE w \in DOMAIN work
    <3>1. work[w] \in Worker BY <2>1
    <3> QED BY <3>1 DEF Worker, Place
  <2> QED BY <1>2, <2>1, <2>2
<1> QED BY <1>1, <1>2, <1>4, <1>5, <1>6 DEF ShutOK

LEMMA RollbackNodeType ==
  ASSUME OutTypeOK, NEW n \in Node, RollbackNode(n)
  PROVE  PoolOK' /\ ShutOK'
<1>1. /\ plugin \in {"shut_down", "zone"} /\ plugin' = plugin /\ PoolOK /\ ShutOK
      /\ main \in {"rolling", "handling"} /\ main' \in {main, "exited", "handled"}
      /\ UNCHANGED <<rc, parallel, prog, kube, work, azure, affected, asked, refused, cloud, round,
                     registered, unsent, acl, created, ids>>
      /\ vm' = vm \/ vm' = [vm EXCEPT ![n].pending = "running"]
      /\ left' \in {left, left \ {n}} /\ lost' \in {lost, lost \cup {n}}
  BY DEF RollbackNode, RollbackAt, records, aclvars, OutTypeOK
<1>2. vm' \in [Place -> Machine]
  <2>1. vm \in [Place -> Machine] /\ n \in Place BY <1>1 DEF PoolOK, Place
  <2>2. [vm[n] EXCEPT !.pending = "running"] \in Machine BY <2>1 DEF Machine
  <2> QED BY <1>1, <2>1, <2>2
<1>3. PoolOK' BY <1>1, <1>2 DEF PoolOK, InPlace
<1> QED BY <1>1, <1>3 DEF ShutOK, ShutPcs, ZonePcs

LEMMA AclType ==
  ASSUME OutTypeOK,
         \/ AclStart \/ AclSleep \/ AclSleepAgain \/ AclEnd
         \/ \E s \in Subnet : AclBlock(s) \/ AclRestore(s) \/ AclDelete(s)
  PROVE  PoolOK' /\ ShutOK'
<1>1. /\ plugin = "acl" /\ plugin' = plugin /\ PoolOK /\ ShutOK
      /\ UNCHANGED <<parallel, prog, kube, work, cloudvars, records, cloud, round, registered, lost,
                     unsent>>
  BY DEF AclStart, AclSleep, AclSleepAgain, AclEnd, AclBlock, AclRestore, AclDelete, Pc, At,
         PoolSame, OutTypeOK, outagevars
<1>2. /\ left \in SUBSET Subnet /\ acl \in [Subnet -> {"orig", "deny"}]
      /\ created \in SUBSET Subnet /\ ids \in SUBSET Subnet /\ rc \in {0, 1}
  BY <1>1 DEF ShutOK, PoolOK
<1> DEFINE Goal == /\ rc' \in {0, 1} /\ main' \in AclPcs /\ left' \in SUBSET Subnet
                   /\ acl' \in [Subnet -> {"orig", "deny"}]
                   /\ created' \in SUBSET Subnet /\ ids' \in SUBSET Subnet
<1>3. CASE AclStart \/ AclSleep \/ AclSleepAgain \/ AclEnd
  BY <1>1, <1>2, <1>3, PoolStays
     DEF AclStart, AclSleep, AclSleepAgain, AclEnd, Return, Pc, At, aclvars, outagevars, AclPcs, ShutOK
<1>4. CASE \E s \in Subnet : AclBlock(s) \/ AclRestore(s) \/ AclDelete(s)
  <2>1. PICK s \in Subnet : AclBlock(s) \/ AclRestore(s) \/ AclDelete(s) BY <1>4
  <2>2. NewAcls(s) \in SUBSET Subnet BY DEF NewAcls
  <2>3. Goal
    <3>1. CASE AclBlock(s) BY <1>2, <2>2, <3>1 DEF AclBlock, Return, Pc, At, AclPcs
    <3>2. CASE AclRestore(s) BY <1>2, <3>2 DEF AclRestore, Return, Pc, At, AclPcs
    <3>3. CASE AclDelete(s) BY <1>2, <3>3 DEF AclDelete, Return, Pc, At, AclPcs
    <3> QED BY <2>1, <3>1, <3>2, <3>3
  <2>4. PoolOK' BY <1>1, <2>3, PoolStays
  <2> QED BY <1>1, <2>3, <2>4 DEF ShutOK
<1> QED BY <1>3, <1>4

(* The cloud takes a request: the machine is then what was asked for; or   *)
(* it lets a volume go. *)
Turns(n) == Takes(n) \/ Detaches(n)
LEMMA TurnsIs ==
  ASSUME OutTypeOK, NEW n \in Place, Turns(n)
  PROVE  /\ vm' \in [Place -> Machine] /\ \A p \in Place \ {n} : vm'[p] = vm[p]
         /\ \/ vm'[n].power = Final(n) /\ vm'[n].pending = "none" /\ vm[n].pending # "none"
            \/ vm'[n].power = vm[n].power /\ vm'[n].pending = vm[n].pending
         /\ Final(n)' = Final(n)
         /\ vm[n].disks # "leaving" => vm'[n].disks = vm[n].disks
         /\ UNCHANGED <<threadvars, parallel, prog, kube, work, azure, records>>
<1>1. vm \in [Place -> Machine] /\ vm[n] \in Machine BY DEF OutTypeOK, PoolOK
<1>2. Final(n) \in {"running", "stopped", "deleted"} BY <1>1 DEF Final, Machine
<1>3. CASE Takes(n)
  <2> DEFINE up == vm[n].kubelet \/ vm[n].pending \in {"running", "reboot"}
             f == Final(n)
             new == [vm[n] EXCEPT !.power = f, !.pending = "none", !.kubelet = up]
  <2>1. vm' = [vm EXCEPT ![n] = new] BY <1>3 DEF Takes
  <2>2. up \in BOOLEAN
    <3>1. vm[n].kubelet \in BOOLEAN BY <1>1 DEF Machine
    <3>2. (vm[n].pending \in {"running", "reboot"}) \in BOOLEAN OBVIOUS
    <3> QED BY <3>1, <3>2
  <2> HIDE DEF up, f
  <2>3. /\ new \in Machine /\ new.power = f /\ new.pending = "none" /\ new.disks = vm[n].disks
    BY <1>1, <1>2, <2>2 DEF Machine, f
  <2> HIDE DEF new
  <2>4. vm' \in [Place -> Machine] /\ vm'[n] = new /\ \A p \in Place \ {n} : vm'[p] = vm[p]
    BY <1>1, <2>1, <2>3
  <2>5. Final(n)' = f BY <2>3, <2>4 DEF Final
  <2> QED BY <1>3, <2>3, <2>4, <2>5 DEF Takes, f
<1>4. CASE Detaches(n)
  <2> DEFINE new == [vm[n] EXCEPT !.disks = "out"]
  <2>1. vm' = [vm EXCEPT ![n] = new] BY <1>1, <1>4 DEF Detaches
  <2>2. /\ new \in Machine /\ new.power = vm[n].power /\ new.pending = vm[n].pending
    BY <1>1 DEF Machine
  <2> HIDE DEF new
  <2>3. vm' \in [Place -> Machine] /\ vm'[n] = new /\ \A p \in Place \ {n} : vm'[p] = vm[p]
    BY <1>1, <2>1, <2>2
  <2>4. Final(n)' = Final(n) BY <2>2, <2>3 DEF Final
  <2> QED BY <1>4, <2>2, <2>3, <2>4 DEF Detaches
<1> QED BY <1>3, <1>4 DEF Turns

LEMMA CloudType ==
  ASSUME OutTypeOK, NEW n \in Place, Turns(n)
  PROVE  PoolOK'
<1>1. vm' \in [Place -> Machine] BY TurnsIs
<1>2. UNCHANGED <<rc, parallel, prog, kube, work, azure, affected, asked, refused>>
  BY TurnsIs DEF threadvars, records
<1> QED BY <1>1, <1>2 DEF OutTypeOK, PoolOK, InPlace

(* What any step is, and what it leaves alone. *)
LEMMA OneStep ==
  ASSUME OutTypeOK, [Next]_vars
  PROVE  \/ plugin = "nodes" /\ NodesStep /\ UNCHANGED outagevars
         \/ plugin \in {"shut_down", "zone", "acl"} /\ OutageStep /\ UNCHANGED nodevars
         \/ plugin \in {"shut_down", "zone"} /\ (Kill \/ Signal) /\ UNCHANGED nodevars
         \/ /\ plugin # "acl"
            /\ \E w \in DOMAIN work : WorkerStep(w) /\ UNCHANGED <<nodevars, outagevars>>
         \/ \E n \in Place : Turns(n) /\ UNCHANGED <<nodevars, outagevars>>
         \/ UNCHANGED vars
<1>1. CASE Nodes
  BY <1>1 DEF Nodes, NodesStep, NextEntry, Pick, Join, Extend, NodesAt, At
<1>2. CASE Shut
  BY <1>2 DEF Shut, OutageStep, ShutStart, Register, SendStop, SendStart, SendAll, Sent, Waited,
         WaitOne, RollbackNode, RollbackAt, ZoneStart, ZoneNext, RollbackStart, RollbackEnd, AclStart, AclSleep,
         AclSleepAgain, AclEnd, AclBlock, AclRestore, AclDelete, Pc, At
<1>3. CASE Killed BY <1>3 DEF Killed, Kill, Signal
<1>4. CASE \E w \in DOMAIN work : Worker1(w)
  <2>1. PICK w \in DOMAIN work : WorkerStep(w) /\ UNCHANGED <<nodevars, outagevars>>
    BY <1>4 DEF Worker1
  <2>2. main \in Working BY <2>1, WorkerShape DEF OutTypeOK
  <2> QED BY <2>1, <2>2 DEF OutTypeOK, ShutOK, AclPcs, Working, Beside
<1>5. CASE \E n \in Node \cup {Helper} : Cloud(n) BY <1>5 DEF Cloud, Place, Turns
<1>6. CASE UNCHANGED vars BY <1>6
<1> QED BY <1>1, <1>2, <1>3, <1>4, <1>5, <1>6 DEF Next

LEMMA NodesWork ==
  ASSUME OutTypeOK, plugin = "nodes", main \in Working
  PROVE  main = "work"
BY DEF OutTypeOK, NodesOK, NodePcs, Working, Beside

LEMMA OutTypeInit == Init => OutTypeOK
<1> SUFFICES ASSUME Init PROVE OutTypeOK OBVIOUS
<1>1. /\ plugin \in {"nodes", "shut_down", "zone", "acl"} /\ main = "entry" /\ PoolInit
      /\ IF plugin = "nodes" THEN NodesInit
         ELSE file = <<>> /\ entry = 1 /\ act = 1 /\ general = FALSE /\ telemetry = {}
      /\ OutageInit
  BY DEF Init
<1>2. PoolOK
  <2>1. \A n \in Place : vm[n] \in Machine /\ DOMAIN vm = Place
    BY <1>1 DEF PoolInit, Place, Machine
  <2>2. vm \in [Place -> Machine]
    <3>1. vm = [n \in Place |-> [power |-> "running", pending |-> "none", disks |-> "in",
                                 kubelet |-> TRUE]]
      BY <1>1 DEF PoolInit, Place
    <3>2. [power |-> "running", pending |-> "none", disks |-> "in", kubelet |-> TRUE] \in Machine
      BY DEF Machine
    <3> QED BY <3>1, <3>2
  <2>3. <<>> \in Seq(Worker) /\ <<>> \in Seq(MethodT) /\ DOMAIN <<>> = {} OBVIOUS
  <2>4. prog \in Seq(MethodT) /\ work \in Seq(Worker) /\ DOMAIN work = {}
    BY <1>1, <2>3 DEF PoolInit
  <2>5. azure \in [subnet : {"orig", "chaos"}, group : BOOLEAN]
    BY <1>1 DEF PoolInit
  <2>6. parallel \in BOOLEAN /\ kube \in BOOLEAN /\ rc \in {0, 1} BY <1>1 DEF PoolInit
  <2>7. affected \in SUBSET Place /\ asked \in SUBSET Place /\ refused \in SUBSET Place
    BY <1>1 DEF PoolInit
  <2> QED BY <2>2, <2>4, <2>5, <2>6, <2>7 DEF PoolOK
<1>3. NodesOK
  <2>1. file \in Seq(Entry)
    <3>1. CASE plugin = "nodes"
      BY <1>1, <3>1, EntriesAssumption DEF NodesInit, EntriesAssumption
    <3>2. CASE plugin # "nodes" BY <1>1, <3>2
    <3> QED BY <3>1, <3>2
  <2>2. entry = 1 /\ act = 1 /\ general \in BOOLEAN /\ telemetry = {} BY <1>1 DEF NodesInit
  <2> QED BY <1>1, <2>1, <2>2 DEF NodesOK, NodePcs
<1>4. ShutOK
  BY <1>1 DEF OutageInit, ShutOK, ShutPcs, ZonePcs, AclPcs
<1> QED BY <1>1, <1>2, <1>3, <1>4 DEF OutTypeOK

LEMMA OutTypeStep == OutTypeOK /\ [Next]_vars => OutTypeOK'
<1> SUFFICES ASSUME OutTypeOK, [Next]_vars PROVE OutTypeOK' OBVIOUS
<1>0. PoolOK /\ NodesOK /\ ShutOK BY DEF OutTypeOK
<1>1. ASSUME plugin = "nodes", NodesStep, UNCHANGED outagevars PROVE OutTypeOK'
  <2>1. PoolOK' /\ NodesOK'
    BY <1>1, NextEntryType, PickType, JoinExtendType DEF NodesStep
  <2>2. plugin' = plugin
    BY <1>1 DEF NodesStep, NextEntry, Pick, Join, Extend, Return
  <2> QED BY <1>0, <1>1, <2>1, <2>2 DEF OutTypeOK, ShutOK, outagevars
<1>2. ASSUME plugin \in {"shut_down", "zone", "acl"}, OutageStep \/ Kill \/ Signal, UNCHANGED nodevars
      PROVE  OutTypeOK'
  <2>1. PoolOK' /\ ShutOK'
    <3>1. CASE OutageStep
      <4>1. SendStop => PoolOK' /\ ShutOK'
        <5> SUFFICES ASSUME SendStop PROVE PoolOK' /\ ShutOK' OBVIOUS
        <5> QED BY SendAllType DEF SendStop
      <4>2. SendStart => PoolOK' /\ ShutOK'
        <5> SUFFICES ASSUME SendStart PROVE PoolOK' /\ ShutOK' OBVIOUS
        <5> QED BY SendAllType DEF SendStart
      <4> QED BY <3>1, <4>1, <4>2, ShutRestType, RollbackNodeType, AclType, ZoneType DEF OutageStep
    <3>2. CASE Kill \/ Signal BY <3>2, ShutRestType
    <3> QED BY <1>2, <3>1, <3>2
  <2>2. plugin' = plugin
    BY <1>2 DEF OutageStep, ShutStart, Register, SendStop, SendStart, SendAll, Sent, Waited,
         WaitOne, RollbackNode, RollbackAt, ZoneStart, ZoneNext, RollbackStart, RollbackEnd, AclStart, AclSleep,
         AclSleepAgain, AclEnd, AclBlock, AclRestore, AclDelete, Kill, Signal, Return, PoolSame
  <2> QED BY <1>0, <1>2, <2>1, <2>2 DEF OutTypeOK, NodesOK, nodevars
<1>3. ASSUME plugin # "acl", NEW w \in DOMAIN work, WorkerStep(w), UNCHANGED <<nodevars, outagevars>>
      PROVE  OutTypeOK'
  <2>1. PoolOK' /\ plugin' = plugin /\ main' \in {main, "exited"} /\ main \in Working
    BY <1>0, <1>3, WorkerShape
  <2>2. NodesOK' BY <1>0, <1>3, <2>1 DEF NodesOK, nodevars, NodePcs, E
  <2>3. ShutOK' BY <1>0, <1>3, <2>1 DEF ShutOK, outagevars, ShutPcs, ZonePcs, OutTypeOK
  <2> QED BY <2>1, <2>2, <2>3 DEF OutTypeOK
<1>4. ASSUME NEW n \in Place, Turns(n), UNCHANGED <<nodevars, outagevars>> PROVE OutTypeOK'
  <2>1. PoolOK' /\ plugin' = plugin /\ main' = main BY <1>4, CloudType, TurnsIs DEF threadvars
  <2> QED BY <1>0, <1>4, <2>1 DEF OutTypeOK, NodesOK, ShutOK, nodevars, outagevars, E
<1>5. ASSUME UNCHANGED vars PROVE OutTypeOK'
  BY <1>0, <1>5 DEF OutTypeOK, PoolOK, InPlace, NodesOK, ShutOK, vars, poolvars, threadvars,
         nodevars, outagevars, cloudvars, records, E
<1> QED BY <1>1, <1>2, <1>3, <1>4, <1>5, OneStep

(* Every variable keeps its type, and a worker that runs is at a step of   *)
(* its program (NodePool, NodeActions, CloudOutages).                      *)
THEOREM OutagesInvAlways == Spec => []OutagesInv
<1>1. OutTypeOK => OutagesInv
  BY DEF OutTypeOK, PoolOK, NodesOK, ShutOK, OutagesInv, NodePcs, ShutPcs, ZonePcs, AclPcs, InPlace,
         Steps, Place
<1> QED BY <1>1, OutTypeInit, OutTypeStep, PTL DEF Spec

-----------------------------------------------------------------------------
(* The telemetry. *)

TelemetryKept ==
  plugin = "nodes" /\ (main \in {"entry", "pick"} \/ (main = "returned" /\ rc = 0))
    => affected \subseteq telemetry

LEMMA TelemetryStep == OutTypeOK /\ TelemetryKept /\ [Next]_vars => TelemetryKept'
<1> SUFFICES ASSUME OutTypeOK, TelemetryKept, [Next]_vars PROVE TelemetryKept' OBVIOUS
<1>0. PoolOK BY DEF OutTypeOK
<1>1. ASSUME plugin = "nodes", NodesStep PROVE TelemetryKept'
  <2>1. CASE NextEntry
    <3>1. main = "entry" /\ plugin' = plugin /\ telemetry' = telemetry
      BY <2>1 DEF NextEntry, NodesAt, At, Return
    <3>2. affected' = {} \/ affected' = affected BY <2>1 DEF NextEntry
    <3> QED BY <1>1, <3>1, <3>2 DEF TelemetryKept
  <2>2. CASE Pick
    <3>1. main = "pick" /\ UNCHANGED <<plugin, affected, telemetry>>
      BY <2>2 DEF Pick, NodesAt, At, records
    <3>2. rc' = rc \/ rc' = 1 BY <2>2 DEF Pick, Return
    <3> QED BY <1>1, <3>1, <3>2 DEF TelemetryKept
  <2>3. CASE Join
    BY <2>3 DEF Join, Return, TelemetryKept
  <2>4. CASE Extend
    BY <2>4 DEF Extend, records, TelemetryKept
  <2> QED BY <1>1, <2>1, <2>2, <2>3, <2>4 DEF NodesStep
<1>2. ASSUME plugin # "nodes", plugin' = plugin PROVE TelemetryKept'
  BY <1>2 DEF TelemetryKept
<1>3. ASSUME NEW w \in DOMAIN work, WorkerStep(w) PROVE TelemetryKept'
  <2>1. main \in Working /\ main' \in {main, "exited"} BY <1>0, <1>3, WorkerShape
  <2> QED BY <2>1 DEF TelemetryKept, Working, Beside
<1>4. ASSUME UNCHANGED <<plugin, main, rc, affected, telemetry>> PROVE TelemetryKept'
  BY <1>4 DEF TelemetryKept
<1>5. OutageStep \/ Kill \/ Signal => plugin' = plugin /\ plugin # "nodes"
  BY DEF OutageStep, ShutStart, Register, SendStop, SendStart, SendAll, Sent, Waited,
         WaitOne, RollbackNode, RollbackAt, ZoneStart, ZoneNext, RollbackStart, RollbackEnd, AclStart, AclSleep,
         AclSleepAgain, AclEnd, AclBlock, AclRestore, AclDelete, Kill, Signal, Return, PoolSame, Pc, At
<1>6. \A n \in Place : Turns(n) /\ UNCHANGED <<nodevars, outagevars>>
                         => UNCHANGED <<plugin, main, rc, affected, telemetry>>
  BY TurnsIs DEF threadvars, records, nodevars
<1>7. UNCHANGED vars => UNCHANGED <<plugin, main, rc, affected, telemetry>>
  BY DEF vars, poolvars, threadvars, records, nodevars
<1> QED BY <1>1, <1>2, <1>3, <1>4, <1>5, <1>6, <1>7, OneStep

(* A node recorded while an entry ran is in the telemetry when the entry   *)
(* is over, and when run returns 0 (run, affected_nodes).                  *)
THEOREM TelemetryCompleteAlways == Spec => []TelemetryComplete
<1>1. Init => TelemetryKept BY DEF Init, PoolInit, TelemetryKept
<1>2. TelemetryKept => TelemetryComplete BY DEF TelemetryKept, TelemetryComplete
<1> QED BY <1>1, <1>2, OutTypeInit, OutTypeStep, TelemetryStep, PTL DEF Spec

-----------------------------------------------------------------------------
(* The subnets of an aws zone. *)

AclsOf ==
  plugin = "acl" =>
    /\ main = "entry" => \A s \in Subnet : acl[s] = "orig"
    /\ main = "block" => \A s \in Subnet : acl[s] = "deny" => s \in ids
    /\ main = "unblock" => \A s \in Subnet : acl[s] = "deny" => s \in left
    /\ main = "delete" => left = created /\ \A s \in Subnet : acl[s] = "orig"
    /\ main = "returned" /\ rc = 0 => created = {} /\ \A s \in Subnet : acl[s] = "orig"

LEMMA AclsStep == OutTypeOK /\ AclsOf /\ [Next]_vars => AclsOf'
<1> SUFFICES ASSUME OutTypeOK, AclsOf, [Next]_vars PROVE AclsOf' OBVIOUS
<1>1. ASSUME plugin = "acl", OutageStep PROVE AclsOf'
  <2>0. acl \in [Subnet -> {"orig", "deny"}] BY DEF OutTypeOK, ShutOK
  <2>1. \/ AclStart \/ AclSleep \/ AclSleepAgain \/ AclEnd
        \/ \E s \in Subnet : AclBlock(s) \/ AclRestore(s) \/ AclDelete(s)
    BY <1>1 DEF OutageStep, ShutStart, Register, SendStop, SendStart, SendAll, Sent, Waited,
         WaitOne, RollbackNode, RollbackAt, ZoneStart, ZoneNext, RollbackStart, RollbackEnd, Pc, At
  <2>2. CASE AclStart BY <2>0, <2>2 DEF AclStart, PoolSame, Pc, At, aclvars, AclsOf
  <2>3. CASE AclSleep BY <2>0, <2>3 DEF AclSleep, PoolSame, Pc, At, aclvars, AclsOf
  <2>4. CASE AclSleepAgain
    BY <2>0, <2>4 DEF AclSleepAgain, PoolSame, Pc, At, aclvars, AclsOf
  <2>5. CASE AclEnd BY <2>0, <2>5 DEF AclEnd, Return, PoolSame, Pc, At, outagevars, AclsOf
  <2>6. CASE \E s \in Subnet : AclBlock(s) \/ AclRestore(s) \/ AclDelete(s)
    <3>1. PICK s \in Subnet : AclBlock(s) \/ AclRestore(s) \/ AclDelete(s) BY <2>6
    <3>2. CASE AclBlock(s) BY <2>0, <3>2 DEF AclBlock, Return, PoolSame, Pc, At, AclsOf
    <3>3. CASE AclRestore(s) BY <2>0, <3>3 DEF AclRestore, Return, PoolSame, Pc, At, AclsOf
    <3>4. CASE AclDelete(s) BY <2>0, <3>4 DEF AclDelete, Return, PoolSame, Pc, At, AclsOf
    <3> QED BY <3>1, <3>2, <3>3, <3>4
  <2> QED BY <2>1, <2>2, <2>3, <2>4, <2>5, <2>6
<1>2. ASSUME plugin # "acl", plugin' = plugin PROVE AclsOf'
  BY <1>2 DEF AclsOf
<1>3. ASSUME UNCHANGED <<plugin, main, rc, acl, created, ids, left>> PROVE AclsOf'
  BY <1>3 DEF AclsOf
<1>4. \A n \in Place : Turns(n) /\ UNCHANGED <<nodevars, outagevars>>
                         => UNCHANGED <<plugin, main, rc, acl, created, ids, left>>
  BY TurnsIs DEF threadvars, outagevars
<1>5. UNCHANGED vars => UNCHANGED <<plugin, main, rc, acl, created, ids, left>>
  BY DEF vars, poolvars, threadvars, outagevars
<1>6. plugin' = plugin
  <2>1. OutTypeOK' BY OutTypeStep
  <2>2. NodesStep \/ OutageStep \/ Kill \/ Signal => plugin' = plugin
    BY DEF NodesStep, NextEntry, Pick, Join, Extend, OutageStep, ShutStart, Register, SendStop,
         SendStart, SendAll, Sent, Waited, WaitOne, RollbackNode, RollbackAt, ZoneStart, ZoneNext, RollbackStart,
         RollbackEnd, AclStart, AclSleep, AclSleepAgain, AclEnd, AclBlock, AclRestore, AclDelete,
         Kill, Signal, Return, PoolSame
  <2>3. \A w \in DOMAIN work : WorkerStep(w) => plugin' = plugin
    BY WorkerShape DEF OutTypeOK
  <2> QED BY <1>4, <1>5, <2>2, <2>3, OneStep
<1> QED BY <1>1, <1>2, <1>3, <1>4, <1>5, <1>6, OneStep

(* A zone outage that returns 0 has given every subnet the ACL it had and  *)
(* has left no ACL of its own: only what the loop over acl_ids_created     *)
(* reaches is deleted, after every original was put back                   *)
(* (zone_outage_scenario_plugin.py, network_based_zone).                   *)
THEOREM AclsRestoredAlways == Spec => []AclsRestored
<1>1. Init => AclsOf BY DEF Init, OutageInit, AclsOf
<1>2. AclsOf => AclsRestored BY DEF AclsOf, AclsRestored
<1> QED BY <1>1, <1>2, OutTypeInit, OutTypeStep, AclsStep, PTL DEF Spec

-----------------------------------------------------------------------------
(* The shut down goes phase by phase. *)

Phases == {"stopped", "running"}
Other(p) == IF p = "stopped" THEN "running" ELSE "stopped"
(* All machines are in the state p, and no request is pending.             *)
AllAt(p) == \A n \in Node : vm[n].power = p /\ vm[n].pending = "none"
(* Some are already in the state that is asked for, some are not: these    *)
(* are the only ones still to be asked, each by a worker of its own.       *)
Changing(p) ==
  /\ prog = Send(p)
  /\ \A n \in Node : \/ vm[n].power = p /\ vm[n].pending = "none"
                     \/ vm[n].power = Other(p) /\ vm[n].pending \in {"none", p}
  /\ \A w \in DOMAIN work :
       /\ work[w].node \in Node
       /\ work[w].st = "running" =>
            vm[work[w].node].power = Other(p) /\ vm[work[w].node].pending = "none"
       /\ \A v \in DOMAIN work : work[v].node = work[w].node => v = w
  /\ main = "work" => left = Node
  /\ main = "waiting" => \A n \in Node \ left : vm[n].power = p

PhaseByPhase ==
  plugin = "shut_down" /\ cloud # "az" =>
    /\ main \in {"entry", "register", "send_stop"} => AllAt("running")
    /\ main = "send_start" => AllAt("stopped")
    /\ main \in {"work", "waiting"} => \E p \in Phases : Changing(p)
    /\ main = "returned" /\ rc = 0 => AllAt("running")

LEMMA PhaseIs ==
  ASSUME Clouded, plugin = "shut_down", NEW p \in Phases, Changing(p)
  PROVE  Phase = p
BY SendIs DEF Clouded, Changing, Phases, Phase

LEMMA PhaseWorker ==
  ASSUME OutTypeOK, plugin = "shut_down", NEW p \in Phases, Changing(p),
         NEW w \in DOMAIN work, WorkerStep(w), UNCHANGED <<nodevars, outagevars>>
  PROVE  main' = "work" => Changing(p)'
<1> SUFFICES ASSUME main' = "work" PROVE Changing(p)' OBVIOUS
<1> DEFINE n == work[w].node
<1>0. PoolOK /\ Clouded BY CloudedIs DEF OutTypeOK
<1>1. /\ prog = Send(p) /\ n \in Node /\ p \in {"stopped", "running"}
      /\ \A q \in Node : \/ vm[q].power = p /\ vm[q].pending = "none"
                         \/ vm[q].power = Other(p) /\ vm[q].pending \in {"none", p}
      /\ \A v \in DOMAIN work : work[v].node = n => v = w
  BY DEF Changing, Phases
<1>2. /\ main = "work" /\ UNCHANGED <<plugin, prog>> /\ DOMAIN work' = DOMAIN work
      /\ work[w].st = "running"
  BY <1>0, WorkerShape
<1>3. PICK y \in Worker : work' = [work EXCEPT ![w] = y] /\ y.node = n BY <1>0, WorkerShape
<1>4. work \in Seq(Worker) BY <1>0 DEF PoolOK
<1>5. \A v \in DOMAIN work : work'[v].node = work[v].node /\ (v # w => work'[v] = work[v])
  BY <1>3, <1>4
<1>6. vm[n].power = Other(p) /\ vm[n].pending = "none" BY <1>2 DEF Changing
<1>7. left' = left /\ left = Node BY <1>2 DEF Changing, outagevars
<1>8. /\ work[w].m = 1 /\ work[w].i = 1 /\ Now(w) = Send(p)[1].steps[1]
      /\ Now(w).do = "ask" /\ Now(w).to = p /\ Len(prog) = 1
      /\ 2 \notin DOMAIN prog[1].steps
  <2>1. /\ Send(p) \in Seq(MethodT) /\ Len(Send(p)) = 1 /\ Len(Send(p)[1].steps) = 1
        /\ Send(p)[1].steps[1].do = "ask" /\ Send(p)[1].steps[1].to = p
    BY <1>0, <1>1, SendIs DEF Clouded
  <2>2. /\ work[w].m \in DOMAIN prog /\ work[w].i \in DOMAIN Steps(w)
        /\ Steps(w) = prog[work[w].m].steps /\ DOMAIN Steps(w) = 1..Len(Steps(w))
        /\ Now(w) = Steps(w)[work[w].i]
    BY <1>0, <1>2, Here
  <2>3. work[w].m = 1 BY <1>1, <2>1, <2>2
  <2> QED BY <1>1, <2>1, <2>2, <2>3
<1>9. CASE Fine(w)
  <2>1. Request(w) BY <1>0, <1>8, <1>9, FineIs
  <2>2. vm' = [vm EXCEPT ![n].pending = p] BY <1>8, <2>1 DEF Request
  <2>3. n \in Place /\ vm \in [Place -> Machine] BY <1>0, <1>1 DEF Place, PoolOK
  <2>4. /\ vm'[n].pending = p /\ vm'[n].power = vm[n].power
        /\ \A q \in Node : q # n => vm'[q] = vm[q]
    <3>1. [vm[n] EXCEPT !.pending = p].pending = p /\ [vm[n] EXCEPT !.pending = p].power = vm[n].power
      BY <2>3 DEF Machine
    <3> QED BY <2>2, <2>3, <3>1 DEF Place
  <2>5. work'[w].st = "done"
    <3>1. PICK z : GoesOn(w, z) BY <1>0, <1>9, FineIs
    <3>2. Past1(work[w], 2).st = "done"
      <4>1. work[w] \in Worker /\ InPlace(work[w]) BY <1>0, <1>2, Here
      <4>2. 2 \in Nat /\ 2 > work[w].i BY <1>8
      <4> QED BY <1>0, <1>2, <1>8, <4>1, <4>2, Past1Is
    <3>3. work[w].i + 1 = 2 BY <1>8
    <3>4. z.st = "done" /\ work' = [work EXCEPT ![w] = z] BY <3>1, <3>2, <3>3 DEF GoesOn
    <3> QED BY <1>4, <3>4
  <2>6. \A q \in Node : \/ vm'[q].power = p /\ vm'[q].pending = "none"
                        \/ vm'[q].power = Other(p) /\ vm'[q].pending \in {"none", p}
    BY <1>1, <1>6, <2>4
  <2>7. \A v \in DOMAIN work' :
          /\ work'[v].node \in Node
          /\ work'[v].st = "running" =>
               vm'[work'[v].node].power = Other(p) /\ vm'[work'[v].node].pending = "none"
          /\ \A u \in DOMAIN work' : work'[u].node = work'[v].node => u = v
    <3> TAKE v \in DOMAIN work'
    <3>1. work[v].node \in Node /\ \A u \in DOMAIN work : work[u].node = work[v].node => u = v
      BY <1>2 DEF Changing
    <3>2. v # w /\ work[v].st = "running" =>
            vm'[work[v].node].power = Other(p) /\ vm'[work[v].node].pending = "none"
      BY <1>1, <1>2, <2>4, <3>1 DEF Changing
    <3> QED BY <1>2, <1>5, <2>5, <3>1, <3>2
  <2> QED BY <1>1, <1>2, <1>7, <2>6, <2>7 DEF Changing, Send, Client, outagevars, Other
<1>10. CASE Wrong(w)
  <2>1. vm' = vm BY <1>0, <1>10, WrongIs
  <2>2. \A v \in DOMAIN work' :
          /\ work'[v].node \in Node
          /\ work'[v].st = "running" =>
               vm'[work'[v].node].power = Other(p) /\ vm'[work'[v].node].pending = "none"
          /\ \A u \in DOMAIN work' : work'[u].node = work'[v].node => u = v
    <3> TAKE v \in DOMAIN work'
    <3>1. work[v].node \in Node /\ \A u \in DOMAIN work : work[u].node = work[v].node => u = v
      BY <1>2 DEF Changing
    <3>2. v # w /\ work[v].st = "running" =>
            vm'[work[v].node].power = Other(p) /\ vm'[work[v].node].pending = "none"
      BY <1>1, <1>2, <2>1 DEF Changing
    <3>3. vm'[n].power = Other(p) /\ vm'[n].pending = "none" BY <1>6, <2>1
    <3> QED BY <1>2, <1>5, <3>1, <3>2, <3>3
  <2> QED BY <1>1, <1>2, <1>7, <2>1, <2>2 DEF Changing, Send, Client, outagevars, Other
<1> QED BY <1>9, <1>10 DEF WorkerStep, Fine

LEMMA SendAllPc ==
  ASSUME NEW from, NEW state, SendAll(from, state)
  PROVE  plugin = "shut_down" /\ main = from /\ plugin' = plugin
BY DEF SendAll, Pc, At

(* The requests of a phase are made when all machines are in the other.    *)
LEMMA PhaseSend ==
  ASSUME OutTypeOK, NEW p \in Phases, NEW from, SendAll(from, p), AllAt(Other(p))
  PROVE  Changing(p)' /\ main' = "work"
<1>1. PoolOK /\ Clouded /\ plugin = "shut_down" BY CloudedIs DEF OutTypeOK, SendAll, Pc, At
<1>2. p \in {"stopped", "running"} BY DEF Phases
<1>3. Send(p) \in Seq(MethodT) BY <1>1, <1>2, SendIs DEF Clouded
<1>4. EveryNode \in Seq(Place) /\ EveryNode \in Seq(Node)
      /\ \A i, j \in DOMAIN EveryNode : EveryNode[i] = EveryNode[j] => i = j
  <2>1. EveryNode \in Seq(Node) /\
        \A i, j \in DOMAIN EveryNode : EveryNode[i] = EveryNode[j] => i = j
    BY NodesListed DEF EveryNode
  <2> QED BY <2>1 DEF Place
<1>5. Launch(EveryNode, Send(p), TRUE, FALSE)
  <2>1. SendAll(from, p) OBVIOUS
  <2> QED BY <2>1, Zenon DEF SendAll
<1>6. /\ prog' = Send(p) /\ DOMAIN work' = DOMAIN EveryNode
      /\ \A j \in DOMAIN EveryNode : work'[j].node = EveryNode[j]
  <2> DEFINE nodes == EveryNode
             sent == Send(p)
  <2>1. nodes \in Seq(Place) /\ sent \in Seq(MethodT) BY <1>3, <1>4
  <2>2. Launch(nodes, sent, TRUE, FALSE) BY <1>5
  <2> HIDE DEF nodes, sent
  <2>3. prog' = sent BY <2>2 DEF Launch
  <2>4. DOMAIN work' = DOMAIN nodes /\ \A j \in DOMAIN nodes : work'[j].node = nodes[j]
    BY <2>2 DEF Launch
  <2> QED BY <2>3, <2>4 DEF nodes, sent
<1>7. UNCHANGED <<vm, cloud>> /\ left' = Node /\ main' = "work"
  BY DEF SendAll, cloudvars
<1>8. \A n \in Node : vm'[n].power = Other(p) /\ vm'[n].pending = "none"
  BY <1>7 DEF AllAt
<1>9. \A w \in DOMAIN work' :
        /\ work'[w].node \in Node
        /\ \A v \in DOMAIN work' : work'[v].node = work'[w].node => v = w
  BY <1>4, <1>6
<1> QED BY <1>6, <1>7, <1>8, <1>9 DEF Changing, Send, Client, Other

LEMMA PhaseStep == OutTypeOK /\ PhaseByPhase /\ [Next]_vars => PhaseByPhase'
<1> SUFFICES ASSUME OutTypeOK, PhaseByPhase, [Next]_vars PROVE PhaseByPhase' OBVIOUS
<1>0. PoolOK /\ ShutOK /\ Clouded BY CloudedIs DEF OutTypeOK
<1>1. ASSUME plugin # "shut_down" \/ cloud = "az", plugin' = plugin, cloud' = cloud
      PROVE  PhaseByPhase'
  BY <1>1 DEF PhaseByPhase
<1>2. ASSUME plugin = "shut_down", cloud # "az", OutageStep \/ Kill \/ Signal PROVE PhaseByPhase'
  <2>1. CASE ShutStart
    BY <1>2, <2>1 DEF ShutStart, Return, cloudvars, Pc, At, PhaseByPhase, AllAt
  <2>2. CASE Register
    BY <1>2, <2>2 DEF Register, PoolSame, cloudvars, Pc, At, PhaseByPhase, AllAt
  <2>3. CASE SendStop
    <3>0. SendAll("send_stop", "stopped") BY <2>3 DEF SendStop
    <3>1. SendAll("send_stop", "stopped") /\ main = "send_stop" /\ plugin' = plugin
      BY <3>0, SendAllPc
    <3>2. AllAt(Other("stopped")) BY <1>2, <3>1 DEF PhaseByPhase, Other
    <3>3. Changing("stopped")' /\ main' = "work" BY <3>1, <3>2, PhaseSend DEF Phases
    <3> QED BY <3>3 DEF PhaseByPhase, Phases
  <2>4. CASE SendStart
    <3>0. SendAll("send_start", "running") BY <2>4 DEF SendStart
    <3>1. SendAll("send_start", "running") /\ main = "send_start" /\ plugin' = plugin
      BY <3>0, SendAllPc
    <3>2. AllAt(Other("running")) BY <1>2, <3>1 DEF PhaseByPhase, Other
    <3>3. Changing("running")' /\ main' = "work" BY <3>1, <3>2, PhaseSend DEF Phases
    <3> QED BY <3>3 DEF PhaseByPhase, Phases
  <2>5. CASE Sent
    <3>1. /\ main = "work" /\ main' = "waiting" /\ plugin' = plugin
          /\ UNCHANGED <<prog, work, vm, left, cloud>>
      BY <2>5 DEF Sent, PoolSame, cloudvars, outagevars, Pc, At
    <3>2. PICK p \in Phases : Changing(p) BY <1>2, <3>1 DEF PhaseByPhase
    <3>3. Changing(p)' BY <3>1, <3>2 DEF Changing, Send, Client, Other
    <3> QED BY <3>1, <3>3 DEF PhaseByPhase
  <2>6. CASE Waited
    <3>1. /\ main = "waiting" /\ left = {} /\ UNCHANGED vm
          /\ IF Phase = "stopped" THEN main' = "send_start"
             ELSE main' \in {"register", "returned"}
      BY <2>6 DEF Waited, Return, PoolSame, cloudvars, Pc, At
    <3>2. PICK p \in Phases : Changing(p) BY <1>2, <3>1 DEF PhaseByPhase
    <3>3. Phase = p BY <1>0, <1>2, <3>2, PhaseIs
    <3>4. AllAt(p) BY <3>1, <3>2 DEF Changing, AllAt, Other, Phases
    <3> QED BY <3>1, <3>3, <3>4 DEF PhaseByPhase, AllAt, Phases
  <2>7. CASE \E n \in Node : WaitOne(n)
    <3>1. PICK n \in Node : WaitOne(n) BY <2>7
    <3>2. /\ main = "waiting" /\ UNCHANGED <<prog, work, vm, cloud, plugin>>
          /\ \/ vm[n].power = Phase /\ left' = left \ {n} /\ main' = "waiting"
             \/ main' = "returned" /\ rc' = 1
             \/ main' = "exited"
      BY <1>2, <3>1 DEF WaitOne, Return, PoolSame, cloudvars, Pc, At
    <3>3. PICK p \in Phases : Changing(p) BY <1>2, <3>2 DEF PhaseByPhase
    <3>4. Phase = p BY <1>0, <1>2, <3>3, PhaseIs
    <3>5. CASE vm[n].power = Phase /\ left' = left \ {n} /\ main' = "waiting"
      <4>1. \A q \in Node \ left' : vm'[q].power = p
        BY <3>2, <3>3, <3>4, <3>5 DEF Changing
      <4>2. Changing(p)' BY <3>2, <3>3, <3>5, <4>1 DEF Changing, Send, Client, Other
      <4> QED BY <3>5, <4>2 DEF PhaseByPhase
    <3> QED BY <3>2, <3>5 DEF PhaseByPhase
  <2>8. CASE Kill \/ Signal \/ RollbackStart \/ RollbackEnd \/ \E n \in Node : RollbackNode(n)
    <3>1. main' \in {"killed", "rolling", "rolled", "exited", "handling", "handled"}
      BY <2>8 DEF Kill, Signal, RollbackStart, RollbackEnd, RollbackNode, RollbackAt
    <3> QED BY <3>1 DEF PhaseByPhase
  <2>9. ~(ZoneStart \/ ZoneNext \/ AclStart \/ AclSleep \/ AclSleepAgain \/ AclEnd
          \/ \E s \in Subnet : AclBlock(s) \/ AclRestore(s) \/ AclDelete(s))
    BY <1>2 DEF ZoneStart, ZoneNext, AclStart, AclSleep, AclSleepAgain, AclEnd, AclBlock,
                AclRestore, AclDelete, Pc, At
  <2> QED BY <1>2, <2>1, <2>2, <2>3, <2>4, <2>5, <2>6, <2>7, <2>8, <2>9 DEF OutageStep
<1>3. ASSUME plugin = "shut_down", cloud # "az", NEW w \in DOMAIN work, WorkerStep(w),
             UNCHANGED <<nodevars, outagevars>>
      PROVE  PhaseByPhase'
  <2>1. main \in Working /\ plugin' = plugin /\ main' \in {main, "exited"}
    BY <1>0, <1>3, WorkerShape
  <2>2. CASE main = "work"
    <3>1. PICK p \in Phases : Changing(p) BY <1>3, <2>2 DEF PhaseByPhase
    <3>2. main' = "work" => Changing(p)' BY <1>3, <3>1, PhaseWorker
    <3> QED BY <2>1, <2>2, <3>2 DEF PhaseByPhase
  <2>3. CASE main # "work" BY <2>1, <2>3 DEF PhaseByPhase, Working, Beside
  <2> QED BY <2>2, <2>3
<1>4. ASSUME plugin = "shut_down", cloud # "az", NEW n \in Place, Turns(n), UNCHANGED <<nodevars, outagevars>>
      PROVE  PhaseByPhase'
  <2>1. /\ \A q \in Place \ {n} : vm'[q] = vm[q]
        /\ \/ vm'[n].power = Final(n) /\ vm'[n].pending = "none" /\ vm[n].pending # "none"
           \/ vm'[n].power = vm[n].power /\ vm'[n].pending = vm[n].pending
        /\ UNCHANGED <<plugin, main, rc, prog, work>>
    BY <1>4, TurnsIs DEF threadvars
  <2>2. UNCHANGED <<left, cloud>> BY <1>4 DEF outagevars
  <2>3. Node \subseteq Place BY DEF Place
  <2>4. ASSUME NEW p \in Phases, AllAt(p) PROVE AllAt(p)'
    <3>1. CASE n \notin Node BY <2>1, <2>3, <2>4, <3>1 DEF AllAt
    <3>2. CASE n \in Node
      <4>1. vm'[n].power = vm[n].power /\ vm'[n].pending = vm[n].pending
        BY <2>1, <2>4, <3>2 DEF AllAt
      <4> QED BY <2>1, <2>3, <2>4, <3>2, <4>1 DEF AllAt
    <3> QED BY <3>1, <3>2
  <2>5. ASSUME NEW p \in Phases, Changing(p), vm[n].pending # "none",
               vm'[n].power = Final(n) /\ vm'[n].pending = "none"
        PROVE  Changing(p)'
    <3>1. n \in Node => vm[n].power = Other(p) /\ vm[n].pending = p /\ p # "none"
                        /\ vm'[n].power = p
      BY <2>1, <2>5 DEF Changing, Final, Phases
    <3>2. \A q \in Node : q # n => vm'[q] = vm[q] BY <2>1, <2>3
    <3>3. \A q \in Node : \/ vm'[q].power = p /\ vm'[q].pending = "none"
                          \/ vm'[q].power = Other(p) /\ vm'[q].pending \in {"none", p}
      BY <2>1, <2>5, <3>1, <3>2 DEF Changing
    <3>4. \A w \in DOMAIN work : work[w].st = "running" =>
            vm'[work[w].node].power = Other(p) /\ vm'[work[w].node].pending = "none"
      BY <2>5, <3>1, <3>2 DEF Changing
    <3>5. main = "waiting" => \A q \in Node \ left : vm'[q].power = p
      BY <2>5, <3>1, <3>2 DEF Changing
    <3> QED BY <2>1, <2>2, <2>5, <3>3, <3>4, <3>5 DEF Changing, Send, Client, Other
  <2>6. ASSUME NEW p \in Phases, Changing(p), vm'[n].power = vm[n].power,
               vm'[n].pending = vm[n].pending
        PROVE  Changing(p)'
    <3>1. \A q \in Node : vm'[q].power = vm[q].power /\ vm'[q].pending = vm[q].pending
      BY <2>1, <2>3, <2>6
    <3> QED BY <2>1, <2>2, <2>6, <3>1 DEF Changing, Send, Client, Other
  <2>7. \A p \in Phases : Changing(p) => Changing(p)'
    <3> SUFFICES ASSUME NEW p \in Phases, Changing(p) PROVE Changing(p)' OBVIOUS
    <3>1. CASE vm[n].pending # "none" /\ vm'[n].power = Final(n) /\ vm'[n].pending = "none"
      BY <2>5, <3>1
    <3>2. CASE vm'[n].power = vm[n].power /\ vm'[n].pending = vm[n].pending BY <2>6, <3>2
    <3> QED BY <2>1, <3>1, <3>2
  <2>8. \A p \in Phases : AllAt(p) => AllAt(p)' BY <2>4
  <2> QED BY <2>1, <2>2, <2>7, <2>8 DEF PhaseByPhase, Phases
<1>5. ASSUME UNCHANGED vars PROVE PhaseByPhase'
  <2>1. UNCHANGED <<plugin, main, rc, prog, work, vm, left, cloud>>
    BY <1>5 DEF vars, poolvars, threadvars, outagevars, cloudvars
  <2>2. \A p \in Phases : (Changing(p) => Changing(p)') /\ (AllAt(p) => AllAt(p)')
    BY <2>1 DEF Changing, Send, Client, Other, AllAt
  <2> QED BY <2>1, <2>2 DEF PhaseByPhase, Phases
<1>6. plugin' = plugin
  <2>1. NodesStep \/ OutageStep \/ Kill \/ Signal => plugin' = plugin
    BY DEF NodesStep, NextEntry, Pick, Join, Extend, OutageStep, ShutStart, Register, SendStop,
         SendStart, SendAll, Sent, Waited, WaitOne, RollbackNode, RollbackAt, ZoneStart, ZoneNext, RollbackStart,
         RollbackEnd, AclStart, AclSleep, AclSleepAgain, AclEnd, AclBlock, AclRestore, AclDelete,
         Kill, Signal, Return, PoolSame
  <2>2. \A w \in DOMAIN work : WorkerStep(w) => plugin' = plugin BY <1>0, WorkerShape
  <2>3. \A n \in Place : Turns(n) => plugin' = plugin BY TurnsIs DEF threadvars
  <2>4. UNCHANGED vars => plugin' = plugin BY DEF vars, poolvars, threadvars
  <2> QED BY <2>1, <2>2, <2>3, <2>4, OneStep
<1>7. cloud' = cloud
  <2>1. OutageStep \/ Kill \/ Signal => cloud' = cloud
    BY DEF OutageStep, ShutStart, Register, SendStop,
         SendStart, SendAll, Sent, Waited, WaitOne, RollbackNode, RollbackAt, ZoneStart, ZoneNext, RollbackStart,
         RollbackEnd, AclStart, AclSleep, AclSleepAgain, AclEnd, AclBlock, AclRestore, AclDelete,
         Kill, Signal, outagevars
  <2>2. UNCHANGED outagevars \/ UNCHANGED vars => cloud' = cloud BY DEF vars, outagevars
  <2> QED BY <2>1, <2>2, OneStep
<1> QED BY <1>1, <1>2, <1>3, <1>4, <1>5, <1>6, <1>7, OneStep

(* A shut down starts no machine before the waits have seen every one of   *)
(* them stopped, and returns 0 only when they have seen every one run      *)
(* again, whatever requests were refused or taken late; the waits of az    *)
(* may answer True early, and are left out                                 *)
(* (shut_down_scenario_plugin.py, cluster_shut_down).                      *)
THEOREM AllDownTogetherAlways == Spec => []AllDownTogether
<1>1. Init => PhaseByPhase
  <2> SUFFICES ASSUME Init, plugin = "shut_down", cloud # "az" PROVE main = "entry" /\ AllAt("running")
    BY DEF PhaseByPhase
  <2> QED BY DEF Init, PoolInit, AllAt
<1>2. PhaseByPhase => AllDownTogether BY DEF PhaseByPhase, AllDownTogether, AllAt
<1> QED BY <1>1, <1>2, OutTypeInit, OutTypeStep, PhaseStep, PTL DEF Spec

-----------------------------------------------------------------------------
(* The node scenarios: what an action finds when it starts.                *)

LEMMA PickIs ==
  ASSUME OutTypeOK, Pick
  PROVE  /\ plugin = "nodes" /\ main = "pick"
         /\ UNCHANGED <<plugin, vm, azure, affected, asked, refused, file, act, general, telemetry>>
         /\ \/ /\ main' = "work" /\ rc' = rc /\ entry' = entry /\ act <= Len(E.actions)
               /\ prog' = ActProgram /\ parallel' = E.parallel /\ kube' = E.kube
               /\ \A w \in DOMAIN work' :
                    /\ work'[w].m = 1 /\ work'[w].i = 1 /\ work'[w].saved = "orig"
                    /\ work'[w].st = IF ActProgram = <<>> THEN "done" ELSE "running"
                    /\ Act # "stop_start_helper_node_scenario" => work'[w].node \in Node
            \/ main' = "extend" /\ rc' = rc /\ entry' = entry /\ DOMAIN work' = {}
            \/ main' = "entry" /\ rc' = rc /\ entry' = entry + 1
            \/ main' = "returned" /\ rc' = 1 /\ entry' = entry
<1>1. plugin = "nodes" /\ PoolOK /\ NodesOK /\ main = "pick" /\ entry \in DOMAIN file
  BY DEF Pick, NodesAt, At, OutTypeOK, NodesOK
<1>2. UNCHANGED <<plugin, vm, azure, affected, asked, refused, file, act, general, telemetry>>
  BY DEF Pick, cloudvars, records
<1>3. /\ ActProgram \in Seq(MethodT) /\ E.parallel \in BOOLEAN /\ E.kube \in BOOLEAN
      /\ E.names \in SUBSET Node
  BY <1>1, EntryIs
<1> DEFINE Started ==
             /\ prog' = ActProgram /\ parallel' = E.parallel /\ kube' = E.kube
             /\ \A w \in DOMAIN work' :
                  /\ work'[w].m = 1 /\ work'[w].i = 1 /\ work'[w].saved = "orig"
                  /\ work'[w].st = IF ActProgram = <<>> THEN "done" ELSE "running"
                  /\ Act # "stop_start_helper_node_scenario" => work'[w].node \in Node
<1>4. ASSUME NEW nodes \in Seq(Node), Launch(Targets(nodes), ActProgram, E.parallel, E.kube)
      PROVE  Started /\ DOMAIN work' = DOMAIN nodes
  <2>1. /\ Targets(nodes) \in Seq(Place) /\ DOMAIN Targets(nodes) = DOMAIN nodes
        /\ \A j \in DOMAIN nodes :
             Targets(nodes)[j] = IF Act = "stop_start_helper_node_scenario" THEN Helper ELSE nodes[j]
    BY TargetsIs
  <2>2. /\ prog' = ActProgram /\ parallel' = E.parallel /\ kube' = E.kube
        /\ DOMAIN work' = DOMAIN nodes
        /\ \A j \in DOMAIN nodes :
             /\ work'[j].node = Targets(nodes)[j] /\ work'[j].m = 1 /\ work'[j].i = 1
             /\ work'[j].st = IF ActProgram = <<>> THEN "done" ELSE "running"
             /\ work'[j].saved = "orig"
    BY <1>3, <1>4, <2>1, LaunchIs
  <2>3. \A j \in DOMAIN nodes : nodes[j] \in Node OBVIOUS
  <2> QED BY <2>1, <2>2, <2>3
<1>5. \/ main' = "entry" /\ entry' = entry + 1 /\ rc' = rc
      \/ /\ act <= Len(E.actions) /\ E.names # {} /\ main' = "work" /\ UNCHANGED <<rc, entry>>
         /\ Launch(Targets(SetToSeq(E.names)), ActProgram, E.parallel, E.kube)
      \/ main' = "extend" /\ rc' = rc /\ work' = <<>> /\ entry' = entry
      \/ main' = "returned" /\ rc' = 1 /\ entry' = entry
      \/ /\ act <= Len(E.actions) /\ UNCHANGED <<rc, entry>>
         /\ \E nodes \in Picks :
              /\ Launch(Targets(nodes), ActProgram, E.parallel, E.kube)
              /\ main' = IF nodes = <<>> THEN "extend" ELSE "work"
  BY DEF Pick, Return
<1>6. CASE /\ act <= Len(E.actions) /\ E.names # {} /\ main' = "work" /\ UNCHANGED <<rc, entry>>
           /\ Launch(Targets(SetToSeq(E.names)), ActProgram, E.parallel, E.kube)
  <2>1. SetToSeq(E.names) \in Seq(Node)
    <3>1. SetToSeq(E.names) \in Seq(E.names) BY <1>3, NodesListed
    <3> QED BY <1>3, <3>1
  <2>2. Started BY <1>4, <1>6, <2>1
  <2> QED BY <1>1, <1>2, <1>6, <2>2
<1>7. CASE /\ act <= Len(E.actions) /\ UNCHANGED <<rc, entry>>
           /\ \E nodes \in Picks :
                /\ Launch(Targets(nodes), ActProgram, E.parallel, E.kube)
                /\ main' = IF nodes = <<>> THEN "extend" ELSE "work"
  <2>1. PICK nodes \in Picks :
          /\ Launch(Targets(nodes), ActProgram, E.parallel, E.kube)
          /\ main' = IF nodes = <<>> THEN "extend" ELSE "work"
    BY <1>7
  <2>2. nodes \in Seq(Node) BY PicksIs
  <2>3. Started /\ DOMAIN work' = DOMAIN nodes BY <1>4, <2>1, <2>2
  <2>4. nodes = <<>> => DOMAIN nodes = {} OBVIOUS
  <2> QED BY <1>1, <1>2, <1>7, <2>1, <2>3, <2>4
<1> QED BY <1>1, <1>2, <1>5, <1>6, <1>7

(* The serial node scenarios of clients that report: a refused request is  *)
(* an exception of its worker, and the plugin has not returned 0.          *)
Honest ==
  plugin = "nodes" =>
    /\ rc = 1 => main \in {"returned", "exited"}
    /\ Reported(file) /\ Serial(file) =>
         /\ main = "work" => ~parallel /\ prog \in Seq(HonestT)
         /\ refused # {} => rc = 1 \/ (main = "work" /\ SomeFailed)

LEMMA HonestWorker ==
  ASSUME OutTypeOK, Honest, plugin = "nodes", NEW w \in DOMAIN work, WorkerStep(w),
         UNCHANGED <<nodevars, outagevars>>
  PROVE  Honest'
<1>0. PoolOK /\ work \in Seq(Worker) /\ main = "work"
  <2>1. PoolOK /\ work \in Seq(Worker) BY DEF OutTypeOK, PoolOK
  <2> QED BY <2>1, WorkerShape, NodesWork
<1>1. /\ main = "work" /\ work[w].st = "running" /\ UNCHANGED <<plugin, parallel, prog>>
      /\ DOMAIN work' = DOMAIN work
      /\ \/ main' = main /\ rc' = rc
         \/ main' = "exited" /\ rc' = 1 /\ ~parallel
      /\ file' = file
  BY <1>0, WorkerShape DEF nodevars
<1>2. PICK y \in Worker : work' = [work EXCEPT ![w] = y] BY <1>0, WorkerShape
<1>3. SomeFailed => SomeFailed'
  <2>1. \A v \in DOMAIN work : v # w => work'[v] = work[v] BY <1>0, <1>2
  <2> QED BY <1>1, <2>1 DEF SomeFailed
<1>4. Reported(file) /\ Serial(file) /\ refused' # refused => rc' = 1 \/ SomeFailed'
  <2> SUFFICES ASSUME Reported(file), Serial(file), refused' # refused
               PROVE  rc' = 1 \/ SomeFailed'
    OBVIOUS
  <2>1. Wrong(w)
    <3>1. Fine(w) => refused' = refused BY <1>0, FineIs
    <3> QED BY <3>1 DEF WorkerStep, Fine
  <2>2. Now(w).do = "ask" BY <1>0, <2>1, WrongIs
  <2>3. ~parallel /\ prog \in Seq(HonestT) BY <1>1 DEF Honest
  <2>4. /\ work[w].m \in DOMAIN prog /\ Steps(w) = prog[work[w].m].steps
        /\ work[w].i \in DOMAIN Steps(w) /\ Now(w) = Steps(w)[work[w].i]
    BY <1>0, <1>1, Here
  <2>5. prog[work[w].m] \in HonestT BY <2>3, <2>4
  <2>6. HasAsk(Steps(w)) BY <2>2, <2>4 DEF HasAsk
  <2>7. prog[work[w].m].onError = "raise" /\ Now(w).bad \subseteq {"raise", "exit"}
    <3>1. prog[work[w].m].onError = "raise" /\ Tells(Steps(w))
      BY <2>4, <2>5, <2>6 DEF HonestT, Reports1
    <3> QED BY <2>2, <2>4, <3>1 DEF Tells
  <2>8. PICK z, how :
          /\ how \in Now(w).bad
          /\ how = "raise" /\ prog[work[w].m].onError = "raise" => Ends(w, z, "failed")
          /\ IF how = "exit" /\ ~parallel THEN main' = "exited" /\ rc' = 1
             ELSE main' = main /\ rc' = rc
    BY <1>0, <2>1, WrongIs
  <2>9. CASE how = "exit" BY <2>3, <2>8, <2>9
  <2>10. CASE how = "raise"
    <3>1. Ends(w, z, "failed") BY <2>7, <2>8, <2>10
    <3>2. work' = [work EXCEPT ![w] = z] /\ z.st = "failed" BY <3>1 DEF Ends
    <3>3. w \in DOMAIN work' /\ work'[w].st = "failed" BY <1>1, <3>2
    <3> QED BY <3>3 DEF SomeFailed
  <2> QED BY <2>7, <2>8, <2>9, <2>10
<1>5. prog' = prog /\ (Reported(file)' = Reported(file)) /\ (Serial(file)' = Serial(file))
  BY <1>1 DEF Reported, Serial, Reporting
<1> QED BY <1>1, <1>3, <1>4, <1>5 DEF Honest, Reported, Serial, Reporting

LEMMA HonestStep == OutTypeOK /\ Honest /\ [Next]_vars => Honest'
<1> SUFFICES ASSUME OutTypeOK, Honest, [Next]_vars PROVE Honest' OBVIOUS
<1>0. PoolOK /\ NodesOK BY DEF OutTypeOK
<1>1. ASSUME plugin = "nodes", NodesStep PROVE Honest'
  <2>1. CASE NextEntry
    <3>1. main = "entry" /\ refused' = refused /\ file' = file
      BY <2>1 DEF NextEntry, NodesAt, At, Return
    <3>2. main = "entry" /\ main' \in {"pick", "returned"} /\ (rc' = rc \/ main' = "returned")
      BY <2>1 DEF NextEntry, NodesAt, At, Return
    <3> QED BY <1>0, <1>1, <3>1, <3>2 DEF Honest, PoolOK, Reported, Serial, Reporting
  <2>2. CASE Pick
    <3>1. /\ main = "pick" /\ UNCHANGED <<file, refused>>
          /\ \/ main' = "work" /\ rc' = rc /\ prog' = ActProgram /\ parallel' = E.parallel
             \/ main' \in {"extend", "entry"} /\ rc' = rc
             \/ main' = "returned" /\ rc' = 1
      BY <2>2, PickIs
    <3>2. rc = 0 BY <1>0, <1>1, <3>1 DEF Honest, PoolOK
    <3>3. Reported(file) /\ Serial(file) => refused = {} BY <1>1, <3>1, <3>2 DEF Honest
    <3>4. Reported(file) /\ Serial(file) => ~E.parallel /\ ActProgram \in Seq(HonestT)
      <4> SUFFICES ASSUME Reported(file), Serial(file)
                   PROVE  ~E.parallel /\ ActProgram \in Seq(HonestT)
        OBVIOUS
      <4>1. entry \in DOMAIN file BY <1>0, <1>1, <3>1 DEF NodesOK
      <4>2. E.cloud \in Reporting /\ ~E.parallel BY <4>1 DEF Reported, Serial, E
      <4>3. Program(E.cloud, Act) \in Seq(HonestT) BY <4>2, ProgramHonest
      <4>4. <<>> \in Seq(HonestT) OBVIOUS
      <4> QED BY <4>2, <4>3, <4>4 DEF ActProgram
    <3> QED BY <3>1, <3>2, <3>3, <3>4 DEF Honest, Reported, Serial, Reporting
  <2>3. CASE Join
    <3>1. /\ main = "work" /\ UNCHANGED <<refused, file, work, parallel>>
          /\ \/ main' = "extend" /\ rc' = rc /\ (parallel \/ AllDone)
             \/ main' = "returned" /\ rc' = 1
      BY <2>3 DEF Join, NodesAt, At, Return, records, nodevars
    <3>2. AllDone => ~SomeFailed BY DEF AllDone, SomeFailed
    <3> QED BY <1>0, <1>1, <3>1, <3>2 DEF Honest, PoolOK, Reported, Serial, Reporting
  <2>4. CASE Extend
    <3>1. /\ main = "extend" /\ UNCHANGED <<refused, file>>
          /\ \/ main' = "pick" /\ rc' = rc
             \/ main' \in {"exited", "returned"} /\ rc' = 1
      BY <2>4 DEF Extend, NodesAt, At, records
    <3> QED BY <1>0, <1>1, <3>1 DEF Honest, PoolOK, Reported, Serial, Reporting
  <2> QED BY <1>1, <2>1, <2>2, <2>3, <2>4 DEF NodesStep
<1>2. ASSUME plugin # "nodes", plugin' = plugin PROVE Honest' BY <1>2 DEF Honest
<1>3. ASSUME UNCHANGED <<plugin, main, rc, parallel, prog, work, refused, file>> PROVE Honest'
  BY <1>3 DEF Honest, Reported, Serial, Reporting, SomeFailed
<1>4. \A n \in Place : Turns(n) /\ UNCHANGED <<nodevars, outagevars>>
                         => UNCHANGED <<plugin, main, rc, parallel, prog, work, refused, file>>
  BY TurnsIs DEF threadvars, records, nodevars
<1>5. UNCHANGED vars => UNCHANGED <<plugin, main, rc, parallel, prog, work, refused, file>>
  BY DEF vars, poolvars, threadvars, records, nodevars
<1>6. OutageStep \/ Kill \/ Signal => plugin' = plugin /\ plugin # "nodes"
  BY DEF OutageStep, ShutStart, Register, SendStop, SendStart, SendAll, Sent, Waited,
         WaitOne, RollbackNode, RollbackAt, ZoneStart, ZoneNext, RollbackStart, RollbackEnd, AclStart, AclSleep,
         AclSleepAgain, AclEnd, AclBlock, AclRestore, AclDelete, Kill, Signal, Return, PoolSame, Pc, At
<1>7. \A w \in DOMAIN work : WorkerStep(w) => plugin' = plugin BY <1>0, WorkerShape
<1> QED BY <1>1, <1>2, <1>3, <1>4, <1>5, <1>6, <1>7, HonestWorker, OneStep

(* A serial scenario on clouds whose clients report refusals returns 0     *)
(* only if no request was refused: the exception crosses the methods of    *)
(* the node scenario class, run_node and inject_node_scenario.             *)
THEOREM HonestReturnAlways == Spec => []HonestReturn
<1>1. Init => Honest BY DEF Init, PoolInit, Honest
<1>2. Honest => HonestReturn BY DEF Honest, HonestReturn
<1> QED BY <1>1, <1>2, OutTypeInit, OutTypeStep, HonestStep, PTL DEF Spec

-----------------------------------------------------------------------------
(* The node scenarios: the nodes that were asked.                          *)

(* The power actions of an entry whose client reports refusals.            *)
Powered == E.cloud \in Reporting /\ Act \in PowerActions
AskedBefore(w) == \E j \in 1..(work[w].i - 1) : Steps(w)[j].do = "ask"
(* A worker that is past a request of the method it is in has had it       *)
(* accepted; one that is past its first method too, when that is a start,  *)
(* a stop or a reboot.                                                     *)
WorkersAsked ==
  main = "work" /\ Powered =>
    /\ prog \in Seq(PowerT)
    /\ \A w \in DOMAIN work :
         work[w].st = "running" /\ AskedBefore(w) => work[w].node \in asked
AllAsked ==
  main \in {"work", "extend"} /\ Powered /\ ~general /\ Act # "node_termination_scenario" =>
    /\ main = "work" => prog # <<>> /\ prog[1] \in AskingT
    /\ \A w \in DOMAIN work :
         work[w].st = "done" \/ (work[w].st = "running" /\ work[w].m > 1) => work[w].node \in asked
PowersOnly == E.cloud \in Reporting /\ \A a \in DOMAIN E.actions : E.actions[a] \in PowerActions
Requests ==
  plugin = "nodes" =>
    /\ WorkersAsked /\ AllAsked
    /\ main \in {"pick", "work", "extend"} /\ PowersOnly => affected \subseteq asked
    /\ general => \E e \in 1..(IF main = "entry" THEN entry - 1 ELSE entry) :
                     file[e].cloud = "generic"

LEMMA AskedWorker ==
  ASSUME OutTypeOK, WorkersAsked, main = "work", Powered,
         NEW w \in DOMAIN work, WorkerStep(w), main' = "work"
  PROVE  /\ asked \subseteq asked'
         /\ AskedBefore(w)' /\ work'[w].st = "running" => work[w].node \in asked'
         /\ affected' # affected => affected' = affected \cup {work[w].node} /\ work[w].node \in asked'
         /\ prog[work[w].m] \in AskingT /\ work'[w].st \in {"running", "done"}
            /\ (work'[w].m > work[w].m \/ work'[w].st = "done")
              => work[w].node \in asked'
<1>0. PoolOK /\ work \in Seq(Worker) BY DEF OutTypeOK, PoolOK
<1> DEFINE x == work[w]
           n == work[w].node
           s == prog[work[w].m].steps
<1>1. /\ x.st = "running" /\ UNCHANGED prog BY <1>0, WorkerShape
<1>2. /\ x.m \in DOMAIN prog /\ Steps(w) = s /\ s \in Seq(StepT) /\ x.m \in Nat
      /\ x.i \in Nat /\ x.i >= 1 /\ Len(s) \in Nat /\ DOMAIN s = 1..Len(s) /\ x.i \in DOMAIN s
      /\ Now(w) = s[x.i] /\ x \in Worker /\ InPlace(x)
      /\ prog[x.m] \in PowerT /\ prog[x.m].steps = s
      /\ DOMAIN prog = 1..Len(prog) /\ Len(prog) \in Nat
  <2>1. prog \in Seq(PowerT) BY DEF WorkersAsked
  <2>2. x.m \in DOMAIN prog BY <1>0, <1>1, Here
  <2>3. prog[x.m] \in PowerT /\ DOMAIN prog = 1..Len(prog) /\ Len(prog) \in Nat BY <2>1, <2>2
  <2> QED BY <1>0, <1>1, <2>2, <2>3, Here
<1>3. AskedBefore(w) => n \in asked BY <1>1 DEF WorkersAsked
<1> DEFINE Past(y) == /\ y.m \in Nat /\ y.i \in Nat
                      /\ \/ y.m = x.m /\ y.i = x.i + 1 /\ y.st = "running" /\ x.i + 1 \in DOMAIN s
                         \/ y.m = x.m + 1 /\ y.i = 1 /\ x.i = Len(s)
<1>4. ASSUME NEW y, GoesOn(w, y)
      PROVE  Past(y) /\ work'[w] = y
  <2>0. x.i \in Nat BY <1>2
  <2>1. x.i + 1 \in Nat /\ x.i + 1 > x.i BY <2>0
  <2>2. LET p == Past1(x, x.i + 1)
        IN  /\ x.i + 1 \in DOMAIN s => p.m = x.m /\ p.i = x.i + 1 /\ p.st = "running"
            /\ x.i + 1 \notin DOMAIN s => p.m = x.m + 1 /\ p.i = 1
    BY <1>0, <1>1, <1>2, <2>1, Past1Is
  <2>3. y.m = Past1(x, x.i + 1).m /\ y.i = Past1(x, x.i + 1).i /\ y.st = Past1(x, x.i + 1).st
        /\ work' = [work EXCEPT ![w] = y] /\ y \in Worker
    BY <1>4 DEF GoesOn
  <2>4. y.m \in Nat /\ y.i \in Nat BY <2>3 DEF Worker
  <2>5. x.i + 1 \notin DOMAIN s => x.i = Len(s) BY <1>2
  <2> QED BY <1>0, <2>2, <2>3, <2>4, <2>5
<1>5. ASSUME NEW y, Past(y), work'[w] = y, asked \subseteq asked', Now(w).do = "ask" => n \in asked'
      PROVE  /\ AskedBefore(w)' /\ y.st = "running" => n \in asked'
             /\ prog[x.m] \in AskingT /\ (y.m > x.m \/ y.st = "done") => n \in asked'
  <2>1. ASSUME AskedBefore(w)' PROVE n \in asked'
    <3>1. PICK j \in 1..(y.i - 1) : prog[y.m].steps[j].do = "ask"
      BY <1>1, <1>5, <2>1 DEF AskedBefore, Steps
    <3>2. y.m = x.m /\ y.i = x.i + 1 BY <1>2, <1>5, <3>1
    <3>3. s[j].do = "ask" /\ j \in 1..x.i BY <1>2, <3>1, <3>2
    <3>4. CASE j = x.i BY <1>2, <1>5, <3>3, <3>4
    <3>5. CASE j # x.i
      <4>1. j \in 1..(x.i - 1) BY <1>2, <3>3, <3>5
      <4>2. AskedBefore(w) BY <1>2, <3>3, <4>1 DEF AskedBefore
      <4> QED BY <1>3, <1>5, <4>2
    <3> QED BY <3>4, <3>5
  <2>2. ASSUME prog[x.m] \in AskingT, y.m > x.m \/ y.st = "done" PROVE n \in asked'
    <3>1. x.i = Len(s) BY <1>2, <1>5, <2>2
    <3>2. PICK j \in 1..Len(s) : s[j].do = "ask" BY <1>2, <2>2 DEF AskingT, HasAsk
    <3>3. CASE j = x.i BY <1>2, <1>5, <3>2, <3>3
    <3>4. CASE j # x.i
      <4>1. j \in 1..(x.i - 1) BY <1>2, <3>1, <3>2, <3>4
      <4>2. AskedBefore(w) BY <1>2, <3>2, <4>1 DEF AskedBefore
      <4> QED BY <1>3, <1>5, <4>2
    <3> QED BY <3>3, <3>4
  <2> QED BY <2>1, <2>2
<1>6. CASE Fine(w)
  <2>1. /\ asked \subseteq asked'
        /\ Now(w).do = "ask" => Request(w)
        /\ ~Append1(w) => affected' = affected
    BY <1>0, <1>6, FineIs
  <2>2. PICK y : GoesOn(w, y) BY <1>0, <1>6, FineIs
  <2>3. Request(w) => n \in asked' BY DEF Request
  <2>4. Past(y) /\ work'[w] = y BY <1>4, <2>2
  <2>5. affected' # affected => affected' = affected \cup {n} /\ n \in asked'
    <3> SUFFICES ASSUME affected' # affected PROVE affected' = affected \cup {n} /\ n \in asked'
      OBVIOUS
    <3>1. Now(w).do = "record" /\ affected' = affected \cup {n}
      BY <2>1 DEF Append1, Doing
    <3>2. PICK j \in 1..(x.i - 1) : s[j].do = "ask" BY <1>2, <3>1 DEF PowerT, AskedFirst
    <3>3. AskedBefore(w) BY <1>2, <3>2 DEF AskedBefore
    <3> QED BY <1>3, <2>1, <3>1, <3>3
  <2> HIDE DEF x, n, s, Past
  <2>6. /\ AskedBefore(w)' /\ y.st = "running" => n \in asked'
        /\ prog[x.m] \in AskingT /\ (y.m > x.m \/ y.st = "done") => n \in asked'
    BY <1>5, <2>1, <2>3, <2>4
  <2> QED BY <2>1, <2>4, <2>5, <2>6 DEF x, n
<1>7. CASE Wrong(w)
  <2>1. UNCHANGED <<asked, affected>> BY <1>0, <1>7, WrongIs
  <2>2. PICK y, how :
          /\ how \in Now(w).bad
          /\ Ends(w, y, "failed") \/ Ends(w, y, "lost") \/ Leaps(w, y)
          /\ how \in {"on", "timeout"} => GoesOn(w, y)
          /\ how = "raise" /\ prog[x.m].onError = "raise" => Ends(w, y, "failed")
          /\ how = "exit" => Ends(w, y, "lost")
    BY <1>0, <1>7, WrongIs
  <2>3. work'[w] = y BY <1>0, <2>2 DEF Ends, Leaps
  <2>4. CASE Ends(w, y, "failed") \/ Ends(w, y, "lost")
    <3>1. work'[w].st \in {"failed", "lost"} BY <2>3, <2>4 DEF Ends
    <3> QED BY <2>1, <3>1
  <2>5. CASE HasAsk(s) /\ Leaps(w, y)
    <3>1. prog[x.m].onError = "raise" /\ Tells(s) BY <1>2, <2>5 DEF PowerT, Reports1
    <3>2. how \in {"raise", "exit", "timeout", "on"} /\ (Now(w).do = "ask" => how \in {"raise", "exit"})
      BY <1>2, <2>2, <3>1 DEF Tells
    <3>3. CASE how \in {"timeout", "on"}
      <4>1. Past(y) BY <1>4, <2>2, <3>3
      <4>2. Now(w).do # "ask" BY <3>2, <3>3
      <4> HIDE DEF x, n, s, Past
      <4>3. /\ AskedBefore(w)' /\ y.st = "running" => n \in asked'
            /\ prog[x.m] \in AskingT /\ (y.m > x.m \/ y.st = "done") => n \in asked'
        BY <1>5, <2>1, <2>3, <4>1, <4>2
      <4> QED BY <2>1, <2>3, <4>3 DEF x, n
    <3>4. CASE how \notin {"timeout", "on"} BY <2>2, <2>4, <3>1, <3>2, <3>4
    <3> QED BY <3>3, <3>4
  <2>6. CASE ~HasAsk(s) /\ Leaps(w, y)
    <3>1. prog[x.m] \notin AskingT BY <1>2, <2>6 DEF AskingT
    <3>2. ~AskedBefore(w)'
      <4> SUFFICES ASSUME AskedBefore(w)' PROVE FALSE OBVIOUS
      <4>1. PICK j \in 1..(y.i - 1) : prog[y.m].steps[j].do = "ask"
        BY <1>1, <2>3 DEF AskedBefore, Steps
      <4>2. y.m = x.m BY <2>6, <4>1 DEF Leaps
      <4>3. y.i \in DOMAIN s /\ y.i \in Nat BY <1>2, <2>6, <4>2 DEF Leaps, InPlace, Worker
      <4>4. j \in DOMAIN s /\ s[j].do = "ask" BY <1>2, <4>1, <4>2, <4>3
      <4> QED BY <2>6, <4>4 DEF HasAsk
    <3> QED BY <2>1, <3>1, <3>2
  <2> QED BY <2>2, <2>4, <2>5, <2>6
<1> QED BY <1>6, <1>7 DEF WorkerStep, Fine

LEMMA RequestsWorker ==
  ASSUME OutTypeOK, Requests, plugin = "nodes", NEW w \in DOMAIN work, WorkerStep(w),
         UNCHANGED <<nodevars, outagevars>>
  PROVE  Requests'
<1>0. PoolOK /\ NodesOK /\ work \in Seq(Worker) /\ main = "work"
  <2>1. PoolOK /\ NodesOK /\ work \in Seq(Worker) BY DEF OutTypeOK, PoolOK
  <2> QED BY <2>1, WorkerShape, NodesWork
<1>1. /\ main = "work" /\ main' \in {"work", "exited"} /\ work[w].st = "running"
      /\ UNCHANGED <<plugin, prog>> /\ DOMAIN work' = DOMAIN work
  BY <1>0, WorkerShape
<1>2. UNCHANGED <<file, entry, act, general>> BY DEF nodevars
<1>3. PICK z \in Worker : work' = [work EXCEPT ![w] = z] /\ z.node = work[w].node
  BY <1>0, WorkerShape
<1>4. \A v \in DOMAIN work : work'[v].node = work[v].node /\ (v # w => work'[v] = work[v])
  BY <1>0, <1>3
<1>5. (Powered' <=> Powered) /\ (PowersOnly' <=> PowersOnly) /\ Act' = Act
  BY <1>2 DEF Powered, PowersOnly, E, Act
<1>6. WorkersAsked /\ AllAsked BY DEF Requests
<1>7. main' = "work" /\ Powered =>
        /\ asked \subseteq asked'
        /\ AskedBefore(w)' /\ work'[w].st = "running" => work[w].node \in asked'
        /\ affected' # affected => affected' = affected \cup {work[w].node} /\ work[w].node \in asked'
        /\ prog[work[w].m] \in AskingT /\ work'[w].st \in {"running", "done"}
           /\ (work'[w].m > work[w].m \/ work'[w].st = "done")
             => work[w].node \in asked'
  BY <1>1, <1>6, AskedWorker
<1>8. WorkersAsked'
  <2> SUFFICES ASSUME main' = "work", Powered
               PROVE  /\ prog' \in Seq(PowerT)
                      /\ \A v \in DOMAIN work' :
                           work'[v].st = "running" /\ AskedBefore(v)' => work'[v].node \in asked'
    BY <1>5 DEF WorkersAsked, PowerT, MethodT, Reports1, Steps1, StepT
  <2>1. prog' \in Seq(PowerT) BY <1>1, <1>6 DEF WorkersAsked
  <2>2. ASSUME NEW v \in DOMAIN work, v # w, work'[v].st = "running", AskedBefore(v)'
        PROVE  work'[v].node \in asked'
    <3>1. AskedBefore(v) BY <1>1, <1>4, <2>2 DEF AskedBefore, Steps
    <3>2. work[v].node \in asked BY <1>1, <1>4, <1>6, <2>2, <3>1 DEF WorkersAsked
    <3> QED BY <1>4, <1>7, <3>2
  <2> QED BY <1>1, <1>4, <1>7, <2>1, <2>2
<1>9. AllAsked'
  <2> SUFFICES ASSUME main' \in {"work", "extend"}, Powered, ~general,
                      Act # "node_termination_scenario"
               PROVE  /\ main' = "work" => prog' # <<>> /\ prog'[1] \in AskingT
                      /\ \A v \in DOMAIN work' :
                           work'[v].st = "done" \/ (work'[v].st = "running" /\ work'[v].m > 1)
                             => work'[v].node \in asked'
    BY <1>2, <1>5 DEF AllAsked
  <2>1. main' = "work" /\ prog # <<>> /\ prog[1] \in AskingT
    BY <1>1, <1>6 DEF AllAsked
  <2>2. ASSUME NEW v \in DOMAIN work, v # w,
               work'[v].st = "done" \/ (work'[v].st = "running" /\ work'[v].m > 1)
        PROVE  work'[v].node \in asked'
    <3>1. work[v].node \in asked BY <1>1, <1>4, <1>6, <2>2 DEF AllAsked
    <3> QED BY <1>4, <1>7, <2>1, <3>1
  <2>3. ASSUME work'[w].st = "done" \/ (work'[w].st = "running" /\ work'[w].m > 1)
        PROVE  work'[w].node \in asked'
    <3>0. work[w].m \in DOMAIN prog /\ work[w].m \in Nat /\ DOMAIN prog = 1..Len(prog)
      BY <1>0, <1>1, Here DEF PoolOK
    <3>1. CASE work[w].m > 1
      <4>1. work[w].node \in asked BY <1>1, <1>6, <3>1 DEF AllAsked
      <4> QED BY <1>4, <1>7, <2>1, <4>1
    <3>2. CASE work[w].m = 1 BY <1>4, <1>7, <2>1, <2>3, <3>2
    <3> QED BY <3>0, <3>1, <3>2
  <2> QED BY <1>1, <2>1, <2>2, <2>3
<1>10. main' \in {"pick", "work", "extend"} /\ PowersOnly => affected' \subseteq asked'
  <2> SUFFICES ASSUME main' \in {"pick", "work", "extend"}, PowersOnly
               PROVE  affected' \subseteq asked'
    OBVIOUS
  <2>1. act \in DOMAIN E.actions BY <1>0, <1>1 DEF NodesOK
  <2>2. Powered BY <2>1 DEF PowersOnly, Powered, Act
  <2>3. affected \subseteq asked BY <1>1 DEF Requests
  <2> QED BY <1>1, <1>7, <2>2, <2>3
<1>11. general' => \E e \in 1..(IF main' = "entry" THEN entry' - 1 ELSE entry') :
                     file'[e].cloud = "generic"
  BY <1>1, <1>2 DEF Requests
<1> QED BY <1>5, <1>8, <1>9, <1>10, <1>11 DEF Requests

LEMMA RequestsStep == OutTypeOK /\ Requests /\ [Next]_vars => Requests'
<1> SUFFICES ASSUME OutTypeOK, Requests, [Next]_vars PROVE Requests' OBVIOUS
<1>0. PoolOK /\ NodesOK /\ entry \in Nat BY DEF OutTypeOK, NodesOK
<1>1. ASSUME plugin = "nodes", NodesStep PROVE Requests'
  <2>1. CASE NextEntry
    <3>1. /\ main = "entry" /\ main' \in {"pick", "returned"} /\ UNCHANGED <<plugin, file, entry>>
          /\ main' = "pick" => affected' = {} /\ general' = (general \/ E.cloud = "generic")
          /\ main' = "returned" => general' = general
      BY <2>1 DEF NextEntry, NodesAt, At, Return
    <3>2. general' => \E e \in 1..entry : file[e].cloud = "generic"
      <4>1. general => \E e \in 1..entry : file[e].cloud = "generic"
        <5>1. 1..(entry - 1) \subseteq 1..entry BY <1>0
        <5> QED BY <1>1, <3>1, <5>1 DEF Requests
      <4>2. E.cloud = "generic" => \E e \in 1..entry : file[e].cloud = "generic"
        <5>1. entry \in 1..entry BY <1>0 DEF NodesOK
        <5> QED BY <5>1 DEF E
      <4> QED BY <3>1, <4>1, <4>2
    <3> QED BY <3>1, <3>2 DEF Requests, WorkersAsked, AllAsked
  <2>2. CASE Pick
    <3>1. /\ main = "pick" /\ UNCHANGED <<plugin, affected, asked, file, act, general>>
          /\ \/ /\ main' = "work" /\ entry' = entry /\ prog' = ActProgram
                /\ \A w \in DOMAIN work' :
                     /\ work'[w].m = 1 /\ work'[w].i = 1
                     /\ work'[w].st = IF ActProgram = <<>> THEN "done" ELSE "running"
             \/ main' = "extend" /\ entry' = entry /\ DOMAIN work' = {}
             \/ main' = "entry" /\ entry' = entry + 1
             \/ main' = "returned" /\ entry' = entry
      BY <2>2, PickIs
    <3>2. general' => \E e \in 1..(IF main' = "entry" THEN entry' - 1 ELSE entry') :
                        file'[e].cloud = "generic"
      <4>1. main' = "entry" => entry' - 1 = entry BY <1>0, <3>1
      <4> QED BY <1>1, <3>1, <4>1 DEF Requests
    <3>3. main' \in {"pick", "work", "extend"} /\ PowersOnly' => affected' \subseteq asked'
      BY <1>1, <3>1 DEF Requests, PowersOnly, E
    <3>4. CASE main' = "work"
      <4>1. (Powered' <=> Powered) /\ Act' = Act BY <3>1, <3>4 DEF Powered, E, Act
      <4>2. Powered => ActProgram \in Seq(PowerT)
        <5>1. Powered => Program(E.cloud, Act) \in Seq(PowerT) BY ProgramPower DEF Powered
        <5>2. <<>> \in Seq(PowerT) OBVIOUS
        <5> QED BY <5>1, <5>2 DEF ActProgram
      <4>3. Powered /\ ~general /\ Act # "node_termination_scenario" =>
              ActProgram # <<>> /\ ActProgram[1] \in AskingT
        BY ProgramPower DEF Powered, ActProgram, Skipped
      <4>4. \A w \in DOMAIN work' : ~AskedBefore(w)' BY <3>1, <3>4 DEF AskedBefore
      <4>5. WorkersAsked'
        <5>1. Powered => prog' \in Seq(PowerT) BY <3>1, <3>4, <4>2
        <5> QED BY <4>1, <4>4, <5>1 DEF WorkersAsked
      <4>6. AllAsked'
        <5>1. Powered /\ ~general /\ Act # "node_termination_scenario" =>
                /\ prog' # <<>> /\ prog'[1] \in AskingT
                /\ \A w \in DOMAIN work' : work'[w].st = "running" /\ work'[w].m = 1
          BY <3>1, <3>4, <4>3
        <5> QED BY <3>1, <3>4, <4>1, <5>1 DEF AllAsked
      <4> QED BY <3>2, <3>3, <4>5, <4>6 DEF Requests
    <3>5. CASE main' # "work"
      BY <3>1, <3>2, <3>3, <3>5 DEF Requests, WorkersAsked, AllAsked
    <3> QED BY <3>4, <3>5
  <2>3. CASE Join
    <3>1. /\ main = "work" /\ main' \in {"extend", "returned"}
          /\ UNCHANGED <<plugin, work, affected, asked, file, entry, act, general>>
      BY <2>3 DEF Join, NodesAt, At, Return, records, nodevars
    <3>2. (Powered' <=> Powered) /\ (PowersOnly' <=> PowersOnly) /\ Act' = Act
      BY <3>1 DEF Powered, PowersOnly, E, Act
    <3> QED BY <1>1, <3>1, <3>2 DEF Requests, WorkersAsked, AllAsked
  <2>4. CASE Extend
    <3>1. /\ main = "extend" /\ main' \in {"pick", "exited", "returned"}
          /\ UNCHANGED <<plugin, affected, asked, file, entry, general>>
      BY <2>4 DEF Extend, NodesAt, At, records
    <3>2. PowersOnly' <=> PowersOnly BY <3>1 DEF PowersOnly, E
    <3> QED BY <1>1, <3>1, <3>2 DEF Requests, WorkersAsked, AllAsked
  <2> QED BY <1>1, <2>1, <2>2, <2>3, <2>4 DEF NodesStep
<1>2. ASSUME plugin # "nodes", plugin' = plugin PROVE Requests' BY <1>2 DEF Requests
<1>3. ASSUME UNCHANGED <<plugin, main, prog, work, affected, asked, file, entry, act, general>>
      PROVE  Requests'
  <2>1. /\ Powered' <=> Powered
        /\ PowersOnly' <=> PowersOnly
        /\ Act' = Act
    BY <1>3 DEF Powered, PowersOnly, E, Act
  <2>2. WorkersAsked' <=> WorkersAsked
    <3>1. \A w \in DOMAIN work : AskedBefore(w)' <=> AskedBefore(w)
      BY <1>3 DEF AskedBefore, Steps
    <3> QED BY <1>3, <2>1, <3>1 DEF WorkersAsked
  <2>3. AllAsked' <=> AllAsked BY <1>3, <2>1 DEF AllAsked
  <2> QED BY <1>3, <2>1, <2>2, <2>3 DEF Requests
<1>4. \A n \in Place :
        Turns(n) /\ UNCHANGED <<nodevars, outagevars>> =>
          UNCHANGED <<plugin, main, prog, work, affected, asked, file, entry, act, general>>
  BY TurnsIs DEF threadvars, records, nodevars
<1>5. UNCHANGED vars =>
        UNCHANGED <<plugin, main, prog, work, affected, asked, file, entry, act, general>>
  BY DEF vars, poolvars, threadvars, records, nodevars
<1>6. OutageStep \/ Kill \/ Signal => plugin' = plugin /\ plugin # "nodes"
  BY DEF OutageStep, ShutStart, Register, SendStop, SendStart, SendAll, Sent, Waited,
         WaitOne, RollbackNode, RollbackAt, ZoneStart, ZoneNext, RollbackStart, RollbackEnd, AclStart, AclSleep,
         AclSleepAgain, AclEnd, AclBlock, AclRestore, AclDelete, Kill, Signal, Return, PoolSame, Pc, At
<1>7. \A w \in DOMAIN work : WorkerStep(w) => plugin' = plugin BY <1>0, WorkerShape
<1> QED BY <1>1, <1>2, <1>3, <1>4, <1>5, <1>6, <1>7, RequestsWorker, OneStep

LEMMA RequestsInit == Init => Requests
BY DEF Init, PoolInit, NodesInit, Requests, WorkersAsked, AllAsked

(* On a cloud whose client reports refusals, a node recorded by an entry   *)
(* of power actions has had a request accepted: the append follows the     *)
(* request in every method, and the exception skips it.                    *)
THEOREM RecordedWasAskedAlways == Spec => []RecordedWasAsked
<1>1. Requests => RecordedWasAsked BY DEF Requests, RecordedWasAsked, PowersOnly
<1> QED BY <1>1, OutTypeInit, OutTypeStep, RequestsInit, RequestsStep, PTL DEF Spec

(* Every node that get_node picked for a start, a stop or a reboot has had *)
(* a request accepted when all workers are done, as long as no entry so    *)
(* far has set node_general.                                               *)
THEOREM ActsOnAllAlways == Spec => []ActsOnAll
<1>1. Requests => ActsOnAll
  <2> SUFFICES ASSUME Requests, plugin = "nodes", main = "extend", AllDone, E.cloud \in Reporting,
                      Act \in PowerActions \ {"node_termination_scenario"},
                      \A e \in 1..entry : file[e].cloud # "generic", NEW w \in DOMAIN work
               PROVE  work[w].node \in asked
    BY DEF ActsOnAll
  <2>1. Powered /\ ~general BY DEF Powered, Requests
  <2> QED BY <2>1 DEF Requests, AllAsked, AllDone
<1> QED BY <1>1, OutTypeInit, OutTypeStep, RequestsInit, RequestsStep, PTL DEF Spec

-----------------------------------------------------------------------------
(* The reversible actions: their programs.                                 *)

StartStep == {s \in StepT : s.do = "ask" => s.to = "running"}

LEMMA ToStarts ==
  ASSUME NEW c \in ClientT
  PROVE  Loop(To(c, "running", "True"), "raise").steps \in Seq(StartStep)
<1> DEFINE look == Lookup(c.lookup)
           ask == Ask("running", c.ask)
           wait == Await("running", c.await)
           kube1 == Kube("True")
           b == To(c, "running", "True")
<1>1. /\ look \in FairStep /\ look.do = "lookup" /\ ask \in FairStep /\ ask.to = "running"
      /\ wait \in FairStep
  BY ClientSteps, Words
<1>2. wait.do = "await" BY DEF Await, Step
<1>3. kube1 \in FairStep /\ kube1.do = "kube" /\ Record \in FairStep /\ Record.do = "record"
  BY PlainSteps, Words
<1>4. b = <<look, ask, wait, kube1, Record>> BY DEF To
<1> HIDE DEF look, ask, wait, kube1, b
<1>5. /\ look \in StartStep /\ ask \in StartStep /\ wait \in StartStep /\ kube1 \in StartStep
      /\ Record \in StartStep
  BY <1>1, <1>2, <1>3 DEF StartStep, FairStep
<1>6. b \in Seq(StartStep) /\ b # <<>> BY <1>4, <1>5
<1>7. Repeat(b) \in Seq(StartStep) BY <1>6, RepeatIs
<1>8. Loop(b, "raise").steps = Repeat(b) BY DEF Loop, Method
<1> QED BY <1>7, <1>8 DEF b

(* The start of a client that reports asks for nothing else.               *)
LEMMA StartsOnly == \A c \in Reporting : Backend[c].start.steps \in Seq(StartStep)
<1>1. Docker.start.steps \in Seq(StartStep)
  <2> DEFINE look == Lookup(R)
             ask == Ask("running", R)
             kube1 == Kube("True")
             b == <<look, ask, kube1, Record>>
  <2>1. /\ look \in FairStep /\ look.do = "lookup" /\ ask \in FairStep /\ ask.to = "running"
        /\ kube1 \in FairStep /\ kube1.do = "kube" /\ Record \in FairStep /\ Record.do = "record"
    BY PlainSteps, Words
  <2>2. Docker.start = Loop(b, "raise") BY DEF Docker
  <2> HIDE DEF look, ask, kube1
  <2>3. look \in StartStep /\ ask \in StartStep /\ kube1 \in StartStep /\ Record \in StartStep
    BY <2>1 DEF StartStep, FairStep
  <2>4. b \in Seq(StartStep) /\ b # <<>> BY <2>3
  <2> HIDE DEF b
  <2>5. Repeat(b) \in Seq(StartStep) BY <2>4, RepeatIs
  <2>6. Loop(b, "raise").steps = Repeat(b) BY DEF Loop, Method
  <2> QED BY <2>2, <2>5, <2>6
<1>2. Aws.start = Loop(To(AwsClient, "running", "True"), "raise") BY DEF Aws
<1>3. Az.start = Loop(To(AzClient, "running", "True"), "raise") BY DEF Az
<1>4. Gcp.start = Loop(To(GcpClient, "running", "True"), "raise") BY DEF Gcp
<1>5. Bm.start = Loop(To(BmClient, "running", "True"), "raise") BY DEF Bm
<1>6. Openstack.start = Loop(To(OpenstackClient, "running", "True"), "raise") BY DEF Openstack
<1>7. /\ Backend["aws"] = Aws /\ Backend["az"] = Az /\ Backend["gcp"] = Gcp /\ Backend["bm"] = Bm
      /\ Backend["docker"] = Docker /\ Backend["openstack"] = Openstack
  BY DEF Backend
<1> QED BY <1>1, <1>2, <1>3, <1>4, <1>5, <1>6, <1>7, ToStarts, Clients DEF Reporting

(* A stop, a sleep, a start and a merge of the records.                    *)
StopStartShape(p) ==
  /\ Len(p) = 4 /\ p[1] \in AskingT /\ p[3] \in AskingT /\ p[3].steps \in Seq(StartStep)
  /\ \A m \in {2, 4} : \A j \in DOMAIN p[m].steps : p[m].steps[j].bad = {} /\ p[m].steps[j].do # "ask"

LEMMA StopStartIs ==
  ASSUME NEW c \in Reporting
  PROVE  StopStartShape(Program(c, "node_stop_start_scenario"))
<1> DEFINE x == Backend[c].stop
           y == Method(<<Sleep>>, "raise")
           z == Backend[c].start
           u == Merge
           p == Program(c, "node_stop_start_scenario")
<1>1. x \in AskingT /\ z \in AskingT BY ReportingGood DEF Reports
<1>2. z.steps \in Seq(StartStep) BY StartsOnly
<1>3. \A j \in DOMAIN y.steps : y.steps[j].bad = {} /\ y.steps[j].do # "ask"
  <2> DEFINE s == Sleep
  <2>1. s.bad = {} /\ s.do = "sleep" BY DEF Sleep, Step
  <2>2. y.steps = <<s>> BY DEF Method
  <2> HIDE DEF s, y
  <2> QED BY <2>1, <2>2
<1>4. \A j \in DOMAIN u.steps : u.steps[j].bad = {} /\ u.steps[j].do # "ask"
  <2> DEFINE s == Step("merge", "none", {})
  <2>1. s.bad = {} /\ s.do = "merge" BY DEF Step
  <2>2. u.steps = <<s>> BY DEF Merge, Method
  <2> HIDE DEF s, u
  <2> QED BY <2>1, <2>2
<1>5. p = <<x, y, z, u>> BY DEF Program
<1> HIDE DEF x, y, z, u, p
<1>6. Len(p) = 4 /\ p[1] = x /\ p[2] = y /\ p[3] = z /\ p[4] = u BY <1>5
<1>7. StopStartShape(p) BY <1>1, <1>2, <1>3, <1>4, <1>6 DEF StopStartShape
<1> QED BY <1>7 DEF p

(* The disks of bare metal are looked up, detached, and attached after a   *)
(* sleep. *)
DisksShape(p) ==
  /\ Len(p) = 4
  /\ \A m \in 1..4 :
       /\ p[m].onError = "raise"
       /\ \A j \in DOMAIN p[m].steps :
            /\ p[m].steps[j].do = "detach" => m = 2 /\ p[m].steps[j].to = "now"
            /\ m >= 2 => p[m].steps[j].bad \subseteq {"raise", "on"}
            /\ m = 4 => p[m].steps[j].do = "attach" /\ p[m].steps[j].bad \subseteq {"raise"}
DisksStep(m) ==
  {s \in StepT : /\ s.do = "detach" => m = 2 /\ s.to = "now"
                 /\ m >= 2 => s.bad \subseteq {"raise", "on"}
                 /\ m = 4 => s.do = "attach" /\ s.bad \subseteq {"raise"}}

LEMMA DisksIs == DisksShape(BmDisks)
<1> DEFINE found == Step("disks", "none", R \cup {"none"})
           out == Step("detach", "now", R)
           back == Step("attach", "none", R)
           Good(x, m) == x.onError = "raise" /\ x.steps \in Seq(DisksStep(m))
<1>1. found \in StepT /\ out \in StepT /\ back \in StepT /\ Sleep \in StepT
  BY QuietSteps DEF QuietStep
<1>2. /\ found.do = "disks" /\ out.to = "now"
      /\ out.bad = {"raise"} /\ back.do = "attach" /\ back.bad = {"raise"}
      /\ Sleep.do = "sleep" /\ Sleep.bad = {}
  BY DEF Step, R, Sleep
<1> HIDE DEF found, out, back
<1>3. found \in DisksStep(1) BY <1>1, <1>2 DEF DisksStep
<1>4. out \in DisksStep(2) BY <1>1, <1>2 DEF DisksStep
<1>5. Sleep \in DisksStep(3) /\ back \in DisksStep(4) BY <1>1, <1>2 DEF DisksStep
<1> HIDE DEF Good
<1>6. ASSUME NEW m, NEW b \in Seq(DisksStep(m)), b # <<>>
      PROVE  Good(Loop(b, "raise"), m) /\ Good(Method(b, "raise"), m)
  <2>1. Repeat(b) \in Seq(DisksStep(m)) BY <1>6, RepeatIs
  <2> QED BY <1>6, <2>1 DEF Good, Loop, Method
<1>7. ASSUME NEW p, NEW x, NEW y, NEW z, NEW u, p = <<x, y, z, u>>,
             Good(x, 1), Good(y, 2), Good(z, 3), Good(u, 4)
      PROVE  DisksShape(p)
  <2>1. Len(p) = 4 /\ p[1] = x /\ p[2] = y /\ p[3] = z /\ p[4] = u BY <1>7
  <2>2. \A m \in 1..4 : Good(p[m], m) BY <1>7, <2>1
  <2>3. \A m \in 1..4 : \A j \in DOMAIN p[m].steps : p[m].steps[j] \in DisksStep(m)
    BY <2>2 DEF Good
  <2> QED BY <2>1, <2>2, <2>3 DEF DisksShape, DisksStep, Good
<1> DEFINE x == Method(<<found>>, "raise")
           y == Loop(<<out>>, "raise")
           z == Method(<<Sleep>>, "raise")
           u == Loop(<<back>>, "raise")
<1>8. Good(x, 1)
  <2>1. <<found>> \in Seq(DisksStep(1)) /\ <<found>> # <<>> BY <1>3
  <2> QED BY <2>1, <1>6
<1>9. Good(y, 2)
  <2>1. <<out>> \in Seq(DisksStep(2)) /\ <<out>> # <<>> BY <1>4
  <2> QED BY <2>1, <1>6
<1>10. Good(z, 3) /\ Good(u, 4)
  <2>1. <<Sleep>> \in Seq(DisksStep(3)) /\ <<back>> \in Seq(DisksStep(4))
        /\ <<Sleep>> # <<>> /\ <<back>> # <<>>
    BY <1>5
  <2> QED BY <2>1, <1>6
<1>11. BmDisks = <<x, y, z, u>> BY DEF BmDisks, found, out, back
<1> HIDE DEF x, y, z, u
<1> QED BY <1>7, <1>8, <1>9, <1>10, <1>11

(* Every step that rewires the subnet is followed by the removal of the    *)
(* group.                                                                  *)
Rewiring == {"group", "block", "unblock"}
BlockShape(p) ==
  /\ Len(p) = 1 /\ p[1].onError = "raise"
  /\ \E k \in DOMAIN p[1].steps : p[1].steps[k].do = "drop"
  /\ \A j \in DOMAIN p[1].steps :
       /\ p[1].steps[j].bad \subseteq {"raise"}
       /\ p[1].steps[j].do \in Rewiring =>
            \E k \in DOMAIN p[1].steps : k > j /\ p[1].steps[k].do = "drop"

LEMMA BlockIs == BlockShape(Program("az", "node_block_scenario"))
<1> DEFINE b == AzBlock
           N == Runs * Len(b)
           idx(k) == ((k - 1) % Len(b)) + 1
           r == Repeat(b)
           x == Loop(b, "raise")
<1>1. /\ Len(b) = 8 /\ b[7].do = "drop"
      /\ \A p \in 1..8 : b[p].bad \subseteq {"raise"} /\ (b[p].do \in Rewiring => p < 7)
  <2>1. /\ b[1] = Lookup(R) /\ b[2] = Step("nic", "none", R) /\ b[3] = Step("group", "none", R)
        /\ b[4] = Step("block", "none", R) /\ b[5] = Sleep /\ b[6] = Step("unblock", "none", R)
        /\ b[7] = Step("drop", "none", R) /\ b[8] = Record /\ Len(b) = 8
    BY DEF AzBlock
  <2>2. b[7].do = "drop" /\ b[8].do = "record" /\ b[8].bad = {} /\ b[5].bad = {}
        /\ \A p \in {1, 2, 3, 4, 6, 7} : b[p].bad = {"raise"}
    BY <2>1 DEF Lookup, Step, Sleep, Record, R
  <2>3. \A p \in 1..8 : b[p].bad \subseteq {"raise"}
    <3> TAKE p \in 1..8
    <3>1. p \in {1, 2, 3, 4, 6, 7} \/ p = 5 \/ p = 8 OBVIOUS
    <3> QED BY <2>2, <3>1
  <2>4. \A p \in 1..8 : b[p].do \in Rewiring => p < 7
    <3> TAKE p \in 1..8
    <3>1. p < 7 \/ p = 7 \/ p = 8 OBVIOUS
    <3> QED BY <2>2, <3>1 DEF Rewiring
  <2> QED BY <2>1, <2>2, <2>3, <2>4
<1> HIDE DEF b
<1>2. N = 8 * Runs /\ Runs \in Nat /\ Runs >= 1 BY <1>1, RunsAssumption DEF RunsAssumption
<1>3. DOMAIN r = 1..N /\ \A k \in 1..N : r[k] = b[idx(k)] BY DEF Repeat
<1>4. ASSUME NEW k \in 1..N
      PROVE  idx(k) \in 1..8 /\ k + (7 - idx(k)) <= N
             /\ (idx(k) <= 7 => k + (7 - idx(k)) \in 1..N /\ idx(k + (7 - idx(k))) = 7)
  <2>1. idx(k) = ((k - 1) % 8) + 1 BY <1>1
  <2> DEFINE q == (k - 1) \div 8
             p == ((k - 1) % 8) + 1
  <2>2. k \in Nat /\ k - 1 \in Nat BY <1>2
  <2>3. p \in 1..8 /\ q \in Nat /\ k = 8 * q + p BY <2>2
  <2> HIDE DEF p, q
  <2>4. q < Runs BY <1>2, <2>3
  <2>5. k + (7 - p) = 8 * q + 7 BY <2>3
  <2>6. 8 * q + 7 <= N BY <1>2, <2>3, <2>4
  <2>7. (8 * q + 7 - 1) % 8 = 6 BY <2>3
  <2>8. idx(8 * q + 7) = 7
    <3> DEFINE t == 8 * q + 7
    <3>1. (t - 1) % 8 = 6 BY <2>3
    <3>2. idx(t) = ((t - 1) % 8) + 1 BY <1>1
    <3> HIDE DEF t, idx
    <3>3. idx(t) = 7 BY <3>1, <3>2
    <3> QED BY <3>3 DEF t
  <2>9. idx(k) = p BY <2>1 DEF p
  <2>10. 8 * q + 7 \in 1..N BY <1>2, <2>3, <2>6
  <2> HIDE DEF idx, N
  <2> QED BY <2>3, <2>5, <2>6, <2>8, <2>9, <2>10
<1> HIDE DEF idx, N, r
<1>5. \A j \in 1..N : r[j].bad \subseteq {"raise"} BY <1>1, <1>3, <1>4
<1>6. ASSUME NEW j \in 1..N, r[j].do \in Rewiring
      PROVE  \E k \in 1..N : k > j /\ r[k].do = "drop"
  <2> DEFINE k == j + (7 - idx(j))
  <2>1. idx(j) < 7 /\ idx(j) \in 1..8 BY <1>1, <1>3, <1>4, <1>6
  <2>2. k \in 1..N /\ idx(k) = 7 BY <1>4, <2>1
  <2>3. r[k].do = "drop" BY <1>1, <1>3, <2>2
  <2>4. k > j BY <1>2, <2>1
  <2> HIDE DEF k
  <2> QED BY <2>2, <2>3, <2>4
<1>7. \E k \in 1..N : r[k].do = "drop"
  <2>1. 1 \in 1..N BY <1>2
  <2>2. \E k \in 1..N : idx(k) = 7
    <3>1. idx(1) = 1 BY <1>1 DEF idx
    <3>2. 1 + (7 - idx(1)) \in 1..N /\ idx(1 + (7 - idx(1))) = 7 BY <1>4, <2>1, <3>1
    <3> QED BY <3>2
  <2> QED BY <1>1, <1>3, <2>2
<1>8. Program("az", "node_block_scenario") = <<x>>
  <2>1. Backend["az"].block = x BY DEF Backend, Az, b
  <2> HIDE DEF x
  <2> QED BY <2>1 DEF Program
<1>9. x.steps = r /\ x.onError = "raise" BY DEF Loop, Method, r
<1> HIDE DEF x
<1>10. Len(<<x>>) = 1 /\ <<x>>[1] = x OBVIOUS
<1> QED BY <1>3, <1>5, <1>6, <1>7, <1>8, <1>9, <1>10 DEF BlockShape

-----------------------------------------------------------------------------
(* The reversible actions: what a worker does.                             *)

(* A worker whose method tells its failures has failed, or goes on to the  *)
(* next step of it, or to the next method.                                 *)
Steady(w) ==
  /\ Now(w).bad \subseteq {"raise", "exit", "on", "timeout"}
  /\ "raise" \in Now(w).bad => prog[work[w].m].onError = "raise"
Onward(w) ==
  /\ work'[w].m \in Nat /\ work'[w].i \in Nat
  /\ \/ /\ work'[w].m = work[w].m /\ work'[w].i = work[w].i + 1
        /\ work'[w].st = "running" /\ work'[w].i \in DOMAIN Steps(w)
     \/ /\ work'[w].m = work[w].m + 1 /\ work'[w].i = 1 /\ work[w].i = Len(Steps(w))
        /\ work'[w].st = IF work[w].m = Len(prog) THEN "done" ELSE "running"

LEMMA MovesOn ==
  ASSUME PoolOK, NEW w \in DOMAIN work, WorkerStep(w), Steady(w)
  PROVE  /\ \A v \in DOMAIN work : v # w => work'[v] = work[v]
         /\ DOMAIN work' = DOMAIN work /\ work'[w].node = work[w].node /\ work[w].st = "running"
         /\ UNCHANGED <<plugin, prog>>
         /\ \/ /\ work'[w].st \in {"failed", "lost"} /\ UNCHANGED <<vm, azure>>
               /\ work'[w].m = work[w].m /\ work'[w].i = work[w].i
            \/ Onward(w) /\ Fine(w)
            \/ Onward(w) /\ UNCHANGED <<vm, azure>> /\ Now(w).bad \cap {"on", "timeout"} # {}
<1> DEFINE x == work[w]
<1>1. /\ UNCHANGED <<plugin, prog>> /\ DOMAIN work' = DOMAIN work
      /\ x.st = "running" /\ work \in Seq(Worker)
  BY WorkerShape DEF PoolOK
<1>2. PICK z \in Worker : work' = [work EXCEPT ![w] = z] /\ z.node = work[w].node BY WorkerShape
<1>3. /\ \A v \in DOMAIN work : v # w => work'[v] = work[v]
      /\ work'[w].node = work[w].node
  BY <1>1, <1>2
<1>4. /\ x \in Worker /\ InPlace(x) /\ x.m \in DOMAIN prog /\ x.m \in Nat /\ x.i \in Nat
      /\ Steps(w) = prog[x.m].steps /\ Len(Steps(w)) \in Nat /\ DOMAIN Steps(w) = 1..Len(Steps(w))
      /\ x.i \in DOMAIN Steps(w)
  BY <1>1, Here
<1>5. ASSUME NEW y, GoesOn(w, y) PROVE Onward(w)
  <2>1. x.i + 1 \in Nat /\ x.i + 1 > x.i BY <1>4
  <2> DEFINE p == Past1(x, x.i + 1)
  <2>2. /\ p.st \in {"running", "done"}
        /\ x.i + 1 \in DOMAIN Steps(w) => p.m = x.m /\ p.i = x.i + 1 /\ p.st = "running"
        /\ x.i + 1 \notin DOMAIN Steps(w) =>
             p.m = x.m + 1 /\ p.i = 1 /\ (p.st = "done" <=> x.m = Len(prog))
    BY <1>1, <1>4, <2>1, Past1Is
  <2>3. y.m = p.m /\ y.i = p.i /\ y.st = p.st /\ work' = [work EXCEPT ![w] = y] /\ y \in Worker
    BY <1>5 DEF GoesOn
  <2> HIDE DEF p
  <2>4. work'[w] = y /\ y.m \in Nat /\ y.i \in Nat BY <1>1, <2>3 DEF Worker
  <2>5. x.i + 1 \notin DOMAIN Steps(w) => x.i = Len(Steps(w)) BY <1>4
  <2> HIDE DEF x
  <2> QED BY <2>2, <2>3, <2>4, <2>5 DEF Onward, x
<1>6. CASE Fine(w)
  <2>1. PICK y : GoesOn(w, y) BY <1>6, FineIs
  <2> QED BY <1>1, <1>3, <1>5, <1>6, <2>1
<1>7. CASE Wrong(w)
  <2>1. UNCHANGED <<vm, azure>> BY <1>7, WrongIs
  <2>2. PICK y, how :
          /\ how \in Now(w).bad
          /\ how \in {"on", "timeout"} => GoesOn(w, y)
          /\ how = "raise" /\ prog[work[w].m].onError = "raise" => Ends(w, y, "failed")
          /\ how = "exit" => Ends(w, y, "lost")
    BY <1>7, WrongIs
  <2>3. CASE how \in {"on", "timeout"}
    <3>1. Onward(w) BY <1>5, <2>2, <2>3
    <3> QED BY <1>1, <1>3, <2>1, <2>2, <2>3, <3>1
  <2>4. CASE how \in {"raise", "exit"}
    <3>1. Ends(w, y, "failed") \/ Ends(w, y, "lost") BY <2>2, <2>4 DEF Steady
    <3>2. work'[w] = y BY <1>1, <3>1 DEF Ends
    <3>3. work'[w].st \in {"failed", "lost"} /\ work'[w].m = work[w].m /\ work'[w].i = work[w].i
      BY <3>1, <3>2 DEF Ends
    <3> QED BY <1>1, <1>3, <2>1, <3>3
  <2> QED BY <2>2, <2>3, <2>4 DEF Steady
<1> QED BY <1>6, <1>7 DEF WorkerStep, Fine

(* What the steps that go well do to the machines.                         *)
LEMMA MachineOf ==
  ASSUME PoolOK, NEW w \in DOMAIN work, Fine(w)
  PROVE  /\ \A q \in Place : q # work[w].node => vm'[q] = vm[q]
         /\ LET n == work[w].node
            IN  /\ n \in Place
                /\ Now(w).do = "ask" => vm'[n].pending = Now(w).to
                /\ Now(w).do # "ask" => vm'[n].power = vm[n].power /\ vm'[n].pending = vm[n].pending
                /\ vm[n].disks = "in" /\ Now(w).do # "detach" => vm'[n].disks = "in"
                /\ vm[n].disks # "leaving" /\ Now(w).do = "attach" => vm'[n].disks = "in"
                /\ vm[n].disks # "leaving" /\ (Now(w).do = "detach" => Now(w).to = "now")
                     => vm'[n].disks # "leaving"
<1> DEFINE n == work[w].node
<1>1. work[w].st = "running" BY FineIs
<1>2. n \in Place /\ vm \in [Place -> Machine] /\ vm[n] \in Machine
  <2>1. work[w] \in Worker BY <1>1, Here
  <2> QED BY <2>1 DEF Worker, Place, PoolOK
<1>3. CASE Request(w)
  <2>1. vm' = [vm EXCEPT ![n].pending = Now(w).to] /\ Now(w).do = "ask"
    BY <1>3 DEF Request, Doing
  <2>2. vm'[n] = [vm[n] EXCEPT !.pending = Now(w).to] BY <1>2, <2>1
  <2>3. vm'[n].pending = Now(w).to /\ vm'[n].disks = vm[n].disks BY <1>2, <2>2 DEF Machine
  <2> QED BY <1>2, <2>1, <2>3
<1>4. CASE Command(w)
  <2>1. \/ Now(w).do = "kubelet" /\ vm' = [vm EXCEPT ![n].kubelet = (Now(w).to = "up")]
        \/ /\ Now(w).do \in {"detach", "attach"}
           /\ \E d \in {"in", "leaving", "out"} :
                /\ vm' = [vm EXCEPT ![n].disks = d]
                /\ Now(w).do = "attach" => d = (IF vm[n].disks = "out" THEN "in" ELSE vm[n].disks)
                /\ Now(w).do = "detach" /\ Now(w).to = "now" => d = "out"
    <3>1. \/ Now(w).do = "kubelet" /\ vm' = [vm EXCEPT ![n].kubelet = (Now(w).to = "up")]
          \/ Now(w).do = "detach" /\ Now(w).to = "now" /\ vm' = [vm EXCEPT ![n].disks = "out"]
          \/ /\ Now(w).do = "detach" /\ Now(w).to = "later"
             /\ vm' = [vm EXCEPT ![n].disks = IF @ = "in" THEN "leaving" ELSE @]
          \/ Now(w).do = "attach" /\ vm' = [vm EXCEPT ![n].disks = IF @ = "out" THEN "in" ELSE @]
      BY <1>4 DEF Command, Doing
    <3>2. vm[n].disks \in {"in", "leaving", "out"} BY <1>2 DEF Machine
    <3>3. [vm EXCEPT ![n].disks = IF @ = "in" THEN "leaving" ELSE @]
            = [vm EXCEPT ![n].disks = IF vm[n].disks = "in" THEN "leaving" ELSE vm[n].disks]
          /\ [vm EXCEPT ![n].disks = IF @ = "out" THEN "in" ELSE @]
            = [vm EXCEPT ![n].disks = IF vm[n].disks = "out" THEN "in" ELSE vm[n].disks]
      BY <1>2
    <3> QED BY <3>1, <3>2, <3>3
  <2>2. CASE Now(w).do = "kubelet" /\ vm' = [vm EXCEPT ![n].kubelet = (Now(w).to = "up")]
    <3> DEFINE up == (Now(w).to = "up")
    <3>1. vm' = [vm EXCEPT ![n].kubelet = up] BY <2>2
    <3> HIDE DEF up
    <3>2. vm'[n] = [vm[n] EXCEPT !.kubelet = up] BY <1>2, <3>1
    <3>3. vm'[n].power = vm[n].power /\ vm'[n].pending = vm[n].pending
      BY <1>2, <3>2 DEF Machine
    <3>4. vm'[n].disks = vm[n].disks BY <1>2, <3>2 DEF Machine
    <3> QED BY <1>2, <2>2, <3>1, <3>3, <3>4
  <2>3. ASSUME Now(w).do \in {"detach", "attach"}, NEW d \in {"in", "leaving", "out"},
               vm' = [vm EXCEPT ![n].disks = d],
               Now(w).do = "attach" => d = (IF vm[n].disks = "out" THEN "in" ELSE vm[n].disks),
               Now(w).do = "detach" /\ Now(w).to = "now" => d = "out"
        PROVE  /\ \A q \in Place : q # n => vm'[q] = vm[q]
               /\ vm'[n].power = vm[n].power /\ vm'[n].pending = vm[n].pending
               /\ vm'[n].disks = d
    <3>1. vm'[n] = [vm[n] EXCEPT !.disks = d] BY <1>2, <2>3
    <3>2. vm'[n].power = vm[n].power /\ vm'[n].pending = vm[n].pending /\ vm'[n].disks = d
      BY <1>2, <3>1 DEF Machine
    <3> QED BY <1>2, <2>3, <3>2
  <2>4. vm[n].disks \in {"in", "leaving", "out"} BY <1>2 DEF Machine
  <2>5. CASE \E d \in {"in", "leaving", "out"} :
                /\ Now(w).do \in {"detach", "attach"}
                /\ vm' = [vm EXCEPT ![n].disks = d]
                /\ Now(w).do = "attach" => d = (IF vm[n].disks = "out" THEN "in" ELSE vm[n].disks)
                /\ Now(w).do = "detach" /\ Now(w).to = "now" => d = "out"
    <3>1. PICK d \in {"in", "leaving", "out"} :
                /\ Now(w).do \in {"detach", "attach"}
                /\ vm' = [vm EXCEPT ![n].disks = d]
                /\ Now(w).do = "attach" => d = (IF vm[n].disks = "out" THEN "in" ELSE vm[n].disks)
                /\ Now(w).do = "detach" /\ Now(w).to = "now" => d = "out"
      BY <2>5
    <3>2. /\ \A q \in Place : q # n => vm'[q] = vm[q]
          /\ vm'[n].power = vm[n].power /\ vm'[n].pending = vm[n].pending
          /\ vm'[n].disks = d
      BY <3>1, <2>3
    <3> QED BY <1>2, <2>4, <3>1, <3>2
  <2> QED BY <2>1, <2>2, <2>5
<1>5. CASE ~Request(w) /\ ~Command(w)
  <2>1. vm' = vm /\ Now(w).do # "ask" BY <1>5, FineIs
  <2>2. Now(w).do # "attach"
    BY <1>5 DEF Fine, Quiet, Reached, Append1, Network, Doing
  <2> QED BY <1>2, <2>1, <2>2
<1> QED BY <1>3, <1>4, <1>5

-----------------------------------------------------------------------------
(* The reversible actions: what is repaired.                               *)

StopStarting == E.cloud \in Reporting /\ Act = "node_stop_start_scenario" /\ ~Skipped
Disking == E.cloud = "bm" /\ entry = 1 /\ act = 1 /\ Act = "node_disk_detach_attach_scenario"
Blocking == E.cloud = "az" /\ Act = "node_block_scenario" /\ ~Skipped

(* The worker has asked the machine to run again.                          *)
Settled(w) ==
  \/ work[w].st = "done"
  \/ work[w].st = "running" /\ (work[w].m = 4 \/ (work[w].m = 3 /\ AskedBefore(w)))
StopStarts ==
  main \in {"work", "extend"} /\ StopStarting =>
    \A n \in Place :
      ((\E w \in DOMAIN work : work[w].node = n)
       /\ \A w \in DOMAIN work : work[w].node = n => Settled(w))
      => Final(n) = "running"

(* The worker may have detached disks that it has not attached again.      *)
Holding(w) ==
  work[w].st # "done" /\ work[w].m \in {2, 3, 4} /\ (work[w].m = 4 => work[w].i = 1)
DisksBack ==
  /\ entry = 1 /\ (main = "entry" \/ (main = "pick" /\ act = 1)) => \A n \in Place : vm[n].disks = "in"
  /\ main \in {"work", "extend"} /\ Disking =>
       \A n \in Place :
         /\ vm[n].disks # "leaving"
         /\ vm[n].disks # "in" => \E w \in DOMAIN work : work[w].node = n /\ Holding(w)

(* The worker has rewired the subnet since it last removed the group; it   *)
(* has removed it.                                                         *)
Drop(w, k) == Steps(w)[k].do = "drop"
Dirty(w) ==
  \E j \in 1..(work[w].i - 1) :
    Steps(w)[j].do \in Rewiring /\ \A k \in (j + 1)..(work[w].i - 1) : ~Drop(w, k)
Cleaned(w) ==
  work[w].st = "done" \/ (work[w].st = "running" /\ \E k \in 1..(work[w].i - 1) : Drop(w, k))
Clear(w) == work[w].st = "done" \/ (work[w].st = "running" /\ ~Dirty(w))
Blocks ==
  /\ main \in {"work", "extend"} /\ Blocking
  /\ \E w \in DOMAIN work : Cleaned(w)
  /\ \A w \in DOMAIN work : Clear(w)
  => azure = [subnet |-> "orig", group |-> FALSE]

Repairs ==
  plugin = "nodes" =>
    /\ main = "work" => prog = ActProgram
    /\ StopStarts /\ DisksBack /\ Blocks

(* Another worker, and what it has done, is not touched. *)
LEMMA OthersSame ==
  ASSUME NEW w, NEW v, work'[v] = work[v], prog' = prog
  PROVE  /\ Settled(v)' <=> Settled(v)
         /\ Holding(v)' <=> Holding(v)
         /\ Cleaned(v)' <=> Cleaned(v)
         /\ Clear(v)' <=> Clear(v)
<1>1. Steps(v)' = Steps(v) BY DEF Steps
<1>2. AskedBefore(v)' <=> AskedBefore(v) BY <1>1 DEF AskedBefore
<1>3. Settled(v)' <=> Settled(v) BY <1>2 DEF Settled
<1>4. Holding(v)' <=> Holding(v) BY DEF Holding
<1>5. Cleaned(v)' <=> Cleaned(v) BY <1>1 DEF Cleaned, Drop
<1>6. Clear(v)' <=> Clear(v) BY <1>1 DEF Clear, Dirty, Drop
<1> QED BY <1>3, <1>4, <1>5, <1>6

(* A step that is not a request leaves the last request made of a machine. *)
LEMMA FinalOf ==
  ASSUME NEW n, vm'[n].power = vm[n].power, vm'[n].pending = vm[n].pending
  PROVE  Final(n)' = Final(n)
BY DEF Final

LEMMA StopStartsWorker ==
  ASSUME PoolOK, NEW w \in DOMAIN work, WorkerStep(w), StopStartShape(prog),
         \A n \in Place :
           ((\E v \in DOMAIN work : work[v].node = n)
            /\ \A v \in DOMAIN work : work[v].node = n => Settled(v))
           => Final(n) = "running",
         NEW n \in Place,
         \A v \in DOMAIN work' : work'[v].node = n => Settled(v)',
         \E v \in DOMAIN work' : work'[v].node = n
  PROVE  Final(n)' = "running"
<1> DEFINE x == work[w]
<1>1. /\ x.st = "running" /\ x.m \in DOMAIN prog /\ Steps(w) = prog[x.m].steps /\ x.i \in DOMAIN Steps(w)
      /\ Now(w) = Steps(w)[x.i] /\ DOMAIN Steps(w) = 1..Len(Steps(w)) /\ x.m \in Nat
      /\ Len(Steps(w)) \in Nat /\ x.i \in Nat
  <2>1. x.st = "running" BY WorkerShape
  <2> QED BY <2>1, Here
<1>2. x.m \in {1, 2, 3, 4} BY <1>1 DEF StopStartShape, PoolOK
<1>3. Steady(w) /\ (Now(w).do = "ask" => Now(w).bad \subseteq {"raise", "exit"})
  <2>1. CASE x.m \in {1, 3}
    <3>1. prog[x.m] \in AskingT BY <2>1 DEF StopStartShape
    <3>2. prog[x.m].onError = "raise" /\ Tells(prog[x.m].steps)
      BY <3>1 DEF AskingT, PowerT, Reports1
    <3> QED BY <1>1, <3>2 DEF Steady, Tells
  <2>2. CASE x.m \in {2, 4}
    <3>1. Now(w).bad = {} BY <1>1, <2>2 DEF StopStartShape
    <3> QED BY <3>1 DEF Steady
  <2> QED BY <1>2, <2>1, <2>2
<1>4. /\ \A v \in DOMAIN work : v # w => work'[v] = work[v]
      /\ DOMAIN work' = DOMAIN work /\ work'[w].node = x.node
      /\ prog' = prog
  BY <1>3, MovesOn
<1>5. \/ work'[w].st \in {"failed", "lost"} /\ UNCHANGED vm
      \/ Onward(w) /\ Fine(w)
      \/ Onward(w) /\ UNCHANGED vm /\ Now(w).do # "ask"
  BY <1>3, MovesOn
<1>6. \A v \in DOMAIN work : v # w => (Settled(v)' <=> Settled(v)) BY <1>4, OthersSame
<1>7. CASE x.node # n
  <2>1. vm'[n] = vm[n]
    <3>1. CASE Fine(w) BY <1>7, <3>1, MachineOf
    <3> QED BY <1>5, <3>1
  <2>2. Final(n) = "running" BY <1>4, <1>6, <1>7
  <2> QED BY <2>1, <2>2, FinalOf
<1>8. CASE x.node = n
  <2>1. Settled(w)' BY <1>4, <1>8
  <2>2. Onward(w) /\ (Fine(w) \/ (UNCHANGED vm /\ Now(w).do # "ask"))
    <3>1. work'[w].st \in {"running", "done"} BY <2>1 DEF Settled
    <3> QED BY <1>5, <3>1
  <2>3. CASE Now(w).do = "ask"
    <3>1. x.m = 3
      <4>1. x.m # 2 /\ x.m # 4 BY <1>1, <2>3 DEF StopStartShape
      <4>2. x.m # 1
        <5> SUFFICES ASSUME x.m = 1 PROVE FALSE OBVIOUS
        <5>1. work'[w].m \in {1, 2} /\ work'[w].st = "running" BY <1>1, <2>2 DEF Onward, StopStartShape
        <5> QED BY <2>1, <5>1 DEF Settled
      <4> QED BY <1>2, <4>1, <4>2
    <3>2. Now(w) \in StartStep
      <4>1. prog[3].steps \in Seq(StartStep) BY DEF StopStartShape
      <4> QED BY <1>1, <3>1, <4>1
    <3>3. vm'[n].pending = "running" BY <1>8, <2>2, <2>3, <3>2, MachineOf DEF StartStep
    <3> QED BY <3>3 DEF Final
  <2>4. CASE Now(w).do # "ask"
    <3>1. vm'[n].power = vm[n].power /\ vm'[n].pending = vm[n].pending
      <4>1. CASE Fine(w) BY <1>8, <2>4, <4>1, MachineOf
      <4> QED BY <2>2, <4>1
    <3>2. Settled(w)
      <4>1. work'[w].m \in {3, 4, 5} /\ work'[w].m \in {x.m, x.m + 1}
        <5>1. work'[w].m \in {x.m, x.m + 1} BY <2>2 DEF Onward
        <5>2. work'[w].st = "done" => x.m = 4 BY <1>1, <2>2 DEF Onward, StopStartShape
        <5> QED BY <1>2, <2>1, <5>1, <5>2, <2>2 DEF Settled, Onward
      <4>2. CASE x.m = 4 BY <1>1, <4>2 DEF Settled
      <4>3. CASE x.m = 3
        <5>1. PICK j \in 1..x.i : Steps(w)[j].do = "ask"
          <6>1. CASE work'[w].m = 3
            <7>1. AskedBefore(w)' /\ work'[w].i = x.i + 1
              BY <1>1, <2>1, <2>2, <4>3, <6>1 DEF Settled, Onward, StopStartShape
            <7>2. \E j \in 1..(work'[w].i - 1) : Steps(w)'[j].do = "ask" BY <7>1 DEF AskedBefore
            <7>3. Steps(w)' = Steps(w) BY <1>1, <1>4, <4>3, <6>1 DEF Steps
            <7>4. work'[w].i - 1 = x.i BY <1>1, <7>1
            <7> QED BY <7>2, <7>3, <7>4
          <6>2. CASE work'[w].m # 3
            <7>1. x.i = Len(Steps(w)) BY <2>2, <4>3, <6>2 DEF Onward
            <7>2. HasAsk(Steps(w)) BY <1>1, <4>3 DEF StopStartShape, AskingT
            <7> QED BY <1>1, <7>1, <7>2 DEF HasAsk
          <6> QED BY <6>1, <6>2
        <5>2. j # x.i BY <1>1, <2>4, <5>1
        <5>3. j \in 1..(x.i - 1) BY <1>1, <5>1, <5>2
        <5>4. AskedBefore(w) BY <5>1, <5>3 DEF AskedBefore
        <5> QED BY <1>1, <4>3, <5>4 DEF Settled
      <4>4. CASE x.m = 2
        <5>1. work'[w].m = 3 BY <4>1, <4>4
        <5>2. work'[w].i = 1 /\ work'[w].st = "running" BY <1>1, <2>2, <4>4, <5>1 DEF Onward, StopStartShape
        <5>3. ~AskedBefore(w)' BY <5>2 DEF AskedBefore
        <5> QED BY <2>1, <5>1, <5>2, <5>3 DEF Settled
      <4> QED BY <1>2, <4>1, <4>2, <4>3, <4>4
    <3>3. Final(n) = "running" BY <1>4, <1>6, <1>8, <3>2
    <3> QED BY <3>1, <3>3, FinalOf
  <2> QED BY <2>3, <2>4
<1> QED BY <1>7, <1>8

(* The programs of a disk action: those of bare metal, or none.            *)
DiskProg(p) ==
  \A m \in DOMAIN p : \A j \in DOMAIN p[m].steps :
    /\ p[m].steps[j].do = "detach" => m = 2 /\ p[m].steps[j].to = "now"
    /\ m >= 2 => /\ Len(p) = 4 /\ p[m].onError = "raise"
                 /\ p[m].steps[j].bad \subseteq {"raise", "on"}
    /\ m = 4 => p[m].steps[j].do = "attach" /\ p[m].steps[j].bad \subseteq {"raise"}

LEMMA DiskProgIs == DiskProg(Program("bm", "node_disk_detach_attach_scenario"))
<1>1. Program("bm", "node_disk_detach_attach_scenario") = Backend["bm"].disks BY DEF Program
<1>2. Backend["bm"].disks = BmDisks BY DEF Backend, Bm
<1>3. DOMAIN BmDisks = 1..Len(BmDisks) BY DEF BmDisks
<1> QED BY <1>1, <1>2, <1>3, DisksIs DEF DisksShape, DiskProg

LEMMA DisksWorker ==
  ASSUME PoolOK, NEW w \in DOMAIN work, WorkerStep(w), DiskProg(prog),
         \A n \in Place :
           /\ vm[n].disks # "leaving"
           /\ vm[n].disks # "in" => \E v \in DOMAIN work : work[v].node = n /\ Holding(v),
         NEW n \in Place
  PROVE  /\ vm'[n].disks # "leaving"
         /\ vm'[n].disks # "in" => \E v \in DOMAIN work' : work'[v].node = n /\ Holding(v)'
<1> DEFINE x == work[w]
<1>1. /\ x.st = "running" /\ x.m \in DOMAIN prog /\ Steps(w) = prog[x.m].steps /\ x.i \in DOMAIN Steps(w)
      /\ Now(w) = Steps(w)[x.i] /\ DOMAIN Steps(w) = 1..Len(Steps(w)) /\ x.m \in Nat /\ x.m >= 1
      /\ Len(Steps(w)) \in Nat /\ x.i \in Nat /\ x.i >= 1 /\ x \in Worker
      /\ DOMAIN prog = 1..Len(prog) /\ Len(prog) \in Nat
  <2>1. x.st = "running" BY WorkerShape
  <2>2. DOMAIN prog = 1..Len(prog) /\ Len(prog) \in Nat BY DEF PoolOK
  <2>3. x.m \in DOMAIN prog BY <2>1, Here
  <2>4. x.m >= 1 BY <2>2, <2>3
  <2> QED BY <2>1, <2>2, <2>4, Here
<1>2. /\ DOMAIN work' = DOMAIN work /\ prog' = prog
      /\ \A v \in DOMAIN work : v # w => work'[v] = work[v]
  <2>1. PICK y \in Worker : work' = [work EXCEPT ![w] = y] BY WorkerShape
  <2> QED BY <2>1, WorkerShape DEF PoolOK
<1>3. /\ \A v \in DOMAIN work : v # w => (Holding(v)' <=> Holding(v))
      /\ work'[w].node = x.node
  <2>1. PICK y \in Worker : work' = [work EXCEPT ![w] = y] /\ y.node = x.node BY WorkerShape
  <2> QED BY <1>2, <2>1, OthersSame DEF PoolOK
<1>9. vm'[n].disks # "leaving"
  <2>1. Now(w).do = "detach" => Now(w).to = "now" BY <1>1 DEF DiskProg
  <2>2. CASE Fine(w) /\ x.node = n BY <2>1, <2>2, MachineOf
  <2>3. CASE Fine(w) /\ x.node # n
    <3>1. vm'[n] = vm[n] BY <2>3, MachineOf
    <3> QED BY <3>1
  <2>4. CASE Wrong(w)
    <3>1. vm' = vm BY <2>4, WrongIs
    <3> QED BY <3>1
  <2> QED BY <2>2, <2>3, <2>4 DEF WorkerStep, Fine
<1> SUFFICES ASSUME vm'[n].disks # "in"
             PROVE  \E v \in DOMAIN work' : work'[v].node = n /\ Holding(v)'
  BY <1>9
<1>4. ASSUME vm[n].disks = "in" => vm'[n].disks = "in", Holding(w) /\ x.node = n => Holding(w)'
      PROVE  \E v \in DOMAIN work' : work'[v].node = n /\ Holding(v)'
  <2>1. PICK v \in DOMAIN work : work[v].node = n /\ Holding(v) BY <1>4
  <2>2. CASE v = w BY <1>2, <1>3, <1>4, <2>1, <2>2
  <2>3. CASE v # w BY <1>2, <1>3, <2>1, <2>3
  <2> QED BY <2>2, <2>3
<1>5. CASE x.m = 1
  <2>1. Now(w).do # "detach" BY <1>1, <1>5 DEF DiskProg
  <2>2. vm[n].disks = "in" => vm'[n].disks = "in"
    <3>1. CASE Fine(w) /\ x.node = n BY <2>1, <3>1, MachineOf
    <3>3. CASE Fine(w) /\ x.node # n
      <4>1. vm'[n] = vm[n] BY <3>3, MachineOf
      <4> QED BY <4>1
    <3>2. CASE Wrong(w)
      <4>1. vm' = vm BY <3>2, WrongIs
      <4> QED BY <4>1
    <3> QED BY <3>1, <3>2, <3>3 DEF WorkerStep, Fine
  <2>3. ~Holding(w) BY <1>5 DEF Holding
  <2> QED BY <1>4, <2>2, <2>3
<1>6. CASE x.m # 1
  <2>1. x.m >= 2 /\ x.m \in {2, 3, 4} /\ Len(prog) = 4
    <3>1. x.m >= 2 BY <1>1, <1>6
    <3>2. Len(prog) = 4 BY <1>1, <3>1 DEF DiskProg
    <3> QED BY <1>1, <3>1, <3>2
  <2>2. /\ prog[x.m].onError = "raise" /\ Now(w).bad \subseteq {"raise", "on"}
        /\ Now(w).do = "detach" => x.m = 2
        /\ x.m = 4 => Now(w).do = "attach" /\ Now(w).bad \subseteq {"raise"}
    BY <1>1, <2>1 DEF DiskProg
  <2>3. Steady(w) BY <2>2 DEF Steady
  <2>4. \/ /\ work'[w].st \in {"failed", "lost"} /\ vm' = vm /\ work'[w].m = x.m
           /\ work'[w].i = x.i
        \/ Onward(w) /\ Fine(w)
        \/ Onward(w) /\ vm' = vm /\ x.m # 4
    <3>1. x.m = 4 => Now(w).bad \cap {"on", "timeout"} = {} BY <2>2
    <3> QED BY <2>3, <3>1, MovesOn
  <2>5. CASE work'[w].st \in {"failed", "lost"} /\ vm' = vm /\ work'[w].m = x.m /\ work'[w].i = x.i
    <3>1. Holding(w) => Holding(w)' BY <2>5 DEF Holding
    <3> QED BY <1>4, <2>5, <3>1
  <2>6. Onward(w) /\ x.m # 4 => Holding(w)' BY <2>1 DEF Onward, Holding
  <2>7. CASE Onward(w) /\ vm' = vm /\ x.m # 4 BY <1>4, <2>6, <2>7
  <2>8. CASE Onward(w) /\ Fine(w) /\ x.m # 4
    <3>1. CASE x.node = n BY <1>2, <1>3, <2>6, <2>8, <3>1
    <3>2. CASE x.node # n
      <4>1. vm'[n] = vm[n] BY <2>8, <3>2, MachineOf
      <4> QED BY <1>4, <3>2, <4>1
    <3> QED BY <3>1, <3>2
  <2>9. CASE Fine(w) /\ x.m = 4
    <3>1. Now(w).do = "attach" BY <2>2, <2>9
    <3>2. x.node # n BY <2>9, <3>1, MachineOf
    <3>3. vm'[n] = vm[n] BY <2>9, <3>2, MachineOf
    <3> QED BY <1>4, <3>2, <3>3
  <2> QED BY <2>4, <2>5, <2>7, <2>8, <2>9
<1> QED BY <1>5, <1>6

LEMMA BlocksWorker ==
  ASSUME PoolOK, NEW w \in DOMAIN work, WorkerStep(w), BlockShape(prog),
         (\E v \in DOMAIN work : Cleaned(v)) /\ (\A v \in DOMAIN work : Clear(v))
           => azure = [subnet |-> "orig", group |-> FALSE],
         \E v \in DOMAIN work' : Cleaned(v)', \A v \in DOMAIN work' : Clear(v)'
  PROVE  azure' = [subnet |-> "orig", group |-> FALSE]
<1> DEFINE x == work[w]
           s == Steps(w)
<1>1. /\ x.st = "running" /\ x.m \in DOMAIN prog /\ s = prog[x.m].steps /\ x.i \in DOMAIN s
      /\ Now(w) = s[x.i] /\ DOMAIN s = 1..Len(s) /\ x.m = 1 /\ Len(prog) = 1
      /\ Len(s) \in Nat /\ x.i \in Nat /\ x.i >= 1
  <2>1. x.st = "running" BY WorkerShape
  <2>2. Len(prog) = 1 /\ DOMAIN prog = 1..Len(prog) BY DEF BlockShape, PoolOK
  <2>3. x.m \in DOMAIN prog BY <2>1, Here
  <2>4. x.m = 1 BY <2>2, <2>3
  <2> QED BY <2>1, <2>2, <2>4, Here
<1>2. /\ prog[1].onError = "raise" /\ \E k \in DOMAIN s : s[k].do = "drop"
      /\ \A j \in DOMAIN s :
           /\ s[j].bad \subseteq {"raise"}
           /\ s[j].do \in Rewiring => \E k \in DOMAIN s : k > j /\ s[k].do = "drop"
  BY <1>1 DEF BlockShape
<1>3. Steady(w) /\ Now(w).bad \cap {"on", "timeout"} = {} BY <1>1, <1>2 DEF Steady
<1>4. /\ \A v \in DOMAIN work : v # w => work'[v] = work[v]
      /\ DOMAIN work' = DOMAIN work /\ prog' = prog
  BY <1>3, MovesOn
<1>5. Onward(w) /\ Fine(w)
  <2>1. work'[w].st \notin {"failed", "lost"} BY <1>4 DEF Clear
  <2> QED BY <1>3, <2>1, MovesOn
<1>6. \A v \in DOMAIN work : v # w => (Cleaned(v)' <=> Cleaned(v)) /\ (Clear(v)' <=> Clear(v))
  BY <1>4, OthersSame
<1>7. \/ /\ work'[w].i = x.i + 1 /\ work'[w].m = 1 /\ work'[w].st = "running"
         /\ Steps(w)' = s
      \/ x.i = Len(s) /\ work'[w].st = "done"
  <2>1. CASE work'[w].m = x.m
    <3>1. work'[w].i = x.i + 1 /\ work'[w].st = "running" BY <1>1, <1>5, <2>1 DEF Onward
    <3>2. Steps(w)' = s BY <1>1, <1>4, <2>1 DEF Steps
    <3> QED BY <1>1, <2>1, <3>1, <3>2
  <2>2. CASE work'[w].m # x.m BY <1>1, <1>5, <2>2 DEF Onward
  <2> QED BY <2>1, <2>2
<1>8. Clear(w)' BY <1>4
<1> HIDE DEF s
<1>9. CASE Now(w).do \in Rewiring
  <2>1. x.i # Len(s) BY <1>1, <1>2, <1>9
  <2>2. work'[w].i = x.i + 1 /\ work'[w].st = "running" /\ Steps(w)' = s BY <1>7, <2>1
  <2>3. work'[w].i - 1 = x.i /\ x.i \in 1..x.i /\ (x.i + 1)..x.i = {} BY <1>1, <2>2
  <2>4. Dirty(w)' BY <1>1, <1>9, <2>2, <2>3 DEF Dirty
  <2> QED BY <1>8, <2>2, <2>4 DEF Clear
<1>10. CASE Now(w).do = "drop"
  <2>1. Network(w)
    BY <1>5, <1>10 DEF Fine, Quiet, Request, Reached, Append1, Command, Doing
  <2>2. azure.subnet # "chaos" /\ azure' = [azure EXCEPT !.group = FALSE]
    BY <1>10, <2>1 DEF Network
  <2>3. azure \in [subnet : {"orig", "chaos"}, group : BOOLEAN] BY DEF PoolOK
  <2> QED BY <2>2, <2>3
<1>11. CASE Now(w).do \notin Rewiring \cup {"drop"}
  <2>1. azure' = azure
    <3>1. ~Network(w) BY <1>11 DEF Network, Rewiring
    <3> QED BY <1>5, <3>1, FineIs
  <2>2. Clear(w)
    <3>1. ~Dirty(w)
      <4> SUFFICES ASSUME Dirty(w) PROVE FALSE OBVIOUS
      <4>1. PICK j \in 1..(x.i - 1) :
              s[j].do \in Rewiring /\ \A k \in (j + 1)..(x.i - 1) : s[k].do # "drop"
        BY DEF Dirty, Drop, s
      <4>2. \A k \in (j + 1)..x.i : s[k].do # "drop"
        <5> TAKE k \in (j + 1)..x.i
        <5>1. CASE k = x.i BY <1>1, <1>11, <5>1
        <5>2. CASE k # x.i
          <6>1. k \in (j + 1)..(x.i - 1) BY <1>1, <5>2
          <6> QED BY <4>1, <6>1
        <5> QED BY <5>1, <5>2
      <4>3. x.i # Len(s)
        <5> SUFFICES ASSUME x.i = Len(s) PROVE FALSE OBVIOUS
        <5>1. j \in DOMAIN s BY <1>1, <4>1
        <5>2. PICK k \in DOMAIN s : k > j /\ s[k].do = "drop" BY <1>2, <4>1, <5>1
        <5>3. k \in (j + 1)..x.i BY <1>1, <4>1, <5>2
        <5> QED BY <4>2, <5>2, <5>3
      <4>4. work'[w].i - 1 = x.i /\ work'[w].st = "running" /\ Steps(w)' = s
        BY <1>1, <1>7, <4>3
      <4>5. j \in 1..x.i BY <1>1, <4>1
      <4>6. Dirty(w)' BY <4>1, <4>2, <4>4, <4>5 DEF Dirty, Drop
      <4> QED BY <1>8, <4>4, <4>6 DEF Clear
    <3> QED BY <1>1, <3>1 DEF Clear
  <2>3. Cleaned(w)' => Cleaned(w)
    <3> SUFFICES ASSUME Cleaned(w)' PROVE Cleaned(w) OBVIOUS
    <3>1. PICK k \in 1..x.i : s[k].do = "drop"
      <4>1. CASE x.i = Len(s) BY <1>1, <1>2, <4>1
      <4>2. CASE x.i # Len(s)
        <5>1. work'[w].i - 1 = x.i /\ work'[w].st = "running" /\ Steps(w)' = s
          BY <1>1, <1>7, <4>2
        <5>2. \E k \in 1..(work'[w].i - 1) : Steps(w)'[k].do = "drop"
          BY <5>1 DEF Cleaned, Drop
        <5> QED BY <5>1, <5>2
      <4> QED BY <4>1, <4>2
    <3>2. k # x.i BY <1>1, <1>11, <3>1
    <3>3. k \in 1..(x.i - 1) BY <1>1, <3>1, <3>2
    <3> QED BY <1>1, <3>1, <3>3 DEF Cleaned, Drop, s
  <2>4. (\E v \in DOMAIN work : Cleaned(v)) /\ (\A v \in DOMAIN work : Clear(v))
    BY <1>4, <1>6, <2>2, <2>3
  <2> QED BY <2>1, <2>4
<1> QED BY <1>9, <1>10, <1>11

(* What the parts of the invariant are about does not change with a step   *)
(* that leaves the entry and the action.                                   *)
LEMMA SameAction ==
  ASSUME UNCHANGED <<file, entry, act, general>>
  PROVE  /\ StopStarting' <=> StopStarting
         /\ Disking' <=> Disking
         /\ Blocking' <=> Blocking
         /\ ActProgram' = ActProgram
<1>1. E' = E /\ Act' = Act BY DEF E, Act
<1>2. Skipped' <=> Skipped BY <1>1 DEF Skipped
<1>3. StopStarting' <=> StopStarting BY <1>1, <1>2 DEF StopStarting, Reporting
<1>4. Disking' <=> Disking BY <1>1 DEF Disking
<1>5. Blocking' <=> Blocking BY <1>1, <1>2 DEF Blocking
<1>6. ActProgram' = ActProgram BY <1>1, <1>2 DEF ActProgram
<1> QED BY <1>3, <1>4, <1>5, <1>6

LEMMA ActShapes ==
  ASSUME NodesOK, plugin = "nodes", main \in {"pick", "work"}, act \in DOMAIN E.actions
  PROVE  /\ StopStarting => StopStartShape(ActProgram)
         /\ Disking => DiskProg(ActProgram)
         /\ Blocking => BlockShape(ActProgram)
<1>2. StopStarting => StopStartShape(ActProgram)
  BY StopStartIs DEF StopStarting, ActProgram
<1>3. Blocking => BlockShape(ActProgram) BY BlockIs DEF Blocking, ActProgram
<1>4. DiskProg(<<>>)
  <2>1. DOMAIN <<>> = {} OBVIOUS
  <2> QED BY <2>1 DEF DiskProg
<1>5. Disking => DiskProg(ActProgram) BY <1>4, DiskProgIs DEF Disking, ActProgram
<1> QED BY <1>2, <1>3, <1>5

LEMMA RepairsWorker ==
  ASSUME OutTypeOK, Repairs, plugin = "nodes", NEW w \in DOMAIN work, WorkerStep(w),
         UNCHANGED <<nodevars, outagevars>>
  PROVE  Repairs'
<1>0. PoolOK /\ NodesOK /\ main = "work"
  <2>1. PoolOK /\ NodesOK BY DEF OutTypeOK
  <2> QED BY <2>1, WorkerShape, NodesWork
<1>1. /\ main = "work" /\ main' \in {"work", "exited"} /\ prog' = prog /\ plugin' = plugin
  BY <1>0, WorkerShape
<1>2. UNCHANGED <<file, entry, act, general>> BY DEF nodevars
<1>3. prog = ActProgram /\ StopStarts /\ DisksBack /\ Blocks BY <1>1 DEF Repairs
<1>4. act \in DOMAIN E.actions BY <1>0, <1>1 DEF NodesOK
<1>5. /\ StopStarting' <=> StopStarting
      /\ Disking' <=> Disking
      /\ Blocking' <=> Blocking
      /\ ActProgram' = ActProgram
  BY <1>2, SameAction
<1>6. StopStarts'
  <2> SUFFICES ASSUME StopStarting, NEW n \in Place,
                      \E v \in DOMAIN work' : work'[v].node = n,
                      \A v \in DOMAIN work' : work'[v].node = n => Settled(v)'
               PROVE  Final(n)' = "running"
    BY <1>5 DEF StopStarts, Place
  <2>1. StopStartShape(prog) BY <1>0, <1>1, <1>3, <1>4, ActShapes
  <2>2. \A p \in Place :
          ((\E v \in DOMAIN work : work[v].node = p)
           /\ \A v \in DOMAIN work : work[v].node = p => Settled(v))
          => Final(p) = "running"
    BY <1>1, <1>3 DEF StopStarts
  <2> QED BY <1>0, <2>1, <2>2, StopStartsWorker
<1>7. DisksBack'
  <2> SUFFICES ASSUME Disking, NEW n \in Place
               PROVE  /\ vm'[n].disks # "leaving"
                      /\ vm'[n].disks # "in" =>
                           \E v \in DOMAIN work' : work'[v].node = n /\ Holding(v)'
    BY <1>1, <1>5 DEF DisksBack, Place
  <2>1. DiskProg(prog) BY <1>0, <1>1, <1>3, <1>4, ActShapes
  <2>2. \A p \in Place :
          /\ vm[p].disks # "leaving"
          /\ vm[p].disks # "in" => \E v \in DOMAIN work : work[v].node = p /\ Holding(v)
    BY <1>1, <1>3 DEF DisksBack
  <2> QED BY <1>0, <2>1, <2>2, DisksWorker
<1>8. Blocks'
  <2> SUFFICES ASSUME Blocking, \E v \in DOMAIN work' : Cleaned(v)',
                      \A v \in DOMAIN work' : Clear(v)'
               PROVE  azure' = [subnet |-> "orig", group |-> FALSE]
    BY <1>5 DEF Blocks
  <2>1. BlockShape(prog) BY <1>0, <1>1, <1>3, <1>4, ActShapes
  <2>2. (\E v \in DOMAIN work : Cleaned(v)) /\ (\A v \in DOMAIN work : Clear(v))
          => azure = [subnet |-> "orig", group |-> FALSE]
    BY <1>1, <1>3 DEF Blocks
  <2> QED BY <1>0, <2>1, <2>2, BlocksWorker
<1> QED BY <1>1, <1>3, <1>5, <1>6, <1>7, <1>8 DEF Repairs

LEMMA RepairsPick ==
  ASSUME OutTypeOK, Repairs, Pick
  PROVE  Repairs'
<1>0. NodesOK BY DEF OutTypeOK
<1>1. /\ plugin = "nodes" /\ main = "pick"
      /\ UNCHANGED <<plugin, vm, azure, file, act, general>>
      /\ \/ /\ main' = "work" /\ entry' = entry /\ act <= Len(E.actions)
            /\ prog' = ActProgram
            /\ \A w \in DOMAIN work' :
                 /\ work'[w].m = 1 /\ work'[w].i = 1
                 /\ work'[w].st = IF ActProgram = <<>> THEN "done" ELSE "running"
         \/ main' = "extend" /\ entry' = entry /\ DOMAIN work' = {}
         \/ main' = "entry" /\ entry' = entry + 1
         \/ main' = "returned"
  BY PickIs
<1>2. entry \in Nat \ {0} /\ act \in Nat \ {0} /\ entry \in DOMAIN file BY <1>0, <1>1 DEF NodesOK
<1>3. entry = 1 /\ act = 1 => \A n \in Place : vm[n].disks = "in" BY <1>1 DEF Repairs, DisksBack
<1>4. CASE main' = "work" /\ entry' = entry /\ act <= Len(E.actions) /\ prog' = ActProgram
           /\ \A w \in DOMAIN work' :
                /\ work'[w].m = 1 /\ work'[w].i = 1
                /\ work'[w].st = IF ActProgram = <<>> THEN "done" ELSE "running"
  <2>1. /\ StopStarting' <=> StopStarting
        /\ Disking' <=> Disking
        /\ Blocking' <=> Blocking
        /\ ActProgram' = ActProgram
    BY <1>1, <1>4, SameAction
  <2>2. act \in DOMAIN E.actions
    <3>1. E.actions \in Seq(STRING) BY <1>0, <1>2, EntryIs
    <3> QED BY <1>2, <1>4, <3>1
  <2>3. StopStarts'
    <3> SUFFICES ASSUME StopStarting, NEW v \in DOMAIN work', Settled(v)' PROVE FALSE
      BY <2>1 DEF StopStarts
    <3>1. ActProgram # <<>> BY <1>0, <1>1, <2>2, ActShapes DEF StopStartShape
    <3>2. work'[v].st = "running" /\ work'[v].m = 1 BY <1>4, <3>1
    <3> QED BY <3>2 DEF Settled
  <2>4. DisksBack' BY <1>1, <1>3, <1>4, <2>1 DEF DisksBack, Disking, Place
  <2>5. Blocks'
    <3> SUFFICES ASSUME Blocking, NEW v \in DOMAIN work', Cleaned(v)' PROVE FALSE
      BY <2>1 DEF Blocks
    <3>1. ActProgram # <<>> BY <1>0, <1>1, <2>2, ActShapes DEF BlockShape
    <3>2. work'[v].st = "running" /\ work'[v].i = 1 BY <1>4, <3>1
    <3> QED BY <3>2 DEF Cleaned
  <2> QED BY <1>1, <1>4, <2>1, <2>3, <2>4, <2>5 DEF Repairs
<1>5. CASE main' = "extend" /\ entry' = entry /\ DOMAIN work' = {}
  <2>1. StopStarts' BY <1>5 DEF StopStarts
  <2>2. Blocks' BY <1>5 DEF Blocks
  <2>3. Disking' <=> Disking BY <1>1, <1>5, SameAction
  <2>4. DisksBack' BY <1>1, <1>3, <1>5, <2>3 DEF DisksBack, Disking, Place
  <2> QED BY <1>5, <2>1, <2>2, <2>4 DEF Repairs
<1>6. CASE main' = "entry" /\ entry' = entry + 1
  <2>1. entry' # 1 BY <1>2, <1>6
  <2> QED BY <1>6, <2>1 DEF Repairs, StopStarts, DisksBack, Blocks
<1>7. CASE main' = "returned" BY <1>7 DEF Repairs, StopStarts, DisksBack, Blocks
<1> QED BY <1>1, <1>4, <1>5, <1>6, <1>7

LEMMA RepairsStep == OutTypeOK /\ Repairs /\ [Next]_vars => Repairs'
<1> SUFFICES ASSUME OutTypeOK, Repairs, [Next]_vars PROVE Repairs' OBVIOUS
<1>0. PoolOK /\ NodesOK BY DEF OutTypeOK
<1>1. ASSUME UNCHANGED <<plugin, work, prog, azure, file, entry, act, general>>,
             \A n \in Place : /\ Final(n)' = Final(n)
                              /\ vm[n].disks # "leaving" => vm'[n].disks = vm[n].disks,
             plugin = "nodes",
             main' = main \/ (main = "work" /\ main' = "extend")
      PROVE  Repairs'
  <2>1. /\ StopStarting' <=> StopStarting
        /\ Disking' <=> Disking
        /\ Blocking' <=> Blocking
        /\ ActProgram' = ActProgram
    BY <1>1, SameAction
  <2>2. \A v \in DOMAIN work : /\ Settled(v)' <=> Settled(v)
                               /\ Holding(v)' <=> Holding(v)
                               /\ Cleaned(v)' <=> Cleaned(v)
                               /\ Clear(v)' <=> Clear(v)
    BY <1>1, OthersSame
  <2>3. StopStarts'
    <3>1. StopStarts /\ (main' \in {"work", "extend"} => main \in {"work", "extend"})
      BY <1>1 DEF Repairs
    <3> SUFFICES ASSUME main' \in {"work", "extend"}, StopStarting, NEW n \in Place,
                        \E v \in DOMAIN work : work[v].node = n,
                        \A v \in DOMAIN work : work[v].node = n => Settled(v)
                 PROVE  Final(n)' = "running"
      BY <1>1, <2>1, <2>2 DEF StopStarts, Place
    <3>2. Final(n) = "running" BY <3>1 DEF StopStarts
    <3> QED BY <1>1, <3>2
  <2>4. DisksBack'
    <3> SUFFICES ASSUME DisksBack PROVE DisksBack' BY <1>1 DEF Repairs
    <3> QED BY <1>1, <2>1, <2>2 DEF DisksBack, Place
  <2>5. Blocks' BY <1>1, <2>1, <2>2 DEF Repairs, Blocks
  <2> QED BY <1>1, <2>1, <2>3, <2>4, <2>5 DEF Repairs
<1>2. ASSUME plugin = "nodes", NodesStep PROVE Repairs'
  <2>1. CASE NextEntry
    <3>1. /\ main = "entry" /\ main' \in {"pick", "returned"} /\ UNCHANGED <<plugin, vm, entry>>
          /\ main' = "pick" => act' = 1
      BY <2>1 DEF NextEntry, NodesAt, At, Return, cloudvars
    <3>2. main' = "pick" /\ entry' = 1 => \A n \in Place : vm[n].disks = "in"
      <4> SUFFICES ASSUME entry = 1 PROVE \A n \in Place : vm[n].disks = "in" BY <3>1
      <4> QED BY <1>2, <3>1 DEF Repairs, DisksBack
    <3> QED BY <3>1, <3>2 DEF Repairs, StopStarts, DisksBack, Blocks, Place
  <2>2. CASE Pick BY <2>2, RepairsPick
  <2>3. CASE Join
    <3>1. /\ main = "work" /\ main' \in {"extend", "returned"}
          /\ UNCHANGED <<plugin, work, prog, vm, azure, file, entry, act, general>>
      BY <2>3 DEF Join, NodesAt, At, Return, cloudvars, nodevars
    <3>2. CASE main' = "extend"
      <4>1. \A n \in Place : Final(n)' = Final(n) /\ vm'[n].disks = vm[n].disks
        BY <3>1 DEF Final
      <4> QED BY <1>1, <1>2, <3>1, <3>2, <4>1
    <3>3. CASE main' = "returned" BY <3>3 DEF Repairs, StopStarts, DisksBack, Blocks
    <3> QED BY <3>1, <3>2, <3>3
  <2>4. CASE Extend
    <3>1. main' \in {"pick", "exited", "returned"} /\ act' = act + 1 /\ act \in Nat \ {0}
      BY <1>0, <2>4 DEF Extend, NodesOK
    <3>2. act' # 1 BY <3>1
    <3> QED BY <3>1, <3>2 DEF Repairs, StopStarts, DisksBack, Blocks
  <2> QED BY <1>2, <2>1, <2>2, <2>3, <2>4 DEF NodesStep
<1>3. ASSUME plugin # "nodes", plugin' = plugin PROVE Repairs' BY <1>3 DEF Repairs
<1>4. ASSUME NEW n \in Place, Turns(n), UNCHANGED <<nodevars, outagevars>>, plugin = "nodes"
      PROVE  Repairs'
  <2>1. UNCHANGED <<plugin, main, work, prog, azure, file, entry, act, general>>
    BY <1>4, TurnsIs DEF threadvars, nodevars
  <2>2. \A p \in Place : /\ Final(p)' = Final(p)
                         /\ vm[p].disks # "leaving" => vm'[p].disks = vm[p].disks
    <3>1. \A p \in Place \ {n} : vm'[p] = vm[p] BY <1>4, TurnsIs
    <3>2. Final(n)' = Final(n) /\ (vm[n].disks # "leaving" => vm'[n].disks = vm[n].disks)
      BY <1>4, TurnsIs
    <3>4. \A p \in Place \ {n} : Final(p)' = Final(p) BY <3>1, FinalOf
    <3> QED BY <3>1, <3>2, <3>4
  <2> QED BY <1>1, <1>4, <2>1, <2>2
<1>5. ASSUME UNCHANGED vars, plugin = "nodes" PROVE Repairs'
  <2>1. UNCHANGED <<plugin, main, work, prog, vm, azure, file, entry, act, general>>
    BY <1>5 DEF vars, poolvars, threadvars, cloudvars, nodevars
  <2>2. \A p \in Place : Final(p)' = Final(p) /\ vm'[p].disks = vm[p].disks BY <2>1 DEF Final
  <2> QED BY <1>1, <1>5, <2>1, <2>2
<1>6. OutageStep \/ Kill \/ Signal => plugin' = plugin /\ plugin # "nodes"
  BY DEF OutageStep, ShutStart, Register, SendStop, SendStart, SendAll, Sent, Waited,
         WaitOne, RollbackNode, RollbackAt, ZoneStart, ZoneNext, RollbackStart, RollbackEnd, AclStart, AclSleep,
         AclSleepAgain, AclEnd, AclBlock, AclRestore, AclDelete, Kill, Signal, Return, PoolSame, Pc, At
<1>7. \A w \in DOMAIN work : WorkerStep(w) => plugin' = plugin BY <1>0, WorkerShape
<1>8. \A n \in Place : Turns(n) => plugin' = plugin BY TurnsIs DEF threadvars
<1>9. UNCHANGED vars => plugin' = plugin BY DEF vars, poolvars, threadvars
<1>10. ASSUME NEW w \in DOMAIN work, WorkerStep(w), UNCHANGED <<nodevars, outagevars>>
       PROVE  Repairs'
  <2>1. CASE plugin = "nodes" BY <1>10, <2>1, RepairsWorker
  <2>2. CASE plugin # "nodes" BY <1>3, <1>7, <1>10, <2>2
  <2> QED BY <2>1, <2>2
<1> QED BY <1>2, <1>3, <1>4, <1>5, <1>6, <1>8, <1>9, <1>10, OneStep

(* When all workers of an action have ended without an exception, a        *)
(* stop_start has asked every one of its machines to run, a disk action on *)
(* bare metal has attached the disks it detached, and a block has given the subnet    *)
(* its own group back and removed the group "chaos", whatever the order of *)
(* the workers (node_stop_start_scenario, node_disk_detach_attach_scenario,*)
(* az_node_scenarios.node_block_scenario).                                 *)
THEOREM RestoresAlways == Spec => []Restores
<1>1. Init => Repairs
  <2> SUFFICES ASSUME Init PROVE Repairs OBVIOUS
  <2>1. main = "entry" /\ \A n \in Place : vm[n].disks = "in" BY DEF Init, PoolInit, Place
  <2> QED BY <2>1 DEF Repairs, StopStarts, DisksBack, Blocks
<1>2. OutTypeOK /\ Repairs => Restores
  <2> SUFFICES ASSUME OutTypeOK, Repairs, plugin = "nodes", main = "extend", AllDone,
                      NEW w \in DOMAIN work
               PROVE  /\ StopStarting => Final(work[w].node) = "running"
                      /\ Disking => vm[work[w].node].disks = "in"
                      /\ Blocking => azure = [subnet |-> "orig", group |-> FALSE]
    BY DEF Restores, StopStarting, Disking, Blocking
  <2>1. work[w].node \in Place
    <3>1. work[w] \in Worker BY DEF OutTypeOK, PoolOK
    <3> QED BY <3>1 DEF Worker, Place
  <2>2. StopStarts /\ DisksBack /\ Blocks BY DEF Repairs
  <2>3. \A v \in DOMAIN work : Settled(v) /\ ~Holding(v) /\ Cleaned(v) /\ Clear(v)
    BY DEF AllDone, Settled, Holding, Cleaned, Clear
  <2>4. StopStarting => Final(work[w].node) = "running" BY <2>1, <2>2, <2>3 DEF StopStarts
  <2>5. Disking => vm[work[w].node].disks = "in" BY <2>1, <2>2, <2>3 DEF DisksBack
  <2>6. Blocking => azure = [subnet |-> "orig", group |-> FALSE] BY <2>2, <2>3 DEF Blocks
  <2> QED BY <2>4, <2>5, <2>6
<1> QED BY <1>1, <1>2, OutTypeInit, OutTypeStep, RepairsStep, PTL DEF Spec

-----------------------------------------------------------------------------
(* The rollback of the shut down and of the zone. *)

(* The programs of these two ask for a start or for a stop, and nothing    *)
(* else goes wrong in them than a failure of the method, or a call that    *)
(* ends early.                                                             *)
SwitchStep == {s \in StepT : /\ s.bad \subseteq {"raise", "exit", "on", "timeout"}
                             /\ s.do = "ask" => s.to \in {"stopped", "running"}}
Switches(p) == Len(p) = 1 /\ p[1].onError = "raise" /\ p[1].steps \in Seq(SwitchStep)

LEMMA SwitchesTo ==
  ASSUME NEW c \in ClientT, NEW state \in {"stopped", "running"}, NEW k \in Aims
  PROVE  Switches(<<Loop(To(c, state, k), "raise")>>)
<1> DEFINE look == Lookup(c.lookup)
           ask == Ask(state, c.ask)
           wait == Await(state, c.await)
           kube1 == Kube(k)
           b == To(c, state, k)
           x == Loop(b, "raise")
<1>0. state \in Wanted BY DEF Wanted
<1>1. /\ look \in FairStep /\ look.do = "lookup" /\ ask \in FairStep /\ ask.to = state
      /\ wait \in FairStep
  BY <1>0, ClientSteps
<1>2. wait.do = "await" BY DEF Await, Step
<1>3. kube1 \in FairStep /\ kube1.do = "kube" /\ Record \in FairStep /\ Record.do = "record"
  BY PlainSteps
<1>4. b = <<look, ask, wait, kube1, Record>> BY DEF To
<1>5. x.steps = Repeat(b) /\ x.onError = "raise" BY DEF Loop, Method
<1> HIDE DEF look, ask, wait, kube1, b, x
<1>6. /\ look \in SwitchStep /\ ask \in SwitchStep /\ wait \in SwitchStep /\ kube1 \in SwitchStep
      /\ Record \in SwitchStep
  BY <1>1, <1>2, <1>3 DEF SwitchStep, FairStep
<1>7. b \in Seq(SwitchStep) /\ b # <<>> BY <1>4, <1>6
<1>8. Repeat(b) \in Seq(SwitchStep) BY <1>7, RepeatIs
<1>9. Len(<<x>>) = 1 /\ <<x>>[1] = x OBVIOUS
<1> QED BY <1>5, <1>8, <1>9 DEF Switches, x, b

LEMMA ZoneSwitches == Switches(<<Gcp.stop>>) /\ Switches(<<Gcp.start>>)
<1>1. /\ Gcp.stop = Loop(To(GcpClient, "stopped", "Unknown"), "raise")
      /\ Gcp.start = Loop(To(GcpClient, "running", "True"), "raise")
  BY DEF Gcp
<1>2. GcpClient \in ClientT /\ "Unknown" \in Aims /\ "True" \in Aims BY Clients DEF Aims
<1> QED BY <1>1, <1>2, SwitchesTo

LEMMA SendSwitches ==
  ASSUME cloud \in {"aws", "gcp", "az", "openstack", "ibm"}, NEW state \in {"stopped", "running"}
  PROVE  Switches(Send(state))
<1> DEFINE p == Send(state)
           t == p[1].steps
<1>1. /\ p \in Seq(MethodT) /\ Len(p) = 1 /\ Len(t) = 1 /\ t[1].do = "ask" /\ t[1].to = state
      /\ p[1].onError = "raise" /\ t[1].bad \in {{"raise"}, {"exit"}, {"on"}}
  BY SendIs
<1> HIDE DEF p
<1>2. p[1] \in MethodT BY <1>1
<1>3. t \in Seq(StepT) BY <1>2 DEF MethodT, Steps1
<1> HIDE DEF t
<1>4. t[1] \in SwitchStep
  <2>0. Len(t) = 1 BY <1>1
  <2>1. t[1] \in StepT
    <3>1. \A j \in 1..Len(t) : t[j] \in StepT BY <1>3
    <3>2. 1 \in 1..Len(t) BY <2>0
    <3> QED BY <3>1, <3>2
  <2>2. t[1].bad \subseteq {"raise", "exit", "on", "timeout"} BY <1>1
  <2> QED BY <1>1, <2>1, <2>2 DEF SwitchStep
<1>5. t \in Seq(SwitchStep)
  <2>1. DOMAIN t = {1} BY <1>1, <1>3
  <2>2. t = [j \in 1..1 |-> t[j]] BY <1>1, <1>3
  <2>3. \A j \in 1..1 : t[j] \in SwitchStep BY <1>4
  <2>4. [j \in 1..1 |-> t[j]] \in Seq(SwitchStep) BY <2>3, IsASeq
  <2> QED BY <2>2, <2>4
<1> QED BY <1>1, <1>5 DEF Switches, t, p

(* What a worker of these two does: it only goes forward, and only one     *)
(* with a stop still to send can make a machine stop.                      *)
LEMMA SwitchWorker ==
  ASSUME PoolOK, NEW w \in DOMAIN work, WorkerStep(w), Switches(prog)
  PROVE  /\ UNCHANGED <<plugin, prog>> /\ DOMAIN work' = DOMAIN work
         /\ \A v \in DOMAIN work : /\ work'[v].node = work[v].node
                                   /\ StopAhead(v)' => StopAhead(v)
         /\ \A p \in Place : Final(p)' \in {Final(p), "running"} \/ (p = work[w].node /\ StopAhead(w))
<1> DEFINE x == work[w]
           s == Steps(w)
<1>0. x.st = "running" BY WorkerShape
<1>1. /\ x.m \in DOMAIN prog /\ s = prog[x.m].steps /\ x.i \in DOMAIN s /\ x.i \in Nat
      /\ Now(w) = s[x.i] /\ DOMAIN s = 1..Len(s) /\ Len(s) \in Nat
      /\ DOMAIN prog = 1..Len(prog)
  BY <1>0, Here DEF PoolOK
<1>2. x.m = 1 /\ Len(prog) = 1 /\ s \in Seq(SwitchStep) /\ prog[1].onError = "raise"
  BY <1>1 DEF Switches
<1>3. Now(w) \in SwitchStep BY <1>1, <1>2
<1>4. Steady(w) BY <1>2, <1>3 DEF Steady, SwitchStep
<1>5. /\ \A v \in DOMAIN work : v # w => work'[v] = work[v]
      /\ DOMAIN work' = DOMAIN work /\ work'[w].node = x.node /\ UNCHANGED <<plugin, prog>>
      /\ \/ work'[w].st \in {"failed", "lost"} /\ vm' = vm
         \/ Onward(w) /\ Fine(w)
         \/ Onward(w) /\ vm' = vm
  BY <1>4, MovesOn
<1>6. ASSUME NEW v \in DOMAIN work, StopAhead(v)' PROVE StopAhead(v)
  <2>1. CASE v # w BY <1>5, <1>6, <2>1 DEF StopAhead, Steps
  <2>2. CASE v = w
    <3>1. work'[w].st = "running" BY <1>6, <2>2 DEF StopAhead
    <3>2. Onward(w) BY <1>5, <3>1
    <3>3. work'[w].m = x.m /\ work'[w].i = x.i + 1 BY <1>2, <3>1, <3>2 DEF Onward
    <3>4. Steps(w)' = s BY <1>5, <3>3 DEF Steps
    <3>5. PICK j \in (x.i + 1)..Len(s) : s[j].do = "ask" /\ s[j].to = "stopped"
      BY <1>6, <2>2, <3>3, <3>4 DEF StopAhead
    <3>6. j \in x.i..Len(s) BY <1>1, <3>5
    <3> QED BY <1>0, <2>2, <3>5, <3>6 DEF StopAhead
  <2> QED BY <2>1, <2>2
<1>7. ASSUME NEW p \in Place
      PROVE  Final(p)' \in {Final(p), "running"} \/ (p = x.node /\ StopAhead(w))
  <2>1. CASE vm' = vm BY <2>1 DEF Final
  <2>2. CASE Fine(w) /\ p # x.node
    <3>1. vm'[p] = vm[p] BY <2>2, MachineOf
    <3> QED BY <3>1 DEF Final
  <2>3. CASE Fine(w) /\ p = x.node /\ Now(w).do # "ask"
    <3>1. vm'[p].power = vm[p].power /\ vm'[p].pending = vm[p].pending BY <2>3, MachineOf
    <3> QED BY <3>1, FinalOf
  <2>4. CASE Fine(w) /\ p = x.node /\ Now(w).do = "ask"
    <3>1. vm'[p].pending = Now(w).to BY <2>4, MachineOf
    <3>2. CASE Now(w).to = "running"
      <4>1. vm'[p].pending = "running" BY <3>1, <3>2
      <4>2. Final(p)' = "running" BY <4>1 DEF Final
      <4> QED BY <4>2
    <3>3. CASE Now(w).to = "stopped"
      <4>1. x.i \in x.i..Len(s) BY <1>1
      <4>2. StopAhead(w) BY <1>0, <1>1, <2>4, <3>3, <4>1 DEF StopAhead
      <4> QED BY <2>4, <4>2
    <3> QED BY <1>3, <2>4, <3>2, <3>3 DEF SwitchStep
  <2> QED BY <1>5, <2>1, <2>2, <2>3, <2>4
<1> QED BY <1>5, <1>6, <1>7

(* The workers act on nodes that are registered.                           *)
Registers ==
  /\ asked \subseteq registered
  /\ \A w \in DOMAIN work : work[w].node \in registered
  /\ main = "entry" => asked = {} /\ work = <<>>
  /\ plugin = "shut_down" /\ main \in {"send_stop", "send_start", "work", "waiting"} =>
       registered = Node
(* The nodes the loop of the rollback has been through will run, those     *)
(* excepted that a worker had still to stop when the handler was entered.  *)
Unsents == main \in Beside => \A w \in DOMAIN work : StopAhead(w) => work[w].node \in unsent
Restarts ==
  main \in {"rolling", "rolled"} \cup Beside =>
    \A n \in registered \ (left \cup lost \cup unsent) : Final(n) = "running"
RollsBack ==
  plugin \in {"shut_down", "zone"} =>
    /\ Registers /\ Unsents /\ Restarts
    /\ main \in Working => Switches(prog)
    /\ main = "rolled" => left = {}

(* A step that is no part of the rollback, and launches nothing. *)
LEMMA RollsQuiet ==
  ASSUME RollsBack, plugin \in {"shut_down", "zone"}, UNCHANGED <<plugin, prog, work, asked>>,
         main' \notin {"rolling", "rolled"} \cup Beside, main' = "work" => main = "work",
         main' # "entry", registered \subseteq registered',
         plugin = "shut_down" /\ main' \in {"send_stop", "send_start", "work", "waiting"} =>
           registered' = Node
  PROVE  RollsBack'
<1>1. Registers' BY DEF RollsBack, Registers
<1>2. Unsents' /\ Restarts' BY DEF Unsents, Restarts
<1>3. main' \in Working => Switches(prog') BY DEF Working, RollsBack
<1>4. Switches(prog') => Switches(prog)' BY DEF Switches, SwitchStep, StepT
<1> QED BY <1>1, <1>2, <1>3, <1>4 DEF RollsBack, Working

(* A launch. *)
LEMMA RollsLaunch ==
  ASSUME RollsBack, plugin \in {"shut_down", "zone"}, plugin' = plugin, asked' = asked,
         asked \subseteq registered', main' = "work", Switches(prog'),
         \A w \in DOMAIN work' : work'[w].node \in registered',
         plugin = "shut_down" => registered' = Node
  PROVE  RollsBack'
<1>1. Registers' BY DEF Registers
<1>2. Unsents' /\ Restarts' BY DEF Unsents, Restarts, Beside
<1>3. Switches(prog') => Switches(prog)' BY DEF Switches, SwitchStep, StepT
<1> QED BY <1>1, <1>2, <1>3 DEF RollsBack

LEMMA RollsNode ==
  ASSUME OutTypeOK, RollsBack, NEW n \in Node, RollbackNode(n)
  PROVE  RollsBack'
<1>0. PoolOK /\ ShutOK BY DEF OutTypeOK
<1>2. /\ plugin \in {"shut_down", "zone"} /\ plugin' = plugin /\ main \in {"rolling", "handling"}
      /\ main' \in {main, IF main = "rolling" THEN "exited" ELSE "handled"}
      /\ left' \in {left, left \ {n}}
      /\ UNCHANGED <<prog, work, asked, registered, unsent>>
      /\ \/ vm' = [vm EXCEPT ![n].pending = "running"] /\ lost' = lost
         \/ lost' = lost \cup {n} /\ vm' = vm
  BY DEF RollbackNode, RollbackAt, records
<1>3. \A p \in Node : p # n => Final(p)' = Final(p)
  <2>1. \A p \in Node : p # n => vm'[p] = vm[p] BY <1>0, <1>2 DEF PoolOK, Place
  <2> QED BY <2>1 DEF Final
<1>4. vm' = [vm EXCEPT ![n].pending = "running"] => Final(n)' = "running"
  <2> SUFFICES ASSUME vm' = [vm EXCEPT ![n].pending = "running"] PROVE Final(n)' = "running"
    OBVIOUS
  <2>1. vm \in [Place -> Machine] /\ n \in Place BY <1>0 DEF PoolOK, Place
  <2>2. vm'[n].pending = "running" BY <2>1 DEF Machine
  <2> QED BY <2>2 DEF Final
<1>5. Restarts'
  <2> SUFFICES ASSUME NEW p \in registered' \ (left' \cup lost' \cup unsent')
               PROVE  Final(p)' = "running"
    BY DEF Restarts
  <2>1. p \in Node BY <1>0, <1>2 DEF ShutOK
  <2>2. CASE p = n BY <1>2, <1>4, <2>2
  <2>3. CASE p # n
    <3>1. p \in registered \ (left \cup lost \cup unsent) BY <1>2, <2>3
    <3>2. Final(p) = "running" BY <1>2, <3>1 DEF RollsBack, Restarts, Beside
    <3> QED BY <1>3, <2>1, <2>3, <3>2
  <2> QED BY <2>2, <2>3
<1>6. Registers' BY <1>2 DEF RollsBack, Registers
<1>7. Unsents'
  <2>1. \A w \in DOMAIN work : StopAhead(w)' <=> StopAhead(w) BY <1>2 DEF StopAhead, Steps
  <2>2. main' \in Beside => main \in Beside BY <1>2 DEF Beside
  <2> QED BY <1>2, <2>1, <2>2 DEF RollsBack, Unsents
<1>8. main' \in Working => Switches(prog')
  <2>1. main' \in Working => main \in Working BY <1>2 DEF Working, Beside
  <2> QED BY <1>2, <2>1 DEF RollsBack
<1>9. Switches(prog') => Switches(prog)' BY DEF Switches, SwitchStep, StepT
<1> QED BY <1>2, <1>5, <1>6, <1>7, <1>8, <1>9 DEF RollsBack

LEMMA RollsOutage ==
  ASSUME OutTypeOK, RollsBack, plugin \in {"shut_down", "zone"}, OutageStep \/ Kill \/ Signal
  PROVE  RollsBack'
<1>0. PoolOK /\ ShutOK /\ Clouded BY CloudedIs DEF OutTypeOK
<1>2. CASE ShutStart
  <2>1. /\ plugin' = plugin /\ UNCHANGED <<prog, work, asked, registered>>
        /\ main' \in {"register", "returned", "exited"}
    BY <1>2 DEF ShutStart, Return, outagevars, Pc, At
  <2> QED BY <2>1, RollsQuiet DEF Beside
<1>3. CASE Register
  <2>1. /\ plugin' = plugin /\ UNCHANGED <<prog, work, asked>> /\ main' = "send_stop"
        /\ registered' = Node
    BY <1>3 DEF Register, PoolSame, records, Pc, At
  <2>2. registered \subseteq Node BY <1>0 DEF ShutOK
  <2> QED BY <2>1, <2>2, RollsQuiet DEF Beside
<1>4. ASSUME NEW from \in {"send_stop", "send_start"}, NEW state \in {"stopped", "running"},
             SendAll(from, state)
      PROVE RollsBack'
  <2>1. /\ plugin = "shut_down" /\ plugin' = plugin /\ main = from /\ main' = "work"
        /\ asked' = asked /\ registered' = registered
    BY <1>4 DEF SendAll, Pc, At, records
  <2>l. Launch(EveryNode, Send(state), TRUE, FALSE)
    <3>1. SendAll(from, state) BY <1>4
    <3> QED BY <3>1, Zenon DEF SendAll
  <2>2. registered = Node /\ asked \subseteq registered BY <2>1 DEF RollsBack, Registers
  <2>3. EveryNode \in Seq(Node) BY NodesListed DEF EveryNode
  <2>4. \A w \in DOMAIN work' : work'[w].node \in Node
    <3>1. work' = [j \in DOMAIN EveryNode |->
                     [node |-> EveryNode[j], m |-> 1, i |-> 1, saved |-> "orig",
                      st |-> IF Send(state) = <<>> THEN "done" ELSE "running"]]
      BY <2>l DEF Launch
    <3>2. \A j \in DOMAIN EveryNode : EveryNode[j] \in Node BY <2>3
    <3> QED BY <3>1, <3>2
  <2>5. prog' = Send(state) BY <2>l DEF Launch
  <2>6. Switches(Send(state)) BY <1>0, <2>1, SendSwitches DEF Clouded
  <2>7. Switches(prog') BY <2>5, <2>6
  <2> QED BY <2>1, <2>2, <2>4, <2>7, RollsLaunch
<1>5. CASE Sent \/ Waited
  <2>1. /\ plugin' = plugin /\ UNCHANGED <<prog, work, asked, registered>>
        /\ plugin = "shut_down" /\ main \in {"work", "waiting"}
        /\ main' \in {"waiting", "send_start", "register", "returned"}
    BY <1>5 DEF Sent, Waited, Return, PoolSame, records, outagevars, Pc, At
  <2>2. registered = Node BY <2>1 DEF RollsBack, Registers
  <2> QED BY <2>1, <2>2, RollsQuiet DEF Beside
<1>6. CASE \E n \in Node : WaitOne(n)
  <2>1. PICK n \in Node : WaitOne(n) BY <1>6
  <2>2. /\ plugin' = plugin /\ UNCHANGED <<prog, work, asked, registered>>
        /\ plugin = "shut_down" /\ main = "waiting" /\ main' \in {"waiting", "returned", "exited"}
    BY <2>1 DEF WaitOne, Return, PoolSame, records, Pc, At
  <2>3. registered = Node BY <2>2 DEF RollsBack, Registers
  <2> QED BY <2>2, <2>3, RollsQuiet DEF Beside
<1>7. CASE \E n \in Node : RollbackNode(n) BY <1>7, RollsNode
<1>8. CASE ZoneStart
  <2>1. /\ plugin = "zone" /\ main = "entry" /\ asked = {} /\ work = <<>> /\ asked' = asked
        /\ plugin' = plugin
    BY <1>8 DEF ZoneStart, Pc, At, records, RollsBack, Registers
  <2>2. CASE \E zone \in SUBSET Node \ {{}} :
               registered' = zone /\ main' = "work" /\ Launch(SetToSeq(zone), <<Gcp.stop>>, TRUE, TRUE)
    <3>1. PICK zone \in SUBSET Node \ {{}} :
            registered' = zone /\ main' = "work" /\ Launch(SetToSeq(zone), <<Gcp.stop>>, TRUE, TRUE)
      BY <2>2
    <3> DEFINE l == SetToSeq(zone)
               p == <<Gcp.stop>>
    <3>2. l \in Seq(zone) /\ Switches(p) BY NodesListed, ZoneSwitches
    <3>3. Launch(l, p, TRUE, TRUE) BY <3>1
    <3> HIDE DEF l, p
    <3>4. \A w \in DOMAIN work' : work'[w].node \in zone
      <4>1. work' = [j \in DOMAIN l |-> [node |-> l[j], m |-> 1, i |-> 1, saved |-> "orig",
                                         st |-> IF p = <<>> THEN "done" ELSE "running"]]
        BY <3>3 DEF Launch
      <4>2. \A j \in DOMAIN l : l[j] \in zone BY <3>2
      <4> QED BY <4>1, <4>2
    <3>5. prog' = p BY <3>3 DEF Launch
    <3>6. Switches(prog') BY <3>2, <3>5
    <3> QED BY <2>1, <3>1, <3>4, <3>6, RollsLaunch
  <2>3. CASE Return(1) /\ UNCHANGED <<registered, work, prog, parallel, kube>>
    <3>1. main' = "returned" BY <2>3 DEF Return
    <3> QED BY <2>1, <2>3, <3>1, RollsQuiet DEF Beside
  <2> QED BY <1>8, <2>2, <2>3 DEF ZoneStart
<1>9. CASE ZoneNext
  <2>1. /\ plugin = "zone" /\ plugin' = plugin /\ main = "work" /\ asked' = asked
        /\ registered' = registered
    BY <1>9 DEF ZoneNext, Pc, At, records, outagevars
  <2>2. CASE /\ UNCHANGED <<work, prog>> /\ main' = "returned" BY <2>1, <2>2, RollsQuiet DEF Beside
  <2>3. CASE /\ UNCHANGED main
             /\ Launch([j \in DOMAIN work |-> work[j].node], <<Gcp.start>>, TRUE, TRUE)
    <3> DEFINE l == [j \in DOMAIN work |-> work[j].node]
               p == <<Gcp.start>>
    <3>1. DOMAIN l = DOMAIN work /\ \A j \in DOMAIN l : l[j] \in registered
      BY <2>1 DEF RollsBack, Registers
    <3>2. Launch(l, p, TRUE, TRUE) BY <2>3
    <3>3. Switches(p) BY ZoneSwitches
    <3> HIDE DEF l, p
    <3>4. work' = [j \in DOMAIN l |-> [node |-> l[j], m |-> 1, i |-> 1, saved |-> "orig",
                                       st |-> IF p = <<>> THEN "done" ELSE "running"]]
      BY <3>2 DEF Launch
    <3>5. prog' = p BY <3>2 DEF Launch
    <3>6. \A w \in DOMAIN work' : work'[w].node \in registered' BY <2>1, <3>1, <3>4
    <3>7. Switches(prog') BY <3>3, <3>5
    <3>8. asked \subseteq registered' BY <2>1 DEF RollsBack, Registers
    <3> QED BY <2>1, <2>3, <3>6, <3>7, <3>8, RollsLaunch
  <2> QED BY <1>9, <2>2, <2>3 DEF ZoneNext, Return
<1>10. CASE RollbackStart
  <2>1. /\ plugin' = plugin /\ UNCHANGED <<prog, work, asked, registered>> /\ main' = "rolling"
        /\ left' = registered
    BY <1>10 DEF RollbackStart, PoolSame, records
  <2>2. Registers' BY <2>1 DEF RollsBack, Registers
  <2>3. Unsents' /\ Restarts' BY <2>1 DEF Unsents, Restarts, Beside
  <2> QED BY <2>1, <2>2, <2>3 DEF RollsBack, Working, Beside
<1>11. CASE RollbackEnd
  <2>1. /\ plugin' = plugin /\ UNCHANGED <<prog, work, vm, asked, registered, left, lost, unsent>>
        /\ left = {} /\ main \in {"rolling", "handling"} /\ main' \in {"handled", "rolled"}
        /\ main' = "handled" => main = "handling"
    BY <1>11 DEF RollbackEnd, PoolSame, records, cloudvars, outagevars
  <2>2. \A n : Final(n)' = Final(n) BY <2>1 DEF Final
  <2>3. \A w \in DOMAIN work : StopAhead(w)' <=> StopAhead(w) BY <2>1 DEF StopAhead, Steps
  <2>4. Registers' BY <2>1 DEF RollsBack, Registers
  <2>5. Unsents' BY <2>1, <2>3 DEF RollsBack, Unsents, Beside
  <2>6. Restarts' BY <2>1, <2>2 DEF RollsBack, Restarts, Beside
  <2>7. main' \in Working => Switches(prog') BY <2>1 DEF RollsBack, Working, Beside
  <2>8. Switches(prog') => Switches(prog)' BY DEF Switches, SwitchStep, StepT
  <2> QED BY <2>1, <2>4, <2>5, <2>6, <2>7, <2>8 DEF RollsBack
<1>12. CASE Kill
  <2>1. /\ plugin' = plugin /\ UNCHANGED <<prog, work, asked, registered>> /\ main' = "killed"
    BY <1>12 DEF Kill, PoolSame, records, outagevars
  <2> QED BY <2>1, RollsQuiet DEF Beside
<1>15. CASE Signal
  <2>1. /\ plugin' = plugin /\ UNCHANGED <<prog, work, asked, registered>> /\ left' = registered
        /\ \/ /\ main = "work" /\ main' = "handling"
              /\ unsent' = {work[w].node : w \in {v \in DOMAIN work : StopAhead(v)}}
           \/ main' = "rolling"
    BY <1>15 DEF Signal, PoolSame, records
  <2>2. \A w \in DOMAIN work : StopAhead(w)' <=> StopAhead(w) BY <2>1 DEF StopAhead, Steps
  <2>3. Registers' BY <2>1 DEF RollsBack, Registers
  <2>4. Unsents' BY <2>1, <2>2 DEF Unsents, Beside
  <2>5. Restarts' BY <2>1 DEF Restarts
  <2>6. main' \in Working => Switches(prog') BY <2>1 DEF RollsBack, Working, Beside
  <2>7. Switches(prog') => Switches(prog)' BY DEF Switches, SwitchStep, StepT
  <2> QED BY <2>1, <2>3, <2>4, <2>5, <2>6, <2>7 DEF RollsBack
<1>13. ~(AclStart \/ AclSleep \/ AclSleepAgain \/ AclEnd
         \/ \E s \in Subnet : AclBlock(s) \/ AclRestore(s) \/ AclDelete(s))
  BY DEF AclStart, AclSleep, AclSleepAgain, AclEnd, AclBlock, AclRestore, AclDelete, Pc, At
<1>14. SendStop \/ SendStart => RollsBack' BY <1>4 DEF SendStop, SendStart
<1> QED BY <1>2, <1>3, <1>5, <1>6, <1>7, <1>8, <1>9, <1>10, <1>11, <1>12, <1>13, <1>14, <1>15
        DEF OutageStep

LEMMA RollsBackStep == OutTypeOK /\ RollsBack /\ [Next]_vars => RollsBack'
<1> SUFFICES ASSUME OutTypeOK, RollsBack, [Next]_vars PROVE RollsBack' OBVIOUS
<1>0. PoolOK /\ ShutOK BY DEF OutTypeOK
<1>1. ASSUME plugin \notin {"shut_down", "zone"}, plugin' = plugin PROVE RollsBack'
  BY <1>1 DEF RollsBack
<1>2. ASSUME plugin \in {"shut_down", "zone", "acl"}, OutageStep \/ Kill \/ Signal, plugin' = plugin
      PROVE  RollsBack'
  BY <1>1, <1>2, RollsOutage
<1>3. ASSUME NEW w \in DOMAIN work, WorkerStep(w), UNCHANGED <<nodevars, outagevars>>,
             plugin \in {"shut_down", "zone"}
      PROVE  RollsBack'
  <2>1. /\ main \in Working /\ main' \in {main, "exited"}
        /\ asked' \subseteq asked \cup {work[w].node}
    BY <1>0, <1>3, WorkerShape
  <2>2. Switches(prog) BY <1>3, <2>1 DEF RollsBack
  <2>3. /\ UNCHANGED <<plugin, prog>> /\ DOMAIN work' = DOMAIN work
        /\ \A v \in DOMAIN work : /\ work'[v].node = work[v].node
                                  /\ StopAhead(v)' => StopAhead(v)
        /\ \A p \in Place : Final(p)' \in {Final(p), "running"} \/ (p = work[w].node /\ StopAhead(w))
    BY <1>0, <1>3, <2>2, SwitchWorker
  <2>4. UNCHANGED <<registered, left, lost, unsent>> BY <1>3 DEF outagevars
  <2>5. Registers'
    <3>1. main' # "entry" BY <2>1 DEF Working, Beside
    <3>2. main' \in {"send_stop", "send_start", "work", "waiting"} => main = "work"
      BY <2>1 DEF Working, Beside
    <3> QED BY <1>3, <2>1, <2>3, <2>4, <3>1, <3>2 DEF RollsBack, Registers
  <2>6. Unsents'
    <3>1. main' \in Beside => main \in Beside BY <2>1 DEF Beside
    <3> QED BY <1>3, <2>3, <2>4, <3>1 DEF RollsBack, Unsents
  <2>7. Restarts'
    <3> SUFFICES ASSUME main' \in {"rolling", "rolled"} \cup Beside,
                        NEW p \in registered \ (left \cup lost \cup unsent)
                 PROVE  Final(p)' = "running"
      BY <2>4 DEF Restarts
    <3>1. main \in Beside BY <2>1 DEF Working, Beside
    <3>2. Final(p) = "running" BY <1>3, <3>1 DEF RollsBack, Restarts
    <3>3. ~(p = work[w].node /\ StopAhead(w)) BY <1>3, <3>1 DEF RollsBack, Unsents
    <3>4. p \in Place BY <1>0 DEF ShutOK, Place
    <3> QED BY <2>3, <3>2, <3>3, <3>4
  <2>8. Switches(prog)' BY <2>2, <2>3 DEF Switches, SwitchStep, StepT
  <2>9. main' # "rolled" BY <2>1 DEF Working, Beside
  <2> QED BY <2>5, <2>6, <2>7, <2>8, <2>9 DEF RollsBack
<1>4. ASSUME NEW n \in Place, Turns(n), UNCHANGED <<nodevars, outagevars>>,
             plugin \in {"shut_down", "zone"}
      PROVE  RollsBack'
  <2>1. UNCHANGED <<plugin, main, prog, work, asked, registered, left, lost, unsent>>
    BY <1>4, TurnsIs DEF threadvars, records, outagevars
  <2>2. \A p \in Place : Final(p)' = Final(p)
    <3>1. \A p \in Place \ {n} : vm'[p] = vm[p] BY <1>4, TurnsIs
    <3>3. Final(n)' = Final(n) BY <1>4, TurnsIs
    <3> QED BY <3>1, <3>3 DEF Final
  <2>3. registered \subseteq Place BY <1>0 DEF ShutOK, Place
  <2>4. Registers' BY <1>4, <2>1 DEF RollsBack, Registers
  <2>5. \A w \in DOMAIN work : StopAhead(w)' <=> StopAhead(w) BY <2>1 DEF StopAhead, Steps
  <2>6. Unsents' BY <1>4, <2>1, <2>5 DEF RollsBack, Unsents
  <2>7. Restarts' BY <1>4, <2>1, <2>2, <2>3 DEF RollsBack, Restarts
  <2>8. Switches(prog) => Switches(prog)' BY <2>1 DEF Switches, SwitchStep, StepT
  <2> QED BY <1>4, <2>1, <2>4, <2>6, <2>7, <2>8 DEF RollsBack
<1>5. ASSUME UNCHANGED vars, plugin \in {"shut_down", "zone"} PROVE RollsBack'
  <2>1. UNCHANGED <<plugin, main, prog, work, vm, asked, registered, left, lost, unsent>>
    BY <1>5 DEF vars, poolvars, threadvars, records, outagevars, cloudvars
  <2>2. \A p : Final(p)' = Final(p) BY <2>1 DEF Final
  <2>4. Registers' BY <1>5, <2>1 DEF RollsBack, Registers
  <2>5. \A w \in DOMAIN work : StopAhead(w)' <=> StopAhead(w) BY <2>1 DEF StopAhead, Steps
  <2>6. Unsents' BY <1>5, <2>1, <2>5 DEF RollsBack, Unsents
  <2>7. Restarts' BY <1>5, <2>1, <2>2 DEF RollsBack, Restarts
  <2>8. Switches(prog) => Switches(prog)' BY <2>1 DEF Switches, SwitchStep, StepT
  <2> QED BY <1>5, <2>1, <2>4, <2>6, <2>7, <2>8 DEF RollsBack
<1>6. NodesStep \/ OutageStep \/ Kill \/ Signal => plugin' = plugin
  BY DEF NodesStep, NextEntry, Pick, Join, Extend, OutageStep, ShutStart, Register, SendStop,
       SendStart, SendAll, Sent, Waited, WaitOne, RollbackNode, RollbackAt, ZoneStart, ZoneNext, RollbackStart,
       RollbackEnd, AclStart, AclSleep, AclSleepAgain, AclEnd, AclBlock, AclRestore, AclDelete,
       Kill, Signal, Return, PoolSame
<1>7. \A w \in DOMAIN work : WorkerStep(w) => plugin' = plugin BY <1>0, WorkerShape
<1>8. \A n \in Place : Turns(n) => plugin' = plugin BY TurnsIs DEF threadvars
<1>9. UNCHANGED vars => plugin' = plugin BY DEF vars, poolvars, threadvars
<1> QED BY <1>1, <1>2, <1>3, <1>4, <1>5, <1>6, <1>7, <1>8, <1>9, OneStep

(* Every node asked to stop is in the version file.  When the rollback has *)
(* gone through it - after a failure, after a kill, or in the handler of a *)
(* signal beside the workers of the pool - every node in it has been asked *)
(* last to run, except those whose own request failed and those whose      *)
(* worker had still to send the stop when the signal came                  *)
(* (rollback_shutdown_nodes, rollback_gcp_zone_outage, rollback/signal.py).*)
THEOREM RollbackStartsAlways == Spec => []RollbackStarts
<1>1. Init => RollsBack
  BY DEF Init, PoolInit, RollsBack, Registers, Unsents, Restarts, Working, Beside
<1>2. RollsBack => RollbackStarts
  BY DEF RollsBack, Registers, Restarts, RollbackStarts, RolledBack, Beside
<1> QED BY <1>1, <1>2, OutTypeInit, OutTypeStep, RollsBackStep, PTL DEF Spec

=============================================================================
