------------------------ MODULE NetworkModulesProofs ------------------------
(***************************************************************************)
(* Proofs about network_chaos_ng: for any file, any set of targets, any    *)
(* number of rules and processes, and any number of calls that raise.      *)
(***************************************************************************)
EXTENDS DisruptionsSteps

Rule == {"own", "foreign"}
(* Rules are inserted and deleted at the head: those of modules are all in *)
(* front of the others.                                                    *)
Chain == {t \in Seq(Rule) : \A i, j \in DOMAIN t : i < j /\ t[j] = "own" => t[i] = "own"}
(* Of the rules s, and the module's own, those that are left when e more   *)
(* commands to remove than to add have worked.                             *)
Excess(t, s, e) ==
  IF e <= 0 THEN Heads(t, s, 0 - e)
  ELSE IF Blind THEN Behind(t, s, e)
  ELSE NoOwn(s) => t = s
(* The module deletes as many rules as it has inserted. *)
Even == Now = "pod_filter" => pids = 1

States == {"idle", "deploy", "probe", "apply", "clean", "remove", "down", "poll", "done", "undo",
           "undo_pod", "failed", "lost"}

NgEntry == [module : Module, parallel : BOOLEAN, ingress : BOOLEAN]
NgWorker == [pc : States, k : Nat, pod : BOOLEAN, rules : BOOLEAN, was : Seq(Rule),
             void : Nat, stuck : Nat]
NgTypeOK ==
  /\ plan \in Seq(NgEntry) /\ at \in Nat \ {0}
  /\ targets \in Seq(Victim) /\ pids \in Nat /\ mishaps \in Nat
  /\ net \in [Victim -> Chain]
  /\ squad \in [Victim -> NgWorker]
  /\ link \in [Victim -> BOOLEAN] /\ timer \in [Victim -> BOOLEAN] /\ uplink \in BOOLEAN

(* What a module knows about its target, step by step: how many of its     *)
(* rules are in front of the others, or how many of the others are gone.   *)
Target1(v, s) ==
  /\ s.pc \in {"idle", "deploy", "probe", "down", "poll"} =>
       net[v] = s.was /\ s.void = 0 /\ s.stuck = 0
  /\ s.pc = "deploy" => s.rules = FALSE
  /\ s.pc = "probe" => s.rules = FALSE
  /\ s.pc = "apply" =>
       s.k <= Inserts /\ s.void <= s.k /\ s.stuck = 0 /\ Heads(net[v], s.was, s.k - s.void)
  /\ s.pc = "clean" =>
       /\ s.k <= Deletions /\ s.void <= Inserts /\ s.stuck <= s.k
       /\ Excess(net[v], s.was, (s.k - s.stuck) - (Inserts - s.void))
  /\ s.pc \in {"remove", "done"} => (Even => Excess(net[v], s.was, s.void - s.stuck))
  /\ s.pc = "done" => s.pod = FALSE /\ (Now = "interface_down" /\ uplink = TRUE => link[v] = TRUE)

(* _rollback of vmi_chaos, after the one exception: with every command     *)
(* there is one rule less to remove. *)
Naming(s) == Now = "vmi_chaos" /\ ~Blind /\ s.stuck = 0 /\ NoOwn(s.was)
Undone(v, s) ==
  /\ mishaps = 1 /\ Naming(s) =>
       /\ s.pc = "undo" =>
            s.k <= Inserts /\ \E j \in 0..(Inserts - s.k) : Heads(net[v], s.was, j)
       /\ s.pc \in {"undo_pod", "failed"} => net[v] = s.was
  /\ mishaps = 1 /\ Now = "vmi_chaos" /\ s.pc = "failed" => s.pod = FALSE

Wrecked == {"undo", "undo_pod", "failed"}
Course(v, s) ==
  /\ s.pc \in {"down", "poll"} => Now = "interface_down"
  /\ s.pc \in {"apply", "clean"} => Now # "interface_down"
  /\ s.pc \in {"apply", "clean"} /\ Now = "vmi_chaos" => s.rules = TRUE
  /\ s.pc \in {"undo", "undo_pod"} => Now \in Undoing
  /\ s.pc \in Wrecked => mishaps > 0
  /\ s.pc = "lost" => mishaps > 1

WorkersInv ==
  main = "modules" =>
    /\ at \in DOMAIN plan
    /\ \A v \in Victim : (\A i \in DOMAIN targets : targets[i] # v) => squad[v].pc = "idle"
    /\ \A v \in Victim : Target1(v, squad[v]) /\ Undone(v, squad[v]) /\ Course(v, squad[v])

(* Between two entries, and at the end. *)
Calm == {"idle", "done"} \cup (IF mishaps > 1 THEN {"lost"} ELSE {})
EntriesInv ==
  /\ main \in {"entry", "modules", "returned"}
  /\ main = "entry" \/ (main = "returned" /\ rc = 0) => \A v \in Victim : squad[v].pc \in Calm

NgInv == plugin = "network_ng" => NgTypeOK /\ WorkersInv /\ EntriesInv
-----------------------------------------------------------------------------
LEMMA HeadsNone ==
  ASSUME NEW s \in Seq(Rule), NEW t \in Seq(Rule)
  PROVE  Heads(t, s, 0) <=> t = s
<1>1. ASSUME Heads(t, s, 0) PROVE t = s
  <2>1. Len(t) = Len(s) /\ \A i \in 1..Len(t) : t[i] = s[i] BY <1>1 DEF Heads
  <2> QED BY <2>1, SeqEqual
<1>2. Heads(s, s, 0) BY DEF Heads
<1> QED BY <1>1, <1>2

LEMMA HeadsMore ==
  ASSUME NEW s \in Seq(Rule), NEW t \in Seq(Rule), NEW j \in Nat, Heads(t, s, j)
  PROVE  <<"own">> \o t \in Seq(Rule) /\ Heads(<<"own">> \o t, s, j + 1)
<1> DEFINE u == <<"own">> \o t
<1>1. /\ u \in Seq(Rule) /\ Len(u) = 1 + Len(t)
      /\ \A i \in 1..Len(u) : u[i] = IF i = 1 THEN "own" ELSE t[i - 1]
  BY DEF Rule
<1> HIDE DEF u
<1>2. Len(s) \in Nat /\ Len(t) \in Nat OBVIOUS
<1>3. \A i \in 1..Len(u) : u[i] = IF i <= j + 1 THEN "own" ELSE s[i - (j + 1)]
  <2> TAKE i \in 1..Len(u)
  <2>1. CASE i = 1 BY <2>1, <1>1
  <2>2. CASE i # 1
    <3>1. i - 1 \in 1..Len(t) /\ (i - 1) - j = i - (j + 1) BY <2>2, <1>1, <1>2
    <3>2. u[i] = t[i - 1] BY <2>2, <1>1
    <3> QED BY <3>1, <3>2, <1>2 DEF Heads
  <2> QED BY <2>1, <2>2
<1> QED BY <1>1, <1>2, <1>3 DEF Heads, u

LEMMA HeadsTail ==
  ASSUME NEW s \in Seq(Rule), NEW t \in Seq(Rule), NEW j \in Nat, j > 0, Heads(t, s, j)
  PROVE  t # <<>> /\ t[1] = "own" /\ Tail(t) \in Seq(Rule) /\ Heads(Tail(t), s, j - 1)
<1>1. Len(s) \in Nat /\ Len(t) \in Nat /\ Len(t) >= 1 BY DEF Heads
<1>2. t # <<>> /\ t[1] = "own" BY <1>1 DEF Heads
<1>3. /\ Tail(t) \in Seq(Rule) /\ Len(Tail(t)) = Len(t) - 1
      /\ \A i \in 1..Len(Tail(t)) : Tail(t)[i] = t[i + 1]
  BY <1>2, HeadTailProperties
<1>4. \A i \in 1..Len(Tail(t)) : Tail(t)[i] = IF i <= j - 1 THEN "own" ELSE s[i - (j - 1)]
  <2> SUFFICES ASSUME NEW i \in 1..Len(Tail(t))
               PROVE  t[i + 1] = IF i <= j - 1 THEN "own" ELSE s[i - (j - 1)]
    BY <1>3
  <2>1. i + 1 \in 1..Len(t) /\ (i + 1) - j = i - (j - 1) BY <1>1, <1>3
  <2> QED BY <2>1 DEF Heads
<1> QED BY <1>1, <1>2, <1>3, <1>4 DEF Heads

LEMMA RemoveHead ==
  ASSUME NEW t \in Seq(Rule), t # <<>>, t[1] = "own"
  PROVE  RemoveFirst(t, "own") = Tail(t)
<1>1. Len(t) \in Nat /\ 1 \in 1..Len(t) BY EmptySeq
<1> DEFINE I == {i \in 1..Len(t) : t[i] = "own"}
<1>2. 1 \in I /\ \A i \in I : 1 <= i BY <1>1
<1>3. Min(I) \in I /\ \A i \in I : Min(I) <= i BY <1>2 DEF Min
<1>4. Min(I) = 1 BY <1>1, <1>2, <1>3
<1>5. SelectInSeq(t, LAMBDA v : v = "own") = 1 BY <1>2, <1>4 DEF SelectInSeq
<1>6. RemoveFirst(t, "own") = SubSeq(t, 1, 0) \o SubSeq(t, 2, Len(t))
  BY <1>1, <1>5 DEF RemoveFirst, RemoveAt
<1>7. SubSeq(t, 1, 0) = <<>> BY SubSeqEmpty
<1>8. SubSeq(t, 2, Len(t)) = Tail(t)
  <2>1. SubSeq(t, 2, Len(t)) \in Seq(Rule) /\ Len(SubSeq(t, 2, Len(t))) = Len(t) - 1
        /\ \A i \in 1..Len(t) - 1 : SubSeq(t, 2, Len(t))[i] = t[i + 1]
    <3>1. \A i \in 2..Len(t) : t[i] \in Rule BY <1>1
    <3>2. Len(t) - 2 + 1 = Len(t) - 1 /\ \A i \in Nat : 2 + i - 1 = i + 1 BY <1>1
    <3>3. \A n \in Nat : n >= 1 => n - 1 = IF 2 <= n THEN n - 2 + 1 ELSE 0 OBVIOUS
    <3>4. Len(t) >= 1 BY <1>1
    <3> QED BY <1>1, <3>1, <3>2, <3>3, <3>4, SubSeqProperties
  <2>2. Tail(t) \in Seq(Rule) /\ Len(Tail(t)) = Len(t) - 1
        /\ \A i \in 1..Len(t) - 1 : Tail(t)[i] = t[i + 1]
    BY HeadTailProperties
  <2> QED BY <1>1, <2>1, <2>2, SeqEqual
<1>9. Tail(t) \in Seq(Rule) BY HeadTailProperties
<1> QED BY <1>6, <1>7, <1>8, <1>9, ConcatEmptySeq

LEMMA ChainKept ==
  ASSUME NEW t \in Chain
  PROVE  /\ t \in Seq(Rule) /\ <<"own">> \o t \in Chain
         /\ t # <<>> => Tail(t) \in Chain
         /\ NoOwn(t) \/ (t # <<>> /\ t[1] = "own")
<1>1. t \in Seq(Rule) /\ Len(t) \in Nat /\ DOMAIN t = 1..Len(t) BY DEF Chain
<1>2. <<"own">> \o t \in Chain
  <2> DEFINE u == <<"own">> \o t
  <2>1. /\ u \in Seq(Rule) /\ Len(u) = 1 + Len(t)
        /\ \A i \in 1..Len(u) : u[i] = IF i = 1 THEN "own" ELSE t[i - 1]
    BY <1>1 DEF Rule
  <2> HIDE DEF u
  <2>2. ASSUME NEW i \in 1..Len(u), NEW j \in 1..Len(u), i < j, u[j] = "own" PROVE u[i] = "own"
    <3>1. j - 1 \in 1..Len(t) /\ t[j - 1] = "own" BY <1>1, <2>1, <2>2
    <3>2. CASE i = 1 BY <2>1, <3>2
    <3>3. CASE i # 1
      <4>1. i - 1 \in 1..Len(t) /\ i - 1 < j - 1 BY <1>1, <2>1, <2>2, <3>3
      <4>2. t[i - 1] = "own" BY <1>1, <3>1, <4>1 DEF Chain
      <4> QED BY <2>1, <3>3, <4>2
    <3> QED BY <3>2, <3>3
  <2>3. DOMAIN u = 1..Len(u) BY <2>1
  <2> QED BY <2>1, <2>2, <2>3 DEF Chain, u
<1>3. ASSUME t # <<>> PROVE Tail(t) \in Chain
  <2> DEFINE u == Tail(t)
  <2>1. /\ u \in Seq(Rule) /\ Len(u) = Len(t) - 1
        /\ \A i \in 1..Len(u) : u[i] = t[i + 1]
    BY <1>1, <1>3, HeadTailProperties
  <2> HIDE DEF u
  <2>2. ASSUME NEW i \in 1..Len(u), NEW j \in 1..Len(u), i < j, u[j] = "own" PROVE u[i] = "own"
    <3>1. /\ i + 1 \in 1..Len(t) /\ j + 1 \in 1..Len(t) /\ i + 1 < j + 1
          /\ t[j + 1] = "own" /\ u[i] = t[i + 1]
      BY <1>1, <2>1, <2>2
    <3> QED BY <1>1, <3>1 DEF Chain
  <2>3. DOMAIN u = 1..Len(u) BY <2>1
  <2> QED BY <2>1, <2>2, <2>3 DEF Chain, u
<1>4. ASSUME ~NoOwn(t) PROVE t # <<>> /\ t[1] = "own"
  <2>1. PICK i \in 1..Len(t) : t[i] = "own" BY <1>1, <1>4 DEF NoOwn
  <2>2. 1 \in 1..Len(t) BY <1>1, <2>1
  <2>3. t[1] = "own"
    <3>1. CASE i = 1 BY <2>1, <3>1
    <3>2. CASE i # 1 BY <1>1, <2>1, <2>2, <3>2 DEF Chain
    <3> QED BY <3>1, <3>2
  <2> QED BY <1>1, <2>2, <2>3, EmptySeq
<1> QED BY <1>1, <1>2, <1>3, <1>4

(* What iptables -D and tc del leave of the rules of a target. *)
LEMMA DeletedIs ==
  ASSUME NEW t \in Chain
  PROVE  /\ t # <<>> /\ t[1] = "own" => Deleted(t) = Tail(t)
         /\ Deleted(t) \in Chain
         /\ Blind => Deleted(t) = IF t = <<>> THEN t ELSE Tail(t)
         /\ NoOwn(t) /\ ~Blind => Deleted(t) = t
<1>1. t \in Seq(Rule) /\ (t # <<>> => Tail(t) \in Chain) /\ (NoOwn(t) \/ (t # <<>> /\ t[1] = "own"))
  BY ChainKept
<1>2. DOMAIN t = 1..Len(t) BY <1>1
<1>3. CASE Blind BY <1>1, <1>3 DEF Deleted
<1>4. CASE ~Blind
  <2>1. Deleted(t) = RemoveFirst(t, "own") BY <1>4 DEF Deleted
  <2>2. CASE NoOwn(t)
    <3>1. RemoveFirst(t, "own") = t BY <1>2, <2>2 DEF RemoveFirst, NoOwn
    <3>2. t = <<>> \/ t[1] # "own" BY <2>2, <1>1, <1>2, EmptySeq DEF NoOwn
    <3> QED BY <1>4, <2>1, <2>2, <3>1, <3>2
  <2>3. CASE ~NoOwn(t) BY <1>1, <1>4, <2>1, <2>3, RemoveHead
  <2> QED BY <2>2, <2>3
<1> QED BY <1>3, <1>4

(* One deletion with j rules of the module in front. *)
LEMMA OneLess ==
  ASSUME NEW t \in Chain, NEW s \in Seq(Rule), NEW j \in Nat, j > 0, Heads(t, s, j)
  PROVE  Heads(Deleted(t), s, j - 1)
<1>1. t \in Seq(Rule) BY DEF Chain
<1>2. t # <<>> /\ t[1] = "own" /\ Heads(Tail(t), s, j - 1) BY <1>1, HeadsTail
<1>3. Deleted(t) = Tail(t) BY <1>2, DeletedIs
<1> QED BY <1>2, <1>3

(* One deletion when e rules of others are gone. *)
LEMMA OneMoreBehind ==
  ASSUME NEW t \in Seq(Rule), NEW s \in Seq(Rule), NEW e \in Nat, Behind(t, s, e)
  PROVE  Behind(IF t = <<>> THEN t ELSE Tail(t), s, e + 1)
<1>1. Len(t) \in Nat /\ Len(s) \in Nat OBVIOUS
<1>2. CASE t = <<>> BY <1>1, <1>2 DEF Behind
<1>3. CASE t # <<>>
  <2>1. /\ Len(Tail(t)) = Len(t) - 1 /\ Len(t) > 0
        /\ \A i \in 1..Len(Tail(t)) : Tail(t)[i] = t[i + 1]
    BY <1>3, HeadTailProperties, EmptySeq
  <2>2. Len(Tail(t)) + (e + 1) >= Len(s) BY <1>1, <2>1 DEF Behind
  <2>3. ASSUME NEW i \in 1..Len(Tail(t)) PROVE Tail(t)[i] = s[i + (e + 1)]
    <3>1. i + 1 \in 1..Len(t) /\ (i + 1) + e = i + (e + 1) BY <1>1, <2>1
    <3> QED BY <2>1, <3>1 DEF Behind
  <2> QED BY <1>3, <2>2, <2>3 DEF Behind
<1> QED BY <1>2, <1>3

(* A deletion that works raises the excess by one. *)
LEMMA ExcessMore ==
  ASSUME NEW t \in Chain, NEW s \in Seq(Rule), NEW e \in Int, Excess(t, s, e)
  PROVE  Excess(Deleted(t), s, e + 1)
<1>1. t \in Seq(Rule) /\ Deleted(t) \in Chain /\ Deleted(t) \in Seq(Rule) BY DeletedIs DEF Chain
<1>2. CASE e < 0
  <2>1. 0 - e \in Nat /\ 0 - e > 0 /\ (0 - e) - 1 = 0 - (e + 1) /\ e + 1 <= 0 /\ e <= 0 BY <1>2
  <2>2. Heads(t, s, 0 - e) BY <2>1 DEF Excess
  <2>3. Heads(Deleted(t), s, 0 - (e + 1)) BY <2>1, <2>2, OneLess
  <2> QED BY <2>1, <2>3 DEF Excess
<1>3. CASE e = 0
  <2>1. t = s BY <1>1, <1>3, HeadsNone DEF Excess
  <2>2. ~(e + 1 <= 0) /\ e + 1 = 1 /\ 0 + 1 = 1 /\ 0 \in Nat BY <1>3
  <2>3. CASE Blind
    <3>1. Behind(t, s, 0) BY <1>1, <2>1 DEF Behind
    <3>2. Behind(Deleted(t), s, 1) BY <1>1, <2>2, <2>3, <3>1, OneMoreBehind, DeletedIs
    <3> QED BY <2>2, <2>3, <3>2 DEF Excess
  <2>4. CASE ~Blind BY <2>1, <2>2, <2>4, DeletedIs DEF Excess
  <2> QED BY <2>3, <2>4
<1>4. CASE e > 0
  <2>1. e \in Nat /\ ~(e <= 0) /\ ~(e + 1 <= 0) BY <1>4
  <2>2. CASE Blind
    <3>1. Behind(t, s, e) BY <2>1, <2>2 DEF Excess
    <3>2. Behind(Deleted(t), s, e + 1) BY <1>1, <2>1, <2>2, <3>1, OneMoreBehind, DeletedIs
    <3> QED BY <2>1, <2>2, <3>2 DEF Excess
  <2>3. CASE ~Blind
    <3>1. NoOwn(s) => t = s BY <2>1, <2>3 DEF Excess
    <3>2. NoOwn(s) => Deleted(t) = s BY <2>3, <3>1, DeletedIs
    <3> QED BY <2>1, <2>3, <3>2 DEF Excess
  <2> QED BY <2>2, <2>3
<1> QED BY <1>2, <1>3, <1>4

(* The module names its rules, and never removes more than are there. *)
LEMMA ExcessNamed ==
  ASSUME NEW t \in Seq(Rule), NEW s \in Seq(Rule), NEW e \in Int, Excess(t, s, e), ~Blind, NoOwn(s)
  PROVE  /\ e >= 0 => t = s
         /\ \A n \in Nat : 0 - e <= n => \E j \in 0..n : Heads(t, s, j)
<1>1. CASE e <= 0
  <2>1. 0 - e \in Nat /\ Heads(t, s, 0 - e) BY <1>1 DEF Excess
  <2>2. e >= 0 => t = s BY <1>1, <2>1, HeadsNone
  <2>3. ASSUME NEW n \in Nat, 0 - e <= n PROVE \E j \in 0..n : Heads(t, s, j)
    <3>1. 0 - e \in 0..n BY <2>1, <2>3
    <3> QED BY <2>1, <3>1
  <2> QED BY <2>2, <2>3
<1>2. CASE e > 0
  <2>1. ~(e <= 0) BY <1>2
  <2>2. t = s BY <2>1 DEF Excess
  <2>3. Heads(t, s, 0) /\ \A n \in Nat : 0 \in 0..n BY <2>2, HeadsNone
  <2> QED BY <2>2, <2>3
<1> QED BY <1>1, <1>2

(* g is squad after a step of the module on v.                              *)
Turned(v, g, pc, k, pod, rules) ==
  /\ g \in [Victim -> NgWorker] /\ \A u \in Victim \ {v} : g[u] = squad[u]
  /\ g[v].pc = pc /\ g[v].k = k /\ g[v].pod = pod /\ g[v].rules = rules
  /\ g[v].was = squad[v].was

(* g says of the commands of the module on v that did nothing what squad   *)
(* says.                                                                   *)
Counted(v, g) == g[v].void = squad[v].void /\ g[v].stuck = squad[v].stuck

LEMMA ToIs ==
  ASSUME NgTypeOK, NEW v \in Victim, NEW pc \in States, NEW b \in BOOLEAN
  PROVE  /\ Turned(v, To(v, pc), pc, 0, squad[v].pod, squad[v].rules) /\ Counted(v, To(v, pc))
         /\ Turned(v, [To(v, pc) EXCEPT ![v].pod = b], pc, 0, b, squad[v].rules)
         /\ Counted(v, [To(v, pc) EXCEPT ![v].pod = b])
         /\ Turned(v, [To(v, pc) EXCEPT ![v].rules = b], pc, 0, squad[v].pod, b)
         /\ Counted(v, [To(v, pc) EXCEPT ![v].rules = b])
         /\ Turned(v, Count(v), squad[v].pc, squad[v].k + 1, squad[v].pod, squad[v].rules)
         /\ Counted(v, Count(v))
<1> USE DEF NgTypeOK, NgWorker, Turned, Counted
<1>1. Turned(v, To(v, pc), pc, 0, squad[v].pod, squad[v].rules) /\ Counted(v, To(v, pc)) BY DEF To
<1>2. /\ Turned(v, [To(v, pc) EXCEPT ![v].pod = b], pc, 0, b, squad[v].rules)
      /\ Counted(v, [To(v, pc) EXCEPT ![v].pod = b])
  BY DEF To
<1>3. /\ Turned(v, [To(v, pc) EXCEPT ![v].rules = b], pc, 0, squad[v].pod, b)
      /\ Counted(v, [To(v, pc) EXCEPT ![v].rules = b])
  BY DEF To
<1>4. /\ Turned(v, Count(v), squad[v].pc, squad[v].k + 1, squad[v].pod, squad[v].rules)
      /\ Counted(v, Count(v))
  <2>1. squad[v] \in NgWorker /\ squad[v].k \in Nat OBVIOUS
  <2>2. ASSUME NEW n \in Nat
        PROVE  /\ Turned(v, [squad EXCEPT ![v].k = n], squad[v].pc, n, squad[v].pod, squad[v].rules)
               /\ Counted(v, [squad EXCEPT ![v].k = n])
    OBVIOUS
  <2>3. Count(v) = [squad EXCEPT ![v].k = squad[v].k + 1] BY DEF Count
  <2>4. squad[v].k + 1 \in Nat BY <2>1
  <2> HIDE DEF Turned, Counted
  <2> QED BY <2>2, <2>3, <2>4
<1> QED BY <1>1, <1>2, <1>3, <1>4

LEMMA DudIs ==
  ASSUME NgTypeOK, NEW v \in Victim
  PROVE  /\ LET g == [Count(v) EXCEPT ![v].void = squad[v].void + 1]
            IN  /\ Turned(v, g, squad[v].pc, squad[v].k + 1, squad[v].pod, squad[v].rules)
                /\ g[v].void = squad[v].void + 1 /\ g[v].stuck = squad[v].stuck
         /\ LET g == [Count(v) EXCEPT ![v].stuck = squad[v].stuck + 1]
            IN  /\ Turned(v, g, squad[v].pc, squad[v].k + 1, squad[v].pod, squad[v].rules)
                /\ g[v].void = squad[v].void /\ g[v].stuck = squad[v].stuck + 1
<1> DEFINE p == Count(v)
<1>1. squad[v] \in NgWorker /\ squad[v].pc \in States /\ FALSE \in BOOLEAN BY DEF NgTypeOK, NgWorker
<1>2. Turned(v, p, squad[v].pc, squad[v].k + 1, squad[v].pod, squad[v].rules) /\ Counted(v, p)
  BY <1>1, ToIs
<1>3. squad[v].void + 1 \in Nat /\ squad[v].stuck + 1 \in Nat BY <1>1 DEF NgWorker
<1> HIDE DEF p
<1>4. ASSUME NEW n \in Nat
      PROVE  /\ Turned(v, [p EXCEPT ![v].void = n], squad[v].pc, squad[v].k + 1, squad[v].pod,
                       squad[v].rules)
             /\ [p EXCEPT ![v].void = n][v].void = n
             /\ [p EXCEPT ![v].void = n][v].stuck = squad[v].stuck
  BY <1>2 DEF Turned, Counted, NgWorker
<1>5. ASSUME NEW n \in Nat
      PROVE  /\ Turned(v, [p EXCEPT ![v].stuck = n], squad[v].pc, squad[v].k + 1, squad[v].pod,
                       squad[v].rules)
             /\ [p EXCEPT ![v].stuck = n][v].stuck = n
             /\ [p EXCEPT ![v].stuck = n][v].void = squad[v].void
  BY <1>2 DEF Turned, Counted, NgWorker
<1> QED BY <1>3, <1>4, <1>5 DEF p

LEMMA Sums ==
  ASSUME NEW a \in Nat, NEW b \in Nat, NEW c \in Nat, NEW d \in Nat
  PROVE  /\ (a - b) + 1 = (a + 1) - b /\ a - b = (a + 1) - (b + 1)
         /\ ((a - b) - (c - d)) + 1 = ((a + 1) - b) - (c - d)
         /\ (a - b) - (c - d) = ((a + 1) - (b + 1)) - (c - d)
OBVIOUS

(* The entry being run is one of the file. *)
LEMMA NowIs ==
  ASSUME NgTypeOK, at \in DOMAIN plan
  PROVE  Now \in Module /\ Inserts \in Nat /\ Deletions \in Nat /\ Inserts <= Deletions
         /\ (Even => Deletions = Inserts) /\ (Now \notin Filters => Deletions = Inserts)
<1>1. Now \in Module
  <2>1. plan[at] \in NgEntry BY DEF NgTypeOK
  <2> QED BY <2>1 DEF Now, NgEntry
<1>2. Own \in Nat BY ModulesAssumption DEF ModulesAssumption
<1>3. Own * pids \in Nat BY <1>2 DEF NgTypeOK
<1>4. Inserts \in Nat BY <1>2, <1>3 DEF Inserts
<1>5. CASE Now = "pod_filter"
  <2>1. Inserts = Own * pids /\ Deletions = (Own * pids) * pids BY <1>5 DEF Inserts, Deletions
  <2>2. \A a, p \in Nat : a * p \in Nat /\ (p = 0 => a * p = 0) /\ (p > 0 => a <= a * p)
    OBVIOUS
  <2>3. (Own * pids) * pids \in Nat /\ Own * pids <= (Own * pids) * pids
    <3>1. CASE pids = 0 BY <3>1, <1>2
    <3>2. CASE pids > 0 BY <3>2, <1>3, <2>2 DEF NgTypeOK
    <3> QED BY <3>1, <3>2 DEF NgTypeOK
  <2>4. pids = 1 => (Own * pids) * pids = Own * pids BY <1>2
  <2> QED BY <1>1, <1>3, <1>4, <1>5, <2>1, <2>3, <2>4 DEF Even, Filters
<1>6. CASE Now # "pod_filter" BY <1>1, <1>4, <1>6 DEF Deletions
<1> QED BY <1>5, <1>6
(* A step of one module leaves what the others know as it was; when it     *)
(* meets the first exception, no other is in its _rollback.                *)
LEMMA WorkerFrame ==
  ASSUME NgTypeOK, WorkersInv, EntriesInv, main = "modules",
         UNCHANGED <<threadvars, plan, at, targets, pids, uplink>>,
         NEW v \in Victim, squad[v].pc # "idle",
         \A u \in Victim \ {v} : squad'[u] = squad[u] /\ net'[u] = net[u] /\ link'[u] = link[u],
         squad'[v].was = squad[v].was, squad'[v].pc # "idle",
         mishaps' \in {mishaps, mishaps + 1},
         Target1(v, squad[v])', Undone(v, squad[v])', Course(v, squad[v])'
  PROVE  WorkersInv' /\ EntriesInv'
<1>0. /\ Now' = Now /\ Inserts' = Inserts /\ Deletions' = Deletions /\ (Even <=> Even')
      /\ (Blind <=> Blind') /\ main' = "modules" /\ at' \in DOMAIN plan' /\ mishaps \in Nat
  BY DEF Now, Inserts, Deletions, Even, Blind, WorkersInv, threadvars, NgTypeOK
<1>1. ASSUME NEW u \in Victim \ {v}
      PROVE  Target1(u, squad[u])' /\ Undone(u, squad[u])' /\ Course(u, squad[u])'
  <2>1. squad'[u] = squad[u] /\ net'[u] = net[u] /\ link'[u] = link[u] OBVIOUS
  <2>2. Target1(u, squad[u]) /\ Undone(u, squad[u]) /\ Course(u, squad[u]) BY DEF WorkersInv
  <2>3. Target1(u, squad[u])' BY <1>0, <2>1, <2>2 DEF Target1, Excess
  <2>m. mishaps' \in Nat /\ mishaps <= mishaps' /\ mishaps' <= mishaps + 1 BY <1>0
  <2>4. Course(u, squad[u])' BY <1>0, <2>1, <2>2, <2>m DEF Course, Wrecked, Undoing
  <2>5. Undone(u, squad[u])'
    <3>1. CASE mishaps = 0
      BY <1>0, <2>1, <2>2, <3>1 DEF Course, Undone, Wrecked, Undoing
    <3>2. CASE mishaps # 0
      BY <1>0, <2>1, <2>2, <3>2 DEF Undone, Naming
    <3> QED BY <3>1, <3>2
  <2> QED BY <2>3, <2>4, <2>5
<1>2. \A u \in Victim : Target1(u, squad[u])' /\ Undone(u, squad[u])' /\ Course(u, squad[u])'
  BY <1>1
<1>3. ASSUME NEW u \in Victim, \A i \in DOMAIN targets' : targets'[i] # u
      PROVE  squad'[u].pc = "idle"
  BY <1>3 DEF WorkersInv
<1>6. WorkersInv' BY <1>0, <1>2, <1>3 DEF WorkersInv
<1>7. EntriesInv' BY <1>0 DEF EntriesInv
<1> QED BY <1>6, <1>7
(* A step of the module on v that leaves it at pc, with what it says of    *)
(* the others and of the calls that raised.                                *)
Moves(v, pc, k, pod, rules) ==
  /\ main = "modules" /\ UNCHANGED <<threadvars, plan, at, targets, pids, uplink>>
  /\ squad[v].pc # "idle" /\ pc \in States \ {"idle"}
  /\ k \in Nat /\ pod \in BOOLEAN /\ rules \in BOOLEAN
  /\ Turned(v, squad', pc, k, pod, rules)
  /\ net' \in [Victim -> Chain] /\ \A u \in Victim \ {v} : net'[u] = net[u]
  /\ link' \in [Victim -> BOOLEAN] /\ \A u \in Victim \ {v} : link'[u] = link[u]
  /\ timer' \in [Victim -> BOOLEAN]
  /\ mishaps' \in {mishaps, mishaps + 1}
  /\ Target1(v, squad[v])' /\ Undone(v, squad[v])' /\ Course(v, squad[v])'

LEMMA WorkerMoves ==
  ASSUME NgTypeOK, WorkersInv, EntriesInv, NEW v \in Victim,
         NEW pc, NEW k, NEW pod, NEW rules, Moves(v, pc, k, pod, rules)
  PROVE  NgTypeOK' /\ WorkersInv' /\ EntriesInv'
<1>1. mishaps \in Nat /\ mishaps' \in Nat /\ mishaps' \in {mishaps, mishaps + 1}
  BY DEF NgTypeOK, Moves
<1>2. NgTypeOK' BY <1>1 DEF NgTypeOK, Turned, Moves
<1>3. /\ squad'[v].was = squad[v].was /\ squad'[v].pc = pc
      /\ \A u \in Victim \ {v} : squad'[u] = squad[u]
  BY DEF Turned, Moves
<1>5. WorkersInv' /\ EntriesInv' BY <1>1, <1>3, WorkerFrame DEF Moves
<1> QED BY <1>2, <1>5

(* What holds when the module on v makes a step, and what it may leave to  *)
(* the lemmas above: v has a module, and knows what the invariant says.    *)
LEMMA WorkerKnows ==
  ASSUME NgTypeOK, WorkersInv, main = "modules", NEW v \in Victim
  PROVE  /\ Target1(v, squad[v]) /\ Undone(v, squad[v]) /\ Course(v, squad[v])
         /\ squad[v] \in NgWorker /\ net[v] \in Chain /\ net[v] \in Seq(Rule) /\ mishaps \in Nat
         /\ Now \in Module /\ Inserts \in Nat /\ Deletions \in Nat /\ Inserts <= Deletions
         /\ (Even => Deletions = Inserts) /\ (Now \notin Filters => Deletions = Inserts)
<1>1. squad[v] \in NgWorker /\ net[v] \in Chain /\ net[v] \in Seq(Rule) BY DEF NgTypeOK, Chain
<1> QED BY <1>1, NowIs DEF WorkersInv, NgTypeOK

LEMMA CaughtIs ==
  ASSUME NEW v \in Victim, NgTypeOK
  PROVE  /\ Caught(v) \in {"failed", "undo", "undo_pod"}
         /\ Now \notin Undoing => Caught(v) = "failed"
         /\ Now \in Undoing => Caught(v) = IF squad[v].rules = TRUE THEN "undo" ELSE "undo_pod"
<1>1. squad[v].rules \in BOOLEAN BY DEF NgTypeOK, NgWorker
<1> QED BY <1>1 DEF Caught

LEMMA DeployKept ==
  ASSUME NgTypeOK, WorkersInv, EntriesInv, NEW v \in Victim, Deploy(v)
  PROVE  NgTypeOK' /\ WorkersInv' /\ EntriesInv'
<1>1. /\ main = "modules" /\ squad[v].pc = "deploy"
      /\ UNCHANGED <<threadvars, plan, at, targets, pids, uplink>> /\ UNCHANGED <<net, link, timer>>
  BY DEF Deploy, In, At, Same, targetvars
<1>k. /\ squad[v].rules = FALSE /\ net[v] = squad[v].was
      /\ squad[v].void = 0 /\ squad[v].stuck = 0
  BY <1>1, WorkerKnows DEF Target1
<1>n. Now' = Now BY <1>1 DEF Now
<1>t. net' \in [Victim -> Chain] /\ link' \in [Victim -> BOOLEAN] /\ timer' \in [Victim -> BOOLEAN]
  BY <1>1 DEF NgTypeOK
<1>2. CASE squad' = [To(v, "probe") EXCEPT ![v].pod = TRUE] /\ mishaps' = mishaps
  <2>1. Turned(v, squad', "probe", 0, TRUE, FALSE) /\ Counted(v, squad')
    BY <1>2, <1>k, ToIs DEF States
  <2>2. Target1(v, squad[v])' /\ Undone(v, squad[v])' /\ Course(v, squad[v])'
    BY <1>1, <1>k, <2>1 DEF Target1, Undone, Course, Turned, Counted, Wrecked, Undoing
  <2>3. "probe" \in States \ {"idle"} /\ squad[v].pc \notin Wrecked BY <1>1 DEF States, Wrecked
  <2>m. Moves(v, "probe", 0, TRUE, FALSE) BY <1>1, <1>2, <1>t, <2>1, <2>2, <2>3 DEF Moves
  <2> QED BY <2>m, WorkerMoves
<1>3. ASSUME Raised, NEW made1 \in BOOLEAN, squad' = [To(v, Caught(v)) EXCEPT ![v].pod = made1]
      PROVE  NgTypeOK' /\ WorkersInv' /\ EntriesInv'
  <2>1. Turned(v, squad', Caught(v), 0, made1, FALSE) BY <1>3, <1>k, ToIs, CaughtIs DEF States
  <2>2. mishaps' = mishaps + 1 /\ mishaps \in Nat BY <1>3 DEF Raised, NgTypeOK
  <2>3. /\ Caught(v) \in {"failed", "undo_pod"}
        /\ Now \notin Undoing => Caught(v) = "failed"
        /\ Now \in Undoing => Caught(v) = "undo_pod"
    BY <1>k, CaughtIs
  <2>4. Target1(v, squad[v])' /\ Undone(v, squad[v])' /\ Course(v, squad[v])'
    BY <1>1, <1>n, <1>k, <2>1, <2>2, <2>3 DEF Target1, Undone, Course, Turned, Wrecked, Undoing
  <2>5. Caught(v) \in States \ {"idle"} /\ Caught(v) \in Wrecked BY <2>3 DEF States, Wrecked
  <2>m. Moves(v, Caught(v), 0, made1, FALSE) BY <1>1, <1>t, <2>1, <2>2, <2>4, <2>5 DEF Moves
  <2> QED BY <2>m, WorkerMoves
<1> QED BY <1>2, <1>3 DEF Deploy
LEMMA ExamineKept ==
  ASSUME NgTypeOK, WorkersInv, EntriesInv, NEW v \in Victim, Examine(v)
  PROVE  NgTypeOK' /\ WorkersInv' /\ EntriesInv'
<1>1. /\ main = "modules" /\ squad[v].pc = "probe"
      /\ UNCHANGED <<threadvars, plan, at, targets, pids, uplink>> /\ UNCHANGED <<net, link, timer>>
  BY DEF Examine, In, At, Same, targetvars
<1>k. /\ squad[v].rules = FALSE /\ net[v] = squad[v].was
      /\ squad[v].void = 0 /\ squad[v].stuck = 0
  BY <1>1, WorkerKnows DEF Target1
<1>n. Now' = Now /\ Inserts' = Inserts /\ (Blind' <=> Blind) BY <1>1 DEF Now, Inserts, Blind
<1>t. /\ net' \in [Victim -> Chain] /\ link' \in [Victim -> BOOLEAN]
      /\ timer' \in [Victim -> BOOLEAN] /\ squad[v].pod \in BOOLEAN /\ squad[v].was \in Seq(Rule)
  BY <1>1 DEF NgTypeOK, NgWorker
<1>w. squad[v].pc \notin Wrecked BY <1>1 DEF Wrecked
<1>2. CASE /\ squad' = [To(v, IF Now = "interface_down" THEN "down" ELSE "apply")
                         EXCEPT ![v].rules = (Now = "vmi_chaos")]
           /\ mishaps' = mishaps
  <2> DEFINE pc == IF Now = "interface_down" THEN "down" ELSE "apply"
             b == Now = "vmi_chaos"
  <2>1. pc \in States \ {"idle"} /\ b \in BOOLEAN BY DEF States
  <2>2. Turned(v, squad', pc, 0, squad[v].pod, b) /\ Counted(v, squad')
    BY <1>2, <2>1, ToIs
  <2>3. Heads(net[v], squad[v].was, 0 - 0)
    <3>1. Heads(net[v], squad[v].was, 0) BY <1>k, <1>t, HeadsNone
    <3> QED BY <3>1
  <2>4. \/ pc = "down" /\ Now = "interface_down"
        \/ pc = "apply" /\ Now # "interface_down"
    OBVIOUS
  <2>5. b = TRUE <=> Now = "vmi_chaos" OBVIOUS
  <2> HIDE DEF pc, b
  <2>6. /\ squad'[v].pc = pc /\ squad'[v].k = 0 /\ squad'[v].rules = b
        /\ squad'[v].was = squad[v].was
        /\ squad'[v].void = 0 /\ squad'[v].stuck = 0
    BY <1>k, <2>2 DEF Turned, Counted
  <2>7. Inserts \in Nat /\ 0 <= Inserts BY <1>1, WorkerKnows
  <2>8. Target1(v, squad[v])'
    BY <1>1, <1>k, <1>n, <2>3, <2>4, <2>6, <2>7 DEF Target1
  <2>9. Undone(v, squad[v])' BY <2>4, <2>6 DEF Undone
  <2>10. Course(v, squad[v])' BY <1>n, <2>4, <2>5, <2>6 DEF Course, Wrecked, Undoing
  <2>11. 0 \in Nat /\ squad[v].pc # "idle" BY <1>1
  <2>12. mishaps' = mishaps BY <1>2
  <2>m. Moves(v, pc, 0, squad[v].pod, b) BY <1>1, <2>12, <1>t, <1>w, <2>1, <2>2, <2>8, <2>9, <2>10, <2>11 DEF Moves
  <2> QED BY <2>m, WorkerMoves
<1>3. CASE squad' = To(v, "remove") /\ mishaps' = mishaps
  <2>1. Turned(v, squad', "remove", 0, squad[v].pod, FALSE) /\ Counted(v, squad')
    BY <1>3, <1>k, ToIs DEF States
  <2>e. Excess(net[v], squad[v].was, 0 - 0)
    <3>1. Heads(net[v], squad[v].was, 0) /\ 0 - 0 = 0 /\ 0 <= 0 BY <1>k, <1>t, HeadsNone
    <3> QED BY <3>1 DEF Excess
  <2>2. Target1(v, squad[v])' /\ Undone(v, squad[v])' /\ Course(v, squad[v])'
    BY <1>1, <1>k, <1>n, <2>1, <2>e
    DEF Target1, Undone, Course, Turned, Counted, Excess, Wrecked, Undoing
  <2>3. "remove" \in States \ {"idle"} /\ 0 \in Nat /\ FALSE \in BOOLEAN /\ squad[v].pc # "idle"
    BY <1>1 DEF States
  <2>m. Moves(v, "remove", 0, squad[v].pod, FALSE) BY <1>1, <1>3, <1>t, <1>w, <2>1, <2>2, <2>3 DEF Moves
  <2> QED BY <2>m, WorkerMoves
<1>4. CASE Raised /\ squad' = To(v, Caught(v))
  <2>1. Turned(v, squad', Caught(v), 0, squad[v].pod, FALSE)
    BY <1>4, <1>k, ToIs, CaughtIs DEF States
  <2>2. mishaps' = mishaps + 1 /\ mishaps \in Nat BY <1>4 DEF Raised, NgTypeOK
  <2>3. /\ Caught(v) \in {"failed", "undo_pod"}
        /\ Now \notin Undoing => Caught(v) = "failed"
        /\ Now \in Undoing => Caught(v) = "undo_pod"
    BY <1>k, CaughtIs
  <2>4. Target1(v, squad[v])' /\ Course(v, squad[v])'
    BY <1>1, <1>n, <1>k, <2>1, <2>2, <2>3 DEF Target1, Course, Turned, Wrecked, Undoing
  <2>5. Undone(v, squad[v])'
    BY <1>1, <1>n, <1>k, <2>1, <2>2, <2>3 DEF Undone, Turned, Undoing
  <2>6. Caught(v) \in States \ {"idle"} /\ Caught(v) \in Wrecked BY <2>3 DEF States, Wrecked
  <2>m. Moves(v, Caught(v), 0, squad[v].pod, FALSE) BY <1>1, <1>t, <2>1, <2>2, <2>4, <2>5, <2>6 DEF Moves
  <2> QED BY <2>m, WorkerMoves
<1> QED BY <1>2, <1>3, <1>4 DEF Examine

LEMMA ApplyKept ==
  ASSUME NgTypeOK, WorkersInv, EntriesInv, NEW v \in Victim, Apply(v)
  PROVE  NgTypeOK' /\ WorkersInv' /\ EntriesInv'
<1> DEFINE s == squad[v]
           longer == [net EXCEPT ![v] = <<"own">> \o @]
<1>1. /\ main = "modules" /\ s.pc = "apply"
      /\ UNCHANGED <<threadvars, plan, at, targets, pids, uplink>> /\ UNCHANGED <<link, timer>>
  BY DEF Apply, In, At, Same
<1>k. /\ s.k <= Inserts /\ s.void <= s.k /\ s.stuck = 0 /\ Heads(net[v], s.was, s.k - s.void)
      /\ Now # "interface_down" /\ (Now = "vmi_chaos" => s.rules = TRUE)
      /\ Inserts \in Nat /\ Inserts <= Deletions /\ Deletions \in Nat
  BY <1>1, WorkerKnows DEF Target1, Course
<1>n. Now' = Now /\ Inserts' = Inserts /\ Deletions' = Deletions /\ (Blind' <=> Blind)
  BY <1>1 DEF Now, Inserts, Deletions, Blind
<1>t. /\ link' \in [Victim -> BOOLEAN] /\ timer' \in [Victim -> BOOLEAN] /\ s.pod \in BOOLEAN
      /\ s.rules \in BOOLEAN /\ s.was \in Seq(Rule) /\ s.k \in Nat /\ net[v] \in Seq(Rule)
      /\ net[v] \in Chain /\ s.void \in Nat
  BY <1>1 DEF NgTypeOK, NgWorker, Chain
<1>w. s.pc \notin Wrecked BY <1>1 DEF Wrecked
<1>m. /\ longer \in [Victim -> Chain] /\ \A u \in Victim \ {v} : longer[u] = net[u]
      /\ Heads(longer[v], s.was, (s.k - s.void) + 1)
  <2>1. s.k - s.void \in Nat BY <1>k, <1>t
  <2> QED BY <1>k, <1>t, <2>1, HeadsMore, ChainKept DEF NgTypeOK
<1>2. CASE s.k < Inserts /\ net' = longer /\ squad' = Count(v) /\ mishaps' = mishaps
  <2>1. Turned(v, squad', "apply", s.k + 1, s.pod, s.rules) /\ Counted(v, squad')
    BY <1>1, <1>2, ToIs DEF States
  <2>a. (s.k - s.void) + 1 = (s.k + 1) - s.void /\ s.k + 1 <= Inserts /\ s.void <= s.k + 1
    BY <1>2, <1>k, <1>t
  <2>h. Heads(net'[v], s.was, (s.k + 1) - s.void) BY <1>2, <1>m, <2>a
  <2>2. Target1(v, squad[v])' /\ Undone(v, squad[v])' /\ Course(v, squad[v])'
    BY <2>a, <2>h, <1>k, <1>n, <2>1
    DEF Target1, Undone, Course, Turned, Counted, Wrecked, Undoing
  <2>3. "apply" \in States \ {"idle"} /\ s.pc # "idle" /\ s.k + 1 \in Nat BY <1>1, <1>t DEF States
  <2>4. /\ mishaps' = mishaps /\ net' \in [Victim -> Chain]
        /\ \A u \in Victim \ {v} : net'[u] = net[u]
    BY <1>2, <1>m
  <2>m. Moves(v, "apply", s.k + 1, s.pod, s.rules) BY <1>1, <1>t, <1>w, <2>1, <2>2, <2>3, <2>4 DEF Moves
  <2> QED BY <2>m, WorkerMoves
<1>d. CASE /\ s.k < Inserts /\ net' = net /\ mishaps' = mishaps
           /\ squad' = [Count(v) EXCEPT ![v].void = squad[v].void + 1]
  <2>1. /\ Turned(v, squad', "apply", s.k + 1, s.pod, s.rules)
        /\ squad'[v].void = s.void + 1 /\ squad'[v].stuck = 0
    BY <1>1, <1>d, <1>k, DudIs
  <2>a. s.k - s.void = (s.k + 1) - (s.void + 1) /\ s.k + 1 <= Inserts /\ s.void + 1 <= s.k + 1
    <3>1. s.k < Inserts BY <1>d
    <3>2. s.k - s.void = (s.k + 1) - (s.void + 1) BY <1>k, <1>t, Sums
    <3> QED BY <3>1, <3>2, <1>k, <1>t
  <2>h. Heads(net'[v], s.was, (s.k + 1) - (s.void + 1)) BY <1>d, <1>k, <2>a
  <2>2. Target1(v, squad[v])' /\ Undone(v, squad[v])' /\ Course(v, squad[v])'
    BY <2>a, <2>h, <1>k, <1>n, <2>1 DEF Target1, Undone, Course, Turned, Wrecked, Undoing
  <2>3. "apply" \in States \ {"idle"} /\ s.pc # "idle" /\ s.k + 1 \in Nat BY <1>1, <1>t DEF States
  <2>4. /\ mishaps' = mishaps /\ net' \in [Victim -> Chain]
        /\ \A u \in Victim \ {v} : net'[u] = net[u]
    BY <1>d DEF NgTypeOK
  <2>m. Moves(v, "apply", s.k + 1, s.pod, s.rules) BY <1>1, <1>t, <2>1, <2>2, <2>3, <2>4 DEF Moves
  <2> QED BY <2>m, WorkerMoves
<1>3. CASE Raised /\ net' \in {net, longer} /\ squad' = To(v, Caught(v)) /\ s.k < Inserts
  <2>1. Turned(v, squad', Caught(v), 0, s.pod, s.rules) BY <1>3, <1>t, ToIs, CaughtIs DEF States
  <2>2. mishaps' = mishaps + 1 /\ mishaps \in Nat BY <1>3 DEF Raised, NgTypeOK
  <2>3. /\ Caught(v) \in {"failed", "undo", "undo_pod"}
        /\ Now \notin Undoing => Caught(v) = "failed"
        /\ Now = "vmi_chaos" => Caught(v) = "undo"
    BY <1>k, CaughtIs DEF Undoing
  <2>4. Target1(v, squad[v])' BY <2>1, <2>3 DEF Target1, Turned
  <2>5. Course(v, squad[v])'
    BY <1>n, <2>1, <2>2, <2>3 DEF Course, Turned, Wrecked, Undoing
  <2>6. Undone(v, squad[v])'
    <3>1. \E j \in 0..Inserts : Heads(net'[v], s.was, j)
      <4>1. s.k - s.void \in 0..Inserts /\ (s.k - s.void) + 1 \in 0..Inserts
        BY <1>3, <1>k, <1>t
      <4> QED BY <4>1, <1>3, <1>k, <1>m
    <3>2. Inserts - 0 = Inserts /\ 0 <= Inserts BY <1>k
    <3>3. Naming(squad[v])' => Now' = "vmi_chaos" BY DEF Naming
    <3> QED BY <1>n, <1>k, <2>1, <2>3, <3>1, <3>2, <3>3 DEF Undone, Turned
  <2>7. Caught(v) \in States \ {"idle"} /\ Caught(v) \in Wrecked BY <2>3 DEF States, Wrecked
  <2>8. net' \in [Victim -> Chain] /\ \A u \in Victim \ {v} : net'[u] = net[u]
    BY <1>3, <1>m DEF NgTypeOK
  <2>m. Moves(v, Caught(v), 0, s.pod, s.rules) BY <1>1, <1>t, <2>1, <2>2, <2>4, <2>5, <2>6, <2>7, <2>8 DEF Moves
  <2> QED BY <2>m, WorkerMoves
<1>4. CASE /\ s.k = Inserts /\ net' = net /\ mishaps' = mishaps
           /\ squad' = [To(v, "clean") EXCEPT ![v].rules = Now \in Undoing]
  <2> DEFINE b == Now \in Undoing
  <2>b. b \in BOOLEAN OBVIOUS
  <2>v. Now = "vmi_chaos" => b = TRUE BY DEF Undoing
  <2>c. squad' = [To(v, "clean") EXCEPT ![v].rules = b] BY <1>4
  <2> HIDE DEF b
  <2>1. Turned(v, squad', "clean", 0, s.pod, b) /\ Counted(v, squad') BY <2>b, <2>c, ToIs DEF States
  <2>2. Excess(net[v], s.was, (0 - 0) - (Inserts - s.void))
    <3> DEFINE e == (0 - 0) - (Inserts - s.void)
    <3>1. e <= 0 /\ 0 - e = s.k - s.void BY <1>4, <1>k, <1>t
    <3>2. Heads(net[v], s.was, 0 - e) BY <3>1, <1>k
    <3> HIDE DEF e
    <3>3. Excess(net[v], s.was, e) BY <3>1, <3>2 DEF Excess
    <3> QED BY <3>3 DEF e
  <2>3. 0 <= Deletions /\ s.void <= Inserts /\ 0 <= 0 BY <1>4, <1>k, <1>t
  <2>4. Target1(v, squad[v])'
    BY <1>4, <1>k, <1>n, <2>1, <2>2, <2>3 DEF Target1, Turned, Counted, Excess
  <2>5. Undone(v, squad[v])' /\ Course(v, squad[v])'
    BY <1>k, <1>n, <2>v, <2>1 DEF Undone, Course, Turned, Wrecked, Undoing
  <2>6. "clean" \in States \ {"idle"} /\ s.pc # "idle" /\ 0 \in Nat BY <1>1 DEF States
  <2>7. /\ mishaps' = mishaps /\ net' \in [Victim -> Chain]
        /\ \A u \in Victim \ {v} : net'[u] = net[u]
    BY <1>4 DEF NgTypeOK
  <2>m. Moves(v, "clean", 0, s.pod, b) BY <1>1, <2>b, <1>t, <1>w, <2>1, <2>4, <2>5, <2>6, <2>7 DEF Moves
  <2> QED BY <2>m, WorkerMoves
<1> QED BY <1>2, <1>d, <1>3, <1>4 DEF Apply

LEMMA Between ==
  ASSUME NEW a \in Nat, NEW b \in Nat, a < b
  PROVE  /\ b - a \in 0..(b - 0) /\ b - (a + 1) \in 0..(b - 0) /\ a + 1 <= b
         /\ 0 \in 0..(b - (a + 1))
         /\ \A j \in 0..(b - a) : j > 0 => j - 1 \in 0..(b - (a + 1))
OBVIOUS

LEMMA CleanKept ==
  ASSUME NgTypeOK, WorkersInv, EntriesInv, NEW v \in Victim, Clean(v)
  PROVE  NgTypeOK' /\ WorkersInv' /\ EntriesInv'
<1> DEFINE s == squad[v]
           fewer == [net EXCEPT ![v] = Deleted(@)]
<1>1. /\ main = "modules" /\ s.pc = "clean"
      /\ UNCHANGED <<threadvars, plan, at, targets, pids, uplink>> /\ UNCHANGED <<link, timer>>
  BY DEF Clean, Cleans, In, At, Same
<1>k. /\ s.k <= Deletions /\ s.void <= Inserts /\ s.stuck <= s.k
      /\ Excess(net[v], s.was, (s.k - s.stuck) - (Inserts - s.void))
      /\ Now # "interface_down" /\ (Now = "vmi_chaos" => s.rules = TRUE)
      /\ Inserts \in Nat /\ Inserts <= Deletions /\ Deletions \in Nat
      /\ (Even => Deletions = Inserts) /\ (Now = "vmi_chaos" => Deletions = Inserts)
  BY <1>1, WorkerKnows DEF Target1, Course, Filters
<1>n. Now' = Now /\ Inserts' = Inserts /\ Deletions' = Deletions /\ (Even' <=> Even)
      /\ (Blind' <=> Blind)
  BY <1>1 DEF Now, Inserts, Deletions, Even, Blind
<1>t. /\ link' \in [Victim -> BOOLEAN] /\ timer' \in [Victim -> BOOLEAN] /\ s.pod \in BOOLEAN
      /\ s.rules \in BOOLEAN /\ s.was \in Seq(Rule) /\ s.k \in Nat /\ net[v] \in Seq(Rule)
      /\ net[v] \in Chain /\ s.void \in Nat /\ s.stuck \in Nat
  BY <1>1 DEF NgTypeOK, NgWorker, Chain
<1>w. s.pc \notin Wrecked BY <1>1 DEF Wrecked
<1>m. /\ fewer \in [Victim -> Chain] /\ (\A u \in Victim \ {v} : fewer[u] = net[u])
      /\ fewer[v] = Deleted(net[v])
  BY <1>t, DeletedIs DEF NgTypeOK
<1> DEFINE e == (s.k - s.stuck) - (Inserts - s.void)
<1>e. e \in Int /\ Excess(net[v], s.was, e) BY <1>k, <1>t
<1>h. Excess(fewer[v], s.was, e + 1) BY <1>e, <1>m, <1>t, ExcessMore
<1>2. CASE s.k < Deletions /\ net' = fewer /\ squad' = Count(v) /\ mishaps' = mishaps
  <2>1. Turned(v, squad', "clean", s.k + 1, s.pod, s.rules) /\ Counted(v, squad')
    BY <1>1, <1>2, ToIs DEF States
  <2>2. e + 1 = ((s.k + 1) - s.stuck) - (Inserts - s.void)
    <3>1. s.k \in Nat /\ s.stuck \in Nat /\ Inserts \in Nat /\ s.void \in Nat BY <1>k, <1>t
    <3> HIDE DEF s
    <3> QED BY <3>1, Sums
  <2>h. Excess(net'[v], s.was, ((s.k + 1) - s.stuck) - (Inserts - s.void)) BY <1>2, <1>h, <2>2
  <2>3. s.k + 1 <= Deletions /\ s.stuck <= s.k + 1 BY <1>2, <1>k, <1>t
  <2> HIDE DEF e
  <2>4. Target1(v, squad[v])' BY <1>k, <1>n, <2>1, <2>3, <2>h DEF Target1, Turned, Counted, Excess
  <2>5. Undone(v, squad[v])' /\ Course(v, squad[v])'
    BY <1>k, <1>n, <2>1 DEF Undone, Course, Turned, Wrecked, Undoing
  <2>6. "clean" \in States \ {"idle"} /\ s.pc # "idle" /\ s.k + 1 \in Nat BY <1>1, <1>t DEF States
  <2>7. /\ mishaps' = mishaps /\ net' \in [Victim -> Chain]
        /\ \A u \in Victim \ {v} : net'[u] = net[u]
    BY <1>2, <1>m
  <2>m. Moves(v, "clean", s.k + 1, s.pod, s.rules) BY <1>1, <1>t, <1>w, <2>1, <2>4, <2>5, <2>6, <2>7 DEF Moves
  <2> QED BY <2>m, WorkerMoves
<1>d. CASE /\ s.k < Deletions /\ net' = net /\ mishaps' = mishaps
           /\ squad' = [Count(v) EXCEPT ![v].stuck = squad[v].stuck + 1]
  <2>1. /\ Turned(v, squad', "clean", s.k + 1, s.pod, s.rules)
        /\ squad'[v].void = s.void /\ squad'[v].stuck = s.stuck + 1
    BY <1>1, <1>d, DudIs
  <2>2. e = ((s.k + 1) - (s.stuck + 1)) - (Inserts - s.void) BY <1>k, <1>t, Sums
  <2>h. Excess(net'[v], s.was, ((s.k + 1) - (s.stuck + 1)) - (Inserts - s.void))
    BY <1>d, <1>e, <2>2
  <2>3. s.k + 1 <= Deletions /\ s.stuck + 1 <= s.k + 1 BY <1>d, <1>k, <1>t
  <2> HIDE DEF e
  <2>4. Target1(v, squad[v])' BY <1>k, <1>n, <2>1, <2>3, <2>h DEF Target1, Turned, Excess
  <2>5. Undone(v, squad[v])' /\ Course(v, squad[v])'
    BY <1>k, <1>n, <2>1 DEF Undone, Course, Turned, Wrecked, Undoing
  <2>6. "clean" \in States \ {"idle"} /\ s.pc # "idle" /\ s.k + 1 \in Nat BY <1>1, <1>t DEF States
  <2>7. /\ mishaps' = mishaps /\ net' \in [Victim -> Chain]
        /\ \A u \in Victim \ {v} : net'[u] = net[u]
    BY <1>d DEF NgTypeOK
  <2>m. Moves(v, "clean", s.k + 1, s.pod, s.rules) BY <1>1, <1>t, <2>1, <2>4, <2>5, <2>6, <2>7 DEF Moves
  <2> QED BY <2>m, WorkerMoves
<1>3. CASE Raised /\ net' \in {net, fewer} /\ squad' = To(v, Caught(v)) /\ s.k < Deletions
  <2>1. Turned(v, squad', Caught(v), 0, s.pod, s.rules) /\ Counted(v, squad')
    BY <1>3, <1>t, ToIs, CaughtIs DEF States
  <2>2. mishaps' = mishaps + 1 /\ mishaps \in Nat BY <1>3 DEF Raised, NgTypeOK
  <2>3. /\ Caught(v) \in {"failed", "undo", "undo_pod"}
        /\ Now \notin Undoing => Caught(v) = "failed"
        /\ Now = "vmi_chaos" => Caught(v) = "undo"
    BY <1>k, CaughtIs DEF Undoing
  <2>4. Target1(v, squad[v])' BY <2>1, <2>3 DEF Target1, Turned
  <2>5. Course(v, squad[v])'
    BY <1>n, <2>1, <2>2, <2>3 DEF Course, Turned, Wrecked, Undoing
  <2>6. Undone(v, squad[v])'
    <3>1. ASSUME Naming(s) PROVE \E j \in 0..(Inserts - 0) : Heads(net'[v], s.was, j)
      <4>1. ~Blind /\ NoOwn(s.was) /\ s.stuck = 0 BY <3>1 DEF Naming
      <4>2. 0 - e <= Inserts - 0 /\ 0 - (e + 1) <= Inserts - 0 /\ Inserts - 0 \in Nat
        BY <4>1, <1>k, <1>t
      <4>3. e + 1 \in Int /\ fewer[v] \in Seq(Rule) BY <1>e, <1>m DEF Chain
      <4>4. net'[v] = net[v] \/ net'[v] = fewer[v] BY <1>3
      <4> HIDE DEF e, fewer
      <4>5. \E j \in 0..(Inserts - 0) : Heads(net[v], s.was, j)
        BY <4>1, <4>2, <1>e, <1>t, ExcessNamed
      <4>6. \E j \in 0..(Inserts - 0) : Heads(fewer[v], s.was, j)
        BY <4>1, <4>2, <4>3, <1>h, <1>t, ExcessNamed
      <4> QED BY <4>4, <4>5, <4>6
    <3>2. 0 <= Inserts BY <1>k
    <3>3. Naming(squad[v])' => Naming(s) /\ squad'[v].pc \in {"undo"}
      BY <1>n, <2>1, <2>3 DEF Naming, Turned, Counted
    <3>4. Now' = "vmi_chaos" => squad'[v].pc = "undo" BY <1>n, <2>1, <2>3 DEF Turned
    <3> QED BY <1>n, <2>1, <3>1, <3>2, <3>3, <3>4 DEF Undone, Turned
  <2>7. Caught(v) \in States \ {"idle"} /\ Caught(v) \in Wrecked /\ 0 \in Nat /\ s.pc # "idle"
    BY <1>1, <2>3 DEF States, Wrecked
  <2>8. net' \in [Victim -> Chain] /\ \A u \in Victim \ {v} : net'[u] = net[u]
    BY <1>3, <1>m DEF NgTypeOK
  <2>9. mishaps' = mishaps + 1 /\ (mishaps = 0 => Caught(v) \in Wrecked) BY <2>2, <2>7
  <2>m. Moves(v, Caught(v), 0, s.pod, s.rules) BY <1>1, <1>t, <2>1, <2>4, <2>5, <2>6, <2>7, <2>8, <2>9 DEF Moves
  <2> QED BY <2>m, WorkerMoves
<1>4. CASE s.k = Deletions /\ net' = net /\ mishaps' = mishaps /\ squad' = To(v, "remove")
  <2>1. Turned(v, squad', "remove", 0, s.pod, s.rules) /\ Counted(v, squad')
    BY <1>4, <1>t, ToIs DEF States
  <2>2. Even => Excess(net[v], s.was, s.void - s.stuck)
    <3>1. Even => e = s.void - s.stuck BY <1>4, <1>k, <1>t
    <3> HIDE DEF e
    <3> QED BY <3>1, <1>e
  <2> HIDE DEF e
  <2>4. Target1(v, squad[v])' BY <1>4, <1>n, <2>1, <2>2 DEF Target1, Turned, Counted, Excess
  <2>5. Undone(v, squad[v])' /\ Course(v, squad[v])'
    BY <2>1 DEF Undone, Course, Turned, Wrecked
  <2>6. "remove" \in States \ {"idle"} /\ s.pc # "idle" /\ 0 \in Nat BY <1>1 DEF States
  <2>7. /\ mishaps' = mishaps /\ net' \in [Victim -> Chain]
        /\ \A u \in Victim \ {v} : net'[u] = net[u]
    BY <1>4 DEF NgTypeOK
  <2>m. Moves(v, "remove", 0, s.pod, s.rules) BY <1>1, <1>t, <1>w, <2>1, <2>4, <2>5, <2>6, <2>7 DEF Moves
  <2> QED BY <2>m, WorkerMoves
<1> QED BY <1>2, <1>d, <1>3, <1>4 DEF Clean, Cleans

LEMMA UndoKept ==
  ASSUME NgTypeOK, WorkersInv, EntriesInv, NEW v \in Victim, Undo(v)
  PROVE  NgTypeOK' /\ WorkersInv' /\ EntriesInv'
<1> DEFINE s == squad[v]
           fewer == [net EXCEPT ![v] = Deleted(@)]
           calm == Naming(s) /\ mishaps = 1
<1>1. /\ main = "modules" /\ s.pc = "undo"
      /\ UNCHANGED <<threadvars, plan, at, targets, pids, uplink>> /\ UNCHANGED <<link, timer>>
  BY DEF Undo, Cleans, In, At, Same
<1>k. /\ calm => s.k <= Inserts /\ \E j \in 0..(Inserts - s.k) : Heads(net[v], s.was, j)
      /\ calm => NoOwn(s.was) /\ ~Blind /\ Deletions = Inserts
      /\ Now \in Undoing /\ mishaps > 0 /\ mishaps \in Nat
      /\ Inserts \in Nat /\ Deletions \in Nat
  <2>1. Undone(v, s) /\ Course(v, s) /\ mishaps \in Nat /\ Inserts \in Nat /\ Deletions \in Nat
    BY <1>1, WorkerKnows
  <2>2. calm => NoOwn(s.was) /\ ~Blind /\ Deletions = Inserts
    BY <1>1, WorkerKnows DEF Filters, Naming
  <2>3. Now \in Undoing /\ mishaps > 0 BY <1>1, <2>1 DEF Course, Wrecked
  <2>4. calm => s.k <= Inserts /\ \E j \in 0..(Inserts - s.k) : Heads(net[v], s.was, j)
    BY <1>1, <2>1 DEF Undone
  <2> QED BY <2>1, <2>2, <2>3, <2>4
<1>n. Now' = Now /\ Inserts' = Inserts /\ (Blind' <=> Blind) BY <1>1 DEF Now, Inserts, Blind
<1>t. /\ link' \in [Victim -> BOOLEAN] /\ timer' \in [Victim -> BOOLEAN] /\ s.pod \in BOOLEAN
      /\ s.rules \in BOOLEAN /\ s.was \in Seq(Rule) /\ s.k \in Nat /\ net[v] \in Seq(Rule)
      /\ net[v] \in Chain /\ s.stuck \in Nat
  BY <1>1 DEF NgTypeOK, NgWorker, Chain
<1>i. Inserts \in Nat /\ s.k \in Nat BY <1>k, <1>t
<1>w. s.pc \in Wrecked /\ s.pc # "idle" BY <1>1 DEF Wrecked
<1>m. /\ fewer \in [Victim -> Chain] /\ (\A u \in Victim \ {v} : fewer[u] = net[u])
      /\ fewer[v] = Deleted(net[v])
  BY <1>t, DeletedIs DEF NgTypeOK
<1>2. CASE s.k < Deletions /\ net' = fewer /\ squad' = Count(v) /\ mishaps' = mishaps
  <2>1. Turned(v, squad', "undo", s.k + 1, s.pod, s.rules) /\ Counted(v, squad')
    BY <1>1, <1>2, ToIs DEF States
  <2>2. ASSUME calm
        PROVE  s.k + 1 <= Inserts /\ \E j \in 0..(Inserts - (s.k + 1)) : Heads(fewer[v], s.was, j)
    <3>1. s.k < Inserts BY <1>2, <1>k, <2>2
    <3>2. PICK j \in 0..(Inserts - s.k) : Heads(net[v], s.was, j) BY <1>k, <2>2
    <3>3. CASE j = 0
      <4>1. net[v] = s.was BY <3>2, <3>3, <1>t, HeadsNone
      <4>2. fewer[v] = s.was BY <4>1, <1>k, <1>m, <1>t, <2>2, DeletedIs
      <4>3. Heads(fewer[v], s.was, 0) BY <4>2, <1>t, HeadsNone
      <4>4. 0 \in 0..(Inserts - (s.k + 1)) /\ s.k + 1 <= Inserts BY <3>1, <1>i, Between
      <4> QED BY <4>3, <4>4
    <3>4. CASE j # 0
      <4>1. j \in Nat /\ j > 0 BY <3>4
      <4>2. Heads(fewer[v], s.was, j - 1) BY <4>1, <3>2, <1>m, <1>t, OneLess
      <4>3. j - 1 \in 0..(Inserts - (s.k + 1)) /\ s.k + 1 <= Inserts
        BY <4>1, <3>1, <3>2, <1>i, Between
      <4> QED BY <4>2, <4>3
    <3> QED BY <3>3, <3>4
  <2>4. Target1(v, squad[v])' BY <2>1 DEF Target1, Turned
  <2>5. Undone(v, squad[v])'
    BY <1>2, <1>n, <2>1, <2>2 DEF Undone, Naming, Turned, Counted
  <2>6. Course(v, squad[v])' BY <1>2, <1>k, <1>n, <2>1 DEF Course, Turned, Undoing
  <2>7. "undo" \in States \ {"idle"} /\ s.k + 1 \in Nat /\ "undo" \in Wrecked
    BY <1>t DEF States, Wrecked
  <2>8. /\ mishaps' = mishaps /\ net' \in [Victim -> Chain]
        /\ \A u \in Victim \ {v} : net'[u] = net[u]
    BY <1>2, <1>m
  <2>m. Moves(v, "undo", s.k + 1, s.pod, s.rules) BY <1>1, <1>t, <1>w, <2>1, <2>4, <2>5, <2>6, <2>7, <2>8 DEF Moves
  <2> QED BY <2>m, WorkerMoves
<1>d. CASE /\ s.k < Deletions /\ net' = net /\ mishaps' = mishaps
           /\ squad' = [Count(v) EXCEPT ![v].stuck = squad[v].stuck + 1]
  <2>1. /\ Turned(v, squad', "undo", s.k + 1, s.pod, s.rules) /\ squad'[v].stuck = s.stuck + 1
        /\ squad'[v].stuck # 0
    <3>1. Turned(v, squad', "undo", s.k + 1, s.pod, s.rules) /\ squad'[v].stuck = s.stuck + 1
      BY <1>1, <1>d, DudIs
    <3>2. s.stuck + 1 # 0 BY <1>t
    <3> QED BY <3>1, <3>2
  <2>4. Target1(v, squad[v])' BY <2>1 DEF Target1, Turned
  <2>5. Undone(v, squad[v])' BY <2>1 DEF Undone, Naming, Turned
  <2>6. Course(v, squad[v])' BY <1>d, <1>k, <1>n, <2>1 DEF Course, Turned, Undoing
  <2>7. "undo" \in States \ {"idle"} /\ s.k + 1 \in Nat BY <1>t DEF States
  <2>8. /\ mishaps' = mishaps /\ net' \in [Victim -> Chain]
        /\ \A u \in Victim \ {v} : net'[u] = net[u]
    BY <1>d DEF NgTypeOK
  <2>m. Moves(v, "undo", s.k + 1, s.pod, s.rules) BY <1>1, <1>t, <1>w, <2>1, <2>4, <2>5, <2>6, <2>7, <2>8 DEF Moves
  <2> QED BY <2>m, WorkerMoves
<1>3. CASE Raised /\ net' \in {net, fewer} /\ squad' = To(v, Escaped)
  <2>1. Escaped \in {"lost", "failed"} /\ Escaped \in States \ {"idle"} /\ 0 \in Nat
    BY DEF Escaped, States
  <2>2. Turned(v, squad', Escaped, 0, s.pod, s.rules) BY <1>3, <1>t, <2>1, ToIs
  <2>3. mishaps' = mishaps + 1 /\ mishaps' > 1 /\ mishaps # 0 BY <1>3, <1>k DEF Raised
  <2>s. squad'[v].pc = Escaped /\ Escaped # "undo" BY <2>1, <2>2 DEF Turned
  <2>5. Target1(v, squad[v])' BY <2>1, <2>s DEF Target1
  <2>6. Undone(v, squad[v])' BY <2>3 DEF Undone
  <2>7. Course(v, squad[v])'
    <3>1. mishaps' > 0 /\ mishaps' > 1 BY <1>k, <2>3
    <3> QED BY <2>1, <2>s, <3>1 DEF Course
  <2>4. Target1(v, squad[v])' /\ Undone(v, squad[v])' /\ Course(v, squad[v])'
    BY <2>5, <2>6, <2>7
  <2>8. net' \in [Victim -> Chain] /\ \A u \in Victim \ {v} : net'[u] = net[u]
    BY <1>3, <1>m DEF NgTypeOK
  <2>m. Moves(v, Escaped, 0, s.pod, s.rules) BY <1>1, <1>t, <1>w, <2>1, <2>2, <2>3, <2>4, <2>8 DEF Moves
  <2> QED BY <2>m, WorkerMoves
<1>4. CASE s.k = Deletions /\ net' = net /\ mishaps' = mishaps /\ squad' = To(v, "undo_pod")
  <2>1. Turned(v, squad', "undo_pod", 0, s.pod, s.rules) /\ Counted(v, squad')
    BY <1>4, <1>t, ToIs DEF States
  <2>2. ASSUME calm PROVE net[v] = s.was
    <3>1. 0..(Inserts - s.k) = {0} BY <1>4, <1>k, <2>2
    <3> QED BY <3>1, <1>k, <1>t, <2>2, HeadsNone
  <2>3. Target1(v, squad[v])' BY <2>1 DEF Target1, Turned
  <2>4. Undone(v, squad[v])'
    BY <1>4, <1>n, <2>1, <2>2 DEF Undone, Naming, Turned, Counted
  <2>5. Course(v, squad[v])' BY <1>4, <1>k, <1>n, <2>1 DEF Course, Turned, Undoing
  <2>6. "undo_pod" \in States \ {"idle"} /\ "undo_pod" \in Wrecked /\ 0 \in Nat
    BY DEF States, Wrecked
  <2>7. /\ mishaps' = mishaps /\ net' \in [Victim -> Chain]
        /\ \A u \in Victim \ {v} : net'[u] = net[u]
    BY <1>4 DEF NgTypeOK
  <2>m. Moves(v, "undo_pod", 0, s.pod, s.rules) BY <1>1, <1>t, <1>w, <2>1, <2>3, <2>4, <2>5, <2>6, <2>7 DEF Moves
  <2> QED BY <2>m, WorkerMoves
<1> QED BY <1>2, <1>d, <1>3, <1>4 DEF Undo, Cleans

LEMMA DeletePodKept ==
  ASSUME NgTypeOK, WorkersInv, EntriesInv, NEW v \in Victim, DeletePod(v)
  PROVE  NgTypeOK' /\ WorkersInv' /\ EntriesInv'
<1> DEFINE s == squad[v]
<1>1. /\ main = "modules" /\ s.pc = "remove"
      /\ UNCHANGED <<threadvars, plan, at, targets, pids, uplink>> /\ UNCHANGED <<net, link>>
  BY DEF DeletePod, Removes, In, At, Same
<1>k. /\ (Even => Excess(net[v], s.was, s.void - s.stuck))
      /\ Inserts \in Nat /\ mishaps \in Nat
  BY <1>1, WorkerKnows DEF Target1
<1>n. Now' = Now /\ Inserts' = Inserts /\ (Even' <=> Even) /\ (Blind' <=> Blind)
  BY <1>1 DEF Now, Inserts, Even, Blind
<1>t. /\ net' \in [Victim -> Chain] /\ link' \in [Victim -> BOOLEAN] /\ s.pod \in BOOLEAN
      /\ s.rules \in BOOLEAN /\ s.was \in Seq(Rule) /\ net[v] \in Seq(Rule)
      /\ s.pc # "idle" /\ 0 \in Nat /\ s.void \in Nat /\ s.stuck \in Nat
  BY <1>1 DEF NgTypeOK, NgWorker, Chain
<1>w. s.pc \notin Wrecked BY <1>1 DEF Wrecked
<1>2. CASE /\ Now = "interface_down" /\ uplink => link[v]
           /\ squad' = [To(v, "done") EXCEPT ![v].pod = FALSE]
           /\ timer' = [timer EXCEPT ![v] = FALSE] /\ mishaps' = mishaps
  <2>1. Turned(v, squad', "done", 0, FALSE, s.rules) /\ Counted(v, squad')
    BY <1>2, ToIs DEF States
  <2>2. link[v] \in BOOLEAN /\ uplink \in BOOLEAN /\ uplink' = uplink /\ link' = link
    BY <1>1 DEF NgTypeOK
  <2>3. Now = "interface_down" /\ uplink = TRUE => link[v] = TRUE BY <1>2, <2>2
  <2>4. Target1(v, squad[v])' BY <1>1, <1>k, <1>n, <2>1, <2>2, <2>3
    DEF Target1, Turned, Counted, Excess
  <2>5. Undone(v, squad[v])' /\ Course(v, squad[v])'
    BY <2>1 DEF Undone, Course, Turned, Wrecked
  <2>6. "done" \in States \ {"idle"} /\ FALSE \in BOOLEAN BY DEF States
  <2>7. timer' \in [Victim -> BOOLEAN] /\ mishaps' = mishaps BY <1>2 DEF NgTypeOK
  <2>m. Moves(v, "done", 0, FALSE, s.rules) BY <1>1, <1>t, <1>w, <2>1, <2>4, <2>5, <2>6, <2>7 DEF Moves
  <2> QED BY <2>m, WorkerMoves
<1>3. CASE Raised /\ squad' = To(v, Caught(v)) /\ timer' = timer
  <2>1. Turned(v, squad', Caught(v), 0, s.pod, s.rules) /\ Counted(v, squad')
    BY <1>3, <1>t, ToIs, CaughtIs DEF States
  <2>2. mishaps' = mishaps + 1 /\ mishaps \in Nat BY <1>3, <1>k DEF Raised
  <2>3. /\ Caught(v) \in {"failed", "undo", "undo_pod"}
        /\ Now \notin Undoing => Caught(v) = "failed"
    BY CaughtIs
  <2>4. Target1(v, squad[v])' BY <2>1, <2>3 DEF Target1, Turned
  <2>5. Course(v, squad[v])' BY <1>n, <2>1, <2>2, <2>3 DEF Course, Turned, Wrecked, Undoing
  <2>6. Undone(v, squad[v])'
    <3>1. ASSUME Naming(s) PROVE net[v] = s.was /\ Heads(net[v], s.was, 0)
      <4>1. Even /\ ~Blind /\ NoOwn(s.was) /\ s.stuck = 0 BY <3>1 DEF Naming, Even
      <4>2. s.void - s.stuck \in Int /\ s.void - s.stuck >= 0 BY <4>1, <1>t
      <4>3. Excess(net[v], s.was, s.void - s.stuck) BY <4>1, <1>k
      <4>4. net[v] = s.was BY <4>1, <4>2, <4>3, <1>t, ExcessNamed
      <4> QED BY <4>4, <1>t, HeadsNone
    <3>2. 0 \in 0..(Inserts - 0) /\ 0 <= Inserts BY <1>k
    <3>3. Now = "vmi_chaos" => Caught(v) # "failed" BY CaughtIs DEF Undoing
    <3>4. Naming(squad[v])' => Naming(s) BY <1>n, <2>1 DEF Naming, Turned, Counted
    <3> QED BY <1>1, <1>n, <2>1, <2>3, <3>1, <3>2, <3>3, <3>4 DEF Undone, Turned
  <2>7. Caught(v) \in States \ {"idle"} /\ Caught(v) \in Wrecked BY <2>3 DEF States, Wrecked
  <2>8. timer' \in [Victim -> BOOLEAN] BY <1>3 DEF NgTypeOK
  <2>9. mishaps' = mishaps + 1 /\ (mishaps = 0 => Caught(v) \in Wrecked) BY <2>2, <2>7
  <2>m. Moves(v, Caught(v), 0, s.pod, s.rules) BY <1>1, <1>t, <2>1, <2>4, <2>5, <2>6, <2>7, <2>8, <2>9 DEF Moves
  <2> QED BY <2>m, WorkerMoves
<1> QED BY <1>2, <1>3 DEF DeletePod, Removes

LEMMA UndoPodKept ==
  ASSUME NgTypeOK, WorkersInv, EntriesInv, NEW v \in Victim, UndoPod(v)
  PROVE  NgTypeOK' /\ WorkersInv' /\ EntriesInv'
<1> DEFINE s == squad[v]
<1>1. /\ main = "modules" /\ s.pc = "undo_pod"
      /\ UNCHANGED <<threadvars, plan, at, targets, pids, uplink>> /\ UNCHANGED <<net, link>>
  BY DEF UndoPod, Removes, In, At, Same
<1>k. /\ Naming(s) /\ mishaps = 1 => net[v] = s.was
      /\ Now \in Undoing /\ mishaps > 0 /\ mishaps \in Nat
  BY <1>1, WorkerKnows DEF Undone, Course, Wrecked
<1>n. Now' = Now /\ Inserts' = Inserts /\ (Blind' <=> Blind) BY <1>1 DEF Now, Inserts, Blind
<1>t. /\ net' \in [Victim -> Chain] /\ link' \in [Victim -> BOOLEAN] /\ s.pod \in BOOLEAN
      /\ s.rules \in BOOLEAN /\ s.was \in Seq(Rule) /\ net[v] \in Seq(Rule)
      /\ s.pc # "idle" /\ 0 \in Nat
  BY <1>1 DEF NgTypeOK, NgWorker, Chain
<1>2. CASE /\ squad' = [To(v, "failed") EXCEPT ![v].pod = FALSE]
           /\ timer' = [timer EXCEPT ![v] = FALSE] /\ mishaps' = mishaps
  <2>1. Turned(v, squad', "failed", 0, FALSE, s.rules) /\ Counted(v, squad')
    BY <1>2, ToIs DEF States
  <2>4. Target1(v, squad[v])' BY <2>1 DEF Target1, Turned
  <2>5. Undone(v, squad[v])'
    BY <1>1, <1>2, <1>k, <1>n, <2>1 DEF Undone, Naming, Turned, Counted
  <2>6. Course(v, squad[v])' BY <1>2, <1>k, <2>1 DEF Course, Turned
  <2>7. "failed" \in States \ {"idle"} /\ FALSE \in BOOLEAN /\ "failed" \in Wrecked
    BY DEF States, Wrecked
  <2>8. timer' \in [Victim -> BOOLEAN] /\ mishaps' = mishaps BY <1>2 DEF NgTypeOK
  <2>m. Moves(v, "failed", 0, FALSE, s.rules) BY <1>1, <1>t, <2>1, <2>4, <2>5, <2>6, <2>7, <2>8 DEF Moves
  <2> QED BY <2>m, WorkerMoves
<1>3. CASE Raised /\ squad' = To(v, Escaped) /\ timer' = timer
  <2>1. Escaped \in {"lost", "failed"} /\ Escaped \in States \ {"idle"} BY DEF Escaped, States
  <2>2. Turned(v, squad', Escaped, 0, s.pod, s.rules) BY <1>3, <1>t, <2>1, ToIs
  <2>3. mishaps' = mishaps + 1 /\ mishaps' > 1 /\ mishaps # 0 BY <1>3, <1>k DEF Raised
  <2>s. squad'[v].pc = Escaped /\ Escaped # "undo" BY <2>1, <2>2 DEF Turned
  <2>5. Target1(v, squad[v])' BY <2>1, <2>s DEF Target1
  <2>6. Undone(v, squad[v])' BY <2>3 DEF Undone
  <2>7. Course(v, squad[v])'
    <3>1. mishaps' > 0 /\ mishaps' > 1 BY <1>k, <2>3
    <3> QED BY <2>1, <2>s, <3>1 DEF Course
  <2>4. Target1(v, squad[v])' /\ Undone(v, squad[v])' /\ Course(v, squad[v])'
    BY <2>5, <2>6, <2>7
  <2>8. timer' \in [Victim -> BOOLEAN] BY <1>3 DEF NgTypeOK
  <2>m. Moves(v, Escaped, 0, s.pod, s.rules) BY <1>1, <1>t, <2>1, <2>2, <2>3, <2>4, <2>8 DEF Moves
  <2> QED BY <2>m, WorkerMoves
<1> QED BY <1>2, <1>3 DEF UndoPod, Removes

LEMMA DownKept ==
  ASSUME NgTypeOK, WorkersInv, EntriesInv, NEW v \in Victim, Down(v) \/ Poll(v)
  PROVE  NgTypeOK' /\ WorkersInv' /\ EntriesInv'
<1> DEFINE s == squad[v]
<1>1. /\ main = "modules" /\ s.pc \in {"down", "poll"}
      /\ UNCHANGED <<threadvars, plan, at, targets, pids, uplink>> /\ UNCHANGED net
      /\ UNCHANGED <<link, timer>> \/ (/\ timer' = [timer EXCEPT ![v] = TRUE]
                                       /\ link' = [link EXCEPT ![v] = FALSE])
  BY DEF Down, Poll, In, At, Same, targetvars
<1>k. net[v] = s.was /\ s.void = 0 /\ s.stuck = 0 /\ Now = "interface_down" /\ mishaps \in Nat
  BY <1>1, WorkerKnows DEF Target1, Course
<1>n. Now' = Now /\ (Blind' <=> Blind) BY <1>1 DEF Now, Blind
<1>t. /\ net' \in [Victim -> Chain] /\ link' \in [Victim -> BOOLEAN] /\ s.pod \in BOOLEAN
      /\ s.rules \in BOOLEAN /\ s.was \in Seq(Rule) /\ timer' \in [Victim -> BOOLEAN]
      /\ s.pc # "idle" /\ 0 \in Nat /\ \A u \in Victim \ {v} : net'[u] = net[u] /\ link'[u] = link[u]
  BY <1>1 DEF NgTypeOK, NgWorker
<1>w. s.pc \notin Wrecked BY <1>1 DEF Wrecked
<1>2. ASSUME NEW pc \in {"poll", "remove"}, squad' = To(v, pc), mishaps' = mishaps
      PROVE  NgTypeOK' /\ WorkersInv' /\ EntriesInv'
  <2>1. Turned(v, squad', pc, 0, s.pod, s.rules) /\ Counted(v, squad') BY <1>2, ToIs DEF States
  <2>2. net'[v] = squad'[v].was BY <1>1, <1>k, <2>1 DEF Turned
  <2>e. Excess(net'[v], s.was, 0 - 0)
    <3>1. net[v] = s.was /\ net[v] \in Seq(Rule) BY <1>k, <1>t
    <3>2. Heads(net[v], s.was, 0) /\ 0 - 0 = 0 /\ 0 <= 0 BY <3>1, HeadsNone
    <3> QED BY <1>1, <3>2 DEF Excess
  <2>3. Target1(v, squad[v])'
    BY <1>k, <1>n, <2>1, <2>2, <2>e DEF Target1, Turned, Counted, Excess
  <2>4. Undone(v, squad[v])' /\ Course(v, squad[v])'
    BY <1>k, <1>n, <2>1 DEF Undone, Course, Turned, Wrecked
  <2>5. pc \in States \ {"idle"} BY DEF States
  <2>m. Moves(v, pc, 0, s.pod, s.rules) BY <1>1, <1>2, <1>t, <1>w, <2>1, <2>3, <2>4, <2>5 DEF Moves
  <2> QED BY <2>m, WorkerMoves
<1>3. ASSUME squad' = To(v, "failed"), Raised
      PROVE  NgTypeOK' /\ WorkersInv' /\ EntriesInv'
  <2>1. Turned(v, squad', "failed", 0, s.pod, s.rules) BY <1>3, ToIs DEF States
  <2>2. mishaps' = mishaps + 1 /\ mishaps' > 0 BY <1>3, <1>k DEF Raised
  <2>3. Target1(v, squad[v])' /\ Undone(v, squad[v])' /\ Course(v, squad[v])'
    BY <1>k, <1>n, <2>1, <2>2 DEF Target1, Undone, Naming, Course, Turned
  <2>5. "failed" \in States \ {"idle"} BY DEF States
  <2>6. mishaps' = mishaps + 1 /\ (mishaps = 0 => "failed" \in Wrecked) BY <2>2 DEF Wrecked
  <2>m. Moves(v, "failed", 0, s.pod, s.rules) BY <1>1, <1>t, <2>1, <2>3, <2>5, <2>6 DEF Moves
  <2> QED BY <2>m, WorkerMoves
<1> QED BY <1>2, <1>3 DEF Down, Poll

LEMMA RecoversKept ==
  ASSUME NgTypeOK, WorkersInv, EntriesInv, NEW v \in Victim, Recovers(v)
  PROVE  NgTypeOK' /\ WorkersInv' /\ EntriesInv'
<1>1. /\ UNCHANGED <<main, rc, plan, at, targets, pids, squad, uplink, net, mishaps>>
      /\ \A u \in Victim : link'[u] = link[u] \/ link'[u] = TRUE
      /\ link' \in [Victim -> BOOLEAN] /\ timer' \in [Victim -> BOOLEAN]
  BY DEF Recovers, NgTypeOK, threadvars
<1>2. NgTypeOK' BY <1>1 DEF NgTypeOK
<1>n. Now' = Now /\ Inserts' = Inserts /\ Deletions' = Deletions /\ (Even <=> Even')
      /\ (Blind <=> Blind')
  BY <1>1 DEF Now, Inserts, Deletions, Even, Blind
<1>3. ASSUME NEW u \in Victim, Target1(u, squad[u]) /\ Undone(u, squad[u]) /\ Course(u, squad[u])
      PROVE  Target1(u, squad[u])' /\ Undone(u, squad[u])' /\ Course(u, squad[u])'
  <2>1. Target1(u, squad[u])' BY <1>1, <1>n, <1>3 DEF Target1, Excess
  <2>2. Undone(u, squad[u])' BY <1>1, <1>n, <1>3 DEF Undone, Naming
  <2>3. Course(u, squad[u])' BY <1>1, <1>n, <1>3 DEF Course, Wrecked, Undoing
  <2> QED BY <2>1, <2>2, <2>3
<1>4. WorkersInv'
  <2> SUFFICES ASSUME main' = "modules" PROVE WorkersInv' BY DEF WorkersInv
  <2>1. main = "modules" BY <1>1
  <2>2. \A u \in Victim : Target1(u, squad[u])' /\ Undone(u, squad[u])' /\ Course(u, squad[u])'
    BY <1>3, <2>1 DEF WorkersInv
  <2> QED BY <1>1, <2>1, <2>2 DEF WorkersInv, Wrecked
<1>5. EntriesInv' BY <1>1 DEF EntriesInv, Calm
<1> QED BY <1>2, <1>4, <1>5

LEMMA NextConfigKept ==
  ASSUME NgTypeOK, WorkersInv, EntriesInv, NextConfig
  PROVE  NgTypeOK' /\ WorkersInv' /\ EntriesInv'
<1>1. /\ main = "entry" /\ UNCHANGED <<plan, at, pids, uplink, net, link, timer>>
      /\ mishaps \in Nat
  BY DEF NextConfig, At, targetvars, NgTypeOK
<1>2. CASE Return(0) /\ UNCHANGED <<targets, squad, mishaps>>
  <2>1. main' = "returned" BY <1>2 DEF Return
  <2>2. NgTypeOK' BY <1>1, <1>2 DEF NgTypeOK
  <2>3. WorkersInv' BY <2>1 DEF WorkersInv
  <2>4. EntriesInv' BY <1>1, <1>2, <2>1 DEF EntriesInv, Calm
  <2> QED BY <2>2, <2>3, <2>4
<1>3. CASE Raised /\ Return(1) /\ UNCHANGED <<targets, squad>>
  <2>1. main' = "returned" /\ rc' = 1 /\ mishaps' \in Nat BY <1>1, <1>3 DEF Return, Raised
  <2>2. NgTypeOK' BY <1>1, <1>3, <2>1 DEF NgTypeOK
  <2>3. WorkersInv' BY <2>1 DEF WorkersInv
  <2>4. EntriesInv' BY <2>1 DEF EntriesInv
  <2> QED BY <2>2, <2>3, <2>4
<1>4. ASSUME at <= Len(plan), Goes("modules"), UNCHANGED mishaps, NEW chosen \in SUBSET Victim,
             targets' = SetToSeq(chosen),
             squad' = [v \in Victim |->
                         NewWorker(IF v \in chosen THEN "deploy" ELSE "idle", net[v])]
      PROVE  NgTypeOK' /\ WorkersInv' /\ EntriesInv'
  <2>1. main' = "modules" BY <1>4 DEF Goes
  <2>2. IsFiniteSet(chosen) BY ModulesAssumption, FS_Subset DEF ModulesAssumption
  <2>3. /\ targets' \in Seq(Victim)
        /\ \A v \in chosen : \E i \in DOMAIN targets' : targets'[i] = v
    <3>1. /\ targets' \in [1..Cardinality(chosen) -> chosen] /\ Cardinality(chosen) \in Nat
          /\ \A v \in chosen : \E i \in DOMAIN targets' : targets'[i] = v
      BY <1>4, <2>2, SetListed
    <3>2. targets' \in Seq(chosen) BY <3>1
    <3> QED BY <3>1, <3>2, SeqMonotonic
  <2>4. ASSUME NEW v \in Victim
        PROVE  /\ squad'[v] \in NgWorker /\ squad'[v].k = 0 /\ squad'[v].rules = FALSE
               /\ squad'[v].was = net[v] /\ squad'[v].pc \in {"idle", "deploy"}
               /\ squad'[v].void = 0 /\ squad'[v].stuck = 0
               /\ v \notin chosen => squad'[v].pc = "idle"
    <3>1. net[v] \in Seq(Rule) BY DEF NgTypeOK, Chain
    <3>2. squad'[v] = NewWorker(IF v \in chosen THEN "deploy" ELSE "idle", net[v]) BY <1>4
    <3> QED BY <3>1, <3>2 DEF NewWorker, NgWorker, States
  <2>5. NgTypeOK'
    <3>1. squad' \in [Victim -> NgWorker] BY <1>4, <2>4
    <3> QED BY <1>1, <1>4, <2>3, <3>1 DEF NgTypeOK
  <2>6. ASSUME NEW v \in Victim
        PROVE  Target1(v, squad[v])' /\ Undone(v, squad[v])' /\ Course(v, squad[v])'
    <3>1. net' = net BY <1>1
    <3>2. Target1(v, squad[v])' BY <2>4, <3>1 DEF Target1
    <3>3. Undone(v, squad[v])' BY <2>4 DEF Undone
    <3>4. Course(v, squad[v])' BY <2>4 DEF Course, Wrecked
    <3> QED BY <3>2, <3>3, <3>4
  <2>8. at' \in DOMAIN plan'
    <3>1. plan \in Seq(NgEntry) /\ at \in Nat \ {0} BY DEF NgTypeOK
    <3> QED BY <1>1, <1>4, <3>1
  <2>10. \A v \in Victim : (\A i \in DOMAIN targets' : targets'[i] # v) => squad'[v].pc = "idle"
    BY <2>3, <2>4
  <2>11. WorkersInv' BY <1>4, <2>6, <2>8, <2>10 DEF WorkersInv
  <2>12. EntriesInv' BY <2>1 DEF EntriesInv
  <2> QED BY <2>5, <2>11, <2>12
<1> QED BY <1>2, <1>3, <1>4 DEF NextConfig

LEMMA JoinModulesKept ==
  ASSUME NgTypeOK, WorkersInv, EntriesInv, JoinModules
  PROVE  NgTypeOK' /\ WorkersInv' /\ EntriesInv'
<1>1. /\ main = "modules" /\ UNCHANGED <<plan, targets, pids, squad, uplink, net, link, timer, mishaps>>
      /\ mishaps \in Nat
  BY DEF JoinModules, At, targetvars, NgTypeOK
<1>2. CASE Return(1) /\ at' = at
  <2>1. main' = "returned" /\ rc' = 1 BY <1>2 DEF Return
  <2>2. NgTypeOK' BY <1>1, <1>2 DEF NgTypeOK
  <2>3. WorkersInv' BY <2>1 DEF WorkersInv
  <2>4. EntriesInv' BY <2>1 DEF EntriesInv
  <2> QED BY <2>2, <2>3, <2>4
<1>3. CASE AllAre(IF Parallel THEN Ended ELSE {"done"}) /\ ~SomeFailed /\ Goes("entry") /\ at' = at + 1
  <2>1. main' = "entry" BY <1>3 DEF Goes
  <2>2. NgTypeOK'
    <3>1. at + 1 \in Nat \ {0} BY DEF NgTypeOK
    <3> QED BY <1>1, <1>3, <3>1 DEF NgTypeOK
  <2>3. ASSUME NEW v \in Victim PROVE squad[v].pc \in {"idle", "done", "lost"}
    <3>1. CASE \A i \in DOMAIN targets : targets[i] # v BY <1>1, <3>1 DEF WorkersInv
    <3>2. ASSUME NEW i \in DOMAIN targets, targets[i] = v PROVE squad[v].pc \in {"done", "lost"}
      BY <1>3, <3>2 DEF AllAre, SomeFailed, Ended
    <3> QED BY <3>1, <3>2
  <2>4. ASSUME NEW v \in Victim PROVE squad[v].pc \in Calm
    <3>1. squad[v].pc = "lost" => mishaps > 1 BY <1>1, WorkerKnows DEF Course
    <3> QED BY <2>3, <3>1 DEF Calm
  <2>7. WorkersInv' BY <2>1 DEF WorkersInv
  <2>8. EntriesInv'
    <3>1. squad' = squad /\ Calm' = Calm BY <1>1 DEF Calm
    <3> QED BY <2>1, <2>4, <3>1 DEF EntriesInv
  <2> QED BY <2>2, <2>7, <2>8
<1> QED BY <1>2, <1>3 DEF JoinModules

LEMMA NgInvInit == Init => NgInv
<1> SUFFICES ASSUME Init, plugin = "network_ng" PROVE NgTypeOK /\ WorkersInv /\ EntriesInv
  BY DEF NgInv
<1>1. ModulesStart /\ main = "entry" BY DEF Init
<1> DEFINE before == [i \in 1..Foreign |-> "foreign"]
<1>2. before \in Chain /\ before \in Seq(Rule)
  <2>1. Foreign \in Nat BY ModulesAssumption DEF ModulesAssumption
  <2>2. before \in Seq(Rule) /\ DOMAIN before = 1..Foreign BY <2>1, IsASeq DEF Rule
  <2> QED BY <2>2 DEF Chain
<1> HIDE DEF before
<1>3. net = [v \in Victim |-> before] BY <1>1 DEF ModulesStart, ModulesInit, before
<1>4. ASSUME NEW v \in Victim PROVE squad[v] \in NgWorker /\ squad[v].pc = "idle"
  <2>1. squad[v] = NewWorker("idle", before) BY <1>1, <1>3 DEF ModulesStart, ModulesInit
  <2> QED BY <1>2, <2>1 DEF NewWorker, NgWorker, States
<1>5. plan \in Seq(NgEntry) /\ pids \in Nat
  BY <1>1, ModulesAssumption DEF ModulesStart, ModulesAssumption, NgEntry
<1>6. NgTypeOK
  <2>1. squad \in [Victim -> NgWorker] BY <1>1, <1>4 DEF ModulesStart, ModulesInit
  <2>2. targets \in Seq(Victim) BY <1>1 DEF ModulesStart, ModulesInit
  <2>3. net \in [Victim -> Chain] BY <1>2, <1>3
  <2>4. /\ at \in Nat \ {0} /\ mishaps \in Nat /\ uplink \in BOOLEAN
        /\ link \in [Victim -> BOOLEAN] /\ timer \in [Victim -> BOOLEAN]
    BY <1>1 DEF ModulesStart, ModulesInit
  <2> QED BY <1>5, <2>1, <2>2, <2>3, <2>4 DEF NgTypeOK
<1>7. WorkersInv BY <1>1 DEF WorkersInv
<1>8. EntriesInv BY <1>1, <1>4 DEF EntriesInv, Calm
<1> QED BY <1>6, <1>7, <1>8

LEMMA NgInvNext == NgInv /\ [Next]_vars => NgInv'
<1> SUFFICES ASSUME NgInv, [Next]_vars, plugin' = "network_ng" PROVE NgInv' BY DEF NgInv
<1>1. /\ plugin = "network_ng"
      /\ \/ ModulesStep \/ \E v \in Victim : Recovers(v)
         \/ UNCHANGED <<threadvars, ngvars>>
  BY OneScenario
<1>2. NgTypeOK /\ WorkersInv /\ EntriesInv BY <1>1 DEF NgInv
<1>3. CASE NextConfig BY <1>2, <1>3, NextConfigKept DEF NgInv
<1>4. CASE JoinModules BY <1>2, <1>4, JoinModulesKept DEF NgInv
<1>5. ASSUME NEW v \in Victim, ModuleStep(v) PROVE NgInv'
  BY <1>2, <1>5, DeployKept, ExamineKept, ApplyKept, CleanKept, UndoKept, DeletePodKept,
     UndoPodKept, DownKept DEF ModuleStep, NgInv
<1>6. CASE \E v \in Victim : Recovers(v) BY <1>2, <1>6, RecoversKept DEF NgInv
<1>7. CASE UNCHANGED <<threadvars, ngvars>>
  BY <1>2, <1>7 DEF NgInv, NgTypeOK, WorkersInv, EntriesInv, Calm, Target1, Undone, Course, Now,
     Inserts, Deletions, Even, Blind, Excess, Naming, Wrecked, Undoing, threadvars, ngvars, targetvars
<1> QED BY <1>1, <1>3, <1>4, <1>5, <1>6, <1>7 DEF ModulesStep
-----------------------------------------------------------------------------
(* The inductive invariant: the types, what every worker's call stack and  *)
(* target say of its place in the module, and what the entries count.      *)
THEOREM NgInvAlways == Spec => []NgInv
BY NgInvInit, NgInvNext, PTL DEF Spec

(* network_chaos_ng returns 0 only if no module failed: run_serial lets    *)
(* the exception through, run_parallel looks into the queue after it has   *)
(* joined the threads.  A thread that died in its own _rollback is the one *)
(* that queue does not hold, and it takes two calls that raised.           *)
THEOREM FailuresReportedAlways == Spec => []FailuresReported
<1>1. NgInv => FailuresReported BY DEF NgInv, EntriesInv, Calm, FailuresReported
<1> QED BY <1>1, NgInvAlways, PTL

(* A module that has ended without an exception has left the rules of its  *)
(* target in their order, less what the commands that did nothing cost,    *)
(* and as they were if every command worked: for any numbers of rules, of  *)
(* commands that did nothing, and of processes where the module deletes as *)
(* many rules as it has made.  A vmi_chaos that has undone itself after an *)
(* exception has, too, where it names what it removes.  The pod is gone    *)
(* and the node is reached.                                                *)
THEOREM NetworkRestoredAlways == Spec => []NetworkRestored
<1>1. ASSUME NgInv, plugin = "network_ng", main = "modules", NEW v \in Victim,
             squad[v].pc = "done"
      PROVE  /\ Even => Settled(v, squad[v])
             /\ ~squad[v].pod /\ (Now = "interface_down" /\ uplink => link[v])
  <2>1. Target1(v, squad[v]) /\ NgTypeOK BY <1>1 DEF NgInv, WorkersInv
  <2>2. /\ uplink \in BOOLEAN /\ link[v] \in BOOLEAN
        /\ squad[v].void \in Nat /\ squad[v].stuck \in Nat
    BY <2>1 DEF NgTypeOK, NgWorker
  <2>3. Even => Excess(net[v], squad[v].was, squad[v].void - squad[v].stuck)
    BY <1>1, <2>1 DEF Target1
  <2>4. /\ squad[v].void <= squad[v].stuck <=> squad[v].void - squad[v].stuck <= 0
        /\ 0 - (squad[v].void - squad[v].stuck) = squad[v].stuck - squad[v].void
    BY <2>2
  <2>5. Even => Settled(v, squad[v]) BY <2>3, <2>4 DEF Settled, Excess
  <2> QED BY <1>1, <2>1, <2>2, <2>5 DEF Target1
<1>2. ASSUME NgInv, plugin = "network_ng", main = "modules", NEW v \in Victim,
             squad[v].pc = "failed", Now = "vmi_chaos", mishaps = 1
      PROVE  /\ ~Blind /\ squad[v].stuck = 0 /\ NoOwn(squad[v].was) => net[v] = squad[v].was
             /\ ~squad[v].pod
  BY <1>2 DEF NgInv, WorkersInv, Undone, Naming
<1>3. NgInv => NetworkRestored BY <1>1, <1>2 DEF NetworkRestored, Even
<1> QED BY <1>3, NgInvAlways, PTL
=============================================================================
