--------------------------- MODULE DeploymentsProofs ---------------------------
(***************************************************************************)
(* What the deploying scenarios promise, for any number of targets, pods   *)
(* and calls that raise: what they hold is named in the version file, the  *)
(* rollback of it leaves nothing that it reaches, and a scenario that      *)
(* returns 0 has taken back what it did.                                   *)
(*                                                                         *)
(* The scenarios are sequences of steps, some of them FlattenSeq of a      *)
(* sequence of sequences; the first lemmas say what that is: the last      *)
(* element of it, what is true of every element, and that an element       *)
(* stands in it among the elements of its own sequence.                    *)
(***************************************************************************)
EXTENDS DisruptionsSteps

(* A set of numbers that is not empty has a least element. *)
LEMMA LeastOf ==
  ASSUME NEW I \in SUBSET Nat, I # {}
  PROVE  \E x \in I : \A y \in I : x <= y
<1> DEFINE S == {1..x : x \in I}
<1>1. S \subseteq FiniteSubsetsOf(Nat) /\ S # {}
  <2>1. \A x \in I : 1..x \in SUBSET Nat /\ IsFiniteSet(1..x) BY FS_Interval
  <2>2. S # {} OBVIOUS
  <2> QED BY <2>1, <2>2 DEF FiniteSubsetsOf
<1>2. PICK t \in S : \A u \in S : ~(<<u, t>> \in StrictSubsetOrdering(Nat))
  BY <1>1, FS_StrictSubsetOrderingWellFounded, WFMin
<1>3. PICK x \in I : t = 1..x BY <1>2
<1>4. ASSUME NEW y \in I, y < x PROVE FALSE
  <2>1. 1..y \in S OBVIOUS
  <2>2. 1..y \subseteq 1..x /\ x \in 1..x /\ x \notin 1..y BY <1>4
  <2>3. 1..y # 1..x BY <2>2
  <2>4. 1..y \in SUBSET Nat /\ 1..x \in SUBSET Nat OBVIOUS
  <2>5. <<1..y, 1..x>> \in StrictSubsetOrdering(Nat)
    BY <2>2, <2>3, <2>4 DEF StrictSubsetOrdering
  <2> QED BY <1>2, <1>3, <2>1, <2>5
<1> QED BY <1>3, <1>4

-----------------------------------------------------------------------------
(* FlattenSeq. *)

(* The concatenations of the first 1, 2, ... n sequences of s. *)
Concats(s, n, f) == f = [i \in 1..n |-> IF i = 1 THEN s[i] ELSE f[i - 1] \o s[i]]

LEMMA PrefixesUpTo ==
  ASSUME NEW T, NEW s \in Seq(Seq(T)), NEW n \in 1..Len(s)
  PROVE  \E f \in [1..n -> Seq(T)] : Concats(s, n, f)
<1> DEFINE Has(m) == \E f \in [1..m -> Seq(T)] : Concats(s, m, f)
           I == {m \in 1..Len(s) : ~Has(m)}
<1>0. Len(s) \in Nat /\ \A i \in 1..Len(s) : s[i] \in Seq(T) OBVIOUS
<1>1. SUFFICES ASSUME I # {} PROVE FALSE OBVIOUS
<1> HIDE DEF Has
<1>2. PICK m \in I : \A k \in I : m <= k
  <2>1. I \in SUBSET Nat BY <1>0
  <2> QED BY <1>1, <2>1, LeastOf
<1>3. CASE m = 1
  <2> DEFINE g == [i \in 1..1 |-> s[i]]
  <2>1. g \in [1..1 -> Seq(T)] BY <1>0, <1>3
  <2>2. Concats(s, 1, g) BY DEF Concats
  <2>3. Has(1) BY <2>1, <2>2 DEF Has
  <2> QED BY <1>3, <2>3
<1>4. CASE m # 1
  <2>0. m \in Nat /\ m - 1 \in 1..Len(s) /\ m \in 1..Len(s) BY <1>0, <1>4
  <2>1. Has(m - 1) BY <1>2, <2>0
  <2>2. PICK f \in [1..(m - 1) -> Seq(T)] :
          f = [i \in 1..(m - 1) |-> IF i = 1 THEN s[i] ELSE f[i - 1] \o s[i]]
    BY <2>1 DEF Has, Concats
  <2> DEFINE g == [i \in 1..m |-> IF i < m THEN f[i] ELSE f[m - 1] \o s[m]]
  <2>3. f[m - 1] \o s[m] \in Seq(T) BY <1>0, <2>0
  <2>4. g \in [1..m -> Seq(T)]
    <3> SUFFICES ASSUME NEW i \in 1..m PROVE g[i] \in Seq(T) BY Zenon DEF g
    <3> QED BY <2>0, <2>3 DEF g
  <2>5. ASSUME NEW i \in 1..m PROVE g[i] = IF i = 1 THEN s[i] ELSE g[i - 1] \o s[i]
    <3>1. CASE i = 1 BY <2>0, <2>2, <3>1, <1>4 DEF g
    <3>2. CASE i # 1 /\ i < m
      <4>1. g[i] = f[i] /\ g[i - 1] = f[i - 1] /\ i \in 1..(m - 1) BY <2>0, <3>2 DEF g
      <4>2. f[i] = f[i - 1] \o s[i] BY <2>2, <3>2, <4>1
      <4> QED BY <3>2, <4>1, <4>2
    <3>3. CASE i = m
      <4>0. m \in 1..m /\ m - 1 \in 1..m /\ ~(m < m) /\ m - 1 < m BY <1>4, <2>0
      <4>1. g[m] = f[m - 1] \o s[m] /\ g[m - 1] = f[m - 1] BY <4>0 DEF g
      <4> QED BY <1>4, <3>3, <4>1
    <3> QED BY <2>0, <3>1, <3>2, <3>3
  <2>6. g = [i \in 1..m |-> IF i = 1 THEN s[i] ELSE g[i - 1] \o s[i]]
    <3> DEFINE h == [i \in 1..m |-> IF i = 1 THEN s[i] ELSE g[i - 1] \o s[i]]
    <3>1. \A i \in 1..m : g[i] = h[i] BY <2>5
    <3>2. DOMAIN h = 1..m /\ DOMAIN g = 1..m /\ g = [i \in 1..m |-> g[i]] /\ h = [i \in 1..m |-> h[i]]
      BY <2>4
    <3> HIDE DEF g, h
    <3> QED BY <3>1, <3>2 DEF h
  <2>7. Has(m) BY <2>4, <2>6 DEF Has, Concats
  <2> QED BY <2>7
<1> QED BY <1>3, <1>4

LEMMA FlattenIs ==
  ASSUME NEW T, NEW s \in Seq(Seq(T)), s # <<>>
  PROVE  \E f \in [1..Len(s) -> Seq(T)] :
           /\ FlattenSeq(s) = f[Len(s)] /\ f[1] = s[1]
           /\ \A i \in 2..Len(s) : f[i] = f[i - 1] \o s[i]
<1>1. /\ Len(s) \in Nat /\ Len(s) >= 1 /\ Len(s) # 0 /\ Len(s) \in 1..Len(s)
      /\ \A i \in 1..Len(s) : s[i] \in Seq(T)
  BY EmptySeq
<1> DEFINE R(f) == f = [i \in 1..Len(s) |-> IF i = 1 THEN s[i] ELSE f[i - 1] \o s[i]]
           F == CHOOSE f : R(f)
<1>2. \E g \in [1..Len(s) -> Seq(T)] : Concats(s, Len(s), g) BY <1>1, PrefixesUpTo
<1>3. PICK g \in [1..Len(s) -> Seq(T)] : R(g) BY <1>2 DEF Concats
<1>4. R(F) BY <1>3
<1>5. FlattenSeq(s) = F[Len(s)] BY <1>1, Zenon DEF FlattenSeq
<1>6. /\ F = [i \in 1..Len(s) |-> F[i]] /\ F[1] = s[1]
      /\ \A i \in 2..Len(s) : F[i] = F[i - 1] \o s[i]
  <2> HIDE DEF F
  <2>1. F = [i \in 1..Len(s) |-> IF i = 1 THEN s[i] ELSE F[i - 1] \o s[i]] BY <1>4
  <2>2. DOMAIN F = 1..Len(s) BY <2>1
  <2>3. \A i \in 1..Len(s) : F[i] = IF i = 1 THEN s[i] ELSE F[i - 1] \o s[i] BY <2>1
  <2>4. F = [i \in DOMAIN F |-> F[i]]
    <3> DEFINE h == [i \in 1..Len(s) |-> IF i = 1 THEN s[i] ELSE F[i - 1] \o s[i]]
    <3>1. h = [i \in DOMAIN h |-> h[i]] BY Zenon
    <3> QED BY <2>1, <3>1, Zenon
  <2>5. \A i \in 2..Len(s) : i \in 1..Len(s) /\ i # 1 BY <1>1
  <2>6. F = [i \in 1..Len(s) |-> F[i]] BY <2>2, <2>4, Zenon
  <2>7. F[1] = s[1]
    <3>1. 1 \in 1..Len(s) BY <1>1
    <3> QED BY <2>3, <3>1
  <2>8. \A i \in 2..Len(s) : F[i] = F[i - 1] \o s[i]
    <3> SUFFICES ASSUME NEW i \in 2..Len(s) PROVE F[i] = F[i - 1] \o s[i] OBVIOUS
    <3>1. i \in 1..Len(s) /\ i # 1 BY <2>5
    <3> QED BY <2>3, <3>1, Zenon
  <2> QED BY <2>6, <2>7, <2>8
<1> HIDE DEF F, R
<1>7. \A i \in 1..Len(s) : F[i] \in Seq(T)
  <2> DEFINE I == {i \in 1..Len(s) : F[i] \notin Seq(T)}
  <2> SUFFICES ASSUME I # {} PROVE FALSE OBVIOUS
  <2>1. PICK m \in I : \A k \in I : m <= k
    <3>1. I \in SUBSET Nat OBVIOUS
    <3> QED BY <3>1, LeastOf
  <2>2. m # 1 /\ m \in 1..Len(s) /\ m - 1 \in 1..Len(s) /\ m \in 2..Len(s) BY <1>1, <1>6
  <2>3. F[m - 1] \in Seq(T) /\ s[m] \in Seq(T) BY <1>1, <2>1, <2>2
  <2>4. F[m - 1] \o s[m] \in Seq(T) BY <2>3
  <2>5. F[m] \in Seq(T) BY <1>6, <2>2, <2>4
  <2> QED BY <2>1, <2>5
<1>8. F \in [1..Len(s) -> Seq(T)] BY <1>6, <1>7
<1> QED BY <1>5, <1>6, <1>8

(* Every element of FlattenSeq(s) stands in it among the elements of its   *)
(* own sequence; and the last one is the last of the last of them.         *)
LEMMA Windows ==
  ASSUME NEW T, NEW s \in Seq(Seq(T))
  PROVE  /\ FlattenSeq(s) \in Seq(T)
         /\ \A p \in 1..Len(FlattenSeq(s)) : \E i \in 1..Len(s), off \in Nat :
              /\ p - off \in 1..Len(s[i])
              /\ \A q \in 1..Len(s[i]) : /\ off + q \in 1..Len(FlattenSeq(s))
                                         /\ FlattenSeq(s)[off + q] = s[i][q]
         /\ s # <<>> /\ s[Len(s)] # <<>> =>
              /\ FlattenSeq(s) # <<>>
              /\ FlattenSeq(s)[Len(FlattenSeq(s))] = s[Len(s)][Len(s[Len(s)])]
<1>1. CASE s = <<>>
  <2>1. FlattenSeq(s) = <<>> /\ Len(FlattenSeq(s)) = 0 BY <1>1, EmptySeq DEF FlattenSeq
  <2>2. FlattenSeq(s) \in Seq(T) BY <2>1
  <2>3. 1..Len(FlattenSeq(s)) = {} BY <2>1
  <2> QED BY <1>1, <2>2, <2>3
<1>2. CASE s # <<>>
  <2>1. PICK f \in [1..Len(s) -> Seq(T)] :
           /\ FlattenSeq(s) = f[Len(s)] /\ f[1] = s[1]
           /\ \A i \in 2..Len(s) : f[i] = f[i - 1] \o s[i]
    BY <1>2, FlattenIs
  <2>2. /\ Len(s) \in Nat /\ Len(s) >= 1 /\ \A i \in 1..Len(s) : s[i] \in Seq(T) /\ Len(s[i]) \in Nat
    BY <1>2, EmptySeq
  <2> DEFINE In1(n, p) == \E i \in 1..n, off \in Nat :
               /\ p - off \in 1..Len(s[i])
               /\ \A q \in 1..Len(s[i]) : off + q \in 1..Len(f[n]) /\ f[n][off + q] = s[i][q]
             Good(n) == \A p \in 1..Len(f[n]) : In1(n, p)
             I == {n \in 1..Len(s) : ~Good(n)}
  <2>3. Good(1)
    <3> SUFFICES ASSUME NEW p \in 1..Len(f[1]) PROVE In1(1, p) OBVIOUS
    <3>1. 1 \in 1..1 /\ 0 \in Nat /\ p - 0 \in 1..Len(s[1]) BY <2>1, <2>2
    <3>2. \A q \in 1..Len(s[1]) : 0 + q \in 1..Len(f[1]) /\ f[1][0 + q] = s[1][q] BY <2>1, <2>2
    <3> QED BY <3>1, <3>2
  <2>4. ASSUME NEW n \in 2..Len(s), Good(n - 1) PROVE Good(n)
    <3> DEFINE a == f[n - 1]
               b == s[n]
    <3>0. n \in 1..Len(s) /\ n - 1 \in 1..Len(s) BY <2>2
    <3>1. a \in Seq(T) /\ b \in Seq(T) /\ Len(a) \in Nat /\ Len(b) \in Nat BY <2>1, <2>2, <3>0
    <3>2. f[n] = a \o b BY <2>1
    <3>3. /\ Len(f[n]) = Len(a) + Len(b)
          /\ \A q \in 1..Len(a) : f[n][q] = a[q]
          /\ \A q \in 1..Len(b) : f[n][Len(a) + q] = b[q]
      <4> HIDE DEF a, b
      <4> QED BY <3>1, <3>2
    <3> SUFFICES ASSUME NEW p \in 1..Len(f[n]) PROVE In1(n, p) OBVIOUS
    <3>4. CASE p <= Len(a)
      <4>1. p \in 1..Len(a) BY <3>1, <3>3, <3>4
      <4>2. PICK i \in 1..(n - 1), off \in Nat :
              /\ p - off \in 1..Len(s[i])
              /\ \A q \in 1..Len(s[i]) : off + q \in 1..Len(a) /\ a[off + q] = s[i][q]
        BY <2>4, <4>1
      <4>3. \A q \in 1..Len(s[i]) : off + q \in 1..Len(f[n]) /\ f[n][off + q] = s[i][q]
        <5> HIDE DEF a, b, In1, Good, I
        <5>1. 1..Len(a) \subseteq 1..Len(f[n]) BY <3>1, <3>3
        <5>2. ASSUME NEW q \in 1..Len(s[i])
              PROVE  off + q \in 1..Len(f[n]) /\ f[n][off + q] = s[i][q]
          <6>1. off + q \in 1..Len(a) /\ a[off + q] = s[i][q] BY <4>2, <5>2
          <6> QED BY <3>3, <5>1, <6>1, Zenon
        <5> QED BY <5>2
      <4>4. i \in 1..n /\ off \in Nat /\ p - off \in 1..Len(s[i]) BY <3>0, <4>2
      <4> QED BY <4>3, <4>4, Zenon
    <3>5. CASE p > Len(a)
      <4>1. p - Len(a) \in 1..Len(b)
        <5> HIDE DEF a, b
        <5> QED BY <3>1, <3>3, <3>5
      <4>2. \A q \in 1..Len(b) : Len(a) + q \in 1..Len(f[n]) /\ f[n][Len(a) + q] = b[q]
        <5> HIDE DEF a, b
        <5> QED BY <3>1, <3>3
      <4>3. n \in 1..n /\ Len(a) \in Nat BY <3>1, <2>2
      <4> QED BY <4>1, <4>2, <4>3
    <3>6. p \in Nat /\ Len(a) \in Nat BY <3>1
    <3> QED BY <3>4, <3>5, <3>6
  <2> HIDE DEF Good
  <2>5. Good(Len(s))
    <3> SUFFICES ASSUME I # {} PROVE FALSE BY <2>2
    <3>1. PICK m \in I : \A k \in I : m <= k
      <4>1. I \in SUBSET Nat OBVIOUS
      <4> QED BY <4>1, LeastOf
    <3>2. m # 1 /\ m \in 2..Len(s) /\ m - 1 \in 1..Len(s) BY <2>2, <2>3
    <3>3. Good(m - 1) BY <3>1, <3>2
    <3> QED BY <2>4, <3>2, <3>3
  <2>6. FlattenSeq(s) \in Seq(T)
    <3>1. Len(s) \in 1..Len(s) BY <2>2
    <3> QED BY <2>1, <3>1
  <2>7. s[Len(s)] # <<>> => /\ FlattenSeq(s) # <<>>
                            /\ FlattenSeq(s)[Len(FlattenSeq(s))] = s[Len(s)][Len(s[Len(s)])]
    <3> SUFFICES ASSUME s[Len(s)] # <<>>
                 PROVE  /\ FlattenSeq(s) # <<>>
                        /\ FlattenSeq(s)[Len(FlattenSeq(s))] = s[Len(s)][Len(s[Len(s)])]
      OBVIOUS
    <3> DEFINE b == s[Len(s)]
    <3>1. b \in Seq(T) /\ Len(b) \in Nat /\ Len(b) >= 1 BY <2>2, EmptySeq
    <3>2. CASE Len(s) = 1 BY <2>1, <3>2
    <3>3. CASE Len(s) # 1
      <4> DEFINE a == f[Len(s) - 1]
      <4>0. Len(s) \in 2..Len(s) /\ Len(s) - 1 \in 1..Len(s)
        <5>1. Len(s) \in Nat /\ Len(s) >= 1 /\ Len(s) # 1 BY <2>2, <3>3
        <5>2. \A n \in Nat : n >= 1 /\ n # 1 => n \in 2..n /\ n - 1 \in 1..n OBVIOUS
        <5> QED BY <5>1, <5>2
      <4>1. a \in Seq(T) /\ FlattenSeq(s) = a \o b BY <2>1, <4>0
      <4> HIDE DEF a, b
      <4>2. Len(a \o b) = Len(a) + Len(b) /\ Len(a) \in Nat /\ (a \o b)[Len(a) + Len(b)] = b[Len(b)]
        BY <3>1, <4>1
      <4>3. a \o b # <<>> BY <3>1, <4>2
      <4> QED BY <4>1, <4>2, <4>3 DEF b
    <3> QED BY <3>2, <3>3
  <2> QED BY <1>2, <2>1, <2>5, <2>6, <2>7 DEF Good
<1> QED BY <1>1, <1>2

-----------------------------------------------------------------------------
(* The programs. *)

Thing == {"pod", "change"} \X Nat \X Nat
Instruction ==
  [do : {"look", "hold", "make", "name", "await", "unmake"}, on : SUBSET Thing,
   bad : SUBSET {"raise", "on"}]

LEMMA Instructions ==
  /\ Look \in Instruction /\ Hold \in Instruction
  /\ \A t \in Thing : Make(t) \in Instruction /\ Unmake(t) \in Instruction
  /\ \A ts \in SUBSET Thing : /\ Name(ts) \in Instruction
                              /\ \A bad \in SUBSET {"raise", "on"} : Await(ts, bad) \in Instruction
BY DEF Look, Hold, Make, Unmake, Name, Await, Instr, Instruction

LEMMA Pods1 ==
  /\ \A i, j \in Nat : PodOf(i, j) \in Thing /\ PodOf(i, j)[1] = "pod" /\ PodOf(i, j)[2] = i
  /\ \A i \in Nat : Change(i) \in Thing /\ Change(i)[1] = "change" /\ Change(i)[2] = i
BY DEF PodOf, Change, Thing

(* What a step makes or undoes is of the hand that takes it.  The pods of  *)
(* a hog scenario have the number of their node. *)
Owner(t) == IF plugin = "hogs" THEN t[2] ELSE 1
Owned(p, h) ==
  \A j \in 1..Len(p) : p[j].do \in {"make", "unmake"} => \A t \in p[j].on : Owner(t) = h

(* Only the registration of pvc fails on its own, before it has named a    *)
(* thing. *)
CalmNames(p) ==
  \A j \in 1..Len(p) : p[j].do = "name" /\ "raise" \in p[j].bad =>
    plugin = "pvc" /\ \A k \in 1..(j - 1) : p[k].do # "name"

(* What is made is undone later in the program, but for the pods of the    *)
(* load scenarios and the privileged pod. *)
Stays(t) ==
  \/ plugin \in {"syn_flood", "http_load"} /\ t[1] = "pod"
  \/ plugin = "throttle" /\ t = PodOf(1, 1)
Undoes(p) ==
  \A j \in 1..Len(p) : p[j].do = "make" =>
    \A t \in p[j].on : Stays(t) \/ \E k \in j..Len(p) : p[k].do = "unmake" /\ t \in p[k].on

(* A hold or a wait follows a registration of all that was made before it; *)
(* a wait of http_load, one of all that it waits for. *)
LastName(p, k, i) ==
  /\ k \in 1..(i - 1) /\ p[k].do = "name"
  /\ \A l \in (k + 1)..(i - 1) : p[l].do # "name"
Covers(p) ==
  \A i \in 1..Len(p) : p[i].do \in {"hold", "await"} =>
    IF plugin = "http_load"
    THEN p[i].on = {} \/ \E k \in 1..Len(p) : LastName(p, k, i) /\ p[k].on = p[i].on
    ELSE \E k \in 1..Len(p) :
           /\ LastName(p, k, i)
           /\ \A l \in 1..(i - 1) : p[l].do = "make" => p[l].on \subseteq p[k].on

(* The last step of syn_flood waits for every pod, without a limit. *)
WaitsForAll(p) ==
  plugin = "syn_flood" =>
    /\ p[Len(p)].do = "await" /\ "on" \notin p[Len(p)].bad
    /\ \A j \in 1..Len(p) : p[j].do = "make" => p[j].on \subseteq p[Len(p)].on

(* Only the resets of storage_throttle may do nothing without a word. *)
Loud(p) ==
  \A j \in 1..Len(p) : p[j].do = "unmake" /\ "on" \in p[j].bad => plugin = "throttle"

Proper(p, h) ==
  /\ p \in Seq(Instruction) /\ Len(p) \in Nat /\ Len(p) >= 1
  /\ Owned(p, h) /\ CalmNames(p) /\ Undoes(p) /\ Covers(p) /\ WaitsForAll(p) /\ Loud(p)

LEMMA HogProper ==
  ASSUME plugin = "hogs", NEW h \in Nat
  PROVE  Proper(Hog(h), h)
<1> DEFINE t == PodOf(h, 1)
           a == Look
           b == Name({t})
           c == Make(t)
           d == Await({t}, {"raise"})
           e == Unmake(t)
           p == <<a, b, c, d, e, a>>
<1>1. t \in Thing /\ t[2] = h BY Pods1
<1>2. /\ a \in Instruction /\ b \in Instruction /\ c \in Instruction /\ d \in Instruction
      /\ e \in Instruction
  BY <1>1, Instructions
<1>3. /\ a.do = "look" /\ b.do = "name" /\ c.do = "make" /\ d.do = "await" /\ e.do = "unmake"
      /\ b.on = {t} /\ c.on = {t} /\ d.on = {t} /\ e.on = {t} /\ b.bad = {}
      /\ e.bad = {"raise"}
  BY DEF Look, Make, Unmake, Name, Await, Instr
<1>4. Hog(h) = p BY DEF Hog
<1> HIDE DEF a, b, c, d, e, t
<1>5. /\ p \in Seq(Instruction) /\ Len(p) = 6
      /\ p[1] = a /\ p[2] = b /\ p[3] = c /\ p[4] = d /\ p[5] = e /\ p[6] = a
  BY <1>2
<1> HIDE DEF p
<1>6. Owned(p, h) BY <1>1, <1>3, <1>5 DEF Owned, Owner
<1>7. CalmNames(p) BY <1>3, <1>5 DEF CalmNames
<1>l. Loud(p) BY <1>3, <1>5 DEF Loud
<1>8. Undoes(p) BY <1>3, <1>5 DEF Undoes
<1>9. Covers(p)
  <2>1. LastName(p, 2, 4) BY <1>3, <1>5 DEF LastName
  <2> QED BY <1>3, <1>5, <2>1 DEF Covers
<1> QED BY <1>4, <1>5, <1>6, <1>7, <1>8, <1>9, <1>l DEF Proper, WaitsForAll

LEMMA HijackingProper ==
  ASSUME plugin = "hijacking"
  PROVE  Proper(Hijacking, 1)
<1> DEFINE t == PodOf(1, 1)
           u == Change(1)
           a == Look
           b == Make(t)
           c == Make(u)
           d == Name({t, u})
           e == Hold
           f == Unmake(u)
           g == Unmake(t)
           p == <<a, b, c, d, e, f, g>>
<1>1. t \in Thing /\ u \in Thing BY Pods1
<1>2. /\ a \in Instruction /\ b \in Instruction /\ c \in Instruction /\ d \in Instruction
      /\ e \in Instruction /\ f \in Instruction /\ g \in Instruction
  BY <1>1, Instructions
<1>3. /\ a.do = "look" /\ b.do = "make" /\ c.do = "make" /\ d.do = "name" /\ e.do = "hold"
      /\ f.do = "unmake" /\ g.do = "unmake" /\ d.bad = {} /\ f.bad = {"raise"} /\ g.bad = {"raise"}
      /\ b.on = {t} /\ c.on = {u} /\ d.on = {t, u} /\ f.on = {u} /\ g.on = {t}
  BY DEF Look, Make, Unmake, Name, Hold, Instr
<1>4. Hijacking = p BY DEF Hijacking
<1> HIDE DEF a, b, c, d, e, f, g, t, u
<1>5. /\ p \in Seq(Instruction) /\ Len(p) = 7
      /\ p[1] = a /\ p[2] = b /\ p[3] = c /\ p[4] = d /\ p[5] = e /\ p[6] = f /\ p[7] = g
  BY <1>2
<1> HIDE DEF p
<1>6. Owned(p, 1) BY DEF Owned, Owner
<1>7. CalmNames(p) BY <1>3, <1>5 DEF CalmNames
<1>l. Loud(p) BY <1>3, <1>5 DEF Loud
<1>8. Undoes(p) BY <1>3, <1>5 DEF Undoes
<1>9. Covers(p)
  <2>1. LastName(p, 4, 5) BY <1>3, <1>5 DEF LastName
  <2> QED BY <1>3, <1>5, <2>1 DEF Covers
<1> QED BY <1>4, <1>5, <1>6, <1>7, <1>8, <1>9, <1>l DEF Proper, WaitsForAll

LEMMA PvcProper ==
  ASSUME plugin = "pvc"
  PROVE  Proper(Pvc, 1)
<1> DEFINE u == Change(1)
           a == Look
           b == Unseen(Make(Change(1)))
           c == [Name({Change(1)}) EXCEPT !.bad = {"raise"}]
           d == Hold
           e == Unmake(u)
           p == <<a, b, c, d, e>>
<1>1. u \in Thing BY Pods1
<1>2. /\ a \in Instruction /\ b \in Instruction /\ c \in Instruction /\ d \in Instruction
      /\ e \in Instruction
  BY <1>1, Instructions DEF Unseen, Make, Name, Instr, Instruction
<1>3. /\ a.do = "look" /\ b.do = "make" /\ c.do = "name" /\ d.do = "hold" /\ e.do = "unmake"
      /\ b.on = {u} /\ c.on = {u} /\ e.on = {u} /\ e.bad = {"raise"}
  BY DEF Look, Unseen, Make, Unmake, Name, Hold, Instr
<1>4. Pvc = p BY DEF Pvc
<1> HIDE DEF a, b, c, d, e, u
<1>5. /\ p \in Seq(Instruction) /\ Len(p) = 5
      /\ p[1] = a /\ p[2] = b /\ p[3] = c /\ p[4] = d /\ p[5] = e
  BY <1>2
<1> HIDE DEF p
<1>6. Owned(p, 1) BY DEF Owned, Owner
<1>7. CalmNames(p) BY <1>3, <1>5 DEF CalmNames
<1>l. Loud(p) BY <1>3, <1>5 DEF Loud
<1>8. Undoes(p) BY <1>3, <1>5 DEF Undoes
<1>9. Covers(p)
  <2>1. LastName(p, 3, 4) BY <1>3, <1>5 DEF LastName
  <2> QED BY <1>3, <1>5, <2>1 DEF Covers
<1> QED BY <1>4, <1>5, <1>6, <1>7, <1>8, <1>9, <1>l DEF Proper, WaitsForAll

LEMMA Joined ==
  ASSUME NEW T, NEW a \in Seq(T), NEW b \in Seq(T)
  PROVE  /\ a \o b \in Seq(T) /\ Len(a) \in Nat /\ Len(b) \in Nat /\ Len(a \o b) = Len(a) + Len(b)
         /\ \A j \in 1..Len(a) : (a \o b)[j] = a[j]
         /\ \A j \in 1..Len(b) : (a \o b)[Len(a) + j] = b[j]
         /\ \A j \in 1..Len(a \o b) : j \in 1..Len(a) \/ j - Len(a) \in 1..Len(b)
OBVIOUS

LEMMA ThrottleProper ==
  ASSUME plugin = "throttle", units \in Nat \ {0}
  PROVE  Proper(Throttle, 1) /\ Len(Throttle) = 5 + 2 * units
<1> DEFINE t == PodOf(1, 1)
           limits == {Change(i) : i \in 1..units}
           write(i) == Unseen(Make(Change(i)))
           reset(i) == Unseen(Unmake(Change(i)))
           writes == [i \in 1..units |-> write(i)]
           resets == [i \in 1..units |-> reset(i)]
           a == Look
           b == Make(t)
           c == Name({t} \cup limits)
           d == Hold
           q == <<a, b, a, c>>
           x == q \o writes
           y == x \o <<d>>
           p == y \o resets
<1>1. t \in Thing /\ limits \subseteq Thing BY Pods1
<1>2. a \in Instruction /\ b \in Instruction /\ c \in Instruction /\ d \in Instruction
  BY <1>1, Instructions
<1>3. a.do = "look" /\ b.do = "make" /\ c.do = "name" /\ d.do = "hold" /\ c.bad = {}
      /\ b.on = {t} /\ c.on = {t} \cup limits
  BY DEF Look, Make, Name, Hold, Instr
<1>4. \A i \in 1..units : /\ write(i) \in Instruction /\ reset(i) \in Instruction
                          /\ write(i).do = "make" /\ write(i).on = {Change(i)}
                          /\ reset(i).do = "unmake" /\ reset(i).on = {Change(i)}
  <2> SUFFICES ASSUME NEW i \in 1..units
               PROVE  /\ write(i) \in Instruction /\ reset(i) \in Instruction
                      /\ write(i).do = "make" /\ write(i).on = {Change(i)}
                      /\ reset(i).do = "unmake" /\ reset(i).on = {Change(i)}
    OBVIOUS
  <2>1. Change(i) \in Thing BY Pods1
  <2>2. write(i) \in Instruction /\ reset(i) \in Instruction
    BY <2>1, Instructions DEF Unseen, Instruction
  <2>3. write(i).do = "make" /\ write(i).on = {Change(i)} BY DEF Unseen, Make, Instr
  <2>4. reset(i).do = "unmake" /\ reset(i).on = {Change(i)} BY DEF Unseen, Unmake, Instr
  <2> QED BY <2>2, <2>3, <2>4
<1>5. writes \in Seq(Instruction) /\ resets \in Seq(Instruction)
      /\ Len(writes) = units /\ Len(resets) = units
  <2>1. writes \in [1..units -> Instruction] /\ resets \in [1..units -> Instruction] BY <1>4
  <2> QED BY <2>1
<1>6. \A i \in 1..units : writes[i] = write(i) /\ resets[i] = reset(i) OBVIOUS
<1>7. Throttle = p BY DEF Throttle
<1>m. \A i \in 1..units : Change(i) \in limits OBVIOUS
<1> HIDE DEF a, b, c, d, t, limits, writes, resets, write, reset
<1>8. /\ q \in Seq(Instruction) /\ Len(q) = 4
      /\ q[1] = a /\ q[2] = b /\ q[3] = a /\ q[4] = c
  BY <1>2
<1>9. <<d>> \in Seq(Instruction) /\ Len(<<d>>) = 1 /\ <<d>>[1] = d BY <1>2
<1> HIDE DEF q
<1>j. \A u, v \in Seq(Instruction) :
        /\ u \o v \in Seq(Instruction) /\ Len(u \o v) = Len(u) + Len(v)
        /\ \A j \in 1..Len(u) : (u \o v)[j] = u[j]
        /\ \A j \in 1..Len(v) : (u \o v)[Len(u) + j] = v[j]
  OBVIOUS
<1>10. /\ x \in Seq(Instruction) /\ Len(x) = 4 + units
       /\ x[1] = a /\ x[2] = b /\ x[3] = a /\ x[4] = c
       /\ \A i \in 1..units : x[4 + i] = write(i)
  <2>1. /\ x \in Seq(Instruction) /\ Len(x) = 4 + units
        /\ \A j \in 1..4 : x[j] = q[j]
        /\ \A j \in 1..units : x[4 + j] = writes[j]
    <3>1. /\ x \in Seq(Instruction) /\ Len(x) = Len(q) + Len(writes)
          /\ \A j \in 1..Len(q) : x[j] = q[j]
          /\ \A j \in 1..Len(writes) : x[Len(q) + j] = writes[j]
      BY <1>5, <1>8, <1>j, Zenon
    <3> HIDE DEF x
    <3> QED BY <1>5, <1>8, <3>1
  <2> HIDE DEF x
  <2> QED BY <1>6, <1>8, <2>1
<1> HIDE DEF x
<1>11. /\ y \in Seq(Instruction) /\ Len(y) = 5 + units
       /\ y[1] = a /\ y[2] = b /\ y[3] = a /\ y[4] = c /\ y[5 + units] = d
       /\ \A i \in 1..units : y[4 + i] = write(i)
  BY <1>9, <1>10, Joined
<1> HIDE DEF y
<1>12. /\ p \in Seq(Instruction) /\ Len(p) = 5 + 2 * units
       /\ p[1] = a /\ p[2] = b /\ p[3] = a /\ p[4] = c /\ p[5 + units] = d
       /\ \A i \in 1..units : p[4 + i] = write(i) /\ p[5 + units + i] = reset(i)
  <2>1. /\ p \in Seq(Instruction) /\ Len(p) = (5 + units) + units
        /\ \A j \in 1..(5 + units) : p[j] = y[j]
        /\ \A j \in 1..units : p[(5 + units) + j] = resets[j]
    <3>1. /\ p \in Seq(Instruction) /\ Len(p) = Len(y) + Len(resets)
          /\ \A j \in 1..Len(y) : p[j] = y[j]
          /\ \A j \in 1..Len(resets) : p[Len(y) + j] = resets[j]
      BY <1>5, <1>11, <1>j, Zenon
    <3> HIDE DEF p
    <3> QED BY <1>5, <1>11, <3>1
  <2> HIDE DEF p
  <2>2. \A i \in 1..units : 4 + i \in 1..(5 + units) BY <1>5
  <2>3. \A i \in {1, 2, 3, 4, 5 + units} : i \in 1..(5 + units) BY <1>5
  <2>4. Len(p) = 5 + 2 * units BY <2>1
  <2> QED BY <1>6, <1>11, <2>1, <2>2, <2>3, <2>4
<1> HIDE DEF p
<1>13. \A j \in 1..Len(p) : \/ j \in {1, 2, 3, 4, 5 + units}
                            \/ j - 4 \in 1..units /\ j = 4 + (j - 4)
                            \/ j - (5 + units) \in 1..units /\ j = 5 + units + (j - (5 + units))
  BY <1>12
<1>14. \A j \in 1..Len(p) :
         /\ p[j].do \in {"look", "make", "name", "hold", "unmake"}
         /\ p[j].do = "name" => j = 4
         /\ p[j].do = "hold" => j = 5 + units
         /\ p[j].do = "make" => j = 2 \/ j - 4 \in 1..units
         /\ p[j].do = "make" => p[j].on \subseteq {t} \cup limits
  <2> SUFFICES ASSUME NEW j \in 1..Len(p)
               PROVE  /\ p[j].do \in {"look", "make", "name", "hold", "unmake"}
                      /\ p[j].do = "name" => j = 4
                      /\ p[j].do = "hold" => j = 5 + units
                      /\ p[j].do = "make" => j = 2 \/ j - 4 \in 1..units
                      /\ p[j].do = "make" => p[j].on \subseteq {t} \cup limits
    OBVIOUS
  <2>1. CASE j \in {1, 2, 3, 4, 5 + units} BY <1>3, <1>12, <2>1
  <2>2. ASSUME NEW i \in 1..units, j = 4 + i
        PROVE  p[j].do = "make" /\ j - 4 \in 1..units /\ p[j].on \subseteq {t} \cup limits
    <3>1. p[j] = write(i) BY <1>12, <2>2
    <3>2. j - 4 = i BY <2>2
    <3> QED BY <1>4, <1>m, <3>1, <3>2
  <2>3. ASSUME NEW i \in 1..units, j = 5 + units + i PROVE p[j].do = "unmake"
    BY <1>4, <1>12, <2>3
  <2> QED BY <1>13, <2>1, <2>2, <2>3
<1>15. Owned(p, 1) BY DEF Owned, Owner
<1>16. CalmNames(p) BY <1>3, <1>12, <1>14 DEF CalmNames
<1>l. Loud(p) BY DEF Loud
<1>17. Undoes(p)
  <2> SUFFICES ASSUME NEW j \in 1..Len(p), p[j].do = "make", NEW u \in p[j].on
               PROVE  Stays(u) \/ \E k \in j..Len(p) : p[k].do = "unmake" /\ u \in p[k].on
    BY DEF Undoes
  <2>1. CASE j = 2 BY <1>3, <1>12, <2>1 DEF Stays, t
  <2>2. CASE j - 4 \in 1..units
    <3> DEFINE i == j - 4
               k == 5 + units + i
    <3>0. i \in 1..units /\ j = 4 + i BY <2>2
    <3>1. u = Change(i) BY <1>4, <1>12, <3>0
    <3>2. k \in j..Len(p) BY <1>12, <3>0
    <3>3. p[k].do = "unmake" /\ u \in p[k].on
      <4>1. p[k] = reset(i) BY <1>12, <3>0
      <4>2. reset(i).do = "unmake" /\ reset(i).on = {Change(i)} BY <1>4, <3>0
      <4> QED BY <3>1, <4>1, <4>2
    <3> QED BY <3>2, <3>3
  <2> QED BY <1>14, <2>1, <2>2
<1>18. Covers(p)
  <2>1. LastName(p, 4, 5 + units) BY <1>3, <1>12, <1>14 DEF LastName
  <2>2. \A l \in 1..(4 + units) : l \in 1..Len(p) BY <1>12
  <2>3. 4 \in 1..Len(p) /\ p[4].on = {t} \cup limits BY <1>3, <1>12
  <2> QED BY <1>14, <2>1, <2>2, <2>3 DEF Covers
<1>19. Len(p) \in Nat /\ Len(p) >= 1 BY <1>12
<1> QED BY <1>7, <1>12, <1>15, <1>16, <1>17, <1>18, <1>19, <1>l DEF Proper, WaitsForAll

(* The pods of the first i targets. *)
PodsTo(i) == UNION {PodsOf(k, PodsPer) : k \in 1..i}

LEMMA SynFloodProper ==
  ASSUME plugin = "syn_flood", units \in Nat \ {0}
  PROVE  Proper(SynFlood, 1)
<1> DEFINE pods(i) == [j \in 1..PodsPer |-> Make(PodOf(i, j))]
           target == [i \in 1..units |-> <<Look>> \o pods(i) \o <<Name(PodsTo(i))>>]
           all == PodsTo(units)
           w == Await(all, {"raise"})
           flat == FlattenSeq(target)
           p == flat \o <<w>>
           T == {e \in Instruction :
                   /\ e.do \in {"look", "make", "name"}
                   /\ e.do = "make" => e.on \subseteq all /\ \A t \in e.on : t[1] = "pod"
                   /\ e.do = "name" => e.bad = {}}
<1>0. PodsPer \in Nat BY DeploymentsAssumption
<1>1. SynFlood = p BY DEF SynFlood, PodsTo
<1>2. \A i \in 1..units : /\ PodsTo(i) \in SUBSET Thing /\ Name(PodsTo(i)) \in T
                          /\ Name(PodsTo(i)).do = "name" /\ Name(PodsTo(i)).on = PodsTo(i)
  <2> SUFFICES ASSUME NEW i \in 1..units
               PROVE  /\ PodsTo(i) \in SUBSET Thing /\ Name(PodsTo(i)) \in T
                      /\ Name(PodsTo(i)).do = "name" /\ Name(PodsTo(i)).on = PodsTo(i)
    OBVIOUS
  <2>1. PodsTo(i) \in SUBSET Thing BY <1>0, Pods1 DEF PodsTo, PodsOf
  <2>2. Name(PodsTo(i)) \in Instruction BY <2>1, Instructions
  <2>3. Name(PodsTo(i)).do = "name" /\ Name(PodsTo(i)).on = PodsTo(i) /\ Name(PodsTo(i)).bad = {}
    BY DEF Name, Instr
  <2> QED BY <2>1, <2>2, <2>3
<1>3. \A i \in 1..units : pods(i) \in Seq(T)
  <2> SUFFICES ASSUME NEW i \in 1..units PROVE pods(i) \in Seq(T) OBVIOUS
  <2>1. ASSUME NEW j \in 1..PodsPer PROVE Make(PodOf(i, j)) \in T
    <3>1. PodOf(i, j) \in Thing /\ PodOf(i, j)[1] = "pod" BY <1>0, Pods1
    <3>2. Make(PodOf(i, j)) \in Instruction BY <3>1, Instructions
    <3>3. Make(PodOf(i, j)).do = "make" /\ Make(PodOf(i, j)).on = {PodOf(i, j)} BY DEF Make, Instr
    <3>4. PodOf(i, j) \in all BY DEF PodsTo, PodsOf
    <3> QED BY <3>1, <3>2, <3>3, <3>4
  <2>2. pods(i) \in [1..PodsPer -> T] BY <2>1
  <2> QED BY <1>0, <2>2
<1>4. Look \in T
  <2>1. Look.do = "look" BY DEF Look, Instr
  <2> QED BY <2>1, Instructions
<1>w. w \in Instruction /\ w.do = "await" /\ w.on = all /\ w.bad = {"raise"}
  <2>1. all \in SUBSET Thing BY <1>2
  <2>2. w \in Instruction BY <2>1, Instructions
  <2> QED BY <2>2 DEF Await, Instr
<1>5. \A i \in 1..units : <<Look>> \o pods(i) \o <<Name(PodsTo(i))>> \in Seq(T)
  <2> SUFFICES ASSUME NEW i \in 1..units
               PROVE  <<Look>> \o pods(i) \o <<Name(PodsTo(i))>> \in Seq(T)
    OBVIOUS
  <2> DEFINE x == pods(i)
             n == Name(PodsTo(i))
  <2>1. x \in Seq(T) /\ n \in T BY <1>2, <1>3
  <2> HIDE DEF x, n, T
  <2>2. <<Look>> \in Seq(T) /\ <<n>> \in Seq(T) BY <1>4, <2>1
  <2> DEFINE y == <<Look>> \o x
  <2>3. y \in Seq(T) BY <2>1, <2>2
  <2> HIDE DEF y
  <2>4. y \o <<n>> \in Seq(T) BY <2>2, <2>3
  <2> QED BY <2>4 DEF y, x, n
<1>6. LET z == <<Look>> \o pods(units) \o <<Name(all)>>
      IN  z # <<>> /\ z[Len(z)] = Name(all)
  <2> DEFINE x == pods(units)
             n == Name(all)
  <2>1. x \in Seq(T) /\ n \in T BY <1>2, <1>3
  <2> HIDE DEF x, n, T
  <2>2. <<Look>> \o x \in Seq(T) /\ <<n>> \in Seq(T) /\ Len(<<n>>) = 1 /\ <<n>>[1] = n BY <1>4, <2>1
  <2>3. LET z == (<<Look>> \o x) \o <<n>> IN z # <<>> /\ z[Len(z)] = n
    <3> DEFINE y == <<Look>> \o x
    <3> HIDE DEF y
    <3>1. y \in Seq(T) BY <2>2 DEF y
    <3>2. (y \o <<n>>) # <<>> /\ (y \o <<n>>)[Len(y \o <<n>>)] = n
      <4>1. Len(y \o <<n>>) = Len(y) + 1 /\ Len(y) \in Nat BY <2>2, <3>1, Joined
      <4>2. 1 \in 1..Len(<<n>>) BY <2>2
      <4>3. (y \o <<n>>)[Len(y) + 1] = n BY <2>2, <3>1, <4>2, Joined
      <4> QED BY <4>1, <4>3
    <3> QED BY <3>2 DEF y
  <2> QED BY <2>3 DEF x, n
<1>7. target \in Seq(Seq(T)) /\ Len(target) = units /\ target # <<>>
      /\ target[units] = <<Look>> \o pods(units) \o <<Name(all)>>
  <2>1. target \in [1..units -> Seq(T)] BY <1>5
  <2>2. target \in Seq(Seq(T)) /\ Len(target) = units
    <3> HIDE DEF T, target
    <3> QED BY <2>1
  <2>3. target # <<>>
    <3> HIDE DEF target
    <3> QED BY <2>2
  <2>4. units \in 1..units OBVIOUS
  <2> QED BY <2>2, <2>3, <2>4
<1> HIDE DEF target
<1>8. /\ flat \in Seq(T) /\ flat # <<>> /\ flat[Len(flat)] = Name(all)
  <2>1. target[Len(target)] # <<>> /\ target[Len(target)][Len(target[Len(target)])] = Name(all)
    BY <1>6, <1>7
  <2> HIDE DEF all, T
  <2> QED BY <1>7, <2>1, Windows
<1>9. T \subseteq Instruction /\ flat \in Seq(Instruction) /\ <<w>> \in Seq(Instruction)
      /\ Len(<<w>>) = 1 /\ <<w>>[1] = w
  BY <1>8, <1>w
<1> HIDE DEF flat, w
<1>10. /\ p \in Seq(Instruction) /\ Len(flat) \in Nat /\ Len(p) = Len(flat) + 1 /\ p[Len(p)] = w
       /\ \A j \in 1..Len(flat) : p[j] = flat[j]
  BY <1>9
<1>11. Len(flat) \in 1..Len(flat) BY <1>8, <1>9, EmptySeq
<1>12. \A j \in 1..Len(p) : p[j] \in T \/ j = Len(p) BY <1>8, <1>10
<1>13. p[Len(flat)].do = "name" /\ p[Len(flat)].on = all
  <2>1. Name(all).do = "name" /\ Name(all).on = all BY <1>2
  <2> QED BY <1>8, <1>10, <1>11, <2>1
<1> HIDE DEF p, all
<1>14. Owned(p, 1) BY DEF Owned, Owner
<1>15. CalmNames(p) BY <1>w, <1>10, <1>12 DEF CalmNames
<1>16. Undoes(p) BY <1>w, <1>10, <1>12 DEF Undoes, Stays
<1>17. Covers(p)
  <2>1. LastName(p, Len(flat), Len(p)) BY <1>10, <1>11, <1>13 DEF LastName
  <2>2. \A l \in 1..(Len(p) - 1) : l \in 1..Len(p) /\ l # Len(p) BY <1>10
  <2>3. \A l \in 1..(Len(p) - 1) : p[l].do = "make" => p[l].on \subseteq all BY <1>12, <2>2
  <2>4. Len(flat) \in 1..Len(p) BY <1>10, <1>11
  <2> QED BY <1>12, <1>13, <2>1, <2>3, <2>4 DEF Covers
<1>l. Loud(p) BY <1>w, <1>10, <1>12 DEF Loud
<1>18. WaitsForAll(p) BY <1>w, <1>10, <1>12 DEF WaitsForAll
<1>19. Len(p) \in Nat /\ Len(p) >= 1 BY <1>10
<1> QED BY <1>1, <1>10, <1>14, <1>15, <1>16, <1>17, <1>18, <1>19, <1>l DEF Proper

(* What the programs of http_load consist of; a wait stands right after    *)
(* the registration of the pods it waits for. *)
LoadStep ==
  {e \in Instruction :
     /\ e.do \in {"look", "make", "name", "await"}
     /\ e.do = "make" => \A t \in e.on : t[1] = "pod"
     /\ e.do = "name" => e.bad = {}}
WaitsForNamed(p) ==
  \A q \in 1..Len(p) : p[q].do = "await" =>
    p[q].on = {} \/ (q - 1 \in 1..Len(p) /\ p[q - 1].do = "name" /\ p[q - 1].on = p[q].on)
LoadPod(i) == [j \in 1..PodsPer |-> <<Make(PodOf(i, j)), Name(PodsOf(i, j))>>]
LoadEntry(i) ==
  <<Look>> \o FlattenSeq(LoadPod(i)) \o <<Await(PodsOf(i, PodsPer), {"raise", "on"})>>

LEMMA LoadEntryIs ==
  ASSUME NEW i \in Nat
  PROVE  LoadEntry(i) \in Seq(LoadStep) /\ LoadEntry(i) # <<>> /\ WaitsForNamed(LoadEntry(i))
<1> DEFINE ts == PodsOf(i, PodsPer)
           w == Await(ts, {"raise", "on"})
           T == {e \in LoadStep : e.do # "await"}
           pods == LoadPod(i)
           flat == FlattenSeq(pods)
<1>0. PodsPer \in Nat BY DeploymentsAssumption
<1>1. \A j \in 0..PodsPer : PodsOf(i, j) \in SUBSET Thing BY <1>0, Pods1 DEF PodsOf
<1>2. \A j \in 1..PodsPer : /\ Make(PodOf(i, j)) \in T /\ Name(PodsOf(i, j)) \in T
                            /\ Name(PodsOf(i, j)).do = "name"
                            /\ Name(PodsOf(i, j)).on = PodsOf(i, j)
  <2> SUFFICES ASSUME NEW j \in 1..PodsPer
               PROVE  /\ Make(PodOf(i, j)) \in T /\ Name(PodsOf(i, j)) \in T
                      /\ Name(PodsOf(i, j)).do = "name" /\ Name(PodsOf(i, j)).on = PodsOf(i, j)
    OBVIOUS
  <2>0. j \in Nat /\ j \in 0..PodsPer BY <1>0
  <2>1. PodOf(i, j) \in Thing /\ PodOf(i, j)[1] = "pod" /\ PodsOf(i, j) \in SUBSET Thing
    BY <1>1, <2>0, Pods1
  <2>2. Make(PodOf(i, j)) \in Instruction /\ Name(PodsOf(i, j)) \in Instruction
    BY <2>1, Instructions
  <2>3. Make(PodOf(i, j)).do = "make" /\ Make(PodOf(i, j)).on = {PodOf(i, j)} BY DEF Make, Instr
  <2>4. /\ Name(PodsOf(i, j)).do = "name" /\ Name(PodsOf(i, j)).on = PodsOf(i, j)
        /\ Name(PodsOf(i, j)).bad = {}
    BY DEF Name, Instr
  <2> QED BY <2>1, <2>2, <2>3, <2>4 DEF LoadStep
<1>3. Look \in T
  <2>1. Look.do = "look" BY DEF Look, Instr
  <2> QED BY <2>1, Instructions DEF LoadStep
<1>4. w \in LoadStep /\ w.do = "await" /\ w.on = ts
  <2>1. ts \in SUBSET Thing BY <1>0, <1>1
  <2>2. w \in Instruction BY <2>1, Instructions
  <2>3. w.do = "await" /\ w.on = ts BY DEF Await, Instr
  <2> QED BY <2>2, <2>3 DEF LoadStep
<1>5. pods \in Seq(Seq(T)) /\ Len(pods) = PodsPer
  <2>1. \A j \in 1..PodsPer : <<Make(PodOf(i, j)), Name(PodsOf(i, j))>> \in Seq(T)
    <3> SUFFICES ASSUME NEW j \in 1..PodsPer
                 PROVE  <<Make(PodOf(i, j)), Name(PodsOf(i, j))>> \in Seq(T)
      OBVIOUS
    <3> DEFINE a == Make(PodOf(i, j))
               b == Name(PodsOf(i, j))
    <3>1. a \in T /\ b \in T BY <1>2
    <3> HIDE DEF a, b, T
    <3>2. <<a, b>> \in Seq(T) BY <3>1
    <3> QED BY <3>2 DEF a, b
  <2>2. pods \in [1..PodsPer -> Seq(T)] BY <2>1 DEF LoadPod
  <2> HIDE DEF pods, T
  <2> QED BY <1>0, <2>2
<1>6. flat \in Seq(T)
  <2> HIDE DEF T, pods
  <2> QED BY <1>5, Windows
<1>7. \/ ts = {}
      \/ flat # <<>> /\ flat[Len(flat)].do = "name" /\ flat[Len(flat)].on = ts
  <2>1. CASE PodsPer = 0
    <3>1. 1..PodsPer = {} BY <2>1
    <3> QED BY <3>1 DEF PodsOf
  <2>2. CASE PodsPer # 0
    <3> DEFINE b == Name(PodsOf(i, PodsPer))
    <3>1. PodsPer \in 1..PodsPer BY <1>0, <2>2
    <3>2. pods[PodsPer] = <<Make(PodOf(i, PodsPer)), b>> BY <3>1 DEF LoadPod
    <3>3. b.do = "name" /\ b.on = ts BY <1>2, <3>1
    <3>4. pods # <<>> /\ pods[Len(pods)] # <<>> /\ pods[Len(pods)][Len(pods[Len(pods)])] = b
      <4> HIDE DEF b, pods
      <4>1. pods # <<>> BY <1>5, <2>2, EmptySeq
      <4>2. pods[PodsPer] # <<>> /\ pods[PodsPer][Len(pods[PodsPer])] = b BY <3>2
      <4> QED BY <1>5, <4>1, <4>2
    <3>5. flat # <<>> /\ flat[Len(flat)] = b
      <4> HIDE DEF b, pods, T
      <4> QED BY <1>5, <3>4, Windows
    <3> QED BY <3>3, <3>5
  <2> QED BY <2>1, <2>2
<1>8. T \subseteq LoadStep OBVIOUS
<1>9. \A e \in T : e.do # "await" OBVIOUS
<1> DEFINE x == <<Look>> \o flat
           p == x \o <<w>>
<1>10. LoadEntry(i) = p BY DEF LoadEntry
<1> HIDE DEF T, flat, w, ts
<1>11. <<Look>> \in Seq(T) /\ Len(<<Look>>) = 1 BY <1>3
<1>12. /\ x \in Seq(T) /\ Len(x) \in Nat /\ Len(x) = 1 + Len(flat) /\ Len(flat) \in Nat
       /\ \A j \in 1..Len(flat) : x[1 + j] = flat[j]
  BY <1>6, <1>11, Joined
<1>13. x \in Seq(LoadStep) /\ \A j \in 1..Len(x) : x[j].do # "await"
  <2> HIDE DEF x
  <2> QED BY <1>8, <1>9, <1>12
<1>14. flat # <<>> => x[Len(x)] = flat[Len(flat)]
  <2>1. flat # <<>> => Len(flat) \in 1..Len(flat) BY <1>6, <1>12, EmptySeq
  <2> HIDE DEF x
  <2> QED BY <1>12, <2>1
<1> HIDE DEF x
<1>15. /\ p \in Seq(LoadStep) /\ Len(p) = Len(x) + 1 /\ p[Len(x) + 1] = w
       /\ \A j \in 1..Len(x) : p[j] = x[j]
  BY <1>4, <1>13
<1> HIDE DEF p
<1>16. p # <<>> BY <1>12, <1>15
<1>17. WaitsForNamed(p)
  <2> SUFFICES ASSUME NEW q \in 1..Len(p), p[q].do = "await"
               PROVE  \/ p[q].on = {}
                      \/ q - 1 \in 1..Len(p) /\ p[q - 1].do = "name" /\ p[q - 1].on = p[q].on
    BY DEF WaitsForNamed
  <2>1. q = Len(x) + 1 /\ p[q] = w BY <1>12, <1>13, <1>15
  <2>2. CASE flat # <<>> /\ flat[Len(flat)].do = "name" /\ flat[Len(flat)].on = ts
    <3>1. q - 1 = Len(x) /\ q - 1 \in 1..Len(x) /\ q - 1 \in 1..Len(p) BY <1>12, <1>15, <2>1
    <3>2. p[q - 1] = flat[Len(flat)] BY <1>14, <1>15, <2>2, <3>1
    <3> QED BY <1>4, <2>1, <2>2, <3>1, <3>2
  <2> QED BY <1>4, <1>7, <2>1, <2>2
<1> QED BY <1>10, <1>15, <1>16, <1>17

LEMMA HttpLoadProper ==
  ASSUME plugin = "http_load", units \in Nat \ {0}
  PROVE  Proper(HttpLoad, 1)
<1> DEFINE s == [i \in 1..units |-> LoadEntry(i)]
           p == FlattenSeq(s)
<1>1. HttpLoad = p BY DEF HttpLoad, LoadEntry, LoadPod
<1>2. s \in Seq(Seq(LoadStep)) /\ Len(s) = units
  <2>1. s \in [1..units -> Seq(LoadStep)] BY LoadEntryIs
  <2> HIDE DEF s
  <2> QED BY <2>1
<1>3. \A i \in 1..units : s[i] # <<>> /\ WaitsForNamed(s[i]) BY LoadEntryIs
<1> HIDE DEF s
<1>4. /\ p \in Seq(LoadStep) /\ p # <<>>
      /\ \A j \in 1..Len(p) : \E i \in 1..Len(s), off \in Nat :
              /\ j - off \in 1..Len(s[i])
              /\ \A q \in 1..Len(s[i]) : off + q \in 1..Len(p) /\ p[off + q] = s[i][q]
  <2>1. s # <<>> /\ s[Len(s)] # <<>> BY <1>2, <1>3, EmptySeq
  <2> QED BY <1>2, <2>1, Windows
<1> HIDE DEF p
<1>5. WaitsForNamed(p)
  <2> SUFFICES ASSUME NEW j \in 1..Len(p), p[j].do = "await"
               PROVE  \/ p[j].on = {}
                      \/ j - 1 \in 1..Len(p) /\ p[j - 1].do = "name" /\ p[j - 1].on = p[j].on
    BY DEF WaitsForNamed
  <2>1. PICK i \in 1..Len(s), off \in Nat :
              /\ j - off \in 1..Len(s[i])
              /\ \A q \in 1..Len(s[i]) : off + q \in 1..Len(p) /\ p[off + q] = s[i][q]
    BY <1>4
  <2> DEFINE q == j - off
  <2>2. q \in 1..Len(s[i]) /\ off + q = j /\ WaitsForNamed(s[i]) BY <1>2, <1>3, <2>1
  <2>3. p[j] = s[i][q] BY <2>1, <2>2
  <2>4. \/ s[i][q].on = {}
        \/ q - 1 \in 1..Len(s[i]) /\ s[i][q - 1].do = "name" /\ s[i][q - 1].on = s[i][q].on
    BY <2>2, <2>3 DEF WaitsForNamed
  <2>5. q - 1 \in 1..Len(s[i]) => j - 1 \in 1..Len(p) /\ p[j - 1] = s[i][q - 1]
    <3>1. off + (q - 1) = j - 1 BY <2>2
    <3> QED BY <2>1, <3>1
  <2> QED BY <2>3, <2>4, <2>5
<1>6. Len(p) \in Nat /\ Len(p) >= 1 /\ p \in Seq(Instruction)
  <2>1. LoadStep \subseteq Instruction BY DEF LoadStep
  <2> QED BY <1>4, <2>1, EmptySeq
<1>7. \A j \in 1..Len(p) : p[j] \in LoadStep BY <1>4
<1>8. Owned(p, 1) BY DEF Owned, Owner
<1>9. CalmNames(p) BY <1>7 DEF CalmNames, LoadStep
<1>10. Undoes(p) BY <1>7 DEF Undoes, LoadStep, Stays
<1>l. Loud(p) BY <1>7 DEF Loud, LoadStep
<1>11. Covers(p)
  <2> SUFFICES ASSUME NEW i \in 1..Len(p), p[i].do \in {"hold", "await"}, p[i].on # {}
               PROVE  \E k \in 1..Len(p) : LastName(p, k, i) /\ p[k].on = p[i].on
    BY DEF Covers
  <2>1. p[i].do = "await" BY <1>7 DEF LoadStep
  <2>2. i - 1 \in 1..Len(p) /\ p[i - 1].do = "name" /\ p[i - 1].on = p[i].on
    BY <1>5, <2>1 DEF WaitsForNamed
  <2>3. LastName(p, i - 1, i) BY <1>6, <2>2 DEF LastName
  <2> QED BY <2>2, <2>3
<1> QED BY <1>1, <1>6, <1>8, <1>9, <1>10, <1>11, <1>l DEF Proper, WaitsForAll

(* Every hand has a proper program. *)
LEMMA ProperSteps ==
  ASSUME plugin \in Deployer, units \in Nat \ {0}, NEW h \in Nat, plugin # "hogs" => h = 1
  PROVE  Proper(StepsOf(h), h)
BY HogProper, HijackingProper, PvcProper, ThrottleProper, SynFloodProper, HttpLoadProper
   DEF StepsOf, Deployer

-----------------------------------------------------------------------------
(* The invariant. *)

(* Every hand is at a step of its program. *)
Crew == 1..(IF plugin = "hogs" THEN units ELSE 1)
HandState == [i : Nat, st : {"on", "done", "failed"}]
HandsOK ==
  /\ hands \in [Crew -> HandState]
  /\ \A h \in Crew : /\ hands[h].i \in 1..Len(StepsOf(h))
                     /\ hands[h].st = "done" => hands[h].i = Len(StepsOf(h))

(* What is in the cluster, a hand that has not failed has made in one of   *)
(* the steps it has taken, and has not undone since, or not reached. *)
Taken(h) == IF hands[h].st = "done" THEN hands[h].i ELSE hands[h].i - 1
Standing(h, t) ==
  \E j \in 1..Taken(h) :
    /\ StepsOf(h)[j].do = "make" /\ t \in StepsOf(h)[j].on
    /\ \/ t \in unreached
       \/ \A k \in j..Taken(h) : ~(StepsOf(h)[k].do = "unmake" /\ t \in StepsOf(h)[k].on)
MadeByHands ==
  \A t \in made : Owner(t) \in Crew /\ (hands[Owner(t)].st # "failed" => Standing(Owner(t), t))

(* With one hand, the version file names what its last registration says;  *)
(* and nothing before the first one. *)
NamedByHand ==
  Crew = {1} /\ hands[1].st # "failed" =>
    /\ \A k \in 1..Taken(1) : LastName(StepsOf(1), k, Taken(1) + 1) => named = StepsOf(1)[k].on
    /\ (\A k \in 1..Taken(1) : StepsOf(1)[k].do # "name") => named = {}

(* A hand fails because a call raised, or before it has named a thing. *)
HandsFail ==
  \A h \in Crew : hands[h].st = "failed" => slips >= 1 \/ (Crew = {1} /\ named = {})
FloodIsOver == plugin = "syn_flood" /\ hands[1].st = "done" => live = {}

HandsInv == HandsOK /\ MadeByHands /\ NamedByHand /\ HandsFail /\ FloodIsOver

(* What is in the cluster after a success. *)
AfterSuccess ==
  main \in {"clean_pod", "returned"} /\ rc = 0 =>
    /\ \A t \in made : Stays(t) \/ t \in unreached
    /\ plugin = "syn_flood" => live = {}
    /\ main = "returned" /\ plugin = "throttle" /\ slips = 0 => made \subseteq unreached

(* What the rollback has still to do, or has not reached; and the threads  *)
(* of hogs beside it go on as they did. *)
Rolling == {"rolling", "rolled"}
RollsInv ==
  main \in Rolling =>
    /\ named \cap made \subseteq todo \cup unreached \cup late
    /\ rc = 1 => slips >= 1
    /\ plugin \notin Unimported /\ unreached # {} => slips >= 1 /\ (rc = 1 => slips >= 2)
    /\ main = "rolled" => todo = {}
BesideInv == main \in Rolling /\ plugin = "hogs" => HandsEnd \/ HandsInv

DeployTypeOK ==
  /\ main \in {"entry", "hands", "lifting", "clean_pod", "killed", "returned", "rolling", "rolled"}
  /\ rc \in {0, 1} /\ units \in Nat \ {0} /\ slips \in Nat /\ live \subseteq made
  /\ main \in {"lifting", "clean_pod"} => plugin = "throttle"
  /\ main \in {"entry", "hands"} => rc = 0
  /\ main = "lifting" => rc = 1
  /\ main = "entry" => made = {} /\ named = {}
  /\ main \notin Rolling => late = {} /\ (plugin # "throttle" => unreached = {})
  /\ main \notin {"hands"} \cup Rolling => HandsEnd

DeployInv ==
  plugin \in Deployer =>
    /\ DeployTypeOK
    /\ main = "hands" => HandsInv
    /\ rc = 1 => slips >= 1 \/ named = {}
    /\ AfterSuccess /\ RollsInv /\ BesideInv

LEMMA CrewIs ==
  ASSUME plugin \in Deployer, units \in Nat \ {0}
  PROVE  /\ 1 \in Crew /\ Crew \subseteq Nat /\ (plugin # "hogs" => Crew = {1})
         /\ \A h \in Crew : Proper(StepsOf(h), h)
<1>1. plugin # "hogs" => Crew = {1} BY DEF Crew
<1>2. 1 \in Crew /\ Crew \subseteq Nat /\ 1..units \subseteq Nat BY DEF Crew
<1>3. ASSUME NEW h \in Crew PROVE Proper(StepsOf(h), h)
  <2>1. h \in Nat /\ (plugin # "hogs" => h = 1) BY <1>1, <1>2
  <2> QED BY <2>1, ProperSteps
<1> QED BY <1>1, <1>2, <1>3

(* The step that a hand is at. *)
LEMMA HandIsAt ==
  ASSUME plugin \in Deployer, DeployTypeOK, HandsOK, NEW h \in Crew
  PROVE  /\ hands[h] \in HandState /\ hands[h].i \in Nat /\ hands[h].i \in 1..Len(StepsOf(h))
         /\ Len(StepsOf(h)) \in Nat /\ At1(h) = StepsOf(h)[hands[h].i] /\ At1(h) \in Instruction
         /\ Proper(StepsOf(h), h)
<1>1. Proper(StepsOf(h), h) BY CrewIs DEF DeployTypeOK
<1>2. hands[h] \in HandState /\ hands[h].i \in 1..Len(StepsOf(h)) BY DEF HandsOK
<1>3. hands[h].i \in Nat /\ Len(StepsOf(h)) \in Nat /\ StepsOf(h) \in Seq(Instruction)
  BY <1>1, <1>2 DEF HandState, Proper
<1> QED BY <1>1, <1>2, <1>3 DEF At1

(* The program of a hand stays the same. *)
LEMMA StepsStay ==
  ASSUME UNCHANGED <<plugin, units>>
  PROVE  Crew' = Crew /\ \A h : StepsOf(h)' = StepsOf(h)
BY DEF Crew, StepsOf, Unseen, SynFlood, HttpLoad, Throttle, PodsOf, PodOf, Change, Pvc, Hijacking, Hog

(* A hand that takes its step is at the next one, or done. *)
LEMMA HandMovesOn ==
  ASSUME plugin \in Deployer, DeployTypeOK, HandsOK, NEW h \in Crew, hands[h].st = "on",
         UNCHANGED <<plugin, units>>, OneOn(h)
  PROVE  /\ HandsOK' /\ hands'[h].st \in {"on", "done"} /\ Taken(h)' = hands[h].i
         /\ Taken(h) = hands[h].i - 1
         /\ hands'[h].st = "done" => hands[h].i = Len(StepsOf(h))
         /\ \A g \in Crew \ {h} : hands'[g] = hands[g] /\ Taken(g)' = Taken(g)
<1> DEFINE n == Len(StepsOf(h))
           r == IF hands[h].i = n THEN [hands[h] EXCEPT !.st = "done"]
                ELSE [hands[h] EXCEPT !.i = hands[h].i + 1]
<1>1. /\ hands[h] \in HandState /\ hands[h].i \in 1..n /\ n \in Nat /\ hands \in [Crew -> HandState]
  BY HandIsAt DEF HandsOK
<1>2. hands' = [hands EXCEPT ![h] = r] BY DEF OneOn
<1>3. r \in HandState /\ r.i \in 1..n /\ r.st \in {"on", "done"} /\ (r.st = "done" => r.i = n)
      /\ (r.st = "done" => hands[h].i = n /\ r.i = hands[h].i)
      /\ (r.st = "on" => r.i = hands[h].i + 1)
  BY <1>1 DEF HandState
<1> HIDE DEF r
<1>4. hands'[h] = r /\ hands' \in [Crew -> HandState] /\ \A g \in Crew \ {h} : hands'[g] = hands[g]
  BY <1>1, <1>2, <1>3
<1>5. HandsOK' BY <1>3, <1>4, StepsStay DEF HandsOK
<1>6. Taken(h)' = hands[h].i /\ Taken(h) = hands[h].i - 1 BY <1>1, <1>3, <1>4 DEF Taken
<1>7. \A g \in Crew \ {h} : Taken(g)' = Taken(g) BY <1>4 DEF Taken
<1> QED BY <1>3, <1>4, <1>5, <1>6, <1>7

(* What a step has done to the cluster is what the hands that have not     *)
(* failed have made. *)
LEMMA MadeMovesOn ==
  ASSUME plugin \in Deployer, DeployTypeOK, HandsOK, MadeByHands, NEW h \in Crew,
         hands[h].st = "on", UNCHANGED <<plugin, units>>, OneOn(h),
         \A t \in made' :
           \/ t \in made /\ (~(At1(h).do = "unmake" /\ t \in At1(h).on) \/ t \in unreached')
           \/ t \in At1(h).on /\ At1(h).do = "make",
         unreached \subseteq unreached'
  PROVE  MadeByHands'
<1>1. /\ HandsOK' /\ hands'[h].st \in {"on", "done"} /\ Taken(h)' = hands[h].i
      /\ Taken(h) = hands[h].i - 1
      /\ \A g \in Crew \ {h} : hands'[g] = hands[g] /\ Taken(g)' = Taken(g)
  BY HandMovesOn
<1>2. Crew' = Crew /\ \A g : StepsOf(g)' = StepsOf(g) BY StepsStay
<1>3. \A t : Owner(t)' = Owner(t) BY DEF Owner
<1>4. /\ hands[h].i \in Nat /\ hands[h].i \in 1..Len(StepsOf(h)) /\ At1(h) = StepsOf(h)[hands[h].i]
      /\ Owned(StepsOf(h), h)
  BY HandIsAt DEF Proper
<1> SUFFICES ASSUME NEW t \in made'
             PROVE  Owner(t) \in Crew /\ (hands'[Owner(t)].st # "failed" => Standing(Owner(t), t)')
  BY <1>2, <1>3 DEF MadeByHands
<1> PICK o : o = Owner(t) OBVIOUS
<1> SUFFICES o \in Crew /\ (hands'[o].st # "failed" => Standing(o, t)')
  <2>1. Owner(t)' = o BY <1>3
  <2> QED BY <2>1 DEF Standing, Taken
<1>5. CASE t \in made /\ o # h
  <2>1. o \in Crew \ {h} /\ (hands[o].st # "failed" => Standing(o, t)) BY <1>5 DEF MadeByHands
  <2>2. hands'[o] = hands[o] /\ Taken(o)' = Taken(o) BY <1>1, <2>1
  <2>3. Standing(o, t) => Standing(o, t)' BY <1>2, <2>2 DEF Standing
  <2> QED BY <2>1, <2>2, <2>3
<1>6. CASE /\ t \in made /\ o = h
           /\ ~(At1(h).do = "unmake" /\ t \in At1(h).on) \/ t \in unreached'
  <2>1. Standing(h, t) BY <1>6 DEF MadeByHands
  <2>2. PICK j \in 1..Taken(h) :
          /\ StepsOf(h)[j].do = "make" /\ t \in StepsOf(h)[j].on
          /\ \/ t \in unreached
             \/ \A k \in j..Taken(h) : ~(StepsOf(h)[k].do = "unmake" /\ t \in StepsOf(h)[k].on)
    BY <2>1 DEF Standing
  <2>3. j \in 1..hands[h].i /\ \A k \in j..hands[h].i : k \in j..Taken(h) \/ k = hands[h].i
    BY <1>1, <1>4
  <2>4. \/ t \in unreached'
        \/ \A k \in j..hands[h].i : ~(StepsOf(h)[k].do = "unmake" /\ t \in StepsOf(h)[k].on)
    BY <1>4, <1>6, <2>2, <2>3
  <2>5. Standing(h, t)' BY <1>1, <1>2, <2>2, <2>3, <2>4 DEF Standing
  <2> QED BY <1>6, <2>5
<1>7. CASE t \in At1(h).on /\ At1(h).do = "make"
  <2>1. o = h BY <1>4, <1>7 DEF Owned
  <2>2. hands[h].i \in 1..hands[h].i /\ \A k \in (hands[h].i)..(hands[h].i) : k = hands[h].i BY <1>4
  <2>3. Standing(h, t)' BY <1>1, <1>2, <1>4, <1>7, <2>2 DEF Standing
  <2> QED BY <2>1, <2>3
<1> QED BY <1>5, <1>6, <1>7

(* The same for the names. *)
LEMMA NamesMoveOn ==
  ASSUME plugin \in Deployer, DeployTypeOK, HandsOK, NamedByHand, NEW h \in Crew,
         hands[h].st = "on", UNCHANGED <<plugin, units>>, OneOn(h),
         IF At1(h).do = "name" THEN named' = At1(h).on ELSE named' = named
  PROVE  NamedByHand'
<1>1. /\ hands'[h].st \in {"on", "done"} /\ Taken(h)' = hands[h].i /\ Taken(h) = hands[h].i - 1
  BY HandMovesOn
<1>2. Crew' = Crew /\ \A g : StepsOf(g)' = StepsOf(g) BY StepsStay
<1>3. hands[h].i \in Nat /\ hands[h].i \in 1..Len(StepsOf(h)) /\ At1(h) = StepsOf(h)[hands[h].i]
  BY HandIsAt
<1> SUFFICES ASSUME Crew = {1}
             PROVE  /\ \A k \in 1..Taken(1)' :
                         LastName(StepsOf(1), k, Taken(1)' + 1) => named' = StepsOf(1)[k].on
                    /\ (\A k \in 1..Taken(1)' : StepsOf(1)[k].do # "name") => named' = {}
  BY <1>2 DEF NamedByHand, LastName
<1> DEFINE n == hands[h].i
           p == StepsOf(1)
<1>4. h = 1 /\ Taken(1)' = n /\ Taken(1) = n - 1 /\ n \in Nat /\ n >= 1 /\ At1(h) = p[n]
  BY <1>1, <1>3
<1>5. /\ \A k \in 1..(n - 1) : LastName(p, k, n) => named = p[k].on
      /\ (\A k \in 1..(n - 1) : p[k].do # "name") => named = {}
  <2>1. (n - 1) + 1 = n BY <1>4
  <2> QED BY <1>4, <2>1 DEF NamedByHand
<1> HIDE DEF n, p
<1>6. ASSUME NEW k \in 1..n, LastName(p, k, n + 1) PROVE named' = p[k].on
  <2>1. CASE k = n BY <1>4, <1>6, <2>1 DEF LastName
  <2>2. CASE k # n
    <3>1. k \in 1..(n - 1) /\ n \in (k + 1)..((n + 1) - 1) BY <1>4, <2>2
    <3>2. p[n].do # "name" BY <1>6, <3>1 DEF LastName
    <3>3. LastName(p, k, n) BY <1>4, <1>6, <3>1 DEF LastName
    <3> QED BY <1>4, <1>5, <3>1, <3>2, <3>3
  <2> QED BY <2>1, <2>2
<1>7. ASSUME \A k \in 1..n : p[k].do # "name" PROVE named' = {}
  <2>1. n \in 1..n /\ \A k \in 1..(n - 1) : k \in 1..n BY <1>4
  <2> QED BY <1>4, <1>5, <1>7, <2>1
<1> QED BY <1>4, <1>6, <1>7 DEF n, p

(* A step of a hand. *)
LEMMA HandStepKept ==
  ASSUME plugin \in Deployer, DeployTypeOK, HandsInv,
         main = "hands" \/ (main \in Rolling /\ plugin = "hogs"),
         NEW h \in DOMAIN hands, HandStep(h)
  PROVE  /\ DeployTypeOK' /\ HandsInv' /\ UNCHANGED <<plugin, main, rc, todo>> /\ slips' >= slips
         /\ unreached \subseteq unreached' /\ (plugin # "throttle" => unreached' = unreached)
<1>1. h \in Crew /\ HandsOK /\ MadeByHands /\ NamedByHand /\ HandsFail /\ FloodIsOver
  BY DEF HandsInv, HandsOK
<1>2. UNCHANGED <<plugin, main, rc, units, todo>> /\ hands[h].st = "on"
  BY DEF HandStep, Passes, Makes, Registers, Unmakes, Trips, Does, Kept, threadvars
<1>3. Crew' = Crew /\ \A g : StepsOf(g)' = StepsOf(g) BY <1>2, StepsStay
<1>4. /\ hands[h] \in HandState /\ hands[h].i \in Nat /\ hands[h].i \in 1..Len(StepsOf(h))
      /\ At1(h) = StepsOf(h)[hands[h].i] /\ At1(h) \in Instruction /\ Proper(StepsOf(h), h)
      /\ Len(StepsOf(h)) \in Nat
  BY <1>1, HandIsAt
<1>5. slips' \in Nat /\ slips' >= slips /\ slips \in Nat
  BY DEF DeployTypeOK, HandStep, Passes, Makes, Registers, Unmakes, Trips, Slip
<1>6. live' \subseteq made'
  BY DEF DeployTypeOK, HandStep, Passes, Makes, Registers, Unmakes, Trips, Grown, Shrunk, clustervars
<1>u. unreached \subseteq unreached' /\ (plugin # "throttle" => unreached' = unreached)
  <2>1. ASSUME At1(h).do = "unmake", "on" \in At1(h).bad PROVE plugin = "throttle"
    BY <1>4, <2>1 DEF Proper, Loud
  <2> QED BY <2>1 DEF HandStep, Passes, Makes, Registers, Unmakes, Trips, Does
<1>l. main = "hands" => late' = late
  BY DEF HandStep, Passes, Makes, Registers, Unmakes, Trips, Grown, Shrunk, clustervars, Beside, At
<1>7. DeployTypeOK' BY <1>2, <1>5, <1>6, <1>u, <1>l DEF DeployTypeOK, Rolling
<1>8. CASE Passes(h) \/ Makes(h) \/ Registers(h) \/ Unmakes(h)
  <2>1. OneOn(h) /\ slips' = slips BY <1>8 DEF Passes, Makes, Registers, Unmakes
  <2>2. /\ HandsOK' /\ hands'[h].st \in {"on", "done"}
        /\ hands'[h].st = "done" => hands[h].i = Len(StepsOf(h))
        /\ \A g \in Crew \ {h} : hands'[g] = hands[g]
    BY <1>1, <1>2, <2>1, HandMovesOn
  <2>3. \A t \in made' :
           \/ t \in made /\ (~(At1(h).do = "unmake" /\ t \in At1(h).on) \/ t \in unreached')
           \/ t \in At1(h).on /\ At1(h).do = "make"
    BY <1>8 DEF Passes, Makes, Registers, Unmakes, Does, Grown, Shrunk, clustervars
  <2>4. MadeByHands' BY <1>1, <1>2, <1>u, <2>1, <2>3, MadeMovesOn
  <2>5. IF At1(h).do = "name" THEN named' = At1(h).on ELSE named' = named
    BY <1>8 DEF Passes, Makes, Registers, Unmakes, Does
  <2>6. NamedByHand' BY <1>1, <1>2, <2>1, <2>5, NamesMoveOn
  <2>7. HandsFail'
    <3> SUFFICES ASSUME NEW g \in Crew, hands'[g].st = "failed"
                 PROVE  slips' >= 1 \/ (Crew = {1} /\ named' = {})
      BY <1>3 DEF HandsFail
    <3>1. g # h /\ hands[g].st = "failed" BY <2>2
    <3>2. Crew # {1} BY <1>1, <3>1
    <3> QED BY <1>1, <2>1, <3>1, <3>2 DEF HandsFail
  <2>8. FloodIsOver'
    <3> SUFFICES ASSUME plugin = "syn_flood", hands'[1].st = "done" PROVE live' = {}
      BY <1>2 DEF FloodIsOver
    <3> DEFINE p == StepsOf(h)
    <3>1. h = 1 /\ Crew = {1} BY <1>1, CrewIs DEF DeployTypeOK
    <3>2. hands[h].i = Len(p) /\ At1(h) = p[Len(p)] BY <1>4, <2>2, <3>1
    <3>3. WaitsForAll(p) BY <1>4 DEF Proper
    <3>4. At1(h).do = "await" /\ "on" \notin At1(h).bad BY <3>2, <3>3 DEF WaitsForAll
    <3>5. Passes(h) /\ At1(h).on \cap live = {} /\ live' = live /\ made' = made
      BY <1>8, <3>4 DEF Passes, Makes, Registers, Unmakes, Does, clustervars
    <3>6. ASSUME NEW t \in made PROVE t \in At1(h).on
      <4>1. Owner(t) = 1 /\ Standing(1, t) BY <1>1, <1>2, <3>1 DEF MadeByHands, Owner
      <4>2. PICK j \in 1..Taken(1) : p[j].do = "make" /\ t \in p[j].on
        BY <3>1, <4>1 DEF Standing
      <4>3. j \in 1..Len(p) BY <1>1, <1>2, <1>4, <3>1, <3>2, <4>2 DEF Taken
      <4> QED BY <3>2, <3>3, <4>2, <4>3 DEF WaitsForAll
    <3> QED BY <3>5, <3>6 DEF DeployTypeOK
  <2> QED BY <1>2, <1>5, <1>7, <1>u, <2>2, <2>4, <2>6, <2>7, <2>8 DEF HandsInv
<1>9. CASE Trips(h)
  <2>1. hands' = [hands EXCEPT ![h].st = "failed"] /\ named' = named BY <1>9 DEF Trips
  <2>2. /\ hands'[h] = [hands[h] EXCEPT !.st = "failed"] /\ hands'[h].st = "failed"
        /\ hands'[h].i = hands[h].i /\ hands'[h] \in HandState
        /\ hands' \in [Crew -> HandState] /\ \A g \in Crew \ {h} : hands'[g] = hands[g]
    BY <1>1, <1>4, <2>1 DEF HandsOK, HandState
  <2>3. HandsOK' BY <1>1, <1>3, <2>2 DEF HandsOK
  <2>4. \A t \in made' : t \in made \/ (t \in At1(h).on /\ At1(h).do = "make")
    BY <1>9 DEF Trips, Does, Grown, Shrunk, clustervars
  <2>5. MadeByHands'
    <3>1. \A t : Owner(t)' = Owner(t) BY <1>2 DEF Owner
    <3> SUFFICES ASSUME NEW t \in made'
                 PROVE  Owner(t) \in Crew /\ (hands'[Owner(t)].st # "failed" => Standing(Owner(t), t)')
      BY <1>3, <3>1 DEF MadeByHands
    <3> PICK o : o = Owner(t) OBVIOUS
    <3> SUFFICES o \in Crew /\ (hands'[o].st # "failed" => Standing(o, t)')
      <4>1. Owner(t)' = o BY <3>1
      <4> QED BY <4>1 DEF Standing, Taken
    <3>2. CASE o = h BY <1>1, <2>2, <3>2
    <3>3. CASE o # h
      <4>1. t \in made
        <5>1. Owned(StepsOf(h), h) BY <1>4 DEF Proper
        <5> QED BY <1>4, <2>4, <3>3, <5>1 DEF Owned
      <4>2. o \in Crew \ {h} /\ (hands[o].st # "failed" => Standing(o, t))
        BY <1>1, <3>3, <4>1 DEF MadeByHands
      <4>3. hands'[o] = hands[o] /\ Taken(o)' = Taken(o) BY <2>2, <4>2 DEF Taken
      <4>4. Standing(o, t) => Standing(o, t)' BY <1>3, <1>u, <4>3 DEF Standing
      <4> QED BY <4>2, <4>3, <4>4
    <3> QED BY <3>2, <3>3
  <2>6. NamedByHand' BY <1>1, <1>3, <2>2 DEF NamedByHand
  <2>7. HandsFail'
    <3> SUFFICES ASSUME NEW g \in Crew, hands'[g].st = "failed"
                 PROVE  slips' >= 1 \/ (Crew = {1} /\ named' = {})
      BY <1>3 DEF HandsFail
    <3>1. CASE slips' = slips + 1 BY <1>5, <3>1
    <3>2. CASE slips' # slips + 1
      <4>1. At1(h).do = "name" /\ "raise" \in At1(h).bad /\ slips' = slips
        BY <1>9, <3>2 DEF Trips, Does, Slip
      <4>2. plugin = "pvc" /\ \A k \in 1..(hands[h].i - 1) : StepsOf(h)[k].do # "name"
        BY <1>4, <4>1 DEF Proper, CalmNames
      <4>3. Crew = {1} /\ h = 1 BY <1>1, <4>2, CrewIs DEF DeployTypeOK
      <4>4. Taken(1) = hands[1].i - 1 BY <1>2, <4>3 DEF Taken
      <4>5. named = {} BY <1>1, <1>2, <4>2, <4>3, <4>4 DEF NamedByHand
      <4> QED BY <2>1, <4>3, <4>5
    <3> QED BY <3>1, <3>2
  <2>8. FloodIsOver'
    <3>1. plugin = "syn_flood" => h = 1 BY <1>1, CrewIs DEF DeployTypeOK
    <3> QED BY <1>2, <2>2, <3>1 DEF FloodIsOver
  <2> QED BY <1>2, <1>5, <1>7, <1>u, <2>3, <2>5, <2>6, <2>7, <2>8 DEF HandsInv
<1> QED BY <1>8, <1>9 DEF HandStep

(* When every hand is done, nothing is left but what the scenario leaves.  *)
LEMMA HandsDone ==
  ASSUME plugin \in Deployer, DeployTypeOK, HandsInv, main = "hands", HandsEnd, ~Broke
  PROVE  \A t \in made : Stays(t) \/ t \in unreached
<1>1. HandsOK /\ MadeByHands /\ DOMAIN hands = Crew BY DEF HandsInv, HandsOK
<1> SUFFICES ASSUME NEW t \in made, t \notin unreached PROVE Stays(t) OBVIOUS
<1> PICK o : o = Owner(t) OBVIOUS
<1>2. o \in Crew BY <1>1 DEF MadeByHands
<1>3. hands[o].st = "done" /\ hands[o].i = Len(StepsOf(o))
  <2>1. hands[o] \in HandState BY <1>1, <1>2, HandIsAt
  <2>2. hands[o].st = "done" BY <1>1, <1>2, <2>1 DEF HandsEnd, Broke, HandState
  <2> QED BY <1>1, <1>2, <2>2 DEF HandsOK
<1>4. Standing(o, t) /\ Taken(o) = Len(StepsOf(o)) BY <1>1, <1>2, <1>3 DEF MadeByHands, Taken
<1>5. PICK j \in 1..Len(StepsOf(o)) :
        /\ StepsOf(o)[j].do = "make" /\ t \in StepsOf(o)[j].on
        /\ \A k \in j..Len(StepsOf(o)) :
             ~(StepsOf(o)[k].do = "unmake" /\ t \in StepsOf(o)[k].on)
  BY <1>4 DEF Standing
<1>6. Undoes(StepsOf(o)) BY <1>1, <1>2, HandIsAt DEF Proper
<1> QED BY <1>5, <1>6 DEF Undoes

LEMMA BeginDeployKept ==
  ASSUME plugin \in Deployer, DeployInv, BeginDeploy
  PROVE  DeployInv'
<1>1. /\ DeployTypeOK /\ main = "entry" /\ made = {} /\ named = {} /\ rc = 0 /\ late = {} /\ HandsEnd
      /\ plugin # "throttle" => unreached = {}
      /\ plugin' = plugin /\ UNCHANGED <<units, made, live, late, named, todo, unreached>>
  BY DEF DeployInv, DeployTypeOK, Rolling, BeginDeploy, Deploying, At, clustervars, rollvars, Return, Goes
<1>2. CASE Slip /\ Return(1) /\ hands' = hands
  <2>1. slips' \in Nat /\ slips' >= 1 /\ main' = "returned" /\ rc' = 1 /\ HandsEnd'
    BY <1>1, <1>2 DEF DeployTypeOK, Slip, Return, HandsEnd
  <2> QED BY <1>1, <2>1 DEF DeployInv, DeployTypeOK, AfterSuccess, RollsInv, BesideInv, Rolling
<1>3. CASE Goes("hands") /\ slips' = slips
               /\ hands' = [h \in 1..(IF plugin = "hogs" THEN units ELSE 1) |-> [i |-> 1, st |-> "on"]]
  <2>1. Crew' = Crew /\ \A h : StepsOf(h)' = StepsOf(h) BY <1>1, StepsStay
  <2>2. /\ 1 \in Crew /\ Crew \subseteq Nat
        /\ \A h \in Crew : Len(StepsOf(h)) \in Nat /\ Len(StepsOf(h)) >= 1
    BY <1>1, CrewIs DEF DeployTypeOK, Proper
  <2>3. hands' = [h \in Crew |-> [i |-> 1, st |-> "on"]] BY <1>3 DEF Crew
  <2>4. \A h \in Crew : hands'[h].i = 1 /\ hands'[h].st = "on" BY <2>3
  <2>5. hands' \in [Crew -> HandState] BY <2>3 DEF HandState
  <2>6. HandsOK' BY <2>1, <2>2, <2>4, <2>5 DEF HandsOK
  <2>7. MadeByHands' /\ HandsFail' /\ FloodIsOver'
    BY <1>1, <2>1, <2>2, <2>4 DEF MadeByHands, HandsFail, FloodIsOver
  <2>8. NamedByHand'
    <3>1. Taken(1)' = 0 BY <2>2, <2>4 DEF Taken
    <3>2. \A k : ~(k \in 1..0) OBVIOUS
    <3> QED BY <1>1, <3>1, <3>2 DEF NamedByHand
  <2>9. DeployTypeOK' BY <1>1, <1>3 DEF DeployTypeOK, Goes, Rolling
  <2>10. main' = "hands" /\ rc' = 0 BY <1>1, <1>3 DEF Goes
  <2> QED BY <2>6, <2>7, <2>8, <2>9, <2>10 DEF DeployInv, HandsInv, AfterSuccess, RollsInv, BesideInv, Rolling
<1> QED BY <1>2, <1>3 DEF BeginDeploy

LEMMA JoinHandsKept ==
  ASSUME plugin \in Deployer, DeployInv, JoinHands
  PROVE  DeployInv'
<1>1. /\ DeployTypeOK /\ HandsInv /\ main = "hands" /\ rc = 0 /\ HandsEnd /\ late = {}
      /\ plugin # "throttle" => unreached = {}
      /\ plugin' = plugin /\ UNCHANGED <<units, hands, made, live, late, named, unreached, slips>>
  BY DEF DeployInv, DeployTypeOK, Rolling, JoinHands, Deploying, At, clustervars, Return, Goes, Raises
<1>2. DOMAIN hands = Crew /\ HandsFail /\ HandsEnd' BY <1>1 DEF HandsInv, HandsOK, HandsEnd
<1>3. \A t : Stays(t)' <=> Stays(t) BY <1>1 DEF Stays, PodOf
<1>4. CASE Broke
  <2>1. /\ main' \in {"lifting", "clean_pod", "returned"} /\ rc' = 1
        /\ main' \in {"lifting", "clean_pod"} => plugin = "throttle"
    BY <1>4 DEF JoinHands, Return, Raises
  <2>2. slips >= 1 \/ named = {} BY <1>2, <1>4 DEF Broke, HandsFail
  <2>3. DeployTypeOK' BY <1>1, <1>2, <2>1 DEF DeployTypeOK, Rolling
  <2> QED BY <1>1, <2>1, <2>2, <2>3 DEF DeployInv, AfterSuccess, RollsInv, BesideInv, Rolling
<1>5. CASE ~Broke
  <2>1. \A t \in made : Stays(t) \/ t \in unreached BY <1>1, <1>5, HandsDone
  <2>2. 1 \in Crew /\ hands[1].st = "done" /\ hands[1].i = Len(StepsOf(1))
    <3>1. 1 \in Crew /\ HandsOK BY <1>1, CrewIs DEF DeployTypeOK, HandsInv
    <3>2. hands[1] \in HandState BY <1>1, <3>1, HandIsAt
    <3>3. hands[1].st = "done" BY <1>1, <1>2, <1>5, <3>1, <3>2 DEF HandsEnd, Broke, HandState
    <3> QED BY <3>1, <3>3 DEF HandsOK
  <2>3. plugin = "throttle" => hands[1].i > 2
    <3>1. plugin = "throttle" => Len(StepsOf(1)) = 5 + 2 * units /\ units \in Nat
      BY <1>1, ThrottleProper DEF StepsOf, DeployTypeOK
    <3> QED BY <2>2, <3>1
  <2>4. /\ rc' = 0 /\ main' = IF plugin = "throttle" THEN "clean_pod" ELSE "returned"
    BY <1>1, <1>5, <2>3 DEF JoinHands, Return, Goes
  <2>5. plugin = "syn_flood" => live = {} BY <1>1, <2>2 DEF HandsInv, FloodIsOver
  <2>6. AfterSuccess' BY <1>1, <1>3, <2>1, <2>4, <2>5 DEF AfterSuccess
  <2>7. DeployTypeOK' BY <1>1, <1>2, <2>4 DEF DeployTypeOK, Rolling
  <2>8. main' \notin {"hands", "rolling", "rolled"} BY <2>4
  <2> QED BY <2>4, <2>6, <2>7, <2>8 DEF DeployInv, RollsInv, BesideInv, Rolling
<1> QED BY <1>4, <1>5

(* The finally clause of storage_throttle. *)
LEMMA FinallyKept ==
  ASSUME plugin \in Deployer, DeployInv, Lifts \/ CleansPod
  PROVE  DeployInv'
<1>1. /\ DeployTypeOK /\ plugin = "throttle" /\ plugin' = plugin /\ rc' = rc /\ rc \in {0, 1}
      /\ UNCHANGED <<units, named, hands>>
      /\ rc = 1 => slips >= 1 \/ named = {}
      /\ slips \in Nat /\ slips' \in Nat /\ slips' >= slips
      /\ main' \notin {"hands", "rolling", "rolled"}
  BY DEF DeployInv, DeployTypeOK, Lifts, CleansPod, Deploying, At, rollvars, Return, Goes, Slip,
         threadvars
<1>2. rc' = 1 => slips' >= 1 \/ named' = {} BY <1>1
<1>3. live' \subseteq made' BY DEF DeployInv, DeployTypeOK, Lifts, CleansPod, Shrunk, clustervars
<1>l. late' = {} /\ HandsEnd'
  <2>1. main \in {"lifting", "clean_pod"} BY DEF Lifts, CleansPod, Deploying, At
  <2>2. late = {} /\ HandsEnd BY <1>1, <2>1 DEF DeployTypeOK, Rolling
  <2>3. late' = late BY DEF Lifts, CleansPod, Shrunk, clustervars
  <2> QED BY <1>1, <2>2, <2>3 DEF HandsEnd
<1>4. CASE Lifts
  <2>1. rc = 1 /\ main' \in {"lifting", "clean_pod"}
    BY <1>1, <1>4 DEF DeployTypeOK, Lifts, Deploying, At, Goes, threadvars
  <2>2. DeployTypeOK' BY <1>1, <1>3, <1>l, <2>1 DEF DeployTypeOK
  <2> QED BY <1>1, <1>2, <2>1, <2>2 DEF DeployInv, AfterSuccess, RollsInv, BesideInv, Rolling
<1>5. CASE CleansPod
  <2>1. main = "clean_pod" /\ main' = "returned" /\ unreached' = unreached
    BY <1>5 DEF CleansPod, Deploying, At, Return, rollvars
  <2>2. DeployTypeOK' BY <1>1, <1>3, <1>l, <2>1 DEF DeployTypeOK
  <2>3. ASSUME rc = 0 PROVE \A t \in made : t = PodOf(1, 1) \/ t \in unreached
    BY <1>1, <2>1, <2>3 DEF DeployInv, AfterSuccess, Stays
  <2>4. made' \subseteq made BY <1>5 DEF CleansPod, Shrunk, clustervars
  <2>5. rc = 0 => made' \subseteq unreached' \/ slips' >= 1
    <3>1. CASE Shrunk({PodOf(1, 1)}) BY <2>1, <2>3, <3>1 DEF Shrunk
    <3>2. CASE Slip BY <1>1, <3>2 DEF Slip
    <3> QED BY <1>5, <3>1, <3>2 DEF CleansPod
  <2>6. \A t : Stays(t)' <=> Stays(t) BY <1>1 DEF Stays, PodOf
  <2>7. rc = 0 => \A t \in made' : Stays(t) \/ t \in unreached' BY <1>1, <2>1, <2>3, <2>4 DEF Stays
  <2>8. AfterSuccess' BY <1>1, <2>1, <2>5, <2>6, <2>7 DEF AfterSuccess
  <2> QED BY <1>1, <1>2, <2>1, <2>2, <2>8 DEF DeployInv, RollsInv, BesideInv, Rolling
<1> QED BY <1>4, <1>5

(* What the hands have made and named stays true while others undo it. *)
LEMMA HandsStand ==
  ASSUME HandsInv, UNCHANGED <<plugin, units, hands, named>>, made' \subseteq made,
         live' \subseteq live, unreached \subseteq unreached',
         slips \in Nat, slips' \in Nat, slips' >= slips
  PROVE  HandsInv'
<1>1. Crew' = Crew /\ \A h : StepsOf(h)' = StepsOf(h) BY StepsStay
<1>2. \A h : Taken(h)' = Taken(h) BY DEF Taken
<1>3. HandsOK' BY <1>1 DEF HandsInv, HandsOK
<1>4. MadeByHands'
  <2>1. \A t : Owner(t)' = Owner(t) BY DEF Owner
  <2> SUFFICES ASSUME NEW t \in made'
               PROVE  Owner(t) \in Crew /\ (hands[Owner(t)].st # "failed" => Standing(Owner(t), t)')
    BY <1>1, <2>1 DEF MadeByHands
  <2> PICK o : o = Owner(t) OBVIOUS
  <2> SUFFICES o \in Crew /\ (hands[o].st # "failed" => Standing(o, t)')
    <3>1. Owner(t)' = o BY <2>1
    <3> QED BY <3>1 DEF Standing, Taken
  <2>2. Standing(o, t) => Standing(o, t)' BY <1>1, <1>2 DEF Standing
  <2> QED BY <2>2 DEF HandsInv, MadeByHands
<1>5. NamedByHand' BY <1>1, <1>2 DEF HandsInv, NamedByHand, LastName
<1>6. HandsFail' /\ FloodIsOver' BY <1>1 DEF HandsInv, HandsFail, FloodIsOver
<1> QED BY <1>3, <1>4, <1>5, <1>6 DEF HandsInv

(* A rollback starts: after a failure or a kill no hand is at work, after  *)
(* a signal those of hogs go on. *)
LEMMA RollStarts ==
  ASSUME plugin \in Deployer, DeployInv, RollBack \/ Signalled \/ KilledNow
  PROVE  DeployInv'
<1>1. /\ DeployTypeOK /\ plugin' = plugin /\ rc' = rc /\ UNCHANGED <<units, named>>
      /\ UNCHANGED <<made, live, late, unreached, slips>> /\ slips \in Nat
      /\ rc = 1 => slips >= 1 \/ named = {}
  BY DEF DeployInv, DeployTypeOK, RollBack, Signalled, KilledNow, Goes, clustervars
<1>2. CASE RollBack \/ Signalled
  <2>1. /\ main' = "rolling" /\ main \notin Rolling /\ named # {} /\ todo' = named
        /\ hands' = hands /\ (main = "hands" \/ HandsEnd)
    BY <1>1, <1>2 DEF RollBack, Signalled, Deploying, At, Goes, DeployTypeOK, Rolling
  <2>2. late = {} /\ (plugin # "throttle" => unreached = {}) BY <1>1, <2>1 DEF DeployTypeOK
  <2>3. DeployTypeOK' BY <1>1, <2>1, <2>2 DEF DeployTypeOK, Rolling
  <2>4. RollsInv' BY <1>1, <2>1, <2>2 DEF RollsInv, Unimported
  <2>5. HandsEnd' \/ HandsInv'
    <3>1. CASE HandsEnd BY <2>1, <3>1 DEF HandsEnd
    <3>2. CASE main = "hands"
      <4>1. HandsInv BY <3>2 DEF DeployInv
      <4> QED BY <1>1, <2>1, <4>1, HandsStand
    <3> QED BY <2>1, <3>1, <3>2
  <2> QED BY <1>1, <2>1, <2>3, <2>4, <2>5 DEF DeployInv, AfterSuccess, BesideInv
<1>3. CASE KilledNow
  <2>1. main' = "killed" /\ main \notin Rolling /\ hands' = <<>>
    BY <1>3 DEF KilledNow, Goes, Rolling
  <2>2. HandsEnd' BY <2>1, EmptySeq DEF HandsEnd
  <2>3. DeployTypeOK' BY <1>1, <2>1, <2>2 DEF DeployTypeOK, Rolling
  <2> QED BY <1>1, <2>1, <2>3 DEF DeployInv, AfterSuccess, RollsInv, BesideInv, Rolling
<1> QED BY <1>2, <1>3

LEMMA RollsKept ==
  ASSUME plugin \in Deployer, DeployInv, NameErrors \/ Rolls \/ RolledBack
  PROVE  DeployInv'
<1>1. /\ DeployTypeOK /\ RollsInv /\ BesideInv /\ plugin' = plugin /\ rc' = rc
      /\ UNCHANGED <<units, named, hands, late>> /\ rc \in {0, 1}
      /\ rc = 1 => slips >= 1 \/ named = {}
      /\ main = "rolling" /\ main' \in Rolling
  BY DEF DeployInv, DeployTypeOK, NameErrors, Rolls, RolledBack, Deploying, At, Goes, threadvars,
         deployvars, clustervars, Shrunk, Rolling
<1>2. slips \in Nat /\ slips' \in Nat /\ slips' >= slips
  <2>1. slips' = slips \/ slips' = slips + 1 BY DEF NameErrors, Rolls, RolledBack, Slip, deployvars
  <2> QED BY <1>1, <2>1 DEF DeployTypeOK
<1>3. /\ made' \subseteq made /\ live' \subseteq live /\ live' \subseteq made'
      /\ unreached \subseteq unreached'
  BY <1>1 DEF DeployTypeOK, NameErrors, Rolls, RolledBack, deployvars, clustervars, rollvars, Shrunk
<1>4. RollsInv'
  <2>1. CASE NameErrors
    <3>1. /\ main' = main /\ plugin \in Unimported
          /\ todo' = {} /\ unreached' = unreached \cup todo /\ UNCHANGED <<made, slips>>
      BY <2>1 DEF NameErrors, clustervars, threadvars
    <3> QED BY <1>1, <3>1 DEF RollsInv, Unimported, Rolling
  <2>2. CASE Rolls
    <3>1. main' = main /\ plugin \notin Unimported BY <2>2 DEF Rolls, threadvars
    <3>2. PICK t \in todo :
            \/ Shrunk({t}) /\ todo' = todo \ {t} /\ UNCHANGED <<unreached, slips>>
            \/ /\ Slip /\ UNCHANGED clustervars
               /\ \E out \in LeftOut(t) : todo' = todo \ out /\ unreached' = unreached \cup out
      BY <2>2 DEF Rolls
    <3>3. CASE Shrunk({t}) /\ todo' = todo \ {t} /\ UNCHANGED <<unreached, slips>>
      BY <1>1, <3>1, <3>3 DEF RollsInv, Shrunk, Rolling
    <3>4. ASSUME NEW out, Slip, UNCHANGED clustervars, todo' = todo \ out,
                 unreached' = unreached \cup out
          PROVE  RollsInv'
      BY <1>1, <1>2, <3>1, <3>4 DEF RollsInv, Slip, clustervars, Rolling
    <3> QED BY <3>2, <3>3, <3>4
  <2>3. CASE RolledBack
    <3>1. todo = {} /\ UNCHANGED <<made, todo, unreached, slips>>
      BY <2>3 DEF RolledBack, deployvars, clustervars, rollvars
    <3> QED BY <1>1, <3>1 DEF RollsInv, Rolling, Unimported
  <2> QED BY <2>1, <2>2, <2>3
<1>5. DeployTypeOK' BY <1>1, <1>2, <1>3 DEF DeployTypeOK, Rolling
<1>6. BesideInv'
  <2>1. HandsEnd => HandsEnd' BY <1>1 DEF HandsEnd
  <2>2. HandsInv => HandsInv' BY <1>1, <1>2, <1>3, HandsStand
  <2> QED BY <1>1, <2>1, <2>2 DEF BesideInv, Rolling
<1>7. rc' = 1 => slips' >= 1 \/ named' = {} BY <1>1, <1>2
<1> QED BY <1>1, <1>4, <1>5, <1>6, <1>7 DEF DeployInv, AfterSuccess, Rolling

(* A hogs thread names its pod before it deploys it. *)
LEMMA HogNamesFirst ==
  ASSUME plugin = "hogs", units \in Nat \ {0}, HandsInv, NEW h \in DOMAIN hands,
         hands[h].st = "on", At1(h).do = "name"
  PROVE  At1(h).on \cap made = {}
<1> DEFINE t == PodOf(h, 1)
           s == StepsOf(h)
<1>1. /\ HandsOK /\ MadeByHands /\ h \in Crew /\ h \in Nat /\ hands[h].i \in 1..Len(s)
      /\ At1(h) = s[hands[h].i] /\ Taken(h) = hands[h].i - 1
  BY CrewIs DEF HandsInv, HandsOK, At1, Taken, Deployer
<1>2. /\ Len(s) = 6 /\ s[1].do = "look" /\ s[2].do = "name" /\ s[2].on = {t} /\ s[3].do = "make"
      /\ s[4].do = "await" /\ s[5].do = "unmake" /\ s[6].do = "look"
  BY DEF StepsOf, Hog, Look, Name, Make, Await, Unmake, Instr
<1> HIDE DEF s
<1>3. hands[h].i = 2 /\ At1(h).on = {t} /\ Taken(h) = 1 BY <1>1, <1>2
<1>4. ~Standing(h, t) BY <1>1, <1>2, <1>3 DEF Standing, s
<1>5. Owner(t) = h BY DEF Owner, PodOf
<1>6. t \notin made BY <1>1, <1>3, <1>4, <1>5 DEF MadeByHands
<1> QED BY <1>3, <1>6

(* A thread takes a step, beside the rollback too. *)
LEMMA HandStepKeeps ==
  ASSUME plugin \in Deployer, DeployInv, NEW h \in DOMAIN hands, HandStep(h)
  PROVE  DeployInv' /\ HandsInv /\ HandsInv'
<1>1. hands[h].st = "on" /\ (main = "hands" \/ (main \in Rolling /\ plugin = "hogs"))
  BY DEF HandStep, Passes, Makes, Registers, Unmakes, Trips, Does, Working, Beside, Deploying, At,
         Rolling
<1>2. DeployTypeOK /\ HandsInv /\ rc \in {0, 1} /\ slips \in Nat /\ (main = "hands" => rc = 0)
  <2>1. ~HandsEnd BY <1>1 DEF HandsEnd
  <2> QED BY <1>1, <2>1 DEF DeployInv, DeployTypeOK, BesideInv
<1>3. /\ DeployTypeOK' /\ HandsInv' /\ UNCHANGED <<plugin, main, rc, todo>> /\ slips' >= slips
      /\ unreached \subseteq unreached' /\ (plugin # "throttle" => unreached' = unreached)
  BY <1>1, <1>2, HandStepKept
<1>4. ASSUME main = "hands" PROVE DeployInv'
  BY <1>2, <1>3, <1>4 DEF DeployInv, AfterSuccess, RollsInv, BesideInv, Rolling
<1>5. ASSUME main \in Rolling, plugin = "hogs" PROVE DeployInv'
  <2>1. RollsInv /\ unreached' = unreached /\ slips' \in Nat
    BY <1>3, <1>5 DEF DeployInv, DeployTypeOK
  <2>2. named' \cap made' \subseteq todo \cup unreached \cup late'
    <3>1. Beside BY <1>5 DEF Beside, At, Rolling
    <3>2. \/ made' \subseteq made /\ late' = late /\ named' = named
          \/ made' = made \cup At1(h).on /\ late' = late \cup At1(h).on /\ named' = named
          \/ /\ At1(h).do = "name" /\ named' = At1(h).on /\ made' = made /\ late' = late
      BY <3>1 DEF HandStep, Passes, Makes, Registers, Unmakes, Trips, Does, Grown, Shrunk, clustervars
    <3>3. At1(h).do = "name" => At1(h).on \cap made = {}
      BY <1>1, <1>2, <1>5, HogNamesFirst DEF DeployTypeOK
    <3>4. named \cap made \subseteq todo \cup unreached \cup late BY <1>5, <2>1 DEF RollsInv
    <3> QED BY <3>2, <3>3, <3>4
  <2>3. RollsInv' BY <1>2, <1>3, <1>5, <2>1, <2>2 DEF RollsInv
  <2>4. rc' = 1 => slips' >= 1 BY <1>2, <1>3, <1>5, <2>1 DEF RollsInv
  <2> QED BY <1>3, <1>5, <2>3, <2>4 DEF DeployInv, AfterSuccess, BesideInv, Rolling
<1> QED BY <1>1, <1>2, <1>3, <1>4, <1>5

(* A pod that ends, and a step that changes nothing. *)
LEMMA QuietKept ==
  ASSUME plugin \in Deployer, DeployInv,
         UNCHANGED <<threadvars, units, hands, made, late, named, rollvars, slips>>,
         live' \subseteq live
  PROVE  DeployInv'
<1>1. UNCHANGED <<plugin, main, rc, units, hands, made, late, named, todo, unreached, slips>>
  BY DEF threadvars, rollvars
<1>2. HandsEnd' <=> HandsEnd BY <1>1 DEF HandsEnd
<1>3. DeployTypeOK' BY <1>1, <1>2 DEF DeployInv, DeployTypeOK
<1>4. HandsInv => HandsInv'
  <2>1. slips \in Nat /\ slips' \in Nat /\ slips' >= slips BY <1>1 DEF DeployInv, DeployTypeOK
  <2> QED BY <1>1, <2>1, HandsStand
<1>5. \A t : Stays(t)' <=> Stays(t) BY <1>1 DEF Stays, PodOf
<1>6. AfterSuccess' BY <1>1, <1>5 DEF DeployInv, AfterSuccess
<1>7. RollsInv' /\ BesideInv' BY <1>1, <1>2, <1>4 DEF DeployInv, RollsInv, BesideInv
<1> QED BY <1>1, <1>3, <1>4, <1>6, <1>7 DEF DeployInv

LEMMA DeployInvInit == Init => DeployInv
<1> SUFFICES ASSUME Init, plugin \in Deployer PROVE DeployInv BY DEF DeployInv
<1>1. DeployStarts /\ main = "entry" /\ rc = 0 BY DEF Init
<1>2. units \in Nat \ {0} BY <1>1, DeploymentsAssumption DEF DeployStarts
<1>3. HandsEnd BY <1>1, EmptySeq DEF DeployStarts, DeployInit, HandsEnd
<1> QED BY <1>1, <1>2, <1>3
  DEF DeployStarts, DeployInit, DeployInv, DeployTypeOK, AfterSuccess, RollsInv, BesideInv, Rolling

LEMMA DeployInvNext == DeployInv /\ [Next]_vars => DeployInv'
<1> SUFFICES ASSUME DeployInv, [Next]_vars PROVE DeployInv' OBVIOUS
<1>1. plugin' = plugin BY OneScenario
<1>2. CASE plugin \notin Deployer BY <1>1, <1>2 DEF DeployInv
<1>3. CASE plugin \in Deployer
  <2>1. \/ DeployStep \/ KilledNow \/ Signalled \/ \E t \in live : Finishes(t)
        \/ UNCHANGED <<threadvars, deployvars>>
    BY <1>3, OneScenario
  <2>2. ASSUME NEW h \in DOMAIN hands, HandStep(h) PROVE DeployInv' BY <1>3, <2>2, HandStepKeeps
  <2>3. CASE DeployStep
    BY <1>3, <2>2, <2>3, BeginDeployKept, JoinHandsKept, FinallyKept, RollStarts, RollsKept
       DEF DeployStep
  <2>4. CASE KilledNow \/ Signalled BY <1>3, <2>4, RollStarts
  <2>5. CASE \E t \in live : Finishes(t) BY <1>3, <2>5, QuietKept DEF Finishes
  <2>6. CASE UNCHANGED <<threadvars, deployvars>>
    BY <1>3, <2>6, QuietKept DEF deployvars, clustervars
  <2> QED BY <2>1, <2>3, <2>4, <2>5, <2>6
<1> QED BY <1>2, <1>3

-----------------------------------------------------------------------------
LEMMA DeployInvAlways == Spec => []DeployInv
BY DeployInvInit, DeployInvNext, PTL DEF Spec

(* While a scenario holds its disturbance, or waits for its pods, the      *)
(* version file names all that it has in the cluster: the registration     *)
(* that is the last one names everything made before it, for any number    *)
(* of targets and pods (hogs on one node; an entry of http_load its own).  *)
THEOREM HeldIsNamedAlways == Spec => []HeldIsNamed
<1>1. ASSUME DeployInv, plugin \in Deployer, main = "hands", NEW h \in DOMAIN hands,
             hands[h].st = "on", At1(h).do \in {"hold", "await"}
      PROVE  CASE plugin = "http_load" -> At1(h).on \subseteq named
               [] plugin = "hogs" -> units = 1 => made \subseteq named
               [] OTHER -> made \subseteq named
  <2>1. DeployTypeOK /\ HandsOK /\ MadeByHands /\ NamedByHand /\ h \in Crew
    BY <1>1 DEF DeployInv, HandsInv, HandsOK
  <2>2. /\ hands[h].i \in Nat /\ hands[h].i \in 1..Len(StepsOf(h))
        /\ At1(h) = StepsOf(h)[hands[h].i] /\ Covers(StepsOf(h))
    BY <1>1, <2>1, HandIsAt DEF Proper
  <2>3. (plugin = "hogs" /\ units # 1) \/ Crew = {1} BY <1>1, <2>1, CrewIs DEF DeployTypeOK, Crew
  <2> SUFFICES ASSUME Crew = {1}
               PROVE  CASE plugin = "http_load" -> At1(h).on \subseteq named
                        [] plugin = "hogs" -> units = 1 => made \subseteq named
                        [] OTHER -> made \subseteq named
    BY <2>3
  <2> DEFINE p == StepsOf(1)
             n == hands[1].i
  <2>4. h = 1 /\ n \in Nat /\ n \in 1..Len(p) /\ At1(h) = p[n] /\ Covers(p) /\ Taken(1) = n - 1
    BY <1>1, <2>1, <2>2 DEF Taken
  <2>5. ASSUME NEW k \in 1..Len(p), LastName(p, k, n) PROVE named = p[k].on
    <3>1. k \in 1..(n - 1) /\ (n - 1) + 1 = n BY <2>4, <2>5 DEF LastName
    <3> QED BY <1>1, <2>1, <2>4, <2>5, <3>1 DEF NamedByHand
  <2>6. CASE plugin = "http_load"
    <3>1. p[n].on = {} \/ \E k \in 1..Len(p) : LastName(p, k, n) /\ p[k].on = p[n].on
      BY <1>1, <2>4, <2>6 DEF Covers
    <3>2. At1(h).on \subseteq named BY <2>4, <2>5, <3>1
    <3> QED BY <2>6, <3>2
  <2>7. CASE plugin # "http_load"
    <3>1. PICK k \in 1..Len(p) : /\ LastName(p, k, n)
                                 /\ \A l \in 1..(n - 1) : p[l].do = "make" => p[l].on \subseteq p[k].on
      BY <1>1, <2>4, <2>7 DEF Covers
    <3>2. named = p[k].on BY <2>5, <3>1
    <3>3. ASSUME NEW t \in made PROVE t \in named
      <4>1. Owner(t) = 1 BY <2>1 DEF MadeByHands
      <4>2. Standing(1, t) BY <1>1, <2>1, <2>4, <4>1 DEF MadeByHands
      <4> QED BY <2>4, <3>1, <3>2, <4>2 DEF Standing
    <3> QED BY <2>7, <3>3
  <2> QED BY <2>6, <2>7
<1>2. DeployInv => HeldIsNamed BY <1>1 DEF HeldIsNamed
<1> QED BY <1>2, DeployInvAlways, PTL

(* When the rollback of a version file has gone through, nothing that it   *)
(* names is left but what the rollback could not reach, and what a thread  *)
(* has made since the rollback began: a signal rolls back in the process,  *)
(* beside the threads of hogs.  Only the latter is left if no call of it   *)
(* raised, for the callables that run at all: a scenario that has failed   *)
(* needed a call that raised to do so.                                     *)
THEOREM RollbackRemovesAlways == Spec => []RollbackRemoves
<1>1. ASSUME DeployInv, plugin \in Deployer, main = "rolled"
      PROVE  /\ named \cap made \subseteq unreached \cup late
             /\ plugin \notin Unimported /\ (slips = 0 \/ (slips < 2 /\ rc = 1)) =>
                  named \cap made \subseteq late
  <2>1. RollsInv /\ slips \in Nat BY <1>1 DEF DeployInv, DeployTypeOK
  <2> QED BY <1>1, <2>1 DEF RollsInv, Rolling
<1>2. DeployInv => RollbackRemoves BY <1>1 DEF RollbackRemoves
<1> QED BY <1>2, DeployInvAlways, PTL
================================================================================
