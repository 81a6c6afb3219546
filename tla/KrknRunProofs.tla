--------------------------- MODULE KrknRunProofs ---------------------------
(***************************************************************************)
(* Proofs about KrknRun: the health check threads and the main thread of a *)
(* run, for every set of URLs and machines, any number of iterations,      *)
(* entries and requests, and every configuration.                          *)
(***************************************************************************)
EXTENDS KrknRun, FiniteSetTheorems, TLAPS

(* What the threads know does not change when their variables do not. *)
LEMMA HealthStutter ==
  ASSUME HealthInv, UNCHANGED hvars
  PROVE  HealthInv'
  BY DEF HealthInv, HealthTypeOK, HttpKnows, SustainedFailureReported, VirtKnows,
         PostsCounted, PostDone, hvars, http, virt, posts, shared

LEMMA HealthStart ==
  ASSUME HealthInit
  PROVE  HealthInv
<1>1. HealthTypeOK
  <2>1. <<>> \in Seq(SUBSET Batch) OBVIOUS
  <2>2. /\ tracker \in [Url -> Code \cup {None}] /\ prev \in [Url -> Code \cup {None}]
        /\ vtracker \in [Batch -> Status \cup {None}]
    BY DEF HealthInit
  <2>3. /\ vpc \in [Batch -> {"off", "top", "check", "done"}]
        /\ post \in [Batch -> {"off", "run", "done"}]
    BY DEF HealthInit
  <2>4. postQ \in Seq(SUBSET Batch) BY <2>1 DEF HealthInit
  <2> QED BY <2>2, <2>3, <2>4 DEF HealthInit, HealthTypeOK
<1>2. HttpKnows /\ SustainedFailureReported /\ VirtKnows
  BY DEF HealthInit, HttpKnows, SustainedFailureReported, VirtKnows
<1>3. PostsCounted
  <2>1. PostDone = {} /\ joined = {} BY DEF HealthInit, PostDone
  <2>2. Cardinality({}) = 0 BY FS_EmptySet
  <2>3. Len(postQ) = 0 /\ sick = {} /\ found = {} BY DEF HealthInit
  <2>4. \A b \in Batch : post[b] = "off" BY DEF HealthInit
  <2> QED BY <2>1, <2>2, <2>3, <2>4 DEF PostsCounted
<1> QED BY <1>1, <1>2, <1>3 DEF HealthInv

(***************************************************************************)
(* One lemma per step of a thread, and per thing the main thread does to   *)
(* the plugins.                                                            *)
(***************************************************************************)
(* The variables of the virt threads and of the post checks keep their     *)
(* invariant when they do not change.                                      *)
LEMMA VirtStutter ==
  ASSUME HealthInv, UNCHANGED <<virt, posts, target>>
  PROVE  VirtKnows' /\ PostsCounted'
  BY DEF HealthInv, VirtKnows, PostsCounted, PostDone, virt, posts

LEMMA HttpStutter ==
  ASSUME HealthInv, UNCHANGED http
  PROVE  HttpKnows' /\ SustainedFailureReported'
  BY DEF HealthInv, HttpKnows, SustainedFailureReported, http

LEMMA NoStatus ==
  ASSUME NEW s \in Status
  PROVE  s # None
  BY HealthAssumption DEF HealthAssumption

LEMMA HttpTopStep ==
  ASSUME HealthInv, HttpTop
  PROVE  HealthInv'
<1> USE DEF HttpTop, virt, posts, shared
<1>0. VirtKnows' /\ PostsCounted' BY VirtStutter
<1>1. HealthTypeOK' BY HealthAssumption DEF HealthInv, HealthTypeOK, HealthAssumption
<1>2. SustainedFailureReported' BY DEF HealthInv, SustainedFailureReported
<1>3. HttpKnows' BY DEF HealthInv, HealthTypeOK, HttpKnows
<1> QED BY <1>0, <1>1, <1>2, <1>3 DEF HealthInv

LEMMA HttpSleepStep ==
  ASSUME HealthInv, HttpSleep
  PROVE  HealthInv'
<1> USE DEF HttpSleep, virt, posts, shared
<1>0. VirtKnows' /\ PostsCounted' BY VirtStutter
<1>1. HealthTypeOK' BY DEF HealthInv, HealthTypeOK
<1>2. SustainedFailureReported' BY DEF HealthInv, SustainedFailureReported
<1>3. HttpKnows' BY DEF HealthInv, HealthTypeOK, HttpKnows
<1> QED BY <1>0, <1>1, <1>2, <1>3 DEF HealthInv

(* A tracked code is the last one polled, so a poll that repeats the last  *)
(* code never closes a period, and a second failure in a row finds the     *)
(* first one tracked, or is itself at first sight.                         *)
LEMMA HttpPollStep ==
  ASSUME HealthInv, NEW u \in Url, NEW c \in Code, HttpPoll(u, c)
  PROVE  HealthInv'
<1> USE DEF virt, posts, shared
<1>0. VirtKnows' /\ PostsCounted' BY VirtStutter DEF HttpPoll
<1>t. HealthTypeOK BY DEF HealthInv
<1>n. None \notin Code BY HealthAssumption DEF HealthAssumption
<1>1. HealthTypeOK'
  BY <1>t DEF HealthTypeOK, HttpPoll, FirstSight, Unchanged, Change
<1>2. /\ tracker[u] # None => prev[u] = tracker[u]
      /\ u \in ExitOn /\ tracker[u] \notin {None, OK} => ret = 3
  BY DEF HealthInv, HttpKnows
<1>3. /\ ret' = 3 \/ ret' = ret
      /\ ret = 3 => ret' = 3
      /\ c # OK /\ u \in ExitOn /\ tracker[u] = None => ret' = 3
      /\ tracker' = [tracker EXCEPT ![u] = tracker'[u]]
      /\ \/ tracker[u] \in {None, c} /\ tracker'[u] = c
         \/ tracker[u] \notin {None, c} /\ tracker'[u] = None /\ <<u, tracker[u]>> \in httpLog'
      /\ httpLog \subseteq httpLog'
  BY <1>t, <1>n DEF HealthTypeOK, HttpPoll, FirstSight, Unchanged, Change
<1>4. /\ prev' = [prev EXCEPT ![u] = c]
      /\ pairs' = pairs \/ (prev[u] # None /\ pairs' = pairs \cup {<<u, prev[u], c>>})
      /\ hpc = "poll" /\ hpc' = "poll"
  BY DEF HttpPoll
<1>5. SustainedFailureReported'
  <2> SUFFICES ASSUME NEW v \in ExitOn, NEW d \in Code \ {OK}, NEW e \in Code \ {OK},
                      <<v, d, e>> \in pairs'
               PROVE  ret' = 3
    BY DEF SustainedFailureReported
  <2>1. CASE <<v, d, e>> \in pairs
    BY <2>1, <1>3 DEF HealthInv, SustainedFailureReported
  <2>2. CASE <<v, d, e>> = <<u, prev[u], c>>
    <3>1. v = u /\ d = prev[u] /\ e = c BY <2>2
    <3> QED BY <3>1, <1>2, <1>3, <1>n
  <2> QED BY <2>1, <2>2, <1>4
<1>6. HttpKnows'
  <2> SUFFICES ASSUME NEW v \in Url
               PROVE  /\ tracker'[v] # None => prev'[v] = tracker'[v]
                      /\ v \in ExitOn /\ tracker'[v] \notin {None, OK} => ret' = 3
                      /\ \A d \in Code : <<v, d, d>> \in pairs' =>
                            tracker'[v] = d \/ <<v, d>> \in httpLog'
    BY <1>4 DEF HttpKnows
  <2>1. CASE v # u
    <3>1. tracker'[v] = tracker[v] /\ prev'[v] = prev[v]
      BY <2>1, <1>t, <1>3, <1>4 DEF HealthTypeOK
    <3>2. \A d \in Code : <<v, d, d>> \in pairs' => <<v, d, d>> \in pairs
      BY <2>1, <1>4
    <3> QED BY <3>1, <3>2, <1>3 DEF HealthInv, HttpKnows
  <2>2. CASE v = u
    <3>1. prev'[u] = c BY <1>t, <1>4 DEF HealthTypeOK
    <3>2. u \in ExitOn /\ tracker'[u] \notin {None, OK} => ret' = 3
      BY <1>2, <1>3, <1>n
    <3>3. ASSUME NEW d \in Code, <<u, d, d>> \in pairs'
          PROVE  tracker'[u] = d \/ <<u, d>> \in httpLog'
      <4>1. CASE <<u, d, d>> \in pairs
        <5>1. tracker[u] = d \/ <<u, d>> \in httpLog
          BY <4>1 DEF HealthInv, HttpKnows
        <5> QED BY <5>1, <1>3, <1>n
      <4>2. CASE <<u, d, d>> = <<u, prev[u], c>>
        BY <4>2, <1>2, <1>3
      <4> QED BY <3>3, <4>1, <4>2, <1>4
    <3> QED BY <2>2, <3>1, <3>2, <3>3, <1>3
  <2> QED BY <2>1, <2>2
<1> QED BY <1>0, <1>1, <1>5, <1>6 DEF HealthInv

LEMMA VirtTopStep ==
  ASSUME HealthInv, NEW b \in Batch, VirtTop(b)
  PROVE  HealthInv'
<1> USE DEF VirtTop, http, posts, shared
<1>0. HttpKnows' /\ SustainedFailureReported' BY HttpStutter
<1>1. PostsCounted' BY DEF HealthInv, PostsCounted, PostDone
<1>2. HealthTypeOK'
  <2>1. Records(b, vtracker[b]) \subseteq {<<b, vtracker[b]>>} BY DEF Records
  <2>2. virtLog' \subseteq Batch \X Status
    BY <2>1 DEF HealthInv, HealthTypeOK
  <2> QED BY <2>2 DEF HealthInv, HealthTypeOK
<1>3. VirtKnows'
  <2> SUFFICES ASSUME NEW a \in Batch, NEW s \in Status, <<a, s>> \in ill
               PROVE  \/ vpc'[a] # "done" /\ vtracker[a] = s
                      \/ <<a, s>> \in virtLog'
    BY DEF VirtKnows
  <2>1. (vpc[a] # "done" /\ vtracker[a] = s) \/ <<a, s>> \in virtLog
    BY DEF HealthInv, VirtKnows
  <2>2. virtLog \subseteq virtLog' OBVIOUS
  <2>3. s # Healthy BY DEF HealthInv, HealthTypeOK
  <2>4. CASE a # b \/ vpc'[b] # "done"
    BY <2>1, <2>2, <2>4 DEF HealthInv, HealthTypeOK
  <2>5. CASE a = b /\ vpc'[b] = "done" /\ <<a, s>> \notin virtLog
    <3>1. vtracker[b] = s BY <2>1, <2>5
    <3>2. Records(b, s) = {<<b, s>>} BY <2>3 DEF Records
    <3>3. vpc[b] = "top" /\ "check" # "done" OBVIOUS
    <3>4. vpc'[b] # "check" BY <2>5
    <3>5. virtLog' = IF vtracker[b] = None THEN virtLog
                     ELSE virtLog \cup Records(b, vtracker[b])
      BY <3>4 DEF HealthInv, HealthTypeOK
    <3>6. s # None BY NoStatus
    <3> QED BY <3>1, <3>2, <3>5, <3>6, <2>5
  <2> QED BY <2>2, <2>4, <2>5
<1> QED BY <1>0, <1>1, <1>2, <1>3 DEF HealthInv

LEMMA VirtCheckStep ==
  ASSUME HealthInv, NEW b \in Batch, NEW s \in Status, VirtCheck(b, s)
  PROVE  HealthInv'
<1> USE DEF VirtCheck, http, posts, shared
<1>0. HttpKnows' /\ SustainedFailureReported' BY HttpStutter
<1>1. PostsCounted' BY DEF HealthInv, PostsCounted, PostDone
<1>2. HealthTypeOK'
  <2>1. Records(b, vtracker[b]) \subseteq {<<b, vtracker[b]>>} BY DEF Records
  <2>2. virtLog' \subseteq Batch \X Status
    BY <2>1 DEF HealthInv, HealthTypeOK
  <2>3. ill' \subseteq Batch \X (Status \ {Healthy})
    BY DEF HealthInv, HealthTypeOK, Failing
  <2> QED BY <2>2, <2>3 DEF HealthInv, HealthTypeOK
<1>3. VirtKnows'
  <2> SUFFICES ASSUME NEW a \in Batch, NEW r \in Status, <<a, r>> \in ill'
               PROVE  \/ vpc'[a] # "done" /\ vtracker'[a] = r
                      \/ <<a, r>> \in virtLog'
    BY DEF VirtKnows
  <2>0. vpc'[b] = "top" /\ vtracker'[b] = s /\ vpc[b] = "check"
    BY DEF HealthInv, HealthTypeOK
  <2>1. <<a, r>> \in ill \/ (a = b /\ r = s) BY DEF Failing
  <2>2. CASE a = b /\ r = s BY <2>0, <2>2
  <2>3. CASE <<a, r>> \in ill /\ ~(a = b /\ r = s)
    <3>1. (vpc[a] # "done" /\ vtracker[a] = r) \/ <<a, r>> \in virtLog
      BY <2>3 DEF HealthInv, VirtKnows
    <3>2. virtLog \subseteq virtLog' OBVIOUS
    <3>3. CASE a # b BY <3>1, <3>2, <3>3 DEF HealthInv, HealthTypeOK
    <3>4. CASE a = b /\ vtracker[a] = r
      <4>1. r # Healthy BY <2>3 DEF HealthInv, HealthTypeOK
      <4>2. Records(b, r) = {<<b, r>>} BY <4>1 DEF Records
      <4>3. r # None /\ r # s BY NoStatus, <2>3, <3>4
      <4> QED BY <3>4, <4>2, <4>3
    <3> QED BY <3>1, <3>2, <3>3, <3>4
  <2> QED BY <2>1, <2>2, <2>3
<1> QED BY <1>0, <1>1, <1>2, <1>3 DEF HealthInv

(* Appending a result puts its value, and nothing else, in the queue.      *)
LEMMA AppendUnion ==
  ASSUME NEW S, NEW q \in Seq(SUBSET S), NEW x \in SUBSET S
  PROVE  /\ Append(q, x) \in Seq(SUBSET S) /\ Len(Append(q, x)) = Len(q) + 1
         /\ UNION {Append(q, x)[i] : i \in 1..Len(Append(q, x))}
              = x \cup UNION {q[i] : i \in 1..Len(q)}
<1> DEFINE r == Append(q, x)
<1>1. r \in Seq(SUBSET S) /\ Len(r) = Len(q) + 1 OBVIOUS
<1>2. \A i \in 1..Len(q) : r[i] = q[i] OBVIOUS
<1>3. r[Len(q) + 1] = x OBVIOUS
<1>4. Len(q) \in Nat OBVIOUS
<1>5. ASSUME NEW y
      PROVE  y \in UNION {r[i] : i \in 1..Len(r)}
               <=> y \in x \cup UNION {q[i] : i \in 1..Len(q)}
  <2> HIDE DEF r
  <2>1. 1..Len(r) = 1..Len(q) \cup {Len(q) + 1} BY <1>1, <1>4
  <2>2. (\E i \in 1..Len(r) : y \in r[i])
          <=> (\E i \in 1..Len(q) : y \in q[i]) \/ y \in x
    BY <2>1, <1>2, <1>3
  <2> QED BY <2>2
<1> QED BY <1>1, <1>5

(* Taking the head of the queue takes its value out, and nothing else.     *)
LEMMA TailUnion ==
  ASSUME NEW S, NEW q \in Seq(SUBSET S), q # <<>>
  PROVE  /\ Tail(q) \in Seq(SUBSET S) /\ Len(Tail(q)) = Len(q) - 1
         /\ Head(q) \in SUBSET S
         /\ UNION {q[i] : i \in 1..Len(q)}
              = Head(q) \cup UNION {Tail(q)[i] : i \in 1..Len(Tail(q))}
<1> DEFINE r == Tail(q)
<1>1. r \in Seq(SUBSET S) /\ Len(r) = Len(q) - 1 OBVIOUS
<1>2. \A i \in 1..Len(r) : r[i] = q[i + 1] OBVIOUS
<1>3. Head(q) = q[1] /\ Len(q) \in Nat /\ Len(q) # 0 OBVIOUS
<1>4. Head(q) \in SUBSET S BY <1>3
<1>5. ASSUME NEW y
      PROVE  y \in UNION {q[i] : i \in 1..Len(q)}
               <=> y \in Head(q) \cup UNION {r[i] : i \in 1..Len(r)}
  <2> HIDE DEF r
  <2>1. ASSUME NEW i \in 1..Len(q), y \in q[i]
        PROVE  y \in Head(q) \/ \E j \in 1..Len(r) : y \in r[j]
    <3>1. CASE i = 1 BY <2>1, <3>1, <1>3
    <3>2. CASE i # 1
      <4>1. i - 1 \in 1..Len(r) BY <3>2, <1>1, <1>3
      <4>2. r[i - 1] = q[i] BY <4>1, <1>2
      <4> QED BY <4>1, <4>2, <2>1
    <3> QED BY <3>1, <3>2
  <2>2. ASSUME NEW j \in 1..Len(r), y \in r[j]
        PROVE  \E i \in 1..Len(q) : y \in q[i]
    <3>1. j + 1 \in 1..Len(q) BY <1>1, <1>3
    <3> QED BY <3>1, <2>2, <1>2
  <2>3. 1 \in 1..Len(q) BY <1>3
  <2> QED BY <2>1, <2>2, <2>3, <1>3
<1> QED BY <1>1, <1>4, <1>5

(* A post check that ends is one more done and one more result queued.     *)
LEMMA PostCheckStep ==
  ASSUME HealthInv, NEW b \in Batch, NEW s \in Status, PostCheck(b, s)
  PROVE  HealthInv'
<1> DEFINE x == IF s = Healthy THEN {} ELSE {b}
<1> USE DEF http, virt, shared
<1>0. HttpKnows' /\ SustainedFailureReported' BY HttpStutter DEF PostCheck
<1>1. VirtKnows' BY DEF PostCheck, HealthInv, VirtKnows
<1>t. HealthTypeOK BY DEF HealthInv
<1>2. /\ post[b] = "run" /\ post' = [post EXCEPT ![b] = "done"]
      /\ postQ' = Append(postQ, x) /\ sick' = sick \cup x
      /\ UNCHANGED <<joined, found, target>>
  BY DEF PostCheck
<1>3. x \in SUBSET Batch /\ postQ \in Seq(SUBSET Batch) /\ IsFiniteSet(Batch)
  BY <1>t, HealthAssumption DEF HealthTypeOK, HealthAssumption
<1> HIDE DEF x
<1>4. /\ postQ' \in Seq(SUBSET Batch) /\ Len(postQ') = Len(postQ) + 1
      /\ UNION {postQ'[i] : i \in 1..Len(postQ')} = x \cup UNION {postQ[i] : i \in 1..Len(postQ)}
  BY <1>2, <1>3, AppendUnion
<1>5. HealthTypeOK'
  <2>1. sick' \subseteq Batch BY <1>2, <1>3, <1>t DEF HealthTypeOK
  <2> QED BY <1>t, <1>4, <2>1 DEF HealthTypeOK, PostCheck
<1>6. PostsCounted'
  <2>1. PostDone' = PostDone \cup {b} /\ b \notin PostDone /\ PostDone \subseteq Batch
    BY <1>2, <1>t DEF PostDone, HealthTypeOK
  <2>2. IsFiniteSet(PostDone) BY <2>1, <1>3, FS_Subset
  <2>3. Cardinality(PostDone') = Cardinality(PostDone) + 1
    BY <2>1, <2>2, FS_AddElement
  <2>4. IsFiniteSet(joined) BY <1>3, <1>t, FS_Subset DEF HealthTypeOK
  <2>5. Cardinality(joined) \in Nat /\ Cardinality(PostDone) \in Nat /\ Len(postQ) \in Nat
    BY <1>3, <2>2, <2>4, FS_CardinalityType
  <2>6. Len(postQ') + Cardinality(joined') = Cardinality(PostDone')
    BY <2>3, <2>5, <1>2, <1>4 DEF HealthInv, PostsCounted
  <2>7. sick' = found' \cup UNION {postQ'[i] : i \in 1..Len(postQ')}
    BY <1>2, <1>4 DEF HealthInv, PostsCounted
  <2>8. \A a \in Batch : post'[a] # "off" => a \in target'.vms
    BY <1>2, <1>t DEF HealthInv, HealthTypeOK, PostsCounted
  <2> QED BY <2>1, <2>6, <2>7, <2>8, <1>2 DEF HealthInv, PostsCounted
<1> QED BY <1>0, <1>1, <1>5, <1>6 DEF HealthInv

(* A thread is joined: there are more post checks done than joined, so     *)
(* there is a result to take.                                              *)
LEMMA JoinPostCheckStep ==
  ASSUME HealthInv, NEW b \in Batch, JoinPostCheck(b)
  PROVE  HealthInv'
<1> USE DEF http, virt, shared
<1>0. HttpKnows' /\ SustainedFailureReported' BY HttpStutter DEF JoinPostCheck
<1>1. VirtKnows' BY DEF JoinPostCheck, HealthInv, VirtKnows
<1>t. HealthTypeOK BY DEF HealthInv
<1>2. IsFiniteSet(Batch) /\ postQ \in Seq(SUBSET Batch) /\ joined \subseteq Batch
  BY <1>t, HealthAssumption DEF HealthTypeOK, HealthAssumption
<1>3. joined \subseteq PostDone /\ PostDone \subseteq Batch /\ b \in PostDone /\ b \notin joined
  BY DEF HealthInv, PostsCounted, PostDone, JoinPostCheck
<1>4. IsFiniteSet(joined) /\ IsFiniteSet(PostDone) BY <1>2, <1>3, FS_Subset
<1>5. Cardinality(joined \cup {b}) = Cardinality(joined) + 1 BY <1>3, <1>4, FS_AddElement
<1>6. Cardinality(joined \cup {b}) <= Cardinality(PostDone)
  BY <1>3, <1>4, FS_Subset
<1>7. Cardinality(joined) \in Nat /\ Cardinality(PostDone) \in Nat /\ Len(postQ) \in Nat
  BY <1>2, <1>4, FS_CardinalityType
<1>8. Len(postQ) + Cardinality(joined) = Cardinality(PostDone)
  BY DEF HealthInv, PostsCounted
<1>9. postQ # <<>>
  <2>1. Len(postQ) > 0 BY <1>5, <1>6, <1>7, <1>8
  <2> QED BY <2>1
<1>10. /\ postQ' = Tail(postQ) /\ found' = found \cup Head(postQ)
       /\ joined' = joined \cup {b} /\ UNCHANGED <<post, sick, target>>
  BY <1>9 DEF JoinPostCheck
<1>11. /\ postQ' \in Seq(SUBSET Batch) /\ Len(postQ') = Len(postQ) - 1
       /\ Head(postQ) \in SUBSET Batch
       /\ UNION {postQ[i] : i \in 1..Len(postQ)}
            = Head(postQ) \cup UNION {postQ'[i] : i \in 1..Len(postQ')}
  <2>1. /\ Tail(postQ) \in Seq(SUBSET Batch) /\ Len(Tail(postQ)) = Len(postQ) - 1
        /\ Head(postQ) \in SUBSET Batch
        /\ UNION {postQ[i] : i \in 1..Len(postQ)}
             = Head(postQ) \cup UNION {Tail(postQ)[i] : i \in 1..Len(Tail(postQ))}
    BY <1>2, <1>9, TailUnion, Zenon
  <2>2. postQ' = Tail(postQ) BY <1>10
  <2> QED BY <2>1, <2>2, Zenon
<1>12. HealthTypeOK'
  <2>1. found' \subseteq Batch /\ joined' \subseteq Batch
    BY <1>10, <1>11, <1>t DEF HealthTypeOK
  <2> QED BY <1>t, <1>11, <2>1 DEF HealthTypeOK, JoinPostCheck
<1>13. PostsCounted'
  <2>1. PostDone' = PostDone BY <1>10 DEF PostDone
  <2>2. Len(postQ') + Cardinality(joined') = Cardinality(PostDone')
    BY <2>1, <1>5, <1>7, <1>8, <1>10, <1>11
  <2>3. sick' = found' \cup UNION {postQ'[i] : i \in 1..Len(postQ')}
    BY <1>10, <1>11 DEF HealthInv, PostsCounted
  <2> QED BY <2>1, <2>2, <2>3, <1>3, <1>10 DEF HealthInv, PostsCounted
<1> QED BY <1>0, <1>1, <1>12, <1>13 DEF HealthInv

LEMMA StartAllStep ==
  ASSUME HealthInv, StartAll
  PROVE  HealthInv'
<1> USE DEF StartAll, posts, shared
<1>1. HealthTypeOK' BY DEF HealthInv, HealthTypeOK
<1>2. HttpKnows' /\ SustainedFailureReported'
  BY DEF HealthInv, HttpKnows, SustainedFailureReported
<1>3. VirtKnows' BY DEF HealthInv, VirtKnows
<1>4. PostsCounted' BY DEF HealthInv, PostsCounted, PostDone
<1> QED BY <1>1, <1>2, <1>3, <1>4 DEF HealthInv

LEMMA CountersStep ==
  ASSUME HealthInv, IncrementAll \/ StopAll
  PROVE  HealthInv'
<1> USE DEF IncrementAll, StopAll
<1>0. current' = current \/ current' = current + 1
  BY DEF http, virt, posts, HealthInv, HealthTypeOK
<1>1. HealthTypeOK'
  <2>1. current' \in Nat BY <1>0 DEF HealthInv, HealthTypeOK
  <2>2. stopping' \in BOOLEAN BY DEF HealthInv, HealthTypeOK
  <2> QED BY <2>1, <2>2 DEF HealthInv, HealthTypeOK, http, virt, posts
<1>2. HttpKnows' /\ SustainedFailureReported' BY HttpStutter
<1>3. VirtKnows' /\ PostsCounted' BY VirtStutter
<1> QED BY <1>1, <1>2, <1>3 DEF HealthInv

LEMMA StartPostChecksStep ==
  ASSUME HealthInv, \A b \in Batch : post[b] = "off", StartPostChecks
  PROVE  HealthInv'
<1> USE DEF StartPostChecks, http, virt, shared
<1>1. HealthTypeOK' BY DEF HealthInv, HealthTypeOK
<1>2. HttpKnows' /\ SustainedFailureReported' BY HttpStutter
<1>3. VirtKnows' BY DEF HealthInv, VirtKnows
<1>4. PostDone = {} /\ PostDone' = {} BY DEF PostDone
<1>5. PostsCounted' BY <1>4 DEF HealthInv, PostsCounted
<1> QED BY <1>1, <1>2, <1>3, <1>5 DEF HealthInv

LEMMA WorkerHealth ==
  ASSUME HealthInv, Worker
  PROVE  HealthInv'
  BY HttpTopStep, HttpSleepStep, HttpPollStep, VirtTopStep, VirtCheckStep, PostCheckStep
     DEF Worker

(***************************************************************************)
(* The main thread.                                                        *)
(***************************************************************************)
(* A thread that has ended does nothing more.                              *)
LEMMA EndedThreads ==
  ASSUME HealthInv, Worker
  PROVE  /\ HttpJoined => HttpJoined' /\ ret' = ret
         /\ VirtJoined => VirtJoined'
         /\ (\A b \in Batch : post[b] = "off") => \A b \in Batch : post'[b] = "off"
         /\ UNCHANGED <<target, endless, joined, found>>
<1>1. CASE HttpTop BY <1>1 DEF HttpTop, HttpJoined, VirtJoined, virt, posts, shared
<1>2. CASE HttpSleep BY <1>2 DEF HttpSleep, HttpJoined, VirtJoined, virt, posts, shared
<1>3. ASSUME NEW u \in Url, NEW c \in Code, HttpPoll(u, c)
      PROVE  /\ ~HttpJoined /\ UNCHANGED <<virt, posts, shared>>
  BY <1>3 DEF HttpPoll, HttpJoined
<1>4. ASSUME NEW b \in Batch, VirtTop(b)
      PROVE  /\ ~VirtJoined /\ UNCHANGED <<http, posts, shared>>
  BY <1>4 DEF VirtTop, VirtJoined
<1>5. ASSUME NEW b \in Batch, NEW s \in Status, VirtCheck(b, s)
      PROVE  /\ ~VirtJoined /\ UNCHANGED <<http, posts, shared>>
  BY <1>5 DEF VirtCheck, VirtJoined
<1>6. ASSUME NEW b \in Batch, NEW s \in Status, PostCheck(b, s)
      PROVE  /\ post[b] # "off" /\ UNCHANGED <<http, virt, joined, found, shared>>
  BY <1>6 DEF PostCheck
<1> QED
  BY <1>1, <1>2, <1>3, <1>4, <1>5, <1>6
     DEF Worker, HttpJoined, VirtJoined, http, virt, posts, shared

LEMMA MainWorker ==
  ASSUME RunInv, WorkerStep
  PROVE  MainInv'
<1>1. HealthInv /\ Worker /\ UNCHANGED rvars BY DEF RunInv, WorkerStep
<1>2. /\ HttpJoined => HttpJoined' /\ ret' = ret
      /\ VirtJoined => VirtJoined'
      /\ (\A b \in Batch : post[b] = "off") => \A b \in Batch : post'[b] = "off"
      /\ UNCHANGED <<target, endless, joined, found>>
  BY <1>1, EndedThreads
<1>3. RunTypeOK' /\ SignalInv' /\ LoopInv' /\ VerdictInv'
  BY <1>1, <1>2 DEF rvars, RunInv, MainInv, RunTypeOK, SignalInv, LoopInv, VerdictInv
<1>4. ThreadsInv' BY <1>1, <1>2 DEF rvars, RunInv, MainInv, ThreadsInv
<1>5. ExitInv' BY <1>1, <1>2 DEF rvars, RunInv, MainInv, ExitInv, VirtReturn
<1> QED BY <1>3, <1>4, <1>5 DEF MainInv

(* The parts of the main thread's invariant that speak of other threads,   *)
(* when those do not move.                                                 *)
LEMMA JoinedStutter ==
  ASSUME UNCHANGED hvars
  PROVE  /\ HttpJoined' = HttpJoined /\ VirtJoined' = VirtJoined
         /\ UNCHANGED <<post, joined, target, found, ret, endless>>
         /\ VirtReturn' = VirtReturn
  BY DEF hvars, http, virt, posts, shared, HttpJoined, VirtJoined, VirtReturn

(* Everything before the loop and in it but the increment: the health      *)
(* check threads are left alone and no exit code 0 is computed.            *)
LEMMA LoopSteps ==
  ASSUME RunInv,
         \/ StartServer \/ Publish \/ Triggers \/ While \/ Ask \/ AskAgain
         \/ NoMoreEntries \/ Begin \/ Ran \/ Raise \/ Operate
         \/ \E new \in BOOLEAN : CheckAlerts(new)
  PROVE  MainInv'
<1>a. RunTypeOK /\ SignalInv /\ LoopInv /\ VerdictInv /\ ThreadsInv /\ ExitInv
  BY DEF RunInv, MainInv
<1>b. /\ HttpJoined' = HttpJoined /\ VirtJoined' = VirtJoined
      /\ UNCHANGED <<post, joined, target, found, ret, endless>>
      /\ VirtReturn' = VirtReturn
  <2>1. UNCHANGED hvars
    BY DEF StartServer, Publish, Triggers, While, Ask, AskAgain, NoMoreEntries, Begin,
           Ran, Raise, Operate, Post, CheckAlerts
  <2> QED BY <2>1, JoinedStutter
<1>1. CASE StartServer
  BY <1>1, JoinedStutter DEF StartServer, Main, RunInv, MainInv, RunTypeOK, SignalInv, LoopInv, VerdictInv,
     ThreadsInv, ExitInv
<1>2. CASE Publish
  BY <1>2, JoinedStutter DEF Publish, Main, RunInv, MainInv, RunTypeOK, SignalInv, LoopInv, VerdictInv,
     ThreadsInv, ExitInv
<1>3. CASE Triggers
  <2>1. RunTypeOK'
    <3>1. chaos' \in BOOLEAN BY <1>3, <1>a DEF Triggers, RunTypeOK
    <3>2. rc' \in {0, 1, 2, 3, 255} BY <1>3, <1>a DEF Triggers, RunTypeOK
    <3> QED BY <1>3, <1>a, <3>1, <3>2 DEF Triggers, RunTypeOK
  <2>2. SignalInv' BY <1>3, <1>a DEF Triggers, RunTypeOK, SignalInv
  <2>3. LoopInv' BY <1>3, <1>a, <1>b DEF Triggers, RunTypeOK, LoopInv
  <2>4. VerdictInv' BY <1>3, <1>a DEF Triggers, RunTypeOK, VerdictInv
  <2>5. ThreadsInv' BY <1>3, <1>a, <1>b DEF Triggers, RunTypeOK, ThreadsInv
  <2>6. ExitInv'
    BY <1>3, <1>a, <1>b DEF Triggers, RunTypeOK, VerdictInv, ThreadsInv, ExitInv
  <2> QED BY <2>1, <2>2, <2>3, <2>4, <2>5, <2>6 DEF MainInv
<1>4. CASE While
  <2>1. RunTypeOK'
    <3>1. idx' \in 1..(Scenarios + 1) BY <1>4, <1>a, RunAssumption DEF While, RunAssumption
    <3> QED BY <1>4, <1>a, <3>1 DEF While, RunTypeOK
  <2>2. SignalInv' BY <1>4, <1>a DEF While, RunTypeOK, SignalInv
  <2>3. LoopInv' BY <1>4, <1>a, <1>b DEF While, RunTypeOK, LoopInv
  <2>4. VerdictInv' BY <1>4, <1>a DEF While, RunTypeOK, VerdictInv
  <2>5. ThreadsInv' BY <1>4, <1>a, <1>b DEF While, RunTypeOK, ThreadsInv
  <2>6. ExitInv'
    BY <1>4, <1>a, <1>b DEF While, RunTypeOK, VerdictInv, ThreadsInv, ExitInv
  <2> QED BY <2>1, <2>2, <2>3, <2>4, <2>5, <2>6 DEF MainInv
<1>5. CASE Ask
  <2>1. RunTypeOK' BY <1>5, <1>a, <1>b DEF Ask, RunTypeOK, SignalInv, LoopInv
  <2>2. SignalInv' BY <1>5, <1>a DEF Ask, RunTypeOK, SignalInv, LoopInv
  <2>3. LoopInv' BY <1>5, <1>a, <1>b DEF Ask, RunTypeOK, SignalInv, LoopInv
  <2>4. VerdictInv' BY <1>5, <1>a DEF Ask, RunTypeOK, VerdictInv
  <2>5. ThreadsInv' BY <1>5, <1>a, <1>b DEF Ask, RunTypeOK, ThreadsInv
  <2>6. ExitInv' BY <1>5, <1>a, <1>b DEF Ask, RunTypeOK, VerdictInv, ThreadsInv, ExitInv
  <2> QED BY <2>1, <2>2, <2>3, <2>4, <2>5, <2>6 DEF MainInv
<1>6. CASE AskAgain
  BY <1>6, JoinedStutter DEF AskAgain, RunInv, MainInv, RunTypeOK, SignalInv, LoopInv, VerdictInv,
     ThreadsInv, ExitInv
<1>7. CASE NoMoreEntries
  BY <1>7, JoinedStutter DEF NoMoreEntries, Main, RunInv, MainInv, RunTypeOK, SignalInv, LoopInv, VerdictInv,
     ThreadsInv, ExitInv
<1>8. CASE Begin
  <2>1. RunTypeOK'
    <3>1. idx' \in 1..(Scenarios + 1) BY <1>8, <1>a, RunAssumption DEF RunAssumption, Begin, LoopInv, RunTypeOK
    <3>2. rc' \in {0, 1, 2, 3, 255} /\ begun' \in Nat BY <1>8, <1>a DEF Begin, RunTypeOK
    <3> QED BY <1>8, <1>a, <3>1, <3>2 DEF Begin, RunTypeOK
  <2>2. SignalInv' BY <1>8, <1>a DEF Begin, RunTypeOK, SignalInv
  <2>3. LoopInv' BY <1>8, <1>a, <1>b DEF Begin, RunTypeOK, LoopInv
  <2>4. VerdictInv' BY <1>8, <1>a DEF Begin, RunTypeOK, VerdictInv
  <2>5. ThreadsInv' BY <1>8, <1>a, <1>b DEF Begin, RunTypeOK, ThreadsInv
  <2>6. ExitInv'
    BY <1>8, <1>a, <1>b DEF Begin, RunTypeOK, VerdictInv, ThreadsInv, ExitInv
  <2> QED BY <2>1, <2>2, <2>3, <2>4, <2>5, <2>6 DEF MainInv
<1>9. CASE Ran
  <2>1. RunTypeOK'
    <3>1. failed' \in BOOLEAN /\ seen' \subseteq {"failed", "alert"} BY <1>9, <1>a DEF Ran, RunTypeOK
    <3> QED BY <1>9, <1>a, <3>1 DEF Ran, Main, RunTypeOK
  <2>2. SignalInv' BY <1>9, <1>a DEF Ran, Main, RunTypeOK, SignalInv
  <2>3. LoopInv' BY <1>9, <1>a, <1>b DEF Ran, Main, RunTypeOK, LoopInv
  <2>4. VerdictInv' BY <1>9, <1>a DEF Ran, Main, RunTypeOK, VerdictInv
  <2>5. ThreadsInv' BY <1>9, <1>a, <1>b DEF Ran, Main, RunTypeOK, ThreadsInv
  <2>6. ExitInv'
    BY <1>9, <1>a, <1>b DEF Ran, Main, RunTypeOK, VerdictInv, ThreadsInv, ExitInv
  <2> QED BY <2>1, <2>2, <2>3, <2>4, <2>5, <2>6 DEF MainInv
<1>10. CASE Raise
  <2>1. RunTypeOK' BY <1>10, <1>a, <1>b DEF Raise, RunTypeOK
  <2>2. SignalInv' BY <1>10, <1>a DEF Raise, RunTypeOK, SignalInv
  <2>3. LoopInv' BY <1>10, <1>a, <1>b DEF Raise, RunTypeOK, LoopInv
  <2>4. VerdictInv' BY <1>10, <1>a DEF Raise, RunTypeOK, VerdictInv
  <2>5. ThreadsInv' BY <1>10, <1>a, <1>b DEF Raise, RunTypeOK, ThreadsInv
  <2>6. ExitInv'
    BY <1>10, <1>a, <1>b DEF Raise, RunTypeOK, VerdictInv, ThreadsInv, ExitInv
  <2> QED BY <2>1, <2>2, <2>3, <2>4, <2>5, <2>6 DEF MainInv
<1>11. CASE Operate
  <2>1. RunTypeOK'
    <3>1. sent' \in 0..MaxPosts BY <1>11, <1>a, RunAssumption DEF RunAssumption, Operate, Post, RunTypeOK
    <3> QED BY <1>11, <1>a, <3>1 DEF Operate, Post, Serving, RunTypeOK
  <2>2. SignalInv' BY <1>11, <1>a DEF Operate, Post, Serving, RunTypeOK, SignalInv
  <2>3. LoopInv' BY <1>11, <1>a, <1>b DEF Operate, Post, Serving, RunTypeOK, LoopInv
  <2>4. VerdictInv' BY <1>11, <1>a DEF Operate, Post, Serving, RunTypeOK, VerdictInv
  <2>5. ThreadsInv'
    BY <1>11, <1>a, <1>b DEF Operate, Post, Serving, RunTypeOK, ThreadsInv
  <2>6. ExitInv'
    BY <1>11, <1>a, <1>b DEF Operate, Post, Serving, RunTypeOK, VerdictInv,
       ThreadsInv, ExitInv
  <2> QED BY <2>1, <2>2, <2>3, <2>4, <2>5, <2>6 DEF MainInv
<1>12. ASSUME NEW new \in BOOLEAN, CheckAlerts(new) PROVE MainInv'
  <2>1. RunTypeOK'
    <3>1. idx' \in 1..(Scenarios + 1) BY <1>12, <1>a, RunAssumption DEF RunAssumption, CheckAlerts, LoopInv, RunTypeOK
    <3>2. summary' \in BOOLEAN /\ critical' \in BOOLEAN BY <1>12, <1>a DEF CheckAlerts, RunTypeOK
    <3>3. seen' \subseteq {"failed", "alert"} BY <1>12, <1>a DEF CheckAlerts, RunTypeOK
    <3> QED BY <1>12, <1>a, <3>1, <3>2, <3>3 DEF CheckAlerts, RunTypeOK
  <2>2. SignalInv' BY <1>12, <1>a DEF CheckAlerts, RunTypeOK, SignalInv
  <2>3. LoopInv' BY <1>12, <1>a, <1>b DEF CheckAlerts, RunTypeOK, LoopInv
  <2>4. VerdictInv' BY <1>12, <1>a DEF CheckAlerts, RunTypeOK, VerdictInv
  <2>5. ThreadsInv' BY <1>12, <1>a, <1>b DEF CheckAlerts, RunTypeOK, ThreadsInv
  <2>6. ExitInv'
    BY <1>12, <1>a, <1>b DEF CheckAlerts, RunTypeOK, VerdictInv, ThreadsInv, ExitInv
  <2> QED BY <2>1, <2>2, <2>3, <2>4, <2>5, <2>6 DEF MainInv
<1> QED BY <1>1, <1>2, <1>3, <1>4, <1>5, <1>6, <1>7, <1>8, <1>9, <1>10, <1>11, <1>12

(* The steps that wait for the threads, start them, count the iterations   *)
(* and compute the exit code.                                              *)
LEMMA OuterSteps ==
  ASSUME RunInv,
         \/ StartChecks \/ NextIteration \/ StopChecks \/ JoinHttp \/ JoinVirt
         \/ AlertProfile \/ Return
         \/ \E b \in Batch : Gather(b)
  PROVE  MainInv'
<1>a. RunTypeOK /\ SignalInv /\ LoopInv /\ VerdictInv /\ ThreadsInv /\ ExitInv
  BY DEF RunInv, MainInv
<1>1. CASE StartChecks
  <2>1. RunTypeOK'
    BY <1>1, <1>a DEF StartChecks, Main, StartAll, http, virt, posts, shared,
       RunTypeOK
  <2>2. SignalInv'
    BY <1>1, <1>a DEF StartChecks, Main, StartAll, http, virt, posts, shared,
       RunTypeOK, SignalInv
  <2>3. LoopInv'
    BY <1>1, <1>a DEF StartChecks, Main, StartAll, http, virt, posts, shared,
       RunTypeOK, LoopInv
  <2>4. VerdictInv'
    BY <1>1, <1>a DEF StartChecks, Main, StartAll, http, virt, posts, shared,
       RunTypeOK, VerdictInv
  <2>5. ThreadsInv'
    BY <1>1, <1>a DEF StartChecks, Main, StartAll, HttpJoined, VirtJoined,
       VirtReturn, http, virt, posts, shared, RunTypeOK, ThreadsInv
  <2>6. ExitInv'
    BY <1>1, <1>a DEF StartChecks, Main, StartAll, HttpJoined, VirtJoined,
       VirtReturn, http, virt, posts, shared, RunTypeOK, VerdictInv, ThreadsInv,
       ExitInv
  <2> QED BY <2>1, <2>2, <2>3, <2>4, <2>5, <2>6 DEF MainInv
<1>2. CASE NextIteration
  <2>1. RunTypeOK'
    BY <1>2, <1>a, RunAssumption, HealthAssumption DEF NextIteration, Main,
       IncrementAll, http, virt, posts, shared, RunTypeOK, LoopInv
  <2>2. SignalInv'
    BY <1>2, <1>a DEF NextIteration, Main, IncrementAll, http, virt, posts, shared,
       RunTypeOK, SignalInv
  <2>3. LoopInv'
    BY <1>2, <1>a DEF NextIteration, Main, IncrementAll, http, virt, posts, shared,
       RunTypeOK, LoopInv
  <2>4. VerdictInv'
    BY <1>2, <1>a DEF NextIteration, Main, IncrementAll, http, virt, posts, shared,
       RunTypeOK, VerdictInv
  <2>5. ThreadsInv'
    BY <1>2, <1>a DEF NextIteration, Main, IncrementAll, HttpJoined, VirtJoined,
       VirtReturn, http, virt, posts, shared, RunTypeOK, ThreadsInv
  <2>6. ExitInv'
    BY <1>2, <1>a DEF NextIteration, Main, IncrementAll, HttpJoined, VirtJoined,
       VirtReturn, http, virt, posts, shared, RunTypeOK, VerdictInv, ThreadsInv,
       ExitInv
  <2> QED BY <2>1, <2>2, <2>3, <2>4, <2>5, <2>6 DEF MainInv
<1>3. CASE StopChecks
  <2>1. RunTypeOK'
    BY <1>3, <1>a DEF StopChecks, Main, StopAll, http, virt, posts, shared, RunTypeOK
  <2>2. SignalInv'
    BY <1>3, <1>a DEF StopChecks, Main, StopAll, http, virt, posts, shared,
       RunTypeOK, SignalInv
  <2>3. LoopInv'
    BY <1>3, <1>a DEF StopChecks, Main, StopAll, http, virt, posts, shared,
       RunTypeOK, LoopInv
  <2>4. VerdictInv'
    BY <1>3, <1>a DEF StopChecks, Main, StopAll, http, virt, posts, shared,
       RunTypeOK, VerdictInv
  <2>5. ThreadsInv'
    BY <1>3, <1>a DEF StopChecks, Main, StopAll, HttpJoined, VirtJoined, VirtReturn,
       http, virt, posts, shared, RunTypeOK, ThreadsInv
  <2>6. ExitInv'
    BY <1>3, <1>a DEF StopChecks, Main, StopAll, HttpJoined, VirtJoined, VirtReturn,
       http, virt, posts, shared, RunTypeOK, VerdictInv, ThreadsInv, ExitInv
  <2> QED BY <2>1, <2>2, <2>3, <2>4, <2>5, <2>6 DEF MainInv
<1>4. CASE JoinHttp
  <2>1. RunTypeOK' BY <1>4, <1>a, JoinedStutter DEF JoinHttp, Main, RunTypeOK
  <2>2. SignalInv' BY <1>4, <1>a DEF JoinHttp, Main, RunTypeOK, SignalInv
  <2>3. LoopInv' BY <1>4, <1>a, JoinedStutter DEF JoinHttp, Main, RunTypeOK, LoopInv
  <2>4. VerdictInv' BY <1>4, <1>a DEF JoinHttp, Main, RunTypeOK, VerdictInv
  <2>5. ThreadsInv'
    BY <1>4, <1>a, JoinedStutter DEF JoinHttp, Main, RunTypeOK, ThreadsInv
  <2>6. ExitInv'
    BY <1>4, <1>a, JoinedStutter DEF JoinHttp, Main, RunTypeOK, VerdictInv,
       ThreadsInv, ExitInv
  <2> QED BY <2>1, <2>2, <2>3, <2>4, <2>5, <2>6 DEF MainInv
<1>5. CASE JoinVirt
  <2>1. RunTypeOK'
    BY <1>5, <1>a DEF JoinVirt, Main, StartPostChecks, http, virt, posts, shared,
       RunTypeOK
  <2>2. SignalInv'
    BY <1>5, <1>a DEF JoinVirt, Main, StartPostChecks, http, virt, posts, shared,
       RunTypeOK, SignalInv
  <2>3. LoopInv'
    BY <1>5, <1>a DEF JoinVirt, Main, StartPostChecks, http, virt, posts, shared,
       RunTypeOK, LoopInv
  <2>4. VerdictInv'
    BY <1>5, <1>a DEF JoinVirt, Main, StartPostChecks, http, virt, posts, shared,
       RunTypeOK, VerdictInv
  <2>5. ThreadsInv'
    BY <1>5, <1>a DEF JoinVirt, Main, StartPostChecks, HttpJoined, VirtJoined,
       VirtReturn, http, virt, posts, shared, RunTypeOK, ThreadsInv
  <2>6. ExitInv'
    BY <1>5, <1>a DEF JoinVirt, Main, StartPostChecks, HttpJoined, VirtJoined,
       VirtReturn, http, virt, posts, shared, RunTypeOK, VerdictInv, ThreadsInv,
       ExitInv
  <2> QED BY <2>1, <2>2, <2>3, <2>4, <2>5, <2>6 DEF MainInv
<1>6. CASE AlertProfile
  <2>1. RunTypeOK'
    <3>1. profile' \in BOOLEAN BY <1>6, <1>a DEF AlertProfile, RunTypeOK
    <3>2. rc' \in {0, 1, 2, 3, 255} BY <1>6, <1>a DEF AlertProfile, RunTypeOK
    <3>3. mpc' \in {"code", "exited"} BY <1>6 DEF AlertProfile
    <3> QED BY <1>6, <1>a, <3>1, <3>2, <3>3 DEF AlertProfile, RunTypeOK
  <2>2. SignalInv' BY <1>6, <1>a DEF AlertProfile, RunTypeOK, SignalInv
  <2>3. LoopInv' BY <1>6, <1>a, JoinedStutter DEF AlertProfile, RunTypeOK, LoopInv
  <2>4. VerdictInv' BY <1>6, <1>a DEF AlertProfile, RunTypeOK, VerdictInv
  <2>5. ThreadsInv' BY <1>6, <1>a, JoinedStutter DEF AlertProfile, RunTypeOK, ThreadsInv
  <2>6. ExitInv'
    BY <1>6, <1>a, JoinedStutter DEF AlertProfile, RunTypeOK, VerdictInv, ThreadsInv,
       ExitInv
  <2> QED BY <2>1, <2>2, <2>3, <2>4, <2>5, <2>6 DEF MainInv
<1>7. CASE Return
  <2>1. RunTypeOK'
    <3>1. ret \in {0, 3} BY DEF RunInv, HealthInv, HealthTypeOK
    <3>2. ExitCode \in {0, 1, 2, 3, 255} BY <3>1 DEF ExitCode, VirtReturn
    <3> QED BY <1>7, <1>a, <3>2 DEF Return, Main, RunTypeOK
  <2>2. SignalInv' BY <1>7, <1>a DEF Return, Main, ExitCode, RunTypeOK, SignalInv
  <2>3. LoopInv'
    BY <1>7, <1>a, JoinedStutter DEF Return, Main, ExitCode, RunTypeOK, LoopInv
  <2>4. VerdictInv' BY <1>7, <1>a DEF Return, Main, ExitCode, RunTypeOK, VerdictInv
  <2>5. ThreadsInv'
    BY <1>7, <1>a, JoinedStutter DEF Return, Main, ExitCode, RunTypeOK, ThreadsInv
  <2>6. ExitInv'
    BY <1>7, <1>a, JoinedStutter DEF Return, Main, ExitCode, RunTypeOK, VerdictInv,
       ThreadsInv, ExitInv
  <2> QED BY <2>1, <2>2, <2>3, <2>4, <2>5, <2>6 DEF MainInv
<1>8. ASSUME NEW b \in Batch, Gather(b) PROVE MainInv'
  <2>1. RunTypeOK'
    BY <1>8, <1>a DEF Gather, JoinPostCheck, rvars, http, virt, posts, shared,
       RunTypeOK
  <2>2. SignalInv'
    BY <1>8, <1>a DEF Gather, JoinPostCheck, rvars, http, virt, posts, shared,
       RunTypeOK, SignalInv
  <2>3. LoopInv'
    BY <1>8, <1>a DEF Gather, JoinPostCheck, rvars, http, virt, posts, shared,
       RunTypeOK, LoopInv
  <2>4. VerdictInv'
    BY <1>8, <1>a DEF Gather, JoinPostCheck, rvars, http, virt, posts, shared,
       RunTypeOK, VerdictInv
  <2>5. ThreadsInv'
    BY <1>8, <1>a DEF Gather, JoinPostCheck, rvars, HttpJoined, VirtJoined,
       VirtReturn, http, virt, posts, shared, RunTypeOK, ThreadsInv
  <2>6. ExitInv'
    BY <1>8, <1>a DEF Gather, JoinPostCheck, rvars, HttpJoined, VirtJoined,
       VirtReturn, http, virt, posts, shared, RunTypeOK, VerdictInv, ThreadsInv,
       ExitInv
  <2> QED BY <2>1, <2>2, <2>3, <2>4, <2>5, <2>6 DEF MainInv
<1> QED BY <1>1, <1>2, <1>3, <1>4, <1>5, <1>6, <1>7, <1>8

(***************************************************************************)
(* The inductive invariant.                                                *)
(***************************************************************************)
LEMMA MainHealth ==
  ASSUME RunInv, MainStep \/ Raise \/ Operate
  PROVE  HealthInv'
<1>0. HealthInv BY DEF RunInv
<1>1. CASE StartChecks BY <1>0, <1>1, StartAllStep DEF StartChecks
<1>2. CASE NextIteration \/ StopChecks
  BY <1>0, <1>2, CountersStep DEF NextIteration, StopChecks
<1>3. CASE JoinVirt
  <2>1. \A b \in Batch : post[b] = "off"
    BY <1>3 DEF JoinVirt, Main, RunInv, MainInv, ThreadsInv
  <2> QED BY <2>1, <1>0, <1>3, StartPostChecksStep DEF JoinVirt
<1>4. ASSUME NEW b \in Batch, Gather(b) PROVE HealthInv'
  BY <1>0, <1>4, JoinPostCheckStep DEF Gather
<1>5. CASE \/ StartServer \/ Publish \/ Triggers \/ While \/ Ask \/ AskAgain
           \/ NoMoreEntries \/ Begin \/ Ran \/ Raise \/ Operate
           \/ \E new \in BOOLEAN : CheckAlerts(new)
           \/ JoinHttp \/ AlertProfile \/ Return
  <2>1. UNCHANGED hvars
    BY <1>5 DEF StartServer, Publish, Triggers, While, Ask, AskAgain, NoMoreEntries,
       Begin, Ran, Raise, Operate, Post, CheckAlerts, JoinHttp, AlertProfile, Return
  <2> QED BY <1>0, <2>1, HealthStutter
<1> QED BY <1>1, <1>2, <1>3, <1>4, <1>5 DEF MainStep

LEMMA RunInvInit ==
  ASSUME Init
  PROVE  RunInv
<1>1. HealthInv BY HealthStart DEF Init
<1>2. RunTypeOK
  <2>1. chaos \in BOOLEAN BY DEF Init
  <2>2. cfg \in Configs /\ signal \in {"RUN", "PAUSE", "STOP"}
    BY RunAssumption DEF Init, RunAssumption, Configuration
  <2>3. sent \in 0..MaxPosts /\ iter \in 0..Iterations /\ idx \in 1..(Scenarios + 1)
    BY RunAssumption, HealthAssumption DEF Init, RunAssumption, HealthAssumption
  <2> QED BY <2>1, <2>2, <2>3 DEF Init, RunTypeOK
<1>3. SignalInv /\ LoopInv /\ VerdictInv /\ ThreadsInv /\ ExitInv
  BY DEF Init, HealthInit, SignalInv, LoopInv, VerdictInv, ThreadsInv, ExitInv
<1> QED BY <1>1, <1>2, <1>3 DEF RunInv, MainInv

LEMMA RunInvNext ==
  ASSUME RunInv, [Next]_vars
  PROVE  RunInv'
<1>1. CASE MainStep \/ Raise \/ Operate
  <2>1. HealthInv' BY <1>1, MainHealth
  <2>2. MainInv' BY <1>1, LoopSteps, OuterSteps DEF MainStep
  <2> QED BY <2>1, <2>2 DEF RunInv
<1>2. CASE WorkerStep
  <2>1. HealthInv' BY <1>2, WorkerHealth DEF RunInv, WorkerStep
  <2> QED BY <1>2, <2>1, MainWorker DEF RunInv
<1>3. CASE UNCHANGED vars
  <2>1. UNCHANGED hvars /\ UNCHANGED rvars BY <1>3 DEF vars
  <2>2. HealthInv' BY <2>1, HealthStutter DEF RunInv
  <2>3. MainInv'
    BY <2>1, JoinedStutter
       DEF RunInv, MainInv, rvars, RunTypeOK, SignalInv, LoopInv, VerdictInv, ThreadsInv, ExitInv
  <2> QED BY <2>2, <2>3 DEF RunInv
<1> QED BY <1>1, <1>2, <1>3 DEF Next, Terminated

(* The inductive invariant holds of every run: types, what each thread     *)
(* knows, where the threads are.                                           *)
THEOREM RunInvariant == Spec => []RunInv
<1>1. Init => RunInv BY RunInvInit
<1>2. RunInv /\ [Next]_vars => RunInv' BY RunInvNext
<1> QED BY <1>1, <1>2, PTL DEF Spec

(***************************************************************************)
(* What follows from it.                                                   *)
(***************************************************************************)
(* Two consecutive failures of a URL with exit_on_failure set the return   *)
(* value of the http plugin.                                               *)
THEOREM FailuresReported == Spec => []SustainedFailureReported
<1>1. RunInv => SustainedFailureReported BY DEF RunInv, HealthInv
<1> QED BY <1>1, RunInvariant, PTL

(* A code polled twice in a row is in the telemetry when the thread ends.  *)
THEOREM StatusRecorded == Spec => []SustainedStatusRecorded
<1>1. RunInv => SustainedStatusRecorded
  BY HealthAssumption
     DEF RunInv, HealthInv, HttpKnows, SustainedStatusRecorded, HealthAssumption
<1> QED BY <1>1, RunInvariant, PTL

(* The failures the virt threads saw are in the telemetry when they end.   *)
THEOREM VirtRecorded == Spec => []VirtFailureRecorded
<1>1. RunInv => VirtFailureRecorded BY DEF RunInv, HealthInv, VirtKnows, VirtFailureRecorded
<1> QED BY <1>1, RunInvariant, PTL

LEMMA AllCollected ==
  ASSUME HealthInv, joined = target.vms
  PROVE  found = sick /\ \A b \in target.vms : post[b] = "done"
<1>1. PostDone \subseteq target.vms /\ joined \subseteq PostDone
  BY DEF HealthInv, HealthTypeOK, PostsCounted, PostDone
<1>2. PostDone = joined BY <1>1
<1>3. IsFiniteSet(joined)
  BY HealthAssumption, FS_Subset DEF HealthInv, HealthTypeOK, HealthAssumption
<1>4. Cardinality(joined) \in Nat BY <1>3, FS_CardinalityType
<1>5. Len(postQ) \in Nat BY DEF HealthInv, HealthTypeOK
<1>6. Len(postQ) = 0 BY <1>2, <1>4, <1>5 DEF HealthInv, PostsCounted
<1>7. UNION {postQ[i] : i \in 1..Len(postQ)} = {} BY <1>6
<1>8. found = sick BY <1>7 DEF HealthInv, PostsCounted
<1>9. \A b \in joined : post[b] = "done" BY <1>2 DEF PostDone
<1> QED BY <1>8, <1>9

(* Reading one result per joined thread loses none, for any number of      *)
(* threads that end in any order.                                          *)
THEOREM PostChecksComplete == Spec => []PostChecksCollected
<1>1. RunInv => PostChecksCollected BY AllCollected DEF RunInv, PostChecksCollected
<1> QED BY <1>1, RunInvariant, PTL

(* The exit code is computed after every thread has ended.                 *)
THEOREM CodeIsLast == Spec => []CodeIsFinal
<1>1. RunInv => CodeIsFinal BY AllCollected DEF RunInv, MainInv, ThreadsInv, CodeIsFinal
<1> QED BY <1>1, RunInvariant, PTL

(* At most one entry begins after STOP.                                    *)
THEOREM StopIsPrompt == Spec => []StopBound
<1>1. RunInv => StopBound BY DEF RunInv, MainInv, SignalInv, StopBound
<1> QED BY <1>1, RunInvariant, PTL

(* Exit code 0 means that nothing failed in any iteration.                 *)
THEOREM SuccessMeansClean == Spec => []SuccessIsClean
<1>1. ASSUME RunInv, mpc = "exited", rc = 0
      PROVE  /\ seen = {} /\ ~profile
             /\ \A u \in ExitOn, c, d \in Code \ {OK} : <<u, c, d>> \notin pairs
             /\ VirtExit => sick = {}
  <2>1. /\ joined = target.vms /\ ~failed /\ ~critical /\ ~profile
        /\ ret = 0 /\ VirtReturn = 0
    BY <1>1 DEF RunInv, MainInv, ExitInv
  <2>2. seen = {} BY <1>1, <2>1 DEF RunInv, MainInv, VerdictInv, RunTypeOK
  <2>3. \A u \in ExitOn, c, d \in Code \ {OK} : <<u, c, d>> \notin pairs
    <3> SUFFICES ASSUME NEW u \in ExitOn, NEW c \in Code \ {OK}, NEW d \in Code \ {OK},
                        <<u, c, d>> \in pairs
                 PROVE  FALSE
      OBVIOUS
    <3>1. ret = 3 BY <1>1 DEF RunInv, HealthInv, SustainedFailureReported
    <3> QED BY <2>1, <3>1
  <2>4. VirtExit => sick = {}
    BY <1>1, <2>1, AllCollected DEF RunInv, VirtReturn
  <2> QED BY <2>1, <2>2, <2>3, <2>4
<1>2. RunInv => SuccessIsClean BY <1>1 DEF SuccessIsClean
<1> QED BY <1>2, RunInvariant, PTL

=============================================================================
