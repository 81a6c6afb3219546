----------------------- MODULE ScenarioRollbackProofs -----------------------
EXTENDS ScenarioRollback, FiniteSetTheorems, TLAPS

(* What every step needs of types, positions and frames. *)
Shape == TypeOK /\ Begun /\ Frames

LEMMA FaultType == ASSUME faults \in Nat, NEW k, Fault(k) \/ NoFault PROVE faults' \in Nat
  BY DEF Fault, NoFault

LEMMA LoopFaultType ==
  ASSUME faults \in Nat, NEW a, LoopEnds(a) \/ LoopFails(a) PROVE faults' \in Nat
  BY DEF LoopEnds, LoopFails, Fault, NoFault

LEMMA FirstIsTodo == ASSUME NEW a PROVE First(a) \subseteq todo[a]
  BY DEF First

LEMMA UndoType ==
  ASSUME TypeOK, NEW a \in Actor, Undo(a)
  PROVE  /\ faults' \in Nat /\ live' \subseteq live
         /\ cur' \in [Actor -> SUBSET Context]
         /\ lp' \in [Actor -> {"idle", "pick", "rename"}]
         /\ missed' \subseteq Context
<1>1. faults' \in Nat
  BY DEF TypeOK, Undo, Fault, NoFault
<1>2. live' \subseteq live
  BY DEF Undo
<1>3. PICK c \in First(a) : cur' = [cur EXCEPT ![a] = {c}]
  BY DEF Undo
<1>4. c \in Context
  BY FirstIsTodo DEF TypeOK
<1>5. cur' \in [Actor -> SUBSET Context]
  BY <1>3, <1>4 DEF TypeOK
<1>6. lp' \in [Actor -> {"idle", "pick", "rename"}]
  BY DEF TypeOK, Undo
<1>7. missed' \subseteq Context
  <2>1. PICK d \in First(a) : missed' = missed \/ missed' = missed \cup {d}
    BY DEF Undo
  <2> QED BY <2>1, FirstIsTodo DEF TypeOK
<1> QED BY <1>1, <1>2, <1>5, <1>6, <1>7

LEMMA TypeInit == Init => Shape
  BY ConstantsAssumption DEF Init, Shape, Frames, Begun, TypeOK, FileStatus, MainLabels, Gone,
     Body, Context, Actor

LEMMA TypeNext == ASSUME Shape, [Next]_vars PROVE TypeOK'
<1> USE ConstantsAssumption DEF Shape, TypeOK, FileStatus, MainLabels, Gone, Body,
        Context, Actor, main, cluster, loop, handler, logged, At, GoTo, Ctx, Begun
<1>1. ASSUME NEW p \in Proc, Start(p) PROVE TypeOK'
  <2>1. Cardinality({q \in Proc : pc[q] # "off"}) \in Nat
    BY FS_CardinalityType, FS_Subset
  <2> QED BY <1>1, <2>1 DEF Start
<1>2. ASSUME NEW p \in Proc, NEW t \in Type, Begin(p, t) PROVE TypeOK'
  BY <1>2 DEF Begin
<1>3. ASSUME NEW p \in Proc, Finish(p) PROVE TypeOK'
  BY <1>3 DEF Finish
<1>4. ASSUME NEW p \in Proc, Install(p) PROVE TypeOK'
  BY <1>4 DEF Install
<1>44. ASSUME NEW p \in Proc, TakeLock(p) PROVE TypeOK'
  BY <1>44 DEF TakeLock
<1>5. ASSUME NEW p \in Proc, Settle(p) PROVE TypeOK'
  BY <1>5 DEF Settle
<1>6. ASSUME NEW p \in Proc, Register(p) PROVE TypeOK'
  <2>1. Ctx(p) \in Context
    BY <1>6 DEF Register
  <2>2. file' = [file EXCEPT ![Ctx(p)] = "pending"] \/ file' = file
    BY <1>6 DEF Register
  <2>3. unsaved' = unsaved \/ unsaved' = unsaved \cup {Ctx(p)}
    BY <1>6 DEF Register
  <2>4. faults' \in Nat
    BY <1>6, FaultType DEF Register
  <2>5. file' \in [Context -> FileStatus]
    BY <2>2
  <2>8. unsaved' \subseteq Context
    BY <2>1, <2>3
  <2>6. pc' \in [Proc -> MainLabels]
    BY <1>6 DEF Register
  <2>7. UNCHANGED <<cnt, ctype, live, inflight, rv, sig, lock, hs, lp, todo, cur, born, oprc, missed>>
    BY <1>6 DEF Register
  <2> QED BY <2>4, <2>5, <2>6, <2>7, <2>8
<1>7. ASSUME NEW p \in Proc, Reject(p) PROVE TypeOK'
  BY <1>7 DEF Reject, Return
<1>8. ASSUME NEW p \in Proc, SendCreate(p) PROVE TypeOK'
  <2>1. Ctx(p) \in Context
    BY <1>8 DEF SendCreate
  <2>2. inflight' \subseteq Context
    BY <1>8, <2>1 DEF SendCreate
  <2>3. pc' \in [Proc -> MainLabels]
    BY <1>8 DEF SendCreate
  <2> QED BY <1>8, <2>2, <2>3 DEF SendCreate
<1>9. ASSUME NEW p \in Proc, CreateReturns(p) PROVE TypeOK'
  BY <1>9 DEF CreateReturns
<1>10. ASSUME NEW p \in Proc, CreateRaises(p) PROVE TypeOK'
  BY <1>10, FaultType DEF CreateRaises, Return
<1>11. ASSUME NEW p \in Proc, Delete(p) PROVE TypeOK'
  BY <1>11, FaultType DEF Delete, Return
<1>12. ASSUME NEW p \in Proc, LeaveContext(p) PROVE TypeOK'
  BY <1>12 DEF LeaveContext
<1>13. ASSUME NEW p \in Proc, Cleanup(p) PROVE TypeOK'
  BY <1>13 DEF Cleanup, SearchOwn, Search
<1>14. ASSUME NEW p \in Proc, Remove(p) PROVE TypeOK'
  BY <1>14 DEF Remove, First
<1>15. ASSUME NEW p \in Proc, RemoveRaises(p) PROVE TypeOK'
  BY <1>15, FaultType DEF RemoveRaises
<1>16. ASSUME NEW p \in Proc, CleanupDone(p) PROVE TypeOK'
  BY <1>16 DEF CleanupDone
<1>17. ASSUME NEW p \in Proc, RollbackFailedRun(p) PROVE TypeOK'
  BY <1>17 DEF RollbackFailedRun, EnterRollback, SearchOwn, Search
<1>18. ASSUME NEW p \in Proc, RollbackDone(p) PROVE TypeOK'
  BY <1>18, LoopFaultType DEF RollbackDone, LeaveRollback
<1>19. ASSUME NEW p \in Proc, HandlerDone(p) PROVE TypeOK'
  <2>1. pc' \in [Proc -> MainLabels] /\ rv' \in [Proc -> {0, 1}]
    BY <1>19 DEF HandlerDone
  <2>2. faults' \in Nat
    BY <1>19, LoopFaultType DEF HandlerDone
  <2> QED BY <1>19, <2>1, <2>2 DEF HandlerDone, EndHandler, LeaveRollback
<1>20. ASSUME NEW p \in Proc, Crash(p) PROVE TypeOK'
  BY <1>20 DEF Crash, LeaveRollback
<1>21. ASSUME NEW p \in Proc, NEW s \in Signals, Signal(p, s) PROVE TypeOK'
  BY <1>21 DEF Signal, EnterRollback, SearchOwn, Search
<1>22. ASSUME NEW a \in Actor, Undo(a) PROVE TypeOK'
  BY <1>22, UndoType DEF Undo
<1>23. ASSUME NEW a \in Actor, Rename(a) PROVE TypeOK'
  BY <1>23 DEF Rename
<1>24. ASSUME NEW c \in Context, Server(c) PROVE TypeOK'
  BY <1>24 DEF Server, Apply, Lose
<1>25. ASSUME NEW f \in OperatorFilters, OperatorBegins(f[1], f[2]) PROVE TypeOK'
  BY <1>25 DEF OperatorBegins, EnterRollback, Search
<1>26. CASE OperatorDone
  BY <1>26, LoopFaultType DEF OperatorDone, LeaveRollback
<1>27. CASE UNCHANGED vars
  BY <1>27 DEF vars
<1> QED BY <1>1, <1>2, <1>3, <1>4, <1>44, <1>5, <1>6, <1>7, <1>8, <1>9, <1>10, <1>11, <1>12, <1>13, <1>14, <1>15, <1>16, <1>17, <1>18, <1>19, <1>20, <1>21, <1>22, <1>23, <1>24, <1>25, <1>26, <1>27 DEF Next, Step, NextScenario, LoopStep

LEMMA FramesNext == ASSUME Shape, [Next]_vars PROVE (Begun /\ Frames)'
<1> USE ConstantsAssumption DEF Shape, TypeOK, FileStatus, MainLabels, Gone, Body,
        Context, Actor, main, cluster, loop, handler, logged, At, GoTo, Begun, Frames
<1>1. ASSUME NEW p \in Proc, Start(p) PROVE (Begun /\ Frames)'
  BY <1>1 DEF Start
<1>2. ASSUME NEW p \in Proc, NEW t \in Type, Begin(p, t) PROVE (Begun /\ Frames)'
  BY <1>2 DEF Begin
<1>3. ASSUME NEW p \in Proc, Finish(p) PROVE (Begun /\ Frames)'
  BY <1>3 DEF Finish
<1>4. ASSUME NEW p \in Proc, Install(p) PROVE (Begun /\ Frames)'
  BY <1>4 DEF Install
<1>44. ASSUME NEW p \in Proc, TakeLock(p) PROVE (Begun /\ Frames)'
  BY <1>44 DEF TakeLock
<1>5. ASSUME NEW p \in Proc, Settle(p) PROVE (Begun /\ Frames)'
  <2>1. Begun'
    BY <1>5 DEF Settle
  <2>2. Frames'
    BY <1>5, SMTT(30) DEF Settle
  <2> QED BY <2>1, <2>2
<1>6. ASSUME NEW p \in Proc, Register(p) PROVE (Begun /\ Frames)'
  BY <1>6 DEF Register
<1>7. ASSUME NEW p \in Proc, Reject(p) PROVE (Begun /\ Frames)'
  BY <1>7 DEF Reject, Return
<1>8. ASSUME NEW p \in Proc, SendCreate(p) PROVE (Begun /\ Frames)'
  BY <1>8 DEF SendCreate
<1>9. ASSUME NEW p \in Proc, CreateReturns(p) PROVE (Begun /\ Frames)'
  BY <1>9 DEF CreateReturns
<1>10. ASSUME NEW p \in Proc, CreateRaises(p) PROVE (Begun /\ Frames)'
  BY <1>10 DEF CreateRaises, Return
<1>11. ASSUME NEW p \in Proc, Delete(p) PROVE (Begun /\ Frames)'
  <2>1. Begun'
    BY <1>11 DEF Delete, Return
  <2>2. Frames'
    BY <1>11, SMTT(30) DEF Delete, Return
  <2> QED BY <2>1, <2>2
<1>12. ASSUME NEW p \in Proc, LeaveContext(p) PROVE (Begun /\ Frames)'
  BY <1>12 DEF LeaveContext
<1>13. ASSUME NEW p \in Proc, Cleanup(p) PROVE (Begun /\ Frames)'
  BY <1>13 DEF Cleanup, SearchOwn, Search
<1>14. ASSUME NEW p \in Proc, Remove(p) PROVE (Begun /\ Frames)'
  BY <1>14 DEF Remove, First
<1>15. ASSUME NEW p \in Proc, RemoveRaises(p) PROVE (Begun /\ Frames)'
  BY <1>15 DEF RemoveRaises
<1>16. ASSUME NEW p \in Proc, CleanupDone(p) PROVE (Begun /\ Frames)'
  BY <1>16 DEF CleanupDone
<1>17. ASSUME NEW p \in Proc, RollbackFailedRun(p) PROVE (Begun /\ Frames)'
  BY <1>17 DEF RollbackFailedRun, EnterRollback, SearchOwn, Search
<1>18. ASSUME NEW p \in Proc, RollbackDone(p) PROVE (Begun /\ Frames)'
  <2>1. Begun'
    <3>1. /\ pc[p] = "rollback" /\ cnt' = cnt
          /\ pc' = [pc EXCEPT ![p] = "settle"] \/ pc' = [pc EXCEPT ![p] = "dead"]
      BY <1>18 DEF RollbackDone
    <3>2. cnt[p] > 0
      BY <3>1
    <3>3. \A q \in Proc : q # p => pc'[q] = pc[q]
      BY <3>1
    <3> QED BY <3>1, <3>2, <3>3
  <2>2. Frames'
    BY <1>18, SMTT(30) DEF RollbackDone, LeaveRollback
  <2> QED BY <2>1, <2>2
<1>19. ASSUME NEW p \in Proc, HandlerDone(p) PROVE (Begun /\ Frames)'
  <2>1. Begun'
    BY <1>19 DEF HandlerDone
  <2>2. Frames'
    BY <1>19, SMTT(30) DEF HandlerDone, EndHandler, LeaveRollback
  <2> QED BY <2>1, <2>2
<1>20. ASSUME NEW p \in Proc, Crash(p) PROVE (Begun /\ Frames)'
  BY <1>20 DEF Crash, LeaveRollback
<1>21. ASSUME NEW p \in Proc, NEW s \in Signals, Signal(p, s) PROVE (Begun /\ Frames)'
  BY <1>21 DEF Signal, EnterRollback, SearchOwn, Search
<1>22. ASSUME NEW a \in Actor, Undo(a) PROVE (Begun /\ Frames)'
  BY <1>22 DEF Undo
<1>23. ASSUME NEW a \in Actor, Rename(a) PROVE (Begun /\ Frames)'
  BY <1>23 DEF Rename
<1>24. ASSUME NEW c \in Context, Server(c) PROVE (Begun /\ Frames)'
  BY <1>24 DEF Server, Apply, Lose
<1>25. ASSUME NEW f \in OperatorFilters, OperatorBegins(f[1], f[2]) PROVE (Begun /\ Frames)'
  BY <1>25 DEF OperatorBegins, EnterRollback, Search
<1>26. CASE OperatorDone
  BY <1>26 DEF OperatorDone, LeaveRollback
<1>27. CASE UNCHANGED vars
  BY <1>27 DEF vars
<1> QED BY <1>1, <1>2, <1>3, <1>4, <1>44, <1>5, <1>6, <1>7, <1>8, <1>9, <1>10, <1>11, <1>12, <1>13, <1>14, <1>15, <1>16, <1>17, <1>18, <1>19, <1>20, <1>21, <1>22, <1>23, <1>24, <1>25, <1>26, <1>27 DEF Next, Step, NextScenario, LoopStep

LEMMA ContextParts ==
  /\ \A c \in Context : c[1] \in Proc /\ c[2] \in 1..MaxRuns /\ c = <<c[1], c[2]>>
  /\ \A p \in Proc : Ctx(p)[1] = p /\ Ctx(p)[2] = cnt[p]
  BY DEF Context, Ctx

(* The theorems. *)

LEMMA ShapeNext == ASSUME Shape, [Next]_vars PROVE Shape'
  BY TypeNext, FramesNext DEF Shape

LEMMA ShapeInvariant == Spec => []Shape
<1>1. Init => Shape
  BY TypeInit
<1>2. Shape /\ [Next]_vars => Shape'
  BY ShapeNext
<1> QED BY <1>1, <1>2, PTL DEF Spec

(* The variables of every process, operator and file keep their types,     *)
(* whatever signals, faults and crashes occur.                             *)
THEOREM TypeCorrect == Spec => []TypeOK
<1>1. Shape => TypeOK
  BY DEF Shape
<1> QED BY <1>1, ShapeInvariant, PTL

(* The signal handler's rollback never runs on top of the rollback or the  *)
(* cleanup of run_scenarios, for any number of processes, scenarios and    *)
(* signals: signal_context clears the context before either begins.        *)
THEOREM RollbackIsExclusive == Spec => []OneRollbackAtATime
<1>1. Shape => OneRollbackAtATime
  BY DEF Shape, Frames, OneRollbackAtATime
<1> QED BY <1>1, ShapeInvariant, PTL

LEMMA InHandNext == ASSUME OneInHand, TypeOK, [Next]_vars PROVE OneInHand'
<1> USE ConstantsAssumption DEF OneInHand, TypeOK, main, cluster, loop, handler
<1>1. ASSUME NEW p \in Proc, Start(p) \/ NextScenario(p) \/ TakeLock(p) \/ Install(p) \/ Settle(p) \/ Register(p)
             \/ Reject(p) \/ SendCreate(p) \/ CreateReturns(p) \/ CreateRaises(p) \/ Delete(p)
             \/ LeaveContext(p) \/ Cleanup(p) \/ Remove(p) \/ RemoveRaises(p) \/ CleanupDone(p)
      PROVE  cur' = cur
  BY <1>1 DEF Start, NextScenario, Finish, Begin, TakeLock, Install, Settle, Register, Reject, SendCreate,
     CreateReturns, CreateRaises, Delete, LeaveContext, Cleanup, Remove, RemoveRaises, CleanupDone
<1>2. ASSUME NEW p \in Proc, RollbackFailedRun(p) PROVE cur' = cur
  BY <1>2 DEF RollbackFailedRun, EnterRollback
<1>3. ASSUME NEW p \in Proc, NEW s \in Signals, Signal(p, s) PROVE cur' = cur
  BY <1>3 DEF Signal, EnterRollback
<1>4. ASSUME NEW a \in Actor, LeaveRollback(a) PROVE OneInHand'
  BY <1>4 DEF LeaveRollback
<1>5. ASSUME NEW p \in Proc, RollbackDone(p) \/ HandlerDone(p) \/ Crash(p) PROVE OneInHand'
  BY <1>4, <1>5 DEF RollbackDone, HandlerDone, Crash, Actor
<1>6. ASSUME NEW a \in Actor, Undo(a) PROVE OneInHand'
  <2>1. PICK c \in First(a) : cur' = [cur EXCEPT ![a] = {c}]
    BY <1>6 DEF Undo
  <2> QED BY <2>1
<1>7. ASSUME NEW a \in Actor, Rename(a) PROVE OneInHand'
  BY <1>7 DEF Rename
<1>8. ASSUME NEW c \in Context, Server(c) PROVE cur' = cur
  BY <1>8 DEF Server, Apply, Lose
<1>9. ASSUME NEW f \in OperatorFilters, OperatorBegins(f[1], f[2]) PROVE cur' = cur
  BY <1>9 DEF OperatorBegins, EnterRollback
<1>10. CASE OperatorDone
  BY <1>4, <1>10 DEF OperatorDone, Actor
<1>11. CASE UNCHANGED vars
  BY <1>11 DEF vars
<1> QED BY <1>1, <1>2, <1>3, <1>5, <1>6, <1>7, <1>8, <1>9, <1>10, <1>11
       DEF Next, Step, LoopStep

-----------------------------------------------------------------------------
(* What a process takes away.  No hypothesis on the constants.              *)

(* A version file exists only of a scenario that has begun.  The files a    *)
(* process has in hand are of its uuid and of the type of its scenario, and *)
(* it has files in hand only inside a cleanup or a rollback.                *)
OwnFiles ==
  /\ \A c \in Context : c[2] > cnt[c[1]] => file[c] = "absent"
  /\ \A p \in Proc : \A c \in todo[p] \cup cur[p] :
        /\ c[2] <= cnt[c[1]]
        /\ UuidOf[p] = UuidOf[c[1]] /\ ctype[Ctx(p)] = ctype[c]
  /\ \A p \in Proc : /\ todo[p] # {} => pc[p] = "removing" \/ lp[p] # "idle"
                     /\ cur[p] # {} => lp[p] # "idle"

(* With automatic rollback, a pending file whose change is not gone belongs *)
(* to a process that ended, or to the current scenario of one that has not  *)
(* settled it yet.                                                          *)
Kept(c) == AutoRollback[c[1]] /\ file[c] = "pending" /\ c \in Changes

Unsettled(p) ==
  \/ pc[p] \in Body \cup {"enter", "install", "rollback"}
  \/ pc[p] = "leave" /\ rv[p] = 1

Settling ==
  /\ \A c \in Context : Kept(c) =>
       \/ pc[c[1]] \in {"done", "dead"}
       \/ c = Ctx(c[1]) /\ Unsettled(c[1])
  /\ \A p \in Proc : pc[p] = "hold" => Ctx(p) \notin inflight
  /\ \A p \in Proc : /\ AutoRollback[p]
                     /\ pc[p] = "rollback" /\ lp[p] # "idle" /\ file[Ctx(p)] = "pending"
                     => Ctx(p) \in todo[p]

LEMMA OwnInit == Init => OwnFiles
  BY DEF Init, OwnFiles, Actor

(* A search finds files of the searching process and its current type.      *)
LEMMA SearchFinds ==
  ASSUME Shape, OwnFiles, NEW p \in Proc, NEW c \in SearchOwn(p)
  PROVE  /\ c \in Context /\ c[2] <= cnt[c[1]]
         /\ UuidOf[p] = UuidOf[c[1]] /\ ctype[Ctx(p)] = ctype[c]
<1>1. c \in Context /\ file[c] = "pending" /\ UuidOf[c[1]] = UuidOf[p] /\ ctype[c] = ctype[Ctx(p)]
  BY DEF SearchOwn, Search
<1>2. c[1] \in Proc /\ c[2] \in Nat /\ cnt[c[1]] \in Nat
  BY <1>1 DEF Context, Shape, TypeOK
<1>3. ~(c[2] > cnt[c[1]])
  BY <1>1 DEF OwnFiles
<1> QED BY <1>1, <1>2, <1>3

(* The steps that move a process and leave files and loops alone.           *)
LEMMA OwnQuiet ==
  ASSUME OwnFiles, UNCHANGED <<cnt, ctype, file, lp, todo, cur>>,
         \A q \in Proc : pc[q] = "removing" => pc'[q] = "removing" \/ todo[q] = {}
  PROVE  OwnFiles'
  BY DEF OwnFiles, Ctx

(* The steps that fill the hands of one process from its own search, or     *)
(* empty them.                                                              *)
LEMMA OwnHands ==
  ASSUME Shape, OwnFiles, NEW p \in Proc, UNCHANGED <<cnt, ctype, file>>,
         \A q \in Proc \ {p} : /\ lp'[q] = lp[q] /\ todo'[q] = todo[q] /\ cur'[q] = cur[q]
                               /\ pc'[q] = pc[q],
         cur'[p] = {},
         \/ todo'[p] = {}
         \/ todo'[p] \subseteq SearchOwn(p) /\ (pc'[p] = "removing" \/ lp'[p] # "idle")
  PROVE  OwnFiles'
<1>1. \A c \in todo'[p] \cup cur'[p] :
        c[2] <= cnt[c[1]] /\ UuidOf[p] = UuidOf[c[1]] /\ ctype[Ctx(p)] = ctype[c]
  BY SearchFinds
<1>2. \A q \in Proc : Ctx(q)' = Ctx(q)
  BY DEF Ctx
<1>3. ASSUME NEW q \in Proc, NEW c \in todo'[q] \cup cur'[q]
      PROVE  c[2] <= cnt[c[1]] /\ UuidOf[q] = UuidOf[c[1]] /\ ctype[Ctx(q)] = ctype[c]
  <2>1. CASE q = p
    BY <1>1, <1>3, <2>1
  <2>2. CASE q # p
    BY <1>3, <2>2 DEF OwnFiles
  <2> QED BY <2>1, <2>2
<1>4. ASSUME NEW q \in Proc
      PROVE  /\ todo'[q] # {} => pc'[q] = "removing" \/ lp'[q] # "idle"
             /\ cur'[q] # {} => lp'[q] # "idle"
  BY DEF OwnFiles
<1>5. \A c \in Context : c[2] > cnt'[c[1]] => file'[c] = "absent"
  BY DEF OwnFiles
<1> QED BY <1>2, <1>3, <1>4, <1>5 DEF OwnFiles

LEMMA OwnNext == ASSUME Shape, OwnFiles, [Next]_vars PROVE OwnFiles'
<1> USE ConstantsAssumption DEF main, cluster, loop, handler, logged, At, GoTo
<1>0. TypeOK /\ Frames /\ Begun
  BY DEF Shape
<1> DEFINE Rest == \A q \in Proc : pc[q] = "removing" => pc'[q] = "removing" \/ todo[q] = {}
<1>1. ASSUME NEW p \in Proc, Start(p) \/ Finish(p) \/ Install(p) \/ TakeLock(p) \/ Settle(p)
      PROVE  OwnFiles'
  <2>1. Rest
    BY <1>0, <1>1 DEF Start, Finish, Install, TakeLock, Settle, TypeOK
  <2>2. UNCHANGED <<cnt, ctype, file, lp, todo, cur>>
    BY <1>1 DEF Start, Finish, Install, TakeLock, Settle
  <2> QED BY <2>1, <2>2, OwnQuiet
<1>2. ASSUME NEW p \in Proc, Reject(p) \/ SendCreate(p) \/ CreateReturns(p) \/ CreateRaises(p)
             \/ Delete(p) \/ LeaveContext(p) \/ CleanupDone(p)
      PROVE  OwnFiles'
  <2>1. Rest
    BY <1>0, <1>2 DEF Reject, SendCreate, CreateReturns, CreateRaises, Delete, LeaveContext,
       CleanupDone, Return, TypeOK
  <2>2. UNCHANGED <<cnt, ctype, file, lp, todo, cur>>
    BY <1>2 DEF Reject, SendCreate, CreateReturns, CreateRaises, Delete, LeaveContext,
       CleanupDone, Return
  <2> QED BY <2>1, <2>2, OwnQuiet
<1>3. ASSUME NEW c \in Context, Server(c) PROVE OwnFiles'
  BY <1>3, OwnQuiet DEF Server, Apply, Lose
<1>4. ASSUME NEW p \in Proc, NEW t \in Type, Begin(p, t) PROVE OwnFiles'
  <2>1. /\ pc[p] = "idle" /\ hs[p] = "none" /\ lp' = lp /\ todo' = todo /\ cur' = cur
        /\ file' = file /\ cnt' = [cnt EXCEPT ![p] = @ + 1]
        /\ ctype' = [ctype EXCEPT ![<<p, cnt[p] + 1>>] = t]
        /\ pc' = [pc EXCEPT ![p] = "enter"]
    BY <1>4 DEF Begin
  <2>2. todo[p] = {} /\ cur[p] = {}
    BY <1>0, <2>1 DEF Frames, OwnFiles
  <2>3. ASSUME NEW q \in Proc, NEW c \in todo[q] \cup cur[q]
        PROVE  c[2] <= cnt'[c[1]] /\ UuidOf[q] = UuidOf[c[1]] /\ ctype'[Ctx(q)'] = ctype'[c]
    <3>1. c \in Context /\ c[2] <= cnt[c[1]] /\ UuidOf[q] = UuidOf[c[1]] /\ ctype[Ctx(q)] = ctype[c]
      BY <1>0, <2>3 DEF OwnFiles, TypeOK, Actor
    <3>2. c[1] \in Proc /\ c[2] \in Nat /\ cnt[p] \in Nat /\ cnt[c[1]] \in Nat /\ c = <<c[1], c[2]>>
      BY <1>0, <3>1 DEF Context, TypeOK
    <3>3. c # <<p, cnt[p] + 1>>
      BY <3>1, <3>2
    <3>4. q # p
      BY <2>2, <2>3
    <3>5. Ctx(q)' = Ctx(q) /\ Ctx(q) # <<p, cnt[p] + 1>>
      BY <1>0, <2>1, <3>4 DEF Ctx, TypeOK
    <3>6. ctype'[c] = ctype[c] /\ ctype'[Ctx(q)] = ctype[Ctx(q)]
      <4>1. ctype' = [d \in Context |-> IF d = <<p, cnt[p] + 1>> THEN t ELSE ctype[d]]
        BY <1>0, <2>1 DEF TypeOK
      <4>2. Ctx(q) \in Context
        <5>1. pc[q] \notin Gone \cup {"idle"}
          BY <1>0, <2>3 DEF OwnFiles, Frames, Gone, Body
        <5> QED BY <1>0, <5>1 DEF Begun, Ctx, Context, TypeOK
      <4> QED BY <3>1, <3>3, <3>5, <4>1, <4>2
    <3>7. c[2] <= cnt'[c[1]]
      BY <1>0, <2>1, <3>1, <3>2 DEF TypeOK
    <3> QED BY <3>1, <3>5, <3>6, <3>7
  <2>4. ASSUME NEW c \in Context, c[2] > cnt'[c[1]] PROVE file'[c] = "absent"
    <3>1. c[1] \in Proc /\ c[2] \in Nat /\ cnt[c[1]] \in Nat
      BY <1>0 DEF Context, TypeOK
    <3>2. c[2] > cnt[c[1]]
      BY <1>0, <2>1, <2>4, <3>1 DEF TypeOK
    <3> QED BY <2>1, <3>2 DEF OwnFiles
  <2>5. ASSUME NEW q \in Proc
        PROVE  /\ todo'[q] # {} => pc'[q] = "removing" \/ lp'[q] # "idle"
               /\ cur'[q] # {} => lp'[q] # "idle"
    BY <1>0, <2>1, <2>2 DEF OwnFiles, TypeOK
  <2> QED BY <2>1, <2>3, <2>4, <2>5 DEF OwnFiles
<1>5. ASSUME NEW p \in Proc, Register(p) PROVE OwnFiles'
  <2>1. cnt[p] > 0 /\ pc[p] = "register"
    BY <1>0, <1>5 DEF Begun, Register, Gone
  <2>2. \A c \in Context : c[2] > cnt[c[1]] => c # Ctx(p)
    BY <1>0, <2>1, ContextParts DEF Context, TypeOK
  <2>3. \A c \in Context : c # Ctx(p) => file'[c] = file[c]
    BY <1>0, <1>5 DEF Register, TypeOK
  <2>4. \A c \in Context : c[2] > cnt[c[1]] => file'[c] = "absent"
    BY <2>2, <2>3 DEF OwnFiles
  <2>5. UNCHANGED <<cnt, ctype, lp, todo, cur>> /\ Rest
    BY <1>0, <1>5 DEF Register, TypeOK
  <2> QED BY <2>4, <2>5 DEF OwnFiles, Ctx
<1>6. ASSUME NEW p \in Proc, Cleanup(p) PROVE OwnFiles'
  <2>1. lp[p] = "idle" /\ cur[p] = {}
    BY <1>0, <1>6 DEF Cleanup, Frames, OwnFiles
  <2> QED BY <1>0, <1>6, <2>1, OwnHands DEF Cleanup, TypeOK, Actor
<1>7. ASSUME NEW p \in Proc, RollbackFailedRun(p) PROVE OwnFiles'
  <2>1. cur[p] = {}
    BY <1>0, <1>7 DEF RollbackFailedRun, OwnFiles
  <2> QED BY <1>0, <1>7, <2>1, OwnHands DEF RollbackFailedRun, EnterRollback, TypeOK, Actor
<1>8. ASSUME NEW p \in Proc, NEW s \in Signals, Signal(p, s) PROVE OwnFiles'
  <2>1. lp[p] = "idle"
    BY <1>0, <1>8 DEF Signal, Frames, Body
  <2>2. cur[p] = {}
    BY <2>1 DEF OwnFiles
  <2> QED BY <1>0, <1>8, <2>2, OwnHands DEF Signal, EnterRollback, TypeOK, Actor
<1>9. ASSUME NEW p \in Proc, RollbackDone(p) \/ HandlerDone(p) \/ Crash(p) PROVE OwnFiles'
  <2>1. /\ todo' = [todo EXCEPT ![p] = {}] /\ cur' = [cur EXCEPT ![p] = {}]
        /\ lp' = [lp EXCEPT ![p] = "idle"] /\ UNCHANGED <<cnt, ctype, file>>
    BY <1>9 DEF RollbackDone, HandlerDone, Crash, LeaveRollback
  <2>2. \A q \in Proc \ {p} : pc'[q] = pc[q]
    BY <1>0, <1>9 DEF RollbackDone, HandlerDone, Crash, TypeOK
  <2> QED BY <1>0, <2>1, <2>2, OwnHands DEF TypeOK, Actor
<1>10. ASSUME NEW p \in Proc, RemoveRaises(p) PROVE OwnFiles'
  <2>1. lp[p] = "idle" /\ cur[p] = {}
    BY <1>0, <1>10 DEF RemoveRaises, Frames, OwnFiles
  <2> QED BY <1>0, <1>10, <2>1, OwnHands DEF RemoveRaises, TypeOK, Actor
<1>11. ASSUME NEW p \in Proc, Remove(p) PROVE OwnFiles'
  <2>1. PICK c \in First(p) : /\ file' = [file EXCEPT ![c] = "absent"]
                              /\ todo' = [todo EXCEPT ![p] = @ \ {c}]
    BY <1>11 DEF Remove
  <2>2. UNCHANGED <<cnt, ctype, lp, cur, pc>>
    BY <1>11 DEF Remove
  <2>3. \A d \in Context : file'[d] = file[d] \/ file'[d] = "absent"
    BY <1>0, <2>1 DEF TypeOK
  <2>4. \A q \in Proc : todo'[q] \subseteq todo[q]
    BY <1>0, <2>1 DEF TypeOK, Actor
  <2> QED BY <2>2, <2>3, <2>4 DEF OwnFiles, Ctx
<1>12. ASSUME NEW a \in Actor, Undo(a) PROVE OwnFiles'
  <2>1. PICK c \in todo[a] : cur' = [cur EXCEPT ![a] = {c}]
    BY <1>12, FirstIsTodo DEF Undo
  <2>2. UNCHANGED <<cnt, ctype, file, todo, pc>> /\ lp' = [lp EXCEPT ![a] = "rename"]
    BY <1>12 DEF Undo
  <2>3. \A q \in Proc : cur'[q] \subseteq cur[q] \cup todo[q]
    BY <1>0, <2>1 DEF TypeOK, Actor
  <2>4. \A q \in Proc : (q = a => lp'[q] = "rename") /\ (q # a => lp'[q] = lp[q] /\ cur'[q] = cur[q])
    BY <1>0, <2>1, <2>2 DEF TypeOK, Actor
  <2> QED BY <2>2, <2>3, <2>4 DEF OwnFiles, Ctx
<1>13. ASSUME NEW a \in Actor, Rename(a) PROVE OwnFiles'
  <2>1. \A c \in Context : c[2] > cnt[c[1]] => c \notin cur[a] \/ file[c] = "pending"
    BY <1>13 DEF Rename
  <2>2. UNCHANGED <<cnt, ctype, pc>>
    BY <1>13 DEF Rename
  <2>3. \A c \in Context : c[2] > cnt[c[1]] => file'[c] = "absent"
    BY <1>13, <2>1 DEF Rename, OwnFiles
  <2>4. \A q \in Proc : /\ todo'[q] \subseteq todo[q] /\ cur'[q] \subseteq cur[q]
                        /\ q = a => lp'[q] = "pick"
                        /\ q # a => lp'[q] = lp[q]
    BY <1>0, <1>13 DEF Rename, TypeOK, Actor
  <2> QED BY <2>2, <2>3, <2>4 DEF OwnFiles, Ctx
<1>14. ASSUME NEW f \in OperatorFilters, OperatorBegins(f[1], f[2]) PROVE OwnFiles'
  <2>1. UNCHANGED <<cnt, ctype, file, pc>>
    BY <1>14 DEF OperatorBegins
  <2>2. \A q \in Proc : todo'[q] = todo[q] /\ cur'[q] = cur[q] /\ lp'[q] = lp[q]
    BY <1>0, <1>14 DEF OperatorBegins, EnterRollback, TypeOK, Actor
  <2> QED BY <2>1, <2>2 DEF OwnFiles, Ctx
<1>15. CASE OperatorDone
  <2>1. UNCHANGED <<cnt, ctype, file, pc>>
    BY <1>15 DEF OperatorDone
  <2>2. \A q \in Proc : todo'[q] = todo[q] /\ cur'[q] = cur[q] /\ lp'[q] = lp[q]
    BY <1>0, <1>15 DEF OperatorDone, LeaveRollback, TypeOK, Actor
  <2> QED BY <2>1, <2>2 DEF OwnFiles, Ctx
<1>16. CASE UNCHANGED vars
  BY <1>16, OwnQuiet DEF vars
<1> QED BY <1>1, <1>2, <1>3, <1>4, <1>5, <1>6, <1>7, <1>8, <1>9, <1>10, <1>11, <1>12, <1>13, <1>14, <1>15, <1>16 DEF Next, Step, NextScenario, LoopStep

-----------------------------------------------------------------------------
(* Cleanup: Settling is inductive under CoverageAssumption.                 *)

LEMMA SettlingInit == Init => Settling
  BY ConstantsAssumption DEF Init, Settling, Kept

(* What a process has in hand is its own, when no two share a run uuid.     *)
LEMMA HandsAreOwn ==
  ASSUME CoverageAssumption, Shape, OwnFiles, NEW p \in Proc, NEW c \in todo[p]
  PROVE  c \in Context /\ c[1] = p
<1>1. c \in Context
  BY DEF Shape, TypeOK, Actor
<1>2. c[1] \in Proc
  BY <1>1 DEF Context
<1>3. UuidOf[p] = UuidOf[c[1]]
  BY DEF OwnFiles
<1> QED BY <1>1, <1>2, <1>3 DEF CoverageAssumption

(* The search of a process that is in a scenario finds the file of it.      *)
LEMMA SearchFindsCurrent ==
  ASSUME Shape, NEW p \in Proc, pc[p] \notin Gone \cup {"idle"}, file[Ctx(p)] = "pending"
  PROVE  Ctx(p) \in SearchOwn(p)
<1>1. cnt[p] > 0 /\ cnt[p] \in 0..MaxRuns
  BY DEF Shape, Begun, TypeOK
<1>2. Ctx(p) \in Context
  BY <1>1 DEF Ctx, Context
<1>3. UuidOf[Ctx(p)[1]] = UuidOf[p]
  BY DEF Ctx
<1> QED BY <1>2, <1>3 DEF SearchOwn, Search

(* A step that neither makes a file pending nor adds a request or a change, *)
(* and leaves every process where it is, or moves one that has nothing to   *)
(* settle, or keeps it unsettled.                                           *)
LEMMA SettlingQuiet ==
  ASSUME Shape, Settling, UNCHANGED cnt,
         \A c \in Context : Kept(c)' => Kept(c),
         \A p \in Proc : pc'[p] = "hold" => pc[p] = "hold",
         inflight' \subseteq inflight,
         \A p \in Proc : AutoRollback[p] /\ pc'[p] = "rollback" /\ lp'[p] # "idle"
                         /\ file'[Ctx(p)] = "pending"
                            => Ctx(p) \in todo'[p],
         \A p \in Proc : \/ pc'[p] = pc[p] /\ rv'[p] = rv[p]
                         \/ pc'[p] \in {"done", "dead"}
                         \/ /\ pc[p] \notin {"done", "dead"}
                            /\ Unsettled(p)' \/ \A c \in Context : Kept(c)' => c # Ctx(p)
  PROVE  Settling'
<1>1. ASSUME NEW c \in Context, Kept(c)'
      PROVE  pc'[c[1]] \in {"done", "dead"} \/ (c = Ctx(c[1])' /\ Unsettled(c[1])')
  <2>1. Kept(c) /\ c[1] \in Proc
    BY <1>1 DEF Context
  <2>2. pc[c[1]] \in {"done", "dead"} \/ (c = Ctx(c[1]) /\ Unsettled(c[1]))
    BY <2>1 DEF Settling
  <2>3. Ctx(c[1])' = Ctx(c[1])
    BY DEF Ctx
  <2>4. CASE pc'[c[1]] = pc[c[1]] /\ rv'[c[1]] = rv[c[1]]
    BY <2>2, <2>3, <2>4 DEF Unsettled
  <2> QED BY <2>1, <2>2, <2>3, <2>4, <1>1
<1>2. ASSUME NEW p \in Proc, pc'[p] = "hold" PROVE Ctx(p)' \notin inflight'
  BY <1>2 DEF Settling, Ctx
<1>3. ASSUME NEW p \in Proc, AutoRollback[p] /\ pc'[p] = "rollback" /\ lp'[p] # "idle"
                              /\ file'[Ctx(p)'] = "pending"
      PROVE  Ctx(p)' \in todo'[p]
  BY <1>3 DEF Ctx
<1> QED BY <1>1, <1>2, <1>3 DEF Settling

LEMMA SettlingNext ==
  ASSUME CoverageAssumption, Shape, OwnFiles, Settling, [Next]_vars
  PROVE  Settling'
<1> USE ConstantsAssumption DEF main, cluster, loop, handler, logged, At, GoTo, Changes
<1>0. TypeOK /\ Frames /\ Begun
  BY DEF Shape
<1> DEFINE Fewer == \A c \in Context : Kept(c)' => Kept(c)
           Waits == \A q \in Proc : pc'[q] = "hold" => pc[q] = "hold"
           Rolls == \A q \in Proc :
                      AutoRollback[q] /\ pc'[q] = "rollback" /\ lp'[q] # "idle"
                      /\ file'[Ctx(q)] = "pending"
                        => Ctx(q) \in todo'[q]
           Moves(q) == \/ pc'[q] = pc[q] /\ rv'[q] = rv[q]
                       \/ pc'[q] \in {"done", "dead"}
                       \/ /\ pc[q] \notin {"done", "dead"}
                          /\ Unsettled(q)' \/ \A c \in Context : Kept(c)' => c # Ctx(q)
<1>1. ASSUME NEW p \in Proc,
             UNCHANGED <<cnt, file, live, inflight, lp, todo>>,
             \A q \in Proc \ {p} : pc'[q] = pc[q] /\ rv'[q] = rv[q],
             pc'[p] # "hold",
             pc'[p] = "rollback" => lp[p] = "idle",
             Moves(p)
      PROVE  Settling'
  <2>1. Fewer /\ Waits /\ inflight' \subseteq inflight
    BY <1>1 DEF Kept
  <2>2. Rolls
    BY <1>1 DEF Settling
  <2>3. \A q \in Proc : Moves(q)
    BY <1>1
  <2> HIDE DEF Fewer, Waits, Rolls, Moves
  <2> QED BY <1>1, <2>1, <2>2, <2>3, SettlingQuiet DEF Fewer, Waits, Rolls, Moves
<1>2. ASSUME NEW p \in Proc, Start(p) PROVE Settling'
  <2>1. \A c \in Context : Kept(c)' => c # Ctx(p)
    <3>1. cnt[p] = 0
      BY <1>0, <1>2 DEF Start, Frames
    <3> QED BY <3>1 DEF Ctx, Context
  <2> QED BY <1>0, <1>1, <1>2, <2>1 DEF Start, TypeOK
<1>3. ASSUME NEW p \in Proc, Finish(p) \/ Settle(p) PROVE Settling'
  <2>1. \A c \in Context : Kept(c) => c # Ctx(p)
    <3>1. pc[p] \in {"idle", "settle"}
      BY <1>3 DEF Finish, Settle
    <3>2. Ctx(p)[1] = p
      BY DEF Ctx
    <3> QED BY <3>1, <3>2 DEF Settling, Unsettled, Body
  <2>2. \A c \in Context : Kept(c)' => c # Ctx(p)
    BY <1>3, <2>1 DEF Finish, Settle, Kept
  <2> QED BY <1>0, <1>1, <1>3, <2>2 DEF Finish, Settle, TypeOK
<1>4. ASSUME NEW p \in Proc, TakeLock(p) \/ Install(p) \/ Reject(p) PROVE Settling'
  <2>1. Unsettled(p)' /\ pc[p] \notin {"done", "dead"}
    BY <1>0, <1>4 DEF TakeLock, Install, Reject, Return, Unsettled, Body, TypeOK
  <2> QED BY <1>0, <1>1, <1>4, <2>1 DEF TakeLock, Install, Reject, Return, TypeOK
<1>5. ASSUME NEW p \in Proc, LeaveContext(p) PROVE Settling'
  <2>1. pc[p] = "leave" /\ hs[p] = "none" /\ lp[p] = "idle"
    BY <1>0, <1>5 DEF LeaveContext, Frames
  <2>2. UNCHANGED <<cnt, file, live, inflight, lp, todo, rv>>
    BY <1>5 DEF LeaveContext
  <2>3. pc' = [pc EXCEPT ![p] = IF rv[p] = 0 THEN "cleanup" ELSE "rollback"]
    BY <1>5 DEF LeaveContext
  <2>4. CASE rv[p] = 0
    <3>1. \A c \in Context : Kept(c) => c # Ctx(p)
      BY <2>1, <2>4, ContextParts DEF Settling, Unsettled, Body
    <3>2. \A c \in Context : Kept(c)' => c # Ctx(p)
      BY <2>2, <3>1 DEF Kept
    <3> QED BY <1>0, <1>1, <2>1, <2>2, <2>3, <2>4, <3>2 DEF TypeOK
  <2>5. CASE rv[p] # 0
    <3>1. Unsettled(p)'
      BY <1>0, <2>3, <2>5 DEF Unsettled, TypeOK
    <3> QED BY <1>0, <1>1, <2>1, <2>2, <2>3, <2>5, <3>1 DEF TypeOK
  <2> QED BY <2>4, <2>5
<1>6. ASSUME NEW p \in Proc, NEW t \in Type, Begin(p, t) PROVE Settling'
  <2>1. /\ pc[p] = "idle" /\ cnt' = [cnt EXCEPT ![p] = @ + 1] /\ pc' = [pc EXCEPT ![p] = "enter"]
        /\ UNCHANGED <<file, live, inflight, lp, todo, rv>>
    BY <1>6 DEF Begin
  <2>2. \A q \in Proc : q # p => pc'[q] = pc[q] /\ Ctx(q)' = Ctx(q)
    BY <1>0, <2>1 DEF TypeOK, Ctx
  <2>3. pc'[p] = "enter"
    BY <1>0, <2>1 DEF TypeOK
  <2>4. ASSUME NEW c \in Context, Kept(c)'
        PROVE  pc'[c[1]] \in {"done", "dead"} \/ (c = Ctx(c[1])' /\ Unsettled(c[1])')
    <3>1. Kept(c) /\ c[1] \in Proc
      BY <2>1, <2>4 DEF Kept, Context
    <3>2. c[1] # p
      BY <2>1, <3>1 DEF Settling, Unsettled, Body
    <3>3. (Unsettled(c[1])' <=> Unsettled(c[1])) /\ pc'[c[1]] = pc[c[1]]
      BY <2>1, <2>2, <3>1, <3>2 DEF Unsettled
    <3> QED BY <2>2, <3>1, <3>2, <3>3 DEF Settling
  <2>5. ASSUME NEW q \in Proc
        PROVE  /\ pc'[q] = "hold" => Ctx(q)' \notin inflight'
               /\ AutoRollback[q] /\ pc'[q] = "rollback" /\ lp'[q] # "idle"
                  /\ file'[Ctx(q)'] = "pending" => Ctx(q)' \in todo'[q]
    BY <2>1, <2>2, <2>3 DEF Settling
  <2> QED BY <2>4, <2>5 DEF Settling
<1>7. ASSUME NEW p \in Proc, Register(p) \/ SendCreate(p) PROVE Settling'
  <2>1. pc[p] \in {"register", "create"} /\ UNCHANGED <<cnt, live, lp, todo, rv>>
    BY <1>7 DEF Register, SendCreate
  <2>2. pc'[p] \in {"create", "creating"} /\ \A q \in Proc : q # p => pc'[q] = pc[q]
    BY <1>0, <1>7 DEF Register, SendCreate, TypeOK
  <2>3. /\ \A c \in Context : c # Ctx(p) => file'[c] = file[c]
        /\ inflight' \subseteq inflight \cup {Ctx(p)}
    BY <1>0, <1>7 DEF Register, SendCreate, TypeOK
  <2>4. \A q \in Proc : Ctx(q)' = Ctx(q) /\ Ctx(q)[1] = q
    BY <2>1 DEF Ctx
  <2>5. ASSUME NEW c \in Context, Kept(c)'
        PROVE  pc'[c[1]] \in {"done", "dead"} \/ (c = Ctx(c[1])' /\ Unsettled(c[1])')
    <3>1. CASE c = Ctx(p)
      BY <2>2, <2>4, <3>1 DEF Unsettled, Body
    <3>2. CASE c # Ctx(p)
      <4>1. Kept(c) /\ c[1] \in Proc
        BY <2>1, <2>3, <2>5, <3>2 DEF Kept, Context
      <4>2. c[1] # p
        BY <2>1, <3>2, <4>1 DEF Settling
      <4> QED BY <2>1, <2>2, <2>4, <4>1, <4>2 DEF Settling, Unsettled
    <3> QED BY <3>1, <3>2
  <2>6. ASSUME NEW q \in Proc
        PROVE  /\ pc'[q] = "hold" => Ctx(q)' \notin inflight'
               /\ AutoRollback[q] /\ pc'[q] = "rollback" /\ lp'[q] # "idle"
                  /\ file'[Ctx(q)'] = "pending" => Ctx(q)' \in todo'[q]
    <3>1. CASE q = p
      BY <2>2, <3>1
    <3>2. CASE q # p
      <4>1. Ctx(q) # Ctx(p) /\ pc'[q] = pc[q]
        BY <2>2, <2>4, <3>2
      <4>2. pc[q] = "rollback" => Ctx(q) \in Context
        BY <1>0 DEF Begun, Gone, TypeOK, Ctx, Context
      <4>3. pc[q] = "hold" => Ctx(q) \notin inflight'
        BY <2>3, <4>1 DEF Settling
      <4>4. AutoRollback[q] /\ pc[q] = "rollback" /\ lp[q] # "idle" /\ file'[Ctx(q)] = "pending"
              => Ctx(q) \in todo[q]
        BY <2>3, <4>1, <4>2 DEF Settling
      <4> QED BY <2>1, <2>4, <4>1, <4>3, <4>4
    <3> QED BY <3>1, <3>2
  <2> QED BY <2>5, <2>6 DEF Settling
<1>8. ASSUME NEW p \in Proc, CreateReturns(p) PROVE Settling'
  <2>1. /\ pc[p] = "creating" /\ Ctx(p) \notin inflight /\ pc' = [pc EXCEPT ![p] = "hold"]
        /\ UNCHANGED <<cnt, file, live, inflight, lp, todo, rv>>
    BY <1>8 DEF CreateReturns
  <2>2. pc'[p] = "hold" /\ \A q \in Proc : q # p => pc'[q] = pc[q]
    BY <1>0, <2>1 DEF TypeOK
  <2>3. \A q \in Proc : Ctx(q)' = Ctx(q)
    BY <2>1 DEF Ctx
  <2>4. ASSUME NEW c \in Context, Kept(c)'
        PROVE  pc'[c[1]] \in {"done", "dead"} \/ (c = Ctx(c[1])' /\ Unsettled(c[1])')
    <3>1. Kept(c) /\ c[1] \in Proc
      BY <2>1, <2>4 DEF Kept, Context
    <3>2. CASE c[1] = p
      BY <2>1, <2>2, <2>3, <3>1, <3>2 DEF Settling, Unsettled, Body
    <3>3. CASE c[1] # p
      BY <2>1, <2>2, <2>3, <3>1, <3>3 DEF Settling, Unsettled
    <3> QED BY <3>2, <3>3
  <2>5. ASSUME NEW q \in Proc
        PROVE  /\ pc'[q] = "hold" => Ctx(q)' \notin inflight'
               /\ AutoRollback[q] /\ pc'[q] = "rollback" /\ lp'[q] # "idle"
                  /\ file'[Ctx(q)'] = "pending" => Ctx(q)' \in todo'[q]
    BY <2>1, <2>2, <2>3 DEF Settling
  <2> QED BY <2>4, <2>5 DEF Settling
(* A step of process p that leaves the files alone and adds no change.       *)
<1>9. ASSUME NEW p \in Proc,
             UNCHANGED <<cnt, file>>,
             live' \subseteq live, inflight' \subseteq inflight,
             \A q \in Proc \ {p} : /\ pc'[q] = pc[q] /\ rv'[q] = rv[q]
                                   /\ lp'[q] = lp[q] /\ todo'[q] = todo[q],
             pc'[p] = "hold" => pc[p] = "hold",
             AutoRollback[p] /\ pc'[p] = "rollback" /\ lp'[p] # "idle" /\ file[Ctx(p)] = "pending"
               => Ctx(p) \in todo'[p],
             Moves(p)
      PROVE  Settling'
  <2>1. Fewer /\ Waits /\ inflight' \subseteq inflight
    BY <1>9 DEF Kept
  <2>2. Rolls
    BY <1>9 DEF Settling
  <2>3. \A q \in Proc : Moves(q)
    BY <1>9
  <2> HIDE DEF Fewer, Waits, Rolls, Moves
  <2> QED BY <1>9, <2>1, <2>2, <2>3, SettlingQuiet DEF Fewer, Waits, Rolls, Moves
<1>10. ASSUME NEW p \in Proc, CreateRaises(p) PROVE Settling'
  <2>1. /\ pc[p] = "creating" /\ pc' = [pc EXCEPT ![p] = "leave"] /\ rv' = [rv EXCEPT ![p] = 1]
        /\ inflight' \subseteq inflight /\ UNCHANGED <<cnt, file, live, lp, todo>>
    BY <1>10 DEF CreateRaises, Return
  <2>2. Unsettled(p)'
    BY <1>0, <2>1 DEF Unsettled, TypeOK
  <2> QED BY <1>0, <1>9, <2>1, <2>2 DEF TypeOK
<1>11. ASSUME NEW p \in Proc, Delete(p) PROVE Settling'
  <2>1. /\ pc[p] = "hold" /\ pc' = [pc EXCEPT ![p] = "leave"]
        /\ UNCHANGED <<cnt, file, inflight, lp, todo>>
    BY <1>11 DEF Delete, Return
  <2>2. \/ live' = live \ {Ctx(p)} /\ rv' = [rv EXCEPT ![p] = 0]
        \/ live' = live /\ rv' = [rv EXCEPT ![p] = 1]
    BY <1>11 DEF Delete, Return
  <2>3. Unsettled(p)' \/ \A c \in Context : Kept(c)' => c # Ctx(p)
    <3>1. CASE live' = live \ {Ctx(p)}
      <4>1. Ctx(p) \notin live' \cup inflight'
        BY <2>1, <3>1 DEF Settling
      <4> QED BY <4>1 DEF Kept
    <3>2. CASE rv' = [rv EXCEPT ![p] = 1]
      BY <1>0, <2>1, <3>2 DEF Unsettled, TypeOK
    <3> QED BY <2>2, <3>1, <3>2
  <2> QED BY <1>0, <1>9, <2>1, <2>2, <2>3 DEF TypeOK
<1>12. ASSUME NEW p \in Proc, Cleanup(p) \/ RemoveRaises(p) \/ CleanupDone(p) PROVE Settling'
  <2>1. /\ pc[p] \in {"cleanup", "removing"} /\ UNCHANGED <<cnt, file, live, inflight, lp, rv>>
    BY <1>12 DEF Cleanup, RemoveRaises, CleanupDone
  <2>2. pc'[p] \in {"removing", "dead", "settle"} /\ \A q \in Proc \ {p} : pc'[q] = pc[q]
    BY <1>0, <1>12 DEF Cleanup, RemoveRaises, CleanupDone, TypeOK
  <2>3. \A q \in Proc \ {p} : todo'[q] = todo[q]
    BY <1>0, <1>12 DEF Cleanup, RemoveRaises, CleanupDone, TypeOK, Actor
  <2>4. \A c \in Context : Kept(c) => c # Ctx(p)
    BY <2>1, ContextParts DEF Settling, Unsettled, Body
  <2>5. \A c \in Context : Kept(c)' => c # Ctx(p)
    BY <2>1, <2>4 DEF Kept
  <2> QED BY <1>9, <2>1, <2>2, <2>3, <2>5
<1>13. ASSUME NEW p \in Proc, RollbackFailedRun(p) PROVE Settling'
  <2>1. /\ pc[p] = "rollback" /\ UNCHANGED <<cnt, file, live, inflight, rv, pc>>
        /\ AutoRollback[p] => todo' = [todo EXCEPT ![p] = SearchOwn(p)]
        /\ \E found : todo' = [todo EXCEPT ![p] = found]
        /\ lp' = [lp EXCEPT ![p] = "pick"]
    BY <1>13 DEF RollbackFailedRun, EnterRollback
  <2>2. AutoRollback[p] /\ file[Ctx(p)] = "pending" => Ctx(p) \in todo'[p]
    BY <1>0, <2>1, SearchFindsCurrent DEF TypeOK, Actor, Gone
  <2> QED BY <1>0, <1>9, <2>1, <2>2 DEF TypeOK, Actor
<1>14. ASSUME NEW p \in Proc, NEW s \in Signals, Signal(p, s) PROVE Settling'
  <2>1. /\ sig[p] /\ UNCHANGED <<cnt, file, live, inflight, rv, pc>>
    BY <1>14 DEF Signal
  <2>2. pc[p] # "rollback"
    BY <1>0, <2>1 DEF Frames, Body
  <2>3. \A q \in Proc \ {p} : todo'[q] = todo[q] /\ lp'[q] = lp[q]
    BY <1>0, <1>14 DEF Signal, EnterRollback, TypeOK, Actor
  <2> QED BY <1>9, <2>1, <2>2, <2>3
<1>15. ASSUME NEW p \in Proc, RollbackDone(p) PROVE Settling'
  <2>1. /\ pc[p] = "rollback" /\ UNCHANGED <<cnt, file, live, inflight, rv>>
        /\ todo' = [todo EXCEPT ![p] = {}] /\ lp' = [lp EXCEPT ![p] = "idle"]
    BY <1>15 DEF RollbackDone, LeaveRollback
  <2>2. \A q \in Proc \ {p} : pc'[q] = pc[q] /\ todo'[q] = todo[q] /\ lp'[q] = lp[q]
    BY <1>0, <1>15, <2>1 DEF RollbackDone, TypeOK, Actor
  <2>3. CASE pc'[p] = "dead"
    BY <1>9, <2>1, <2>2, <2>3
  <2>4. CASE lp[p] = "pick" /\ todo[p] = {} /\ pc'[p] = "settle"
    <3>1. AutoRollback[p] => file[Ctx(p)] # "pending"
      BY <2>1, <2>4 DEF Settling
    <3>2. \A c \in Context : Kept(c)' => c # Ctx(p)
      BY <2>1, <3>1 DEF Kept, Ctx
    <3> QED BY <1>9, <2>1, <2>2, <2>4, <3>2
  <2> QED BY <1>0, <1>15, <2>3, <2>4 DEF RollbackDone, LoopEnds, TypeOK
<1>16. ASSUME NEW p \in Proc, HandlerDone(p) PROVE Settling'
  <2>1. /\ hs[p] # "none" /\ UNCHANGED <<cnt, file, live, inflight>>
        /\ todo' = [todo EXCEPT ![p] = {}] /\ lp' = [lp EXCEPT ![p] = "idle"]
    BY <1>16 DEF HandlerDone, LeaveRollback
  <2>2. pc[p] \in Body \cup {"enter", "leave"}
    BY <1>0, <2>1 DEF Frames
  <2>3. \/ pc' = pc /\ rv' = rv
        \/ pc' = [pc EXCEPT ![p] = "dead"] /\ rv' = rv
        \/ pc' = [pc EXCEPT ![p] = "leave"] /\ rv' = [rv EXCEPT ![p] = 1]
    BY <1>16 DEF HandlerDone
  <2>4. \A q \in Proc \ {p} : pc'[q] = pc[q] /\ rv'[q] = rv[q] /\ todo'[q] = todo[q] /\ lp'[q] = lp[q]
    BY <1>0, <2>1, <2>3 DEF TypeOK, Actor
  <2>5. lp'[p] = "idle"
    BY <1>0, <2>1 DEF TypeOK, Actor
  <2>6. Moves(p)
    BY <1>0, <2>2, <2>3 DEF Unsettled, Body, TypeOK
  <2>7. pc'[p] = "hold" => pc[p] = "hold"
    BY <1>0, <2>3 DEF TypeOK
  <2> HIDE DEF Moves
  <2> QED BY <1>9, <2>1, <2>4, <2>5, <2>6, <2>7
<1>17. ASSUME NEW p \in Proc, Crash(p) PROVE Settling'
  <2>1. /\ UNCHANGED <<cnt, file, live, inflight, rv>> /\ pc' = [pc EXCEPT ![p] = "dead"]
        /\ todo' = [todo EXCEPT ![p] = {}] /\ lp' = [lp EXCEPT ![p] = "idle"]
    BY <1>17 DEF Crash, LeaveRollback
  <2> QED BY <1>0, <1>9, <2>1 DEF TypeOK, Actor
<1>18. ASSUME NEW p \in Proc, Remove(p) PROVE Settling'
  <2>1. PICK c \in First(p) : file' = [file EXCEPT ![c] = "absent"]
    BY <1>18 DEF Remove
  <2>2. pc[p] = "removing" /\ UNCHANGED <<cnt, live, inflight, rv, pc, lp>>
    BY <1>18 DEF Remove
  <2>3. \A d \in Context : file'[d] = "pending" => file[d] = "pending"
    BY <1>0, <2>1 DEF TypeOK
  <2>4. Fewer
    BY <2>2, <2>3 DEF Kept
  <2>5. Rolls
    <3>1. \A q \in Proc : q # p => todo'[q] = todo[q]
      BY <1>0, <1>18 DEF Remove, TypeOK, Actor
    <3>2. \A q \in Proc : pc[q] = "rollback" => Ctx(q) \in Context
      BY <1>0 DEF Begun, Gone, TypeOK, Ctx, Context
    <3> QED BY <2>2, <2>3, <3>1, <3>2 DEF Settling
  <2>6. \A q \in Proc : Moves(q)
    BY <2>2
  <2> HIDE DEF Fewer, Rolls, Moves
  <2> QED BY <2>2, <2>4, <2>5, <2>6, SettlingQuiet DEF Fewer, Rolls, Moves
<1>19. ASSUME NEW a \in Actor, Undo(a) PROVE Settling'
  <2>1. live' \subseteq live /\ UNCHANGED <<cnt, file, inflight, rv, pc, todo>>
    BY <1>19 DEF Undo
  <2>2. \A q \in Proc : lp'[q] # "idle" => lp[q] # "idle"
    BY <1>0, <1>19 DEF Undo, TypeOK, Actor
  <2>3. Fewer
    BY <2>1 DEF Kept
  <2>4. Rolls
    BY <2>1, <2>2 DEF Settling
  <2>5. \A q \in Proc : Moves(q)
    BY <2>1
  <2> HIDE DEF Fewer, Rolls, Moves
  <2> QED BY <2>1, <2>3, <2>4, <2>5, SettlingQuiet DEF Fewer, Rolls, Moves
<1>20. ASSUME NEW a \in Actor, Rename(a) PROVE Settling'
  <2>1. /\ lp[a] = "rename" /\ UNCHANGED <<cnt, live, inflight, rv, pc>>
        /\ file' = [c \in Context |-> IF c \in cur[a] THEN "executed" ELSE file[c]]
        /\ todo' = [todo EXCEPT ![a] = @ \ cur[a]] /\ lp' = [lp EXCEPT ![a] = "pick"]
    BY <1>20 DEF Rename
  <2>2. \A c \in Context : file'[c] = "pending" => file[c] = "pending" /\ c \notin cur[a]
    BY <2>1
  <2>3. Fewer
    BY <2>1, <2>2 DEF Kept
  <2>4. ASSUME NEW q \in Proc, AutoRollback[q] /\ pc'[q] = "rollback" /\ lp'[q] # "idle"
                                /\ file'[Ctx(q)] = "pending"
        PROVE  Ctx(q) \in todo'[q]
    <3>1. AutoRollback[q] /\ pc[q] = "rollback" /\ lp[q] # "idle"
      BY <1>0, <2>1, <2>4 DEF TypeOK
    <3>2. Ctx(q) \in Context
      BY <1>0, <3>1 DEF Begun, Gone, TypeOK, Ctx, Context
    <3>3. file[Ctx(q)] = "pending" /\ Ctx(q) \notin cur[a]
      BY <2>2, <2>4, <3>2
    <3>4. Ctx(q) \in todo[q]
      BY <3>1, <3>3 DEF Settling
    <3> QED BY <1>0, <2>1, <3>3, <3>4 DEF TypeOK, Actor
  <2>5. \A q \in Proc : Moves(q)
    BY <2>1
  <2> HIDE DEF Fewer, Moves
  <2> QED BY <2>1, <2>3, <2>4, <2>5, SettlingQuiet DEF Fewer, Moves
<1>21. ASSUME UNCHANGED <<cnt, file, rv, pc>>, inflight' \subseteq inflight,
              live' \cup inflight' \subseteq live \cup inflight,
              \A q \in Proc : lp'[q] = lp[q] /\ todo'[q] = todo[q]
       PROVE  Settling'
  <2>1. Fewer
    BY <1>21 DEF Kept
  <2>2. Rolls
    BY <1>21 DEF Settling
  <2>3. \A q \in Proc : Moves(q)
    BY <1>21
  <2> HIDE DEF Fewer, Rolls, Moves
  <2> QED BY <1>21, <2>1, <2>2, <2>3, SettlingQuiet DEF Fewer, Rolls, Moves
<1>22. ASSUME NEW c \in Context, Server(c) PROVE Settling'
  BY <1>21, <1>22 DEF Server, Apply, Lose
<1>23. ASSUME NEW f \in OperatorFilters, OperatorBegins(f[1], f[2]) PROVE Settling'
  BY <1>0, <1>21, <1>23 DEF OperatorBegins, EnterRollback, TypeOK, Actor
<1>24. CASE OperatorDone
  BY <1>0, <1>21, <1>24 DEF OperatorDone, LeaveRollback, TypeOK, Actor
<1>25. CASE UNCHANGED vars
  BY <1>21, <1>25 DEF vars
<1> QED BY <1>2, <1>3, <1>4, <1>5, <1>6, <1>7, <1>8, <1>10, <1>11, <1>12, <1>13, <1>14, <1>15, <1>16, <1>17, <1>18, <1>19, <1>20, <1>22, <1>23, <1>24, <1>25 DEF Next, Step, NextScenario, LoopStep

LEMMA OwnInvariant == Spec => [](Shape /\ OwnFiles)
<1>1. Init => OwnFiles
  BY OwnInit
<1>2. Shape /\ OwnFiles /\ [Next]_vars => OwnFiles'
  BY OwnNext
<1> QED BY <1>1, <1>2, ShapeInvariant, PTL DEF Spec

(* The two steps that take a version file away: a removal in a cleanup, and *)
(* a rename in a rollback.                                                  *)
LEMMA TakesAway ==
  ASSUME Shape, [Next]_vars, NEW c \in Context, file[c] = "pending", file'[c] # "pending"
  PROVE  \/ \E p \in Proc : pc[p] = "removing" /\ c \in todo[p] /\ file'[c] = "absent"
         \/ \E a \in Actor : lp[a] = "rename" /\ c \in cur[a] /\ file'[c] = "executed"
<1> USE ConstantsAssumption DEF main, cluster, loop, handler, logged, At, GoTo
<1>0. TypeOK
  BY DEF Shape
<1>1. ASSUME NEW p \in Proc, Start(p) \/ NextScenario(p) \/ TakeLock(p) \/ Install(p) \/ Settle(p)
             \/ Reject(p) \/ SendCreate(p) \/ CreateReturns(p) \/ CreateRaises(p) \/ Delete(p)
             \/ LeaveContext(p) \/ Cleanup(p) \/ RemoveRaises(p) \/ CleanupDone(p)
             \/ RollbackFailedRun(p) \/ RollbackDone(p) \/ HandlerDone(p) \/ Crash(p)
      PROVE  file' = file
  BY <1>1 DEF Start, NextScenario, Finish, Begin, TakeLock, Install, Settle, Reject, SendCreate,
     CreateReturns, CreateRaises, Delete, LeaveContext, Cleanup, RemoveRaises, CleanupDone,
     RollbackFailedRun, RollbackDone, HandlerDone, Crash, Return
<1>2. ASSUME NEW p \in Proc, Register(p) PROVE file'[c] = "pending"
  BY <1>0, <1>2 DEF Register, TypeOK
<1>3. ASSUME NEW p \in Proc, Remove(p)
      PROVE  pc[p] = "removing" /\ c \in todo[p] /\ file'[c] = "absent"
  <2>1. PICK d \in todo[p] : file' = [file EXCEPT ![d] = "absent"]
    BY <1>3, FirstIsTodo DEF Remove
  <2>2. d = c
    BY <1>0, <2>1 DEF TypeOK
  <2> QED BY <1>0, <1>3, <2>1, <2>2 DEF Remove, TypeOK
<1>4. ASSUME NEW a \in Actor, Rename(a)
      PROVE  lp[a] = "rename" /\ c \in cur[a] /\ file'[c] = "executed"
  BY <1>4 DEF Rename
<1>5. ASSUME NEW a \in Actor, Undo(a) PROVE file' = file
  BY <1>5 DEF Undo
<1>6. ASSUME NEW d \in Context, Server(d) PROVE file' = file
  BY <1>6 DEF Server, Apply, Lose
<1>7. ASSUME NEW p \in Proc, NEW s \in Signals, Signal(p, s) PROVE file' = file
  BY <1>7 DEF Signal
<1>8. ASSUME NEW f \in OperatorFilters, OperatorBegins(f[1], f[2]) PROVE file' = file
  BY <1>8 DEF OperatorBegins
<1>9. CASE OperatorDone
  BY <1>9 DEF OperatorDone
<1>10. CASE UNCHANGED vars
  BY <1>10 DEF vars
<1> QED BY <1>1, <1>2, <1>3, <1>4, <1>5, <1>6, <1>7, <1>8, <1>9, <1>10 DEF Next, Step, LoopStep

(* Whatever the faults, signals, crashes and run uuids, and whether or not  *)
(* rollback is automatic: only the operator, or a process of the same run   *)
(* uuid in a scenario of the same type, takes a version file away.          *)
THEOREM ForeignFilesAlways == Spec => ForeignFilesUntouched
<1> DEFINE OwnTaken(c) ==
      \/ lp[Operator] = "rename"
      \/ \E p \in Proc : /\ pc[p] = "removing" \/ lp[p] = "rename"
                         /\ UuidOf[p] = UuidOf[c[1]]
                         /\ ctype[Ctx(p)] = ctype[c]
           Rule == \A c \in Context : file[c] = "pending" /\ file'[c] # "pending" => OwnTaken(c)
<1>1. ASSUME Shape, OwnFiles, [Next]_vars PROVE Rule
  <2>1. SUFFICES ASSUME NEW c \in Context, file[c] = "pending", file'[c] # "pending"
                 PROVE  OwnTaken(c)
    OBVIOUS
  <2>2. ASSUME NEW p \in Proc, pc[p] = "removing", c \in todo[p] PROVE OwnTaken(c)
    BY <1>1, <2>2 DEF OwnFiles
  <2>3. ASSUME NEW a \in Actor, lp[a] = "rename", c \in cur[a] PROVE OwnTaken(c)
    BY <1>1, <2>3 DEF OwnFiles, Actor
  <2> HIDE DEF OwnTaken
  <2> QED BY <1>1, <2>1, <2>2, <2>3, TakesAway
<1>2. Shape /\ OwnFiles /\ [Next]_vars => [Rule]_vars
  BY <1>1
<1>3. Spec => [][Next]_vars
  BY DEF Spec
<1> QED BY <1>2, <1>3, OwnInvariant, PTL DEF ForeignFilesUntouched

(* When run uuids are distinct, cleanup removes no version file of a process*)
(* with automatic rollback whose change is, or may still get, into the      *)
(* cluster: after any faults, ignored signals, errors that are only logged, *)
(* missing files and reordered requests.                                    *)
THEOREM CleanupSafeAlways == ASSUME CoverageAssumption PROVE Spec => CleanupSafe
<1> DEFINE Rule == \A c \in Context : AutoRollback[c[1]] /\ file[c] = "pending" /\ file'[c] = "absent" => c \notin Changes
<1>1. Init => Settling
  BY SettlingInit
<1>2. Shape /\ OwnFiles /\ Settling /\ [Next]_vars => Settling'
  BY SettlingNext, CoverageAssumption
<1>3. ASSUME Shape, OwnFiles, Settling, [Next]_vars PROVE Rule
  <2>1. SUFFICES ASSUME NEW c \in Context, AutoRollback[c[1]], file[c] = "pending", file'[c] = "absent"
                 PROVE  c \notin Changes
    OBVIOUS
  <2>2. PICK p \in Proc : pc[p] = "removing" /\ c \in todo[p]
    BY <1>3, <2>1, TakesAway
  <2>3. c[1] = p
    BY <1>3, <2>2, HandsAreOwn, CoverageAssumption
  <2> QED BY <1>3, <2>1, <2>2, <2>3 DEF Settling, Unsettled, Kept, Body
<1>4. Shape /\ OwnFiles /\ Settling /\ [Next]_vars => [Rule]_vars
  BY <1>3
<1>5. Spec => Init /\ [][Next]_vars
  BY DEF Spec
<1> QED BY <1>1, <1>2, <1>4, <1>5, OwnInvariant, PTL DEF CleanupSafe

-----------------------------------------------------------------------------
(* Coverage: CoverageInv is inductive under CoverageAssumption, once what a *)
(* process has in hand is known, and, with automatic rollback, what it has  *)
(* settled.                                                                 *)

Early == {"enter", "install", "register", "create"}

LEMMA CoverageInit == Init => CoverageInv
  BY TypeInit DEF Init, Shape, CoverageInv, OneInHand, AskedOnce, Current, UndoneInHand, Coverage,
     Changes, Ahead

(* A context whose plugin has not asked is never one that has.              *)
LEMMA AheadOfChanges ==
  ASSUME CoverageInv, NEW c \in Context, c \in Changes PROVE ~Ahead(c)
  BY DEF CoverageInv, AskedOnce

(* The steps that leave files and scenarios alone, add no change, and move  *)
(* no process to a place about which the invariant says something new.      *)
LEMMA CoverQuiet ==
  ASSUME CoverageInv, UNCHANGED <<cnt, ctype, file>>,
         unsaved \subseteq unsaved', missed \subseteq missed',
         Changes' \subseteq Changes, inflight' \subseteq inflight, live' \cap inflight' = {},
         \A a \in Actor : cur'[a] \subseteq cur[a],
         \A p \in Proc : /\ pc'[p] \in Early => pc[p] \in Early
                         /\ pc'[p] = "create" => pc[p] = "create"
                         /\ pc'[p] = "hold" => pc[p] = "hold" \/ Ctx(p) \notin inflight
                         /\ pc'[p] = "leave" /\ rv'[p] = 0 => Ctx(p) \notin Changes'
                         /\ pc'[p] \in {"cleanup", "removing"} => Ctx(p) \notin Changes'
  PROVE  (AskedOnce /\ Current /\ UndoneInHand /\ Coverage)'
<1>1. \A p \in Proc : Ctx(p)' = Ctx(p)
  BY DEF Ctx
<1>2. ASSUME NEW c \in Context, Ahead(c)' PROVE Ahead(c)
  <2>1. c[1] \in Proc
    BY DEF Context
  <2> QED BY <1>1, <1>2, <2>1 DEF Ahead, Early
<1>3. \A c : Logged(c) => Logged(c)'
  BY DEF Logged
<1>4. \A c : Superseded(c) => Superseded(c)'
  BY DEF Superseded
<1>5. AskedOnce'
  <2>1. \A c \in Context : Ahead(c) => c \notin Changes
    BY DEF CoverageInv, AskedOnce
  <2> QED BY <1>2, <2>1 DEF AskedOnce
<1>6. Current'
  <2>1. ASSUME NEW p \in Proc, pc'[p] = "create" PROVE file'[Ctx(p)] = "pending" \/ Logged(Ctx(p))'
    <3>1. file[Ctx(p)] = "pending" \/ Logged(Ctx(p))
      BY <2>1 DEF CoverageInv, Current
    <3>2. Logged(Ctx(p)) => Logged(Ctx(p))'
      BY <1>1 DEF Logged
    <3> QED BY <1>1, <3>1, <3>2
  <2>2. ASSUME NEW p \in Proc, pc'[p] = "hold" PROVE Ctx(p) \notin inflight'
    BY <2>2 DEF CoverageInv, Current
  <2> QED BY <1>1, <2>1, <2>2 DEF Current
<1>7. UndoneInHand'
  <2>1. ASSUME NEW a \in Actor, NEW c \in cur'[a] PROVE c \in missed' \/ (c \notin Changes' /\ ~Ahead(c)')
    <3>1. c \in Context
      BY DEF CoverageInv, TypeOK
    <3>2. c \in missed \/ (c \notin Changes /\ ~Ahead(c))
      BY DEF CoverageInv, UndoneInHand
    <3> QED BY <1>2, <3>1, <3>2
  <2> QED BY <2>1 DEF UndoneInHand
<1>8. Coverage'
  <2>1. \A c : GivenUp(c) => GivenUp(c)'
    BY <1>3, <1>4 DEF GivenUp
  <2> QED BY <2>1 DEF CoverageInv, Coverage
<1> QED BY <1>5, <1>6, <1>7, <1>8

(* The same for a step that only moves one process, or empties its hands.   *)
LEMMA CoverMove ==
  ASSUME CoverageInv, NEW p \in Proc,
         UNCHANGED <<cnt, ctype, file, live, inflight, unsaved, missed>>,
         \A a \in Actor : cur'[a] \subseteq cur[a],
         \A q \in Proc \ {p} : pc'[q] = pc[q] /\ rv'[q] = rv[q],
         \/ pc'[p] = pc[p] /\ rv'[p] = rv[p]
         \/ pc'[p] \notin Early \cup {"hold", "cleanup", "removing"} /\ (pc'[p] = "leave" => rv'[p] = 1)
         \/ pc'[p] \in Early \ {"create"} /\ pc[p] \in Early
         \/ pc'[p] = "hold" /\ Ctx(p) \notin inflight
         \/ pc'[p] = "cleanup" /\ pc[p] = "leave" /\ rv[p] = 0
         \/ pc'[p] = "removing" /\ pc[p] \in {"cleanup", "removing"}
  PROVE  (AskedOnce /\ Current /\ UndoneInHand /\ Coverage)'
<1>1. Changes' = Changes
  BY DEF Changes
<1>2. live' \cap inflight' = {}
  BY DEF CoverageInv, AskedOnce
<1>3. /\ pc[p] = "leave" /\ rv[p] = 0 => Ctx(p) \notin Changes
      /\ pc[p] \in {"cleanup", "removing"} => Ctx(p) \notin Changes
  BY DEF CoverageInv, Current
<1>4. ASSUME NEW q \in Proc
      PROVE  /\ pc'[q] \in Early => pc[q] \in Early
             /\ pc'[q] = "create" => pc[q] = "create"
             /\ pc'[q] = "hold" => pc[q] = "hold" \/ Ctx(q) \notin inflight
             /\ pc'[q] = "leave" /\ rv'[q] = 0 => Ctx(q) \notin Changes'
             /\ pc'[q] \in {"cleanup", "removing"} => Ctx(q) \notin Changes'
  <2>1. CASE q = p
    BY <1>1, <1>3, <2>1 DEF Early
  <2>2. CASE q # p
    BY <1>1, <2>2 DEF CoverageInv, Current
  <2> QED BY <2>1, <2>2
<1> QED BY <1>1, <1>2, <1>4, CoverQuiet

(* The next scenario supersedes earlier ones, and takes back nothing.       *)
LEMMA BeginGivesUp ==
  ASSUME Shape, NEW p \in Proc, NEW t \in Type, Begin(p, t)
  PROVE  \A c \in Context : GivenUp(c) => GivenUp(c)'
<1>1. /\ cnt' = [cnt EXCEPT ![p] = @ + 1]
      /\ ctype' = [ctype EXCEPT ![<<p, cnt[p] + 1>>] = t]
      /\ UNCHANGED <<unsaved, missed>>
  BY DEF Begin, logged
<1>2. TypeOK
  BY DEF Shape
<1>3. ASSUME NEW c \in Context PROVE c[1] \in Proc /\ c[2] \in Nat \ {0} /\ cnt[c[1]] \in Nat
  BY <1>2, ConstantsAssumption DEF Context, TypeOK
<1>4. cnt'[p] = cnt[p] + 1 /\ \A q \in Proc \ {p} : cnt'[q] = cnt[q]
  BY <1>1, <1>2 DEF TypeOK
<1>5. ASSUME NEW c \in Context, Superseded(c) PROVE Superseded(c)'
  <2>1. PICK n \in (c[2] + 1)..cnt[c[1]] : ctype[<<c[1], n>>] = ctype[c]
    BY <1>5 DEF Superseded
  <2>2. n \in (c[2] + 1)..cnt'[c[1]]
    BY <1>3, <1>4, <2>1
  <2>3. n # cnt[c[1]] + 1 /\ c[2] # cnt[c[1]] + 1
    BY <1>3, <2>1
  <2>4. <<c[1], n>> # <<p, cnt[p] + 1>> /\ c # <<p, cnt[p] + 1>>
    BY <2>3
  <2>5. <<c[1], n>> \in Context
    <3>1. cnt[c[1]] \in 0..MaxRuns
      BY <1>2, <1>3 DEF TypeOK
    <3>2. n \in 1..MaxRuns
      BY <1>3, <2>1, <3>1, ConstantsAssumption
    <3> QED BY <1>3, <3>2 DEF Context
  <2>6. ctype' = [d \in Context |-> IF d = <<p, cnt[p] + 1>> THEN t ELSE ctype[d]]
    BY <1>1, <1>2 DEF TypeOK
  <2>7. ctype'[<<c[1], n>>] = ctype[<<c[1], n>>] /\ ctype'[c] = ctype[c]
    BY <2>4, <2>5, <2>6
  <2> QED BY <2>1, <2>2, <2>7 DEF Superseded
<1> QED BY <1>1, <1>5 DEF GivenUp, Logged

LEMMA CoverageNext ==
  ASSUME CoverageAssumption, Shape, OwnFiles, Settling, CoverageInv, [Next]_vars
  PROVE  (AskedOnce /\ Current /\ UndoneInHand /\ Coverage)'
<1> DEFINE Goal == (AskedOnce /\ Current /\ UndoneInHand /\ Coverage)'
<1> USE DEF main, cluster, loop, handler, logged, At, GoTo
<1>0. TypeOK /\ Frames /\ Begun
  BY DEF Shape
<1>1. ASSUME NEW p \in Proc, Start(p) \/ Finish(p) \/ TakeLock(p) \/ Install(p) \/ Settle(p)
             \/ Reject(p) \/ CreateReturns(p) \/ LeaveContext(p)
      PROVE  Goal
  <2>1. UNCHANGED <<cnt, ctype, file, live, inflight, unsaved, missed, cur>>
    BY <1>1 DEF Start, Finish, TakeLock, Install, Settle, Reject, CreateReturns, LeaveContext, Return
  <2>2. \A q \in Proc \ {p} : pc'[q] = pc[q] /\ rv'[q] = rv[q]
    BY <1>0, <1>1 DEF Start, Finish, TakeLock, Install, Settle, Reject, CreateReturns, LeaveContext,
       Return, TypeOK
  <2>3. \/ pc'[p] \notin Early \cup {"hold", "cleanup", "removing"} /\ (pc'[p] = "leave" => rv'[p] = 1)
        \/ pc'[p] \in Early \ {"create"} /\ pc[p] \in Early
        \/ pc'[p] = "hold" /\ Ctx(p) \notin inflight
        \/ pc'[p] = "cleanup" /\ pc[p] = "leave" /\ rv[p] = 0
    BY <1>0, <1>1 DEF Start, Finish, TakeLock, Install, Settle, Reject, CreateReturns, LeaveContext,
       Return, TypeOK, Early
  <2> QED BY <2>1, <2>2, <2>3, CoverMove
<1>2. ASSUME NEW p \in Proc, Cleanup(p) \/ RemoveRaises(p) \/ CleanupDone(p) \/ RollbackFailedRun(p)
      PROVE  Goal
  <2>1. UNCHANGED <<cnt, ctype, file, live, inflight, unsaved, missed, cur>>
    BY <1>2 DEF Cleanup, RemoveRaises, CleanupDone, RollbackFailedRun, EnterRollback
  <2>2. \A q \in Proc \ {p} : pc'[q] = pc[q] /\ rv'[q] = rv[q]
    BY <1>0, <1>2 DEF Cleanup, RemoveRaises, CleanupDone, RollbackFailedRun, TypeOK
  <2>3. \/ pc'[p] = pc[p] /\ rv'[p] = rv[p]
        \/ pc'[p] \in {"dead", "settle"}
        \/ pc'[p] = "removing" /\ pc[p] = "cleanup"
    BY <1>0, <1>2 DEF Cleanup, RemoveRaises, CleanupDone, RollbackFailedRun, TypeOK
  <2> QED BY <2>1, <2>2, <2>3, CoverMove DEF Early
<1>3. ASSUME NEW p \in Proc, RollbackDone(p) \/ HandlerDone(p) \/ Crash(p) PROVE Goal
  <2>1. UNCHANGED <<cnt, ctype, file, live, inflight, unsaved, missed>>
    BY <1>3 DEF RollbackDone, HandlerDone, Crash
  <2>2. \A a \in Actor : cur'[a] \subseteq cur[a]
    BY <1>0, <1>3 DEF RollbackDone, HandlerDone, Crash, LeaveRollback, TypeOK
  <2>3. \A q \in Proc \ {p} : pc'[q] = pc[q] /\ rv'[q] = rv[q]
    BY <1>0, <1>3 DEF RollbackDone, HandlerDone, Crash, TypeOK
  <2>4. \/ pc'[p] = pc[p] /\ rv'[p] = rv[p]
        \/ pc'[p] \in {"dead", "settle"}
        \/ pc'[p] = "leave" /\ rv'[p] = 1
    BY <1>0, <1>3 DEF RollbackDone, HandlerDone, Crash, TypeOK
  <2> QED BY <2>1, <2>2, <2>3, <2>4, CoverMove DEF Early
<1>4. ASSUME UNCHANGED <<cnt, ctype, file, live, inflight, unsaved, missed, pc, rv>>,
             \A a \in Actor : cur'[a] \subseteq cur[a]
      PROVE  Goal
  BY <1>4, CoverQuiet DEF CoverageInv, AskedOnce, Current, Changes
<1>5. ASSUME NEW p \in Proc, NEW s \in Signals, Signal(p, s) PROVE Goal
  BY <1>4, <1>5 DEF Signal, EnterRollback
<1>6. ASSUME NEW f \in OperatorFilters, OperatorBegins(f[1], f[2]) PROVE Goal
  BY <1>4, <1>6 DEF OperatorBegins, EnterRollback
<1>7. CASE OperatorDone
  BY <1>0, <1>4, <1>7 DEF OperatorDone, LeaveRollback, TypeOK, Actor
<1>8. CASE UNCHANGED vars
  BY <1>4, <1>8 DEF vars
<1>9. ASSUME NEW p \in Proc, CreateRaises(p) PROVE Goal
  <2>1. UNCHANGED <<cnt, ctype, file, live, unsaved, missed, cur>> /\ inflight' \subseteq inflight
    BY <1>9 DEF CreateRaises, Return
  <2>2. pc' = [pc EXCEPT ![p] = "leave"] /\ rv' = [rv EXCEPT ![p] = 1]
    BY <1>9 DEF CreateRaises, Return
  <2>3. Changes' \subseteq Changes /\ live' \cap inflight' = {}
    BY <2>1 DEF CoverageInv, AskedOnce, Changes
  <2>4. ASSUME NEW q \in Proc
        PROVE  /\ pc'[q] \in Early => pc[q] \in Early
               /\ pc'[q] = "create" => pc[q] = "create"
               /\ pc'[q] = "hold" => pc[q] = "hold" \/ Ctx(q) \notin inflight
               /\ pc'[q] = "leave" /\ rv'[q] = 0 => Ctx(q) \notin Changes'
               /\ pc'[q] \in {"cleanup", "removing"} => Ctx(q) \notin Changes'
    BY <1>0, <2>2, <2>3 DEF TypeOK, CoverageInv, Current, Early
  <2> QED BY <2>1, <2>3, <2>4, CoverQuiet
<1>10. ASSUME NEW p \in Proc, Delete(p) PROVE Goal
  <2>1. UNCHANGED <<cnt, ctype, file, inflight, unsaved, missed, cur>> /\ pc[p] = "hold"
    BY <1>10 DEF Delete, Return
  <2>2. pc' = [pc EXCEPT ![p] = "leave"] /\ \A q \in Proc \ {p} : rv'[q] = rv[q]
    BY <1>0, <1>10 DEF Delete, Return, TypeOK
  <2>3. live' = live \ {Ctx(p)} \/ (live' = live /\ rv'[p] = 1)
    BY <1>0, <1>10 DEF Delete, Return, TypeOK
  <2>4. Changes' \subseteq Changes /\ live' \cap inflight' = {}
    BY <2>1, <2>3 DEF CoverageInv, AskedOnce, Changes
  <2>5. rv'[p] = 0 => Ctx(p) \notin Changes'
    BY <2>1, <2>3 DEF CoverageInv, Current, Changes
  <2>6. ASSUME NEW q \in Proc
        PROVE  /\ pc'[q] \in Early => pc[q] \in Early
               /\ pc'[q] = "create" => pc[q] = "create"
               /\ pc'[q] = "hold" => pc[q] = "hold" \/ Ctx(q) \notin inflight
               /\ pc'[q] = "leave" /\ rv'[q] = 0 => Ctx(q) \notin Changes'
               /\ pc'[q] \in {"cleanup", "removing"} => Ctx(q) \notin Changes'
    BY <1>0, <2>2, <2>4, <2>5 DEF TypeOK, CoverageInv, Current, Early
  <2> QED BY <2>1, <2>4, <2>6, CoverQuiet
<1>11. ASSUME NEW c \in Context, Server(c) PROVE Goal
  <2>1. UNCHANGED <<cnt, ctype, file, unsaved, missed, cur, pc, rv>>
    BY <1>11 DEF Server, Apply, Lose
  <2>2. inflight' \subseteq inflight /\ Changes' \subseteq Changes /\ live' \cap inflight' = {}
    BY <1>11 DEF Server, Apply, Lose, Changes, CoverageInv, AskedOnce
  <2> QED BY <2>1, <2>2, CoverQuiet DEF CoverageInv, Current
<1>12. ASSUME NEW p \in Proc, NEW t \in Type, Begin(p, t) PROVE Goal
  <2>1. /\ pc[p] = "idle" /\ pc' = [pc EXCEPT ![p] = "enter"]
        /\ cnt' = [cnt EXCEPT ![p] = @ + 1]
        /\ ctype' = [ctype EXCEPT ![<<p, cnt[p] + 1>>] = t]
        /\ UNCHANGED <<file, live, inflight, unsaved, missed, cur, rv>>
    BY <1>12 DEF Begin
  <2>2. \A q \in Proc : q # p => pc'[q] = pc[q] /\ Ctx(q)' = Ctx(q)
    BY <1>0, <2>1 DEF TypeOK, Ctx
  <2>3. ASSUME NEW c \in Context PROVE c[1] \in Proc /\ c[2] \in Nat /\ cnt[c[1]] \in Nat
    BY <1>0 DEF Context, TypeOK
  <2>4. pc'[p] = "enter" /\ cnt'[p] = cnt[p] + 1 /\ \A q \in Proc \ {p} : cnt'[q] = cnt[q]
    BY <1>0, <2>1 DEF TypeOK
  <2>5. Ctx(p)' = <<p, cnt[p] + 1>>
    BY <2>4 DEF Ctx
  <2>6. ASSUME NEW c \in Context, Ahead(c)' PROVE Ahead(c)
    <3>1. CASE c[1] = p
      <4>1. c[2] > cnt[p] + 1 \/ c = <<p, cnt[p] + 1>>
        BY <2>4, <2>5, <2>6, <3>1 DEF Ahead
      <4>2. c[2] > cnt[p]
        BY <2>3, <3>1, <4>1
      <4> QED BY <3>1, <4>2 DEF Ahead
    <3>2. CASE c[1] # p
      BY <2>2, <2>3, <2>4, <2>6, <3>2 DEF Ahead
    <3> QED BY <3>1, <3>2
  <2>7. \A c \in Context : GivenUp(c) => GivenUp(c)'
    BY <1>12, BeginGivesUp
  <2>8. AskedOnce'
    BY <2>1, <2>6 DEF AskedOnce, CoverageInv, Changes
  <2>9. Current'
    <3>1. ASSUME NEW q \in Proc, q # p
          PROVE  /\ pc'[q] = "create" => file'[Ctx(q)'] = "pending" \/ Ctx(q)' \in unsaved' \cup missed'
                 /\ pc'[q] = "hold" => Ctx(q)' \notin inflight'
                 /\ pc'[q] = "leave" /\ rv'[q] = 0 => Ctx(q)' \notin Changes'
                 /\ pc'[q] \in {"cleanup", "removing"} => Ctx(q)' \notin Changes'
      BY <2>1, <2>2, <3>1 DEF CoverageInv, Current, Changes, Logged
    <3> QED BY <2>4, <3>1 DEF Current, Logged
  <2>10. UndoneInHand'
    <3>1. ASSUME NEW a \in Actor, NEW c \in cur[a] PROVE c \in missed \/ (c \notin Changes /\ ~Ahead(c)')
      <4>1. c \in Context
        BY <1>0 DEF TypeOK
      <4> QED BY <2>6, <4>1 DEF CoverageInv, UndoneInHand
    <3> QED BY <2>1, <3>1 DEF UndoneInHand, Changes
  <2>11. Coverage'
    <3>1. Changes \subseteq Context
      BY <1>0 DEF TypeOK, Changes
    <3> QED BY <2>1, <2>7, <3>1 DEF CoverageInv, Coverage, Changes
  <2> QED BY <2>8, <2>9, <2>10, <2>11
<1>13. ASSUME NEW p \in Proc, Register(p) PROVE Goal
  <2>1. /\ pc[p] = "register" /\ pc' = [pc EXCEPT ![p] = "create"]
        /\ UNCHANGED <<cnt, ctype, live, inflight, missed, cur, rv>>
    BY <1>13 DEF Register
  <2>2. Ctx(p) \in Context
    BY <1>0, <2>1 DEF Begun, Gone, Ctx, Context, TypeOK
  <2>3. \/ file' = [file EXCEPT ![Ctx(p)] = "pending"] /\ unsaved' = unsaved
        \/ file' = file /\ unsaved' = unsaved \cup {Ctx(p)}
    BY <1>13 DEF Register
  <2>4. \A q \in Proc : Ctx(q)' = Ctx(q)
    BY <2>1 DEF Ctx
  <2>5. \A c \in Context : file[c] = "pending" => file'[c] = "pending"
    BY <1>0, <2>3 DEF TypeOK
  <2>6. file'[Ctx(p)] = "pending" \/ Ctx(p) \in unsaved'
    BY <1>0, <2>2, <2>3 DEF TypeOK
  <2>7. \A c \in Context : Ahead(c)' <=> Ahead(c)
    <3>1. ASSUME NEW c \in Context PROVE Ahead(c)' <=> Ahead(c)
      <4>1. c[1] \in Proc
        BY DEF Context
      <4> QED BY <1>0, <2>1, <2>4, <4>1 DEF Ahead, TypeOK
    <3> QED BY <3>1
  <2>8. unsaved \subseteq unsaved'
    BY <2>3
  <2>9. AskedOnce'
    BY <2>1, <2>7 DEF CoverageInv, AskedOnce, Changes
  <2>10. Current'
    <3>1. ASSUME NEW q \in Proc
          PROVE  /\ pc'[q] = "create" => file'[Ctx(q)] = "pending" \/ Ctx(q) \in unsaved' \cup missed'
                 /\ pc'[q] = "hold" => Ctx(q) \notin inflight'
                 /\ pc'[q] = "leave" /\ rv'[q] = 0 => Ctx(q) \notin Changes'
                 /\ pc'[q] \in {"cleanup", "removing"} => Ctx(q) \notin Changes'
      <4>1. CASE q = p
        BY <1>0, <2>1, <2>6, <4>1 DEF TypeOK
      <4>2. CASE q # p
        <5>1. pc'[q] = pc[q]
          BY <1>0, <2>1, <4>2 DEF TypeOK
        <5>2. pc[q] = "create" => Ctx(q) \in Context
          BY <1>0 DEF Begun, Gone, Ctx, Context, TypeOK
        <5>3. pc[q] = "create" => file[Ctx(q)] = "pending" \/ Ctx(q) \in unsaved \cup missed
          BY DEF CoverageInv, Current, Logged
        <5> QED BY <2>1, <2>5, <2>8, <5>1, <5>2, <5>3 DEF CoverageInv, Current, Changes
      <4> QED BY <4>1, <4>2
    <3> QED BY <2>4, <3>1 DEF Current, Logged
  <2>11. UndoneInHand'
    <3>1. \A a \in Actor : cur[a] \subseteq Context
      BY <1>0 DEF TypeOK
    <3> QED BY <2>1, <2>7, <3>1 DEF CoverageInv, UndoneInHand, Changes
  <2>12. Coverage'
    <3>1. Changes \subseteq Context /\ Changes' = Changes
      BY <1>0, <2>1 DEF TypeOK, Changes
    <3>2. \A c : GivenUp(c) => GivenUp(c)'
      BY <2>1, <2>8 DEF GivenUp, Logged, Superseded
    <3> QED BY <2>5, <3>1, <3>2 DEF CoverageInv, Coverage
  <2> QED BY <2>9, <2>10, <2>11, <2>12
<1>14. ASSUME NEW p \in Proc, SendCreate(p) PROVE Goal
  <2>1. /\ pc[p] = "create" /\ pc' = [pc EXCEPT ![p] = "creating"]
        /\ inflight' = inflight \cup {Ctx(p)}
        /\ UNCHANGED <<cnt, ctype, file, live, unsaved, missed, cur, rv>>
    BY <1>14 DEF SendCreate
  <2>2. Ctx(p) \in Context /\ Ctx(p)[1] = p
    BY <1>0, <2>1 DEF Begun, Gone, Ctx, Context, TypeOK
  <2>3. Ahead(Ctx(p)) /\ Ctx(p) \notin Changes
    BY <2>1, <2>2 DEF Ahead, CoverageInv, AskedOnce
  <2>4. \A q \in Proc : Ctx(q)' = Ctx(q)
    BY <2>1 DEF Ctx
  <2>5. ASSUME NEW c \in Context, Ahead(c)' PROVE Ahead(c) /\ c # Ctx(p)
    <3>1. c[1] \in Proc
      BY DEF Context
    <3>2. Ahead(c)
      BY <1>0, <2>1, <2>4, <2>5, <3>1 DEF Ahead, TypeOK
    <3>4. PICK d \in Context : d = Ctx(p)
      BY <2>2
    <3>5. ~Ahead(d)'
      <4>1. ~(d[2] > cnt'[d[1]])
        BY <1>0, <2>1, <2>2, <3>4 DEF Ctx, TypeOK
      <4>2. pc'[d[1]] = "creating"
        BY <1>0, <2>1, <2>2, <3>4 DEF TypeOK
      <4> QED BY <4>1, <4>2 DEF Ahead
    <3> QED BY <2>5, <3>2, <3>4, <3>5
  <2>6. Changes' = Changes \cup {Ctx(p)}
    BY <2>1 DEF Changes
  <2>7. AskedOnce'
    <3>1. live' \cap inflight' = {}
      BY <2>1, <2>3 DEF CoverageInv, AskedOnce, Changes
    <3>2. \A c \in Context : Ahead(c)' => c \notin Changes'
      BY <2>5, <2>6 DEF CoverageInv, AskedOnce
    <3> QED BY <3>1, <3>2 DEF AskedOnce
  <2>8. Current'
    <3>1. ASSUME NEW q \in Proc
          PROVE  /\ pc'[q] = "create" => file[Ctx(q)] = "pending" \/ Ctx(q) \in unsaved \cup missed
                 /\ pc'[q] = "hold" => Ctx(q) \notin inflight'
                 /\ pc'[q] = "leave" /\ rv[q] = 0 => Ctx(q) \notin Changes'
                 /\ pc'[q] \in {"cleanup", "removing"} => Ctx(q) \notin Changes'
      <4>1. CASE q = p
        BY <1>0, <2>1, <4>1 DEF TypeOK
      <4>2. CASE q # p
        <5>1. pc'[q] = pc[q] /\ Ctx(q) # Ctx(p)
          BY <1>0, <2>1, <4>2 DEF TypeOK, Ctx
        <5> QED BY <2>1, <2>6, <5>1 DEF CoverageInv, Current, Logged
      <4> QED BY <4>1, <4>2
    <3> QED BY <2>1, <2>4, <3>1 DEF Current, Logged
  <2>9. UndoneInHand'
    <3>1. ASSUME NEW a \in Actor, NEW c \in cur[a] PROVE c \in missed \/ (c \notin Changes' /\ ~Ahead(c)')
      <4>1. c \in Context
        BY <1>0 DEF TypeOK
      <4>2. c \in missed \/ (c \notin Changes /\ ~Ahead(c))
        BY DEF CoverageInv, UndoneInHand
      <4>3. c # Ctx(p) \/ c \in missed
        BY <2>3, <4>2
      <4> QED BY <2>5, <2>6, <4>1, <4>2, <4>3
    <3> QED BY <2>1, <3>1 DEF UndoneInHand
  <2>10. Coverage'
    <3>1. file[Ctx(p)] = "pending" \/ Logged(Ctx(p))
      BY <2>1 DEF CoverageInv, Current
    <3>2. \A c : GivenUp(c) <=> GivenUp(c)'
      BY <2>1 DEF GivenUp, Logged, Superseded
    <3>3. ASSUME NEW c \in Changes' PROVE file'[c] = "pending" \/ GivenUp(c)
      BY <2>1, <2>6, <3>1, <3>3 DEF CoverageInv, Coverage, GivenUp
    <3> QED BY <3>2, <3>3 DEF Coverage
  <2> QED BY <2>7, <2>8, <2>9, <2>10
<1>15. ASSUME NEW p \in Proc, Remove(p) PROVE Goal
  <2>1. PICK c \in todo[p] : file[c] = "pending" /\ file' = [file EXCEPT ![c] = "absent"]
    BY <1>15, FirstIsTodo DEF Remove
  <2>2. pc[p] = "removing" /\ UNCHANGED <<pc, cnt, ctype, live, inflight, unsaved, missed, cur, rv>>
    BY <1>15 DEF Remove
  <2>3. c \in Context /\ c[1] = p /\ c[2] <= cnt[p] /\ ctype[Ctx(p)] = ctype[c]
    BY HandsAreOwn DEF OwnFiles
  <2>4. c \in Changes => GivenUp(c)
    <3>1. CASE c = Ctx(p)
      BY <2>2, <3>1 DEF CoverageInv, Current
    <3>2. CASE c # Ctx(p) /\ AutoRollback[p]
      BY <2>1, <2>2, <2>3, <3>2 DEF Settling, Kept
    <3>3. CASE c # Ctx(p) /\ ~AutoRollback[p]
      <4>1. c[2] \in Nat /\ cnt[p] \in Nat /\ c = <<p, c[2]>>
        BY <1>0, <2>3 DEF Context, TypeOK
      <4>2. c[2] # cnt[p]
        BY <3>3, <4>1 DEF Ctx
      <4>3. cnt[p] \in (c[2] + 1)..cnt[c[1]]
        BY <2>3, <4>1, <4>2
      <4> QED BY <2>3, <3>3, <4>3 DEF GivenUp, Superseded, Ctx
    <3> QED BY <3>1, <3>2, <3>3
  <2>5. \A d \in Context : d # c => file'[d] = file[d]
    BY <1>0, <2>1 DEF TypeOK
  <2>6. Changes' = Changes /\ \A q \in Proc : Ctx(q)' = Ctx(q)
    BY <2>2 DEF Changes, Ctx
  <2>7. AskedOnce' /\ UndoneInHand'
    <3>2. \A d \in Context : Ahead(d)' <=> Ahead(d)
      BY <2>2 DEF Ahead, Ctx
    <3>3. AskedOnce'
      BY <2>2, <2>6, <3>2 DEF CoverageInv, AskedOnce
    <3>4. ASSUME NEW b \in Actor, NEW d \in cur'[b] PROVE d \in missed' \/ (d \notin Changes' /\ ~Ahead(d)')
      <4>1. d \in cur[b] /\ d \in Context
        BY <1>0, <2>2 DEF TypeOK
      <4> QED BY <2>2, <2>6, <3>2, <4>1 DEF CoverageInv, UndoneInHand
    <3> QED BY <3>3, <3>4 DEF UndoneInHand
  <2>8. Current'
    <3>1. ASSUME NEW q \in Proc, pc[q] = "create" PROVE file'[Ctx(q)] = "pending" \/ Logged(Ctx(q))
      <4>1. Ctx(q) \in Context /\ Ctx(q)[1] = q
        BY <1>0, <3>1 DEF Begun, Gone, Ctx, Context, TypeOK
      <4>2. Ctx(q) # c
        BY <2>2, <2>3, <3>1, <4>1
      <4> QED BY <2>5, <3>1, <4>1, <4>2 DEF CoverageInv, Current
    <3> QED BY <2>2, <2>6, <3>1 DEF CoverageInv, Current, Logged
  <2>9. Coverage'
    <3>1. \A d : GivenUp(d) <=> GivenUp(d)'
      BY <2>2 DEF GivenUp, Logged, Superseded
    <3>2. Changes \subseteq Context
      BY <1>0 DEF TypeOK, Changes
    <3> QED BY <2>4, <2>5, <2>6, <3>1, <3>2 DEF CoverageInv, Coverage
  <2> QED BY <2>7, <2>8, <2>9
<1>16. ASSUME NEW a \in Actor, Undo(a) PROVE Goal
  <2>1. PICK c \in First(a) :
          /\ cur' = [cur EXCEPT ![a] = {c}]
          /\ \/ c \in live /\ live' = live \ {c} /\ missed' = missed
             \/ live' = live /\ missed' = missed \cup {c}
    BY <1>16 DEF Undo
  <2>2. UNCHANGED <<pc, cnt, ctype, file, inflight, unsaved, rv>>
    BY <1>16 DEF Undo
  <2>3. c \in Context
    BY <1>0, FirstIsTodo DEF TypeOK
  <2>4. live' \subseteq live /\ missed \subseteq missed'
    BY <2>1
  <2>5. Changes' \subseteq Changes /\ live' \cap inflight' = {}
    BY <2>2, <2>4 DEF Changes, CoverageInv, AskedOnce
  <2>6. \A q \in Proc : Ctx(q)' = Ctx(q)
    BY <2>2 DEF Ctx
  <2>7. \A d \in Context : Ahead(d)' <=> Ahead(d)
    BY <2>2 DEF Ahead, Ctx
  <2>8. AskedOnce'
    BY <2>5, <2>7 DEF CoverageInv, AskedOnce
  <2>9. Current'
    <3>1. ASSUME NEW q \in Proc
          PROVE  /\ pc[q] = "create" => file[Ctx(q)] = "pending" \/ Ctx(q) \in unsaved \cup missed'
                 /\ pc[q] = "hold" => Ctx(q) \notin inflight
                 /\ pc[q] = "leave" /\ rv[q] = 0 => Ctx(q) \notin Changes'
                 /\ pc[q] \in {"cleanup", "removing"} => Ctx(q) \notin Changes'
      BY <2>4, <2>5 DEF CoverageInv, Current, Logged
    <3> QED BY <2>2, <2>6, <3>1 DEF Current, Logged
  <2>10. c \in missed' \/ (c \notin Changes' /\ ~Ahead(c)')
    <3>1. CASE c \in live /\ live' = live \ {c}
      <4>1. c \notin inflight /\ ~Ahead(c)
        BY <2>3, <3>1 DEF CoverageInv, AskedOnce, Changes
      <4>2. c \notin Changes'
        BY <2>2, <3>1, <4>1 DEF Changes
      <4> QED BY <2>3, <2>7, <4>1, <4>2
    <3> QED BY <2>1, <3>1
  <2>11. UndoneInHand'
    <3>1. ASSUME NEW b \in Actor, NEW d \in cur'[b] PROVE d \in missed' \/ (d \notin Changes' /\ ~Ahead(d)')
      <4>1. CASE b = a
        <5>1. d = c
          BY <1>0, <2>1, <4>1, <3>1 DEF TypeOK
        <5> QED BY <2>10, <5>1
      <4>2. CASE b # a
        <5>1. d \in cur[b] /\ d \in Context
          BY <1>0, <2>1, <4>2, <3>1 DEF TypeOK
        <5>2. d \in missed \/ (d \notin Changes /\ ~Ahead(d))
          BY <5>1 DEF CoverageInv, UndoneInHand
        <5> QED BY <2>4, <2>5, <2>7, <5>1, <5>2
      <4> QED BY <4>1, <4>2
    <3> QED BY <3>1 DEF UndoneInHand
  <2>12. Coverage'
    <3>1. \A d : GivenUp(d) => GivenUp(d)'
      BY <2>2, <2>4 DEF GivenUp, Logged, Superseded
    <3> QED BY <2>2, <2>5, <3>1 DEF CoverageInv, Coverage
  <2> QED BY <2>8, <2>9, <2>11, <2>12
<1>17. ASSUME NEW a \in Actor, Rename(a) PROVE Goal
  <2>1. /\ cur' = [cur EXCEPT ![a] = {}]
        /\ file' = [c \in Context |-> IF c \in cur[a] THEN "executed" ELSE file[c]]
        /\ UNCHANGED <<pc, cnt, ctype, live, inflight, unsaved, missed, rv>>
    BY <1>17 DEF Rename
  <2>2. \A b \in Actor : cur'[b] \subseteq cur[b]
    BY <1>0, <2>1 DEF TypeOK
  <2>3. \A c \in cur[a] : c \in missed \/ (c \notin Changes /\ ~Ahead(c))
    BY DEF CoverageInv, UndoneInHand
  <2>4. Changes' = Changes /\ \A q \in Proc : Ctx(q)' = Ctx(q)
    BY <2>1 DEF Changes, Ctx
  <2>5. AskedOnce' /\ UndoneInHand'
    <3>2. \A d \in Context : Ahead(d)' <=> Ahead(d)
      BY <2>1 DEF Ahead, Ctx
    <3>3. AskedOnce'
      BY <2>1, <2>4, <3>2 DEF CoverageInv, AskedOnce
    <3>4. ASSUME NEW b \in Actor, NEW c \in cur'[b] PROVE c \in missed' \/ (c \notin Changes' /\ ~Ahead(c)')
      <4>1. c \in cur[b] /\ c \in Context
        BY <1>0, <2>2 DEF TypeOK
      <4> QED BY <2>1, <2>4, <3>2, <4>1 DEF CoverageInv, UndoneInHand
    <3> QED BY <3>3, <3>4 DEF UndoneInHand
  <2>6. Current'
    <3>1. ASSUME NEW q \in Proc, pc[q] = "create" PROVE file'[Ctx(q)] = "pending" \/ Logged(Ctx(q))
      <4>1. Ctx(q) \in Context /\ Ctx(q)[1] = q
        BY <1>0, <3>1 DEF Begun, Gone, Ctx, Context, TypeOK
      <4>2. Ahead(Ctx(q))
        BY <3>1, <4>1 DEF Ahead
      <4>3. file[Ctx(q)] = "pending" \/ Logged(Ctx(q))
        BY <3>1 DEF CoverageInv, Current
      <4> QED BY <2>1, <2>3, <4>1, <4>2, <4>3 DEF Logged
    <3> QED BY <2>1, <2>4, <3>1 DEF CoverageInv, Current, Logged
  <2>7. Coverage'
    <3>1. \A d : GivenUp(d) <=> GivenUp(d)'
      BY <2>1 DEF GivenUp, Logged, Superseded
    <3>2. Changes \subseteq Context
      BY <1>0 DEF TypeOK, Changes
    <3>3. ASSUME NEW c \in Changes PROVE file'[c] = "pending" \/ GivenUp(c)
      <4>1. c \notin cur[a] \/ c \in missed
        BY <2>3
      <4>2. c \in missed => GivenUp(c)
        BY DEF GivenUp, Logged
      <4> QED BY <2>1, <3>2, <4>1, <4>2 DEF CoverageInv, Coverage
    <3> QED BY <2>4, <3>1, <3>3 DEF Coverage
  <2> QED BY <2>5, <2>6, <2>7
<1> QED BY <1>1, <1>2, <1>3, <1>5, <1>6, <1>7, <1>8, <1>9, <1>10, <1>11, <1>12, <1>13, <1>14, <1>15,
          <1>16, <1>17 DEF Next, Step, NextScenario, LoopStep


(* What CoverageInv keeps, conjunct by conjunct.                            *)
LEMMA CoverageStep ==
  ASSUME CoverageAssumption, Shape, OwnFiles, Settling, CoverageInv, [Next]_vars
  PROVE  CoverageInv'
<1>1. Shape'
  BY ShapeNext
<1>2. OneInHand'
  BY InHandNext DEF CoverageInv
<1>3. (AskedOnce /\ Current /\ UndoneInHand /\ Coverage)'
  BY CoverageNext
<1> QED BY <1>1, <1>2, <1>3 DEF Shape, CoverageInv

LEMMA SettlingInvariant ==
  ASSUME CoverageAssumption PROVE Spec => []Settling
<1>1. Init => Settling
  BY SettlingInit
<1>2. Shape /\ OwnFiles /\ Settling /\ [Next]_vars => Settling'
  BY SettlingNext, CoverageAssumption
<1> QED BY <1>1, <1>2, OwnInvariant, PTL DEF Spec

(* The inductive invariant of coverage: what the position of a process in   *)
(* run_scenarios says of its files and its change, for any number of        *)
(* processes, scenarios, types and faults, all signals, and with or without *)
(* automatic rollback, when every process has its own run uuid.             *)
THEOREM CoverageInvariant == ASSUME CoverageAssumption PROVE Spec => []CoverageInv
<1>1. Init => CoverageInv
  BY CoverageInit
<1>2. Shape /\ OwnFiles /\ Settling /\ CoverageInv /\ [Next]_vars => CoverageInv'
  BY CoverageStep, CoverageAssumption
<1> QED BY <1>1, <1>2, OwnInvariant, SettlingInvariant, CoverageAssumption, PTL DEF Spec

(* A crash of any process at any step leaves nothing in the cluster, or on  *)
(* its way there, that execute-rollback does not find, but for a change     *)
(* whose file or whose undo the log reports as failed and, without          *)
(* automatic rollback, one that a later scenario of its type superseded.    *)
THEOREM ChangesStayCovered == ASSUME CoverageAssumption PROVE Spec => []Coverage
<1>1. CoverageInv => Coverage
  BY DEF CoverageInv
<1> QED BY <1>1, CoverageInvariant, CoverageAssumption, PTL

-----------------------------------------------------------------------------
(* The contract.                                                            *)

(* Every step of a process, of the operator or of the API server is a step  *)
(* of the contract, or leaves changes and records as they are.              *)
LEMMA ContractStep ==
  ASSUME CoverageAssumption, Shape, OwnFiles, Settling, CoverageInv, CoverageInv',
         [Next]_vars
  PROVE  [Contract!CNext]_(Contract!cvars)
<1> DEFINE Rec == {c \in Context : file[c] = "pending"}
           Up == {c \in Context : GivenUp(c)}
           Same == UNCHANGED <<live, inflight, file, cnt, ctype, unsaved, missed>>
           Goal == [Contract!CNext]_(Contract!cvars)
<1> USE DEF Contract!cvars, main, cluster, loop, handler, logged, At, GoTo
<1>0. TypeOK /\ Begun
  BY DEF Shape
<1>1. Same => Goal
  BY DEF GivenUp, Logged, Superseded
<1>2. UNCHANGED <<cnt, ctype, unsaved, missed>> => Up' = Up
  BY DEF GivenUp, Logged, Superseded
<1>3. ASSUME NEW p \in Proc, Start(p) \/ Finish(p) \/ TakeLock(p) \/ Install(p) \/ Settle(p) \/ Reject(p)
             \/ CreateReturns(p) \/ LeaveContext(p) \/ Cleanup(p) \/ RemoveRaises(p)
             \/ CleanupDone(p) \/ RollbackFailedRun(p) \/ RollbackDone(p) \/ HandlerDone(p)
             \/ Crash(p)
      PROVE  Same
  BY <1>3 DEF Start, Finish, TakeLock, Install, Settle, Reject, CreateReturns, Return,
     LeaveContext, Cleanup, RemoveRaises, CleanupDone, RollbackFailedRun, RollbackDone,
     HandlerDone, Crash
<1>4. ASSUME NEW p \in Proc, NEW s \in Signals, Signal(p, s) PROVE Same
  BY <1>4 DEF Signal
<1>5. ASSUME NEW f \in OperatorFilters, OperatorBegins(f[1], f[2]) PROVE Same
  BY <1>5 DEF OperatorBegins
<1>6. OperatorDone \/ UNCHANGED vars => Same
  BY DEF OperatorDone, vars
<1>7. ASSUME NEW p \in Proc, NEW t \in Type, Begin(p, t) PROVE Goal
  <2>1. Up \subseteq Up'
    BY <1>7, BeginGivesUp
  <2>2. UNCHANGED <<live, inflight, file>>
    BY <1>7 DEF Begin
  <2>3. Contract!Waive
    BY <2>1, <2>2 DEF Contract!Waive
  <2> QED BY <2>3 DEF Contract!CNext
<1>8. ASSUME NEW p \in Proc, Register(p) PROVE Goal
  <2>1. UNCHANGED <<cnt, ctype, live, inflight, missed>>
    BY <1>8 DEF Register
  <2>2. Ctx(p) \in Context
    BY <1>0, <1>8 DEF Register, Begun, Gone, Ctx, Context, TypeOK
  <2>3. CASE file' = [file EXCEPT ![Ctx(p)] = "pending"] /\ unsaved' = unsaved
    <3>1. PICK c \in Context : c = Ctx(p)
      BY <2>2
    <3>2. Rec' = Rec \cup {c}
      BY <1>0, <2>3, <3>1 DEF TypeOK
    <3>3. Contract!Promise(c)
      BY <1>2, <2>1, <2>3, <3>2 DEF Contract!Promise
    <3> QED BY <3>3 DEF Contract!CNext
  <2>4. CASE file' = file /\ unsaved' = unsaved \cup {Ctx(p)}
    <3>1. Up \subseteq Up'
      BY <2>1, <2>4 DEF GivenUp, Logged, Superseded
    <3>2. Contract!Waive
      BY <2>1, <2>4, <3>1 DEF Contract!Waive
    <3> QED BY <3>2 DEF Contract!CNext
  <2> QED BY <1>8, <2>3, <2>4 DEF Register
<1>9. ASSUME NEW p \in Proc, SendCreate(p) PROVE Goal
  <2>1. /\ pc[p] = "create" /\ inflight' = inflight \cup {Ctx(p)}
        /\ UNCHANGED <<cnt, ctype, file, live, unsaved, missed>>
    BY <1>9 DEF SendCreate
  <2>9. Ctx(p) \in Context
    BY <1>0, <2>1 DEF Begun, Gone, Ctx, Context, TypeOK
  <2>2. PICK c \in Context : c = Ctx(p)
    BY <2>9
  <2>3. c \in Rec \cup Up
    BY <2>1, <2>2 DEF CoverageInv, Current, GivenUp
  <2>4. Contract!Ask(c)
    BY <1>2, <2>1, <2>2, <2>3 DEF Contract!Ask
  <2> QED BY <2>4 DEF Contract!CNext
<1>10. ASSUME NEW p \in Proc, CreateRaises(p) PROVE Goal
  <2>1. /\ pc[p] = "creating" /\ UNCHANGED <<cnt, ctype, file, live, unsaved, missed>>
        /\ inflight' = inflight \/ inflight' = inflight \ {Ctx(p)}
    BY <1>10 DEF CreateRaises, Return
  <2>9. Ctx(p) \in Context
    BY <1>0, <2>1 DEF Begun, Gone, Ctx, Context, TypeOK
  <2>2. PICK c \in Context : c = Ctx(p)
    BY <2>9
  <2>3. Same \/ Contract!Refuse(c)
    BY <1>2, <2>1, <2>2 DEF Contract!Refuse
  <2> QED BY <1>1, <2>3 DEF Contract!CNext
<1>11. ASSUME NEW p \in Proc, Delete(p) PROVE Goal
  <2>1. /\ pc[p] = "hold" /\ UNCHANGED <<cnt, ctype, file, inflight, unsaved, missed>>
        /\ live' = live \/ live' = live \ {Ctx(p)}
    BY <1>11 DEF Delete, Return
  <2>9. Ctx(p) \in Context
    BY <1>0, <2>1 DEF Begun, Gone, Ctx, Context, TypeOK
  <2>2. PICK c \in Context : c = Ctx(p)
    BY <2>9
  <2>3. Same \/ Contract!Withdraw(c)
    BY <1>2, <2>1, <2>2 DEF Contract!Withdraw
  <2> QED BY <1>1, <2>3 DEF Contract!CNext
<1>12. ASSUME NEW p \in Proc, Remove(p) PROVE Goal
  <2>1. PICK c \in todo[p] : file' = [file EXCEPT ![c] = "absent"]
    BY <1>12, FirstIsTodo DEF Remove
  <2>2. UNCHANGED <<cnt, ctype, live, inflight, unsaved, missed>>
    BY <1>12 DEF Remove
  <2>3. c \in Context /\ file'[c] = "absent"
    BY <1>0, <2>1 DEF TypeOK, Actor
  <2>4. c \notin live \cup inflight \/ c \in Up
    <3>1. c \in Changes' => GivenUp(c)'
      BY <2>3 DEF CoverageInv, Coverage
    <3>2. GivenUp(c)' <=> GivenUp(c)
      BY <2>2 DEF GivenUp, Logged, Superseded
    <3> QED BY <2>2, <2>3, <3>1, <3>2 DEF Changes
  <2>5. Rec' = Rec \ {c}
    BY <1>0, <2>1, <2>3 DEF TypeOK
  <2>6. Contract!Release(c)
    BY <1>2, <2>2, <2>4, <2>5 DEF Contract!Release
  <2> QED BY <2>3, <2>6 DEF Contract!CNext
<1>13. ASSUME NEW a \in Actor, Undo(a) PROVE Goal
  <2>1. PICK c \in First(a) : \/ live' = live \ {c} /\ missed' = missed
                              \/ live' = live /\ missed' = missed \cup {c}
    BY <1>13 DEF Undo
  <2>2. UNCHANGED <<cnt, ctype, file, inflight, unsaved>>
    BY <1>13 DEF Undo
  <2>3. c \in Context
    BY <1>0, FirstIsTodo DEF TypeOK
  <2>4. CASE live' = live \ {c} /\ missed' = missed
    <3>1. Contract!Withdraw(c)
      BY <1>2, <2>2, <2>4 DEF Contract!Withdraw
    <3> QED BY <2>3, <3>1 DEF Contract!CNext
  <2>5. CASE live' = live /\ missed' = missed \cup {c}
    <3>1. Up \subseteq Up'
      BY <2>2, <2>5 DEF GivenUp, Logged, Superseded
    <3>2. Contract!Waive
      BY <2>2, <2>5, <3>1 DEF Contract!Waive
    <3> QED BY <3>2 DEF Contract!CNext
  <2> QED BY <2>1, <2>4, <2>5
<1>14. ASSUME NEW a \in Actor, Rename(a) PROVE Goal
  <2>1. /\ file' = [c \in Context |-> IF c \in cur[a] THEN "executed" ELSE file[c]]
        /\ UNCHANGED <<cnt, ctype, live, inflight, unsaved, missed>>
    BY <1>14 DEF Rename
  <2>2. CASE cur[a] = {}
    <3>1. Rec' = Rec
      BY <2>1, <2>2
    <3> QED BY <1>2, <2>1, <3>1
  <2>3. CASE cur[a] # {}
    <3>1. PICK c \in cur[a] : cur[a] = {c}
      BY <2>3 DEF CoverageInv, OneInHand
    <3>2. c \in Context
      BY <1>0 DEF TypeOK
    <3>3. c \notin live \cup inflight \/ c \in Up
      BY <3>2 DEF CoverageInv, UndoneInHand, GivenUp, Logged, Changes
    <3>4. Rec' = Rec \ {c}
      BY <2>1, <3>1
    <3>5. Contract!Release(c)
      BY <1>2, <2>1, <3>3, <3>4 DEF Contract!Release
    <3> QED BY <3>2, <3>5 DEF Contract!CNext
  <2> QED BY <2>2, <2>3
<1>15. ASSUME NEW c \in Context, Server(c) PROVE Goal
  <2>1. UNCHANGED <<cnt, ctype, file, unsaved, missed>>
    BY <1>15 DEF Server, Apply, Lose
  <2>2. Contract!Grant(c) \/ Contract!Refuse(c)
    BY <1>2, <1>15, <2>1 DEF Server, Apply, Lose, Contract!Grant, Contract!Refuse
  <2> QED BY <2>2 DEF Contract!CNext
<1> HIDE DEF Same
<1> QED BY <1>1, <1>3, <1>4, <1>5, <1>6, <1>7, <1>8, <1>9, <1>10, <1>11, <1>12, <1>13, <1>14, <1>15
       DEF Next, Step, NextScenario, LoopStep

(* The detailed model, crashes and faults included, implements the rollback *)
(* contract: a record is released only when its change is gone for good, or *)
(* has been given up in an earlier step.                                    *)
THEOREM ContractIsKept == ASSUME CoverageAssumption PROVE Spec => ContractKept
<1>1. Init => Contract!CInit
  <2>1. Init => \A c \in Context : ~GivenUp(c)
    <3>1. ASSUME Init, NEW c \in Context PROVE ~GivenUp(c)
      <4>1. c[1] \in Proc /\ c[2] \in Nat \ {0}
        BY ConstantsAssumption DEF Context
      <4>2. cnt[c[1]] = 0 /\ unsaved = {} /\ missed = {}
        BY <3>1, <4>1 DEF Init
      <4>3. (c[2] + 1)..0 = {}
        BY <4>1
      <4> QED BY <4>2, <4>3 DEF GivenUp, Logged, Superseded
    <3> QED BY <3>1
  <2> QED BY <2>1 DEF Init, Contract!CInit
<1>2. Shape /\ OwnFiles /\ Settling /\ CoverageInv /\ CoverageInv' /\ [Next]_vars
        => [Contract!CNext]_(Contract!cvars)
  BY ContractStep, CoverageAssumption
<1> QED BY <1>1, <1>2, OwnInvariant, SettlingInvariant, CoverageInvariant, CoverageAssumption, PTL
       DEF Spec, ContractKept, Contract!CSpec

=============================================================================
