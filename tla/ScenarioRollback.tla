-------------------------- MODULE ScenarioRollback --------------------------
(***************************************************************************)
(* The life of a rollback version file, from the scenario that writes it   *)
(* to the rollback or the cleanup that takes it away.                      *)
(*                                                                         *)
(* A krkn process runs scenarios one after the other                       *)
(* (AbstractScenarioPlugin.run_scenarios).  Every call of a plugin's run() *)
(* gets a rollback context of its own, "<time_ns>-<run_uuid>", which names *)
(* a directory of the version store; set_rollback_callable writes the      *)
(* version file there BEFORE the plugin changes the cluster.  A version    *)
(* file is taken away by one of four readers:                              *)
(*   - run_scenarios after a successful run (cleanup: the file is removed);*)
(*   - run_scenarios after a failed run (the callable is run, the file is  *)
(*     renamed .executed);                                                 *)
(*   - the signal handler, on top of whatever the main thread was doing;   *)
(*   - the operator, with the command execute-rollback, any time later.    *)
(*                                                                         *)
(* The plugin here is one that registers first and injects one change      *)
(* (application_outage: a network policy).  A context stands for the       *)
(* version file of that run and also for the change it injects.            *)
(*                                                                         *)
(* Several krkn processes share the version store and the cluster.  A      *)
(* process can be killed at any step, an API call can fail, time out with  *)
(* its request still on the way, and a rename or a removal can fail.       *)
(***************************************************************************)
EXTENDS Naturals, FiniteSets

CONSTANTS
  Proc,      \* krkn processes (a restart is another process)
  Uuid,      \* run uuids
  UuidOf,    \* the run uuid each process was given or generated
  Type,      \* scenario types, each with its plugin
  Raises,    \* the types whose rollback callable can raise
  AutoRollback, \* kraken.auto_rollback in the configuration of each process
  Signals,   \* "INT": default_int_handler, "TERM": SIG_DFL, "HUP": SIG_IGN
  Faults,    \* the kinds of fault: "api", "timeout", "fs", "disk"
  MaxRuns,   \* bound: scenarios a process runs
  MaxFaults, \* bound: faults in a behaviour
  Operator,  \* the execute-rollback command
  NoType     \* the type of a context that does not exist yet

ASSUME ConstantsAssumption ==
  /\ IsFiniteSet(Proc)
  /\ UuidOf \in [Proc -> Uuid]
  /\ Raises \subseteq Type
  /\ AutoRollback \in [Proc -> BOOLEAN]
  /\ Signals \subseteq {"INT", "TERM", "HUP"}
  /\ Faults \subseteq {"api", "timeout", "fs", "disk"}
  /\ MaxRuns \in Nat /\ MaxFaults \in Nat
  /\ Operator \notin Proc /\ NoType \notin Type

Context == Proc \X (1..MaxRuns)
Actor == Proc \cup {Operator}

VARIABLES
  pc,       \* pc[p]: where the main thread of process p is
  cnt,      \* cnt[p]: scenarios p has begun; <<p, cnt[p]>> is the current context
  ctype,    \* ctype[c]: the scenario type of context c
  file,     \* file[c]: "absent", "pending" or "executed"
  live,     \* contexts whose change is in the cluster
  inflight, \* contexts whose creation request the API server may still apply
  rv,       \* rv[p]: the return value of the last run()
  sig,      \* sig[p]: the thread's signal context is complete
  lock,     \* lock[p]: SignalHandler._signal_lock is held
  hs,       \* hs[p]: the signal whose handler runs on top of the main thread
  lp,       \* lp[a]: where a is in execute_rollback_version_files
  todo,     \* todo[a]: the version files a's search returned, not yet treated
  cur,      \* cur[a]: the version file whose callable a has run
  born,     \* born[p]: the timestamp all version files of process p carry
  oprc,     \* exit code of the last execute-rollback
  unsaved,  \* history: contexts whose version file could not be written
  missed,   \* history: contexts whose undo was answered with an error
  faults    \* faults so far

main == <<pc, cnt, ctype, rv, sig, born>>
cluster == <<live, inflight>>
loop == <<lp, todo, cur>>
handler == <<lock, hs>>
logged == <<unsaved, missed>>   \* what only the log tells
vars == <<pc, cnt, ctype, file, live, inflight, rv, sig, lock, hs, lp, todo,
          cur, born, oprc, unsaved, missed, faults>>

Gone == {"off", "done", "dead"}
Body == {"register", "create", "creating", "hold"}

Ctx(p) == <<p, cnt[p]>>

(* The main thread executes its own code only when no handler runs on top. *)
At(p, l) == pc[p] = l /\ hs[p] = "none"
GoTo(p, l) == pc' = [pc EXCEPT ![p] = l]

Fault(k) == k \in Faults /\ faults < MaxFaults /\ faults' = faults + 1
NoFault == faults' = faults

Init ==
  /\ pc = [p \in Proc |-> "off"] /\ cnt = [p \in Proc |-> 0]
  /\ ctype = [c \in Context |-> NoType]
  /\ file = [c \in Context |-> "absent"]
  /\ live = {} /\ inflight = {}
  /\ rv = [p \in Proc |-> 0]
  /\ sig = [p \in Proc |-> FALSE] /\ lock = [p \in Proc |-> FALSE]
  /\ hs = [p \in Proc |-> "none"]
  /\ lp = [a \in Actor |-> "idle"] /\ todo = [a \in Actor |-> {}]
  /\ cur = [a \in Actor |-> {}]
  /\ born = [p \in Proc |-> 0]
  /\ oprc = 0 /\ faults = 0
  /\ unsaved = {} /\ missed = {}

-----------------------------------------------------------------------------
(* The version store. *)

(* RollbackConfig.search_rollback_version_files: the pending files whose   *)
(* directory has one of these run uuids and whose name one of these types. *)
Search(uuids, types) ==
  {c \in Context : /\ file[c] = "pending"
                   /\ UuidOf[c[1]] \in uuids
                   /\ ctype[c] \in types}

(* Mutant: the run uuid is not compared. *)
SearchOwnAnyUuid(p) == Search(Uuid, {ctype[Ctx(p)]})

SearchOwn(p) == Search({UuidOf[p]}, {ctype[Ctx(p)]})

(* The files of one search are taken in the order of their timestamps,     *)
(* newest first.  The timestamp is a default of the Version dataclass,     *)
(* evaluated once per process, so it is the process that it dates.         *)
First(a) == {c \in todo[a] : \A d \in todo[a] : born[d[1]] <= born[c[1]]}

(* execute_rollback_version_files up to its loop. *)
EnterRollback(a, files) ==
  /\ lp' = [lp EXCEPT ![a] = "pick"]
  /\ todo' = [todo EXCEPT ![a] = files]
  /\ UNCHANGED cur

LeaveRollback(a) ==
  /\ lp' = [lp EXCEPT ![a] = "idle"]
  /\ todo' = [todo EXCEPT ![a] = {}]
  /\ cur' = [cur EXCEPT ![a] = {}]

-----------------------------------------------------------------------------
(* The process between scenarios. *)

Start(p) ==
  /\ pc[p] = "off"
  /\ GoTo(p, "idle")
  /\ born' = [born EXCEPT ![p] = 1 + Cardinality({q \in Proc : pc[q] # "off"})]
  /\ UNCHANGED <<cnt, ctype, file, cluster, rv, sig, handler, loop, oprc, logged, faults>>

(* run_scenarios enters signal_context for the next scenario: the context  *)
(* is set, then _register_signal_handler takes and releases the lock.      *)
Begin(p, t) ==
  /\ At(p, "idle") /\ cnt[p] < MaxRuns
  /\ GoTo(p, "enter")
  /\ cnt' = [cnt EXCEPT ![p] = @ + 1]
  /\ ctype' = [ctype EXCEPT ![<<p, cnt[p] + 1>>] = t]
  /\ sig' = [sig EXCEPT ![p] = TRUE]
  /\ UNCHANGED <<file, cluster, rv, handler, loop, born, oprc, logged, faults>>

TakeLock(p) ==
  /\ At(p, "enter")
  /\ GoTo(p, "install")
  /\ lock' = [lock EXCEPT ![p] = TRUE]
  /\ UNCHANGED <<cnt, ctype, file, cluster, rv, sig, hs, loop, born, oprc, logged, faults>>

Install(p) ==
  /\ At(p, "install")
  /\ GoTo(p, "register")
  /\ lock' = [lock EXCEPT ![p] = FALSE]
  /\ UNCHANGED <<cnt, ctype, file, cluster, rv, sig, hs, loop, born, oprc, logged, faults>>

Finish(p) ==
  /\ At(p, "idle")
  /\ GoTo(p, "done")
  /\ UNCHANGED <<cnt, ctype, file, cluster, rv, sig, handler, loop, born, oprc, logged, faults>>

(* The end of a scenario: the wait, the logs and the events, and           *)
(* cerberus.publish_kraken_status, which may exit the process.             *)
Settle(p) ==
  /\ At(p, "settle")
  /\ GoTo(p, "idle") \/ GoTo(p, "dead")
  /\ UNCHANGED <<cnt, ctype, file, cluster, rv, sig, handler, loop, born, oprc, logged, faults>>

-----------------------------------------------------------------------------
(* The plugin: register, create, hold, delete. *)

(* run() is over with this value; the signal context is still set. *)
Return(p, v) ==
  /\ GoTo(p, "leave")
  /\ rv' = [rv EXCEPT ![p] = v]
  /\ UNCHANGED <<cnt, ctype, sig, born>>

(* set_rollback_callable writes the version file; a failure to serialize   *)
(* it is only logged.                                                      *)
Register(p) ==
  /\ At(p, "register")
  /\ GoTo(p, "create")
  /\ \/ NoFault /\ file' = [file EXCEPT ![Ctx(p)] = "pending"] /\ UNCHANGED unsaved
     \/ Fault("disk") /\ unsaved' = unsaved \cup {Ctx(p)} /\ UNCHANGED file
  /\ UNCHANGED <<cnt, ctype, cluster, rv, sig, handler, loop, born, oprc, missed>>

(* The scenario file is not what the plugin expects. *)
Reject(p) ==
  /\ At(p, "register")
  /\ Return(p, 1)
  /\ UNCHANGED <<file, cluster, handler, loop, oprc, logged, faults>>

SendCreate(p) ==
  /\ At(p, "create")
  /\ GoTo(p, "creating")
  /\ inflight' = inflight \cup {Ctx(p)}
  /\ UNCHANGED <<cnt, ctype, file, live, rv, sig, handler, loop, born, oprc, logged, faults>>

CreateReturns(p) ==
  /\ At(p, "creating") /\ Ctx(p) \notin inflight
  /\ GoTo(p, "hold")
  /\ UNCHANGED <<cnt, ctype, file, cluster, rv, sig, handler, loop, born, oprc, logged, faults>>

(* The creation call raises: the server refused the request, or applied it *)
(* and the answer was lost; or the client gave up waiting for an answer.   *)
CreateRaises(p) ==
  /\ At(p, "creating")
  /\ \/ Fault("api") /\ inflight' = inflight \ {Ctx(p)}
     \/ Fault("timeout") /\ UNCHANGED inflight
  /\ Return(p, 1)
  /\ UNCHANGED <<file, live, handler, loop, oprc, logged>>

(* Mutant: a deletion that fails is logged and the run still returns 0. *)
DeleteUnchecked(p) ==
  /\ At(p, "hold")
  /\ \/ NoFault /\ live' = live \ {Ctx(p)}
     \/ Fault("api") /\ UNCHANGED live
  /\ Return(p, 0)
  /\ UNCHANGED <<file, inflight, handler, loop, oprc, logged>>

(* After the wait the plugin deletes what it created. *)
Delete(p) ==
  /\ At(p, "hold")
  /\ \/ NoFault /\ live' = live \ {Ctx(p)} /\ Return(p, 0)
     \/ (Fault("api") \/ (Ctx(p) \notin live /\ NoFault)) /\ UNCHANGED live /\ Return(p, 1)
  /\ UNCHANGED <<file, inflight, handler, loop, oprc, logged>>

(* The API server applies a request, or loses one nobody waits for. *)
Apply(c) ==
  /\ c \in inflight
  /\ inflight' = inflight \ {c}
  /\ live' = live \cup {c}
  /\ UNCHANGED <<main, file, handler, loop, oprc, logged, faults>>

Lose(c) ==
  /\ c \in inflight
  /\ ~(pc[c[1]] = "creating" /\ Ctx(c[1]) = c)
  /\ inflight' = inflight \ {c}
  /\ UNCHANGED <<main, file, live, handler, loop, oprc, logged, faults>>

-----------------------------------------------------------------------------
(* run_scenarios after run(). *)

(* Mutant: signal_context ends without clearing the context. *)
LeaveContextSet(p) ==
  /\ At(p, "leave")
  /\ GoTo(p, IF rv[p] = 0 THEN "cleanup" ELSE "rollback")
  /\ UNCHANGED <<cnt, ctype, file, cluster, rv, sig, handler, loop, born, oprc, logged, faults>>

(* signal_context ends: the context is cleared. *)
LeaveContext(p) ==
  /\ At(p, "leave")
  /\ GoTo(p, IF rv[p] = 0 THEN "cleanup" ELSE "rollback")
  /\ sig' = [sig EXCEPT ![p] = FALSE]
  /\ UNCHANGED <<cnt, ctype, file, cluster, rv, handler, loop, born, oprc, logged, faults>>

(* cleanup_rollback_version_files: one search, then one removal at a time. *)
Cleanup(p) ==
  /\ At(p, "cleanup")
  /\ GoTo(p, "removing")
  /\ todo' = [todo EXCEPT ![p] = SearchOwn(p)]
  /\ UNCHANGED <<cnt, ctype, file, cluster, rv, sig, handler, lp, cur, born, oprc, logged, faults>>

Remove(p) ==
  /\ At(p, "removing")
  /\ \E c \in First(p) :
       /\ file[c] = "pending"
       /\ file' = [file EXCEPT ![c] = "absent"]
       /\ todo' = [todo EXCEPT ![p] = @ \ {c}]
  /\ UNCHANGED <<main, cluster, handler, lp, cur, oprc, logged, faults>>

(* A removal that fails raises out of run_scenarios and ends the process. *)
RemoveRaises(p) ==
  /\ At(p, "removing") /\ todo[p] # {}
  /\ Fault("fs") \/ (\E c \in First(p) : file[c] # "pending" /\ NoFault)
  /\ GoTo(p, "dead")
  /\ todo' = [todo EXCEPT ![p] = {}]
  /\ UNCHANGED <<cnt, ctype, file, cluster, rv, sig, handler, lp, cur, born, oprc, logged>>

CleanupDone(p) ==
  /\ At(p, "removing") /\ todo[p] = {}
  /\ GoTo(p, "settle")
  /\ UNCHANGED <<cnt, ctype, file, cluster, rv, sig, handler, loop, born, oprc, logged, faults>>

(* Mutant: the test of kraken.auto_rollback is inverted. *)
RollbackFailedRunInverted(p) ==
  /\ At(p, "rollback") /\ lp[p] = "idle"
  /\ EnterRollback(p, IF AutoRollback[p] THEN {} ELSE SearchOwn(p))
  /\ UNCHANGED <<main, file, cluster, handler, oprc, logged, faults>>

(* execute_rollback_version_files after a failed run. *)
RollbackFailedRun(p) ==
  /\ At(p, "rollback") /\ lp[p] = "idle"
  /\ EnterRollback(p, IF AutoRollback[p] THEN SearchOwn(p) ELSE {})
  /\ UNCHANGED <<main, file, cluster, handler, oprc, logged, faults>>

-----------------------------------------------------------------------------
(* The signal handler.  A signal that finds the context incomplete or the  *)
(* lock held is dropped: nothing happens, and no action stands for it.     *)
Signal(p, s) ==
  /\ pc[p] \notin Gone /\ hs[p] = "none"
  /\ sig[p] /\ ~lock[p]
  /\ hs' = [hs EXCEPT ![p] = s]
  /\ lock' = [lock EXCEPT ![p] = TRUE]
  /\ EnterRollback(p, IF AutoRollback[p] THEN SearchOwn(p) ELSE {})
  /\ UNCHANGED <<main, file, cluster, oprc, logged, faults>>

(* Its finally clause. *)
EndHandler(p) ==
  /\ sig' = [sig EXCEPT ![p] = FALSE]
  /\ lock' = [lock EXCEPT ![p] = FALSE]
  /\ hs' = [hs EXCEPT ![p] = "none"]

(* execute-rollback.  The operator runs it when no krkn process is active. *)
Quiet == \A p \in Proc : pc[p] \in Gone

(* Mutant: an omitted run uuid is compared as if it were one. *)
OperatorBeginsNeedsUuid(uuids, types) ==
  /\ lp[Operator] = "idle" /\ Quiet
  /\ EnterRollback(Operator, IF uuids = Uuid THEN {} ELSE Search(uuids, types))
  /\ UNCHANGED <<main, file, cluster, handler, oprc, logged, faults>>

OperatorBegins(uuids, types) ==
  /\ lp[Operator] = "idle" /\ Quiet
  /\ EnterRollback(Operator, Search(uuids, types))
  /\ UNCHANGED <<main, file, cluster, handler, oprc, logged, faults>>

-----------------------------------------------------------------------------
(* The loop of execute_rollback_version_files, for all its callers. *)

(* Mutant: the file is marked executed although its callable was not run.  *)
UndoSkipped(a) ==
  /\ lp[a] = "pick"
  /\ \E c \in First(a) :
       /\ file[c] = "pending"
       /\ cur' = [cur EXCEPT ![a] = {c}]
  /\ lp' = [lp EXCEPT ![a] = "rename"]
  /\ UNCHANGED <<main, file, cluster, handler, todo, oprc, logged, faults>>

(* The callable runs: it deletes what the scenario created.  An error in   *)
(* the answer (also that there is nothing to delete, perhaps because the   *)
(* creation is still on its way) is logged, and the callable returns as if *)
(* it had succeeded.                                                       *)
Undo(a) ==
  /\ lp[a] = "pick"
  /\ \E c \in First(a) :
       /\ file[c] = "pending"
       /\ \/ NoFault /\ c \in live /\ live' = live \ {c} /\ UNCHANGED missed
          \/ /\ (c \notin live /\ NoFault) \/ Fault("api")
             /\ missed' = missed \cup {c} /\ UNCHANGED live
       /\ cur' = [cur EXCEPT ![a] = {c}]
  /\ lp' = [lp EXCEPT ![a] = "rename"]
  /\ UNCHANGED <<main, file, inflight, handler, todo, oprc, unsaved>>

Rename(a) ==
  /\ lp[a] = "rename"
  /\ \A c \in cur[a] : file[c] = "pending"
  /\ file' = [c \in Context |-> IF c \in cur[a] THEN "executed" ELSE file[c]]
  /\ todo' = [todo EXCEPT ![a] = @ \ cur[a]]
  /\ cur' = [cur EXCEPT ![a] = {}]
  /\ lp' = [lp EXCEPT ![a] = "pick"]
  /\ UNCHANGED <<main, cluster, handler, oprc, logged, faults>>

(* The callable or the rename raises: the exception leaves the loop and    *)
(* the rest of the files stays.  Most callables catch all they meet; those *)
(* of shut_down and zone_outage let an error outside of their loop over    *)
(* the nodes go, before they have started any.                             *)
LoopFails(a) ==
  \/ /\ lp[a] = "pick"
     /\ \E c \in First(a) :
          \/ file[c] # "pending" /\ NoFault
          \/ ctype[c] \in Raises /\ Fault("api")
  \/ /\ lp[a] = "rename"
     /\ Fault("fs") \/ (NoFault /\ \E c \in cur[a] : file[c] # "pending")

LoopEnds(a) == lp[a] = "pick" /\ todo[a] = {} /\ NoFault

(* Mutant: run_scenarios goes on after a rollback that failed. *)
RollbackDoneUnchecked(p) ==
  /\ At(p, "rollback")
  /\ (LoopEnds(p) \/ LoopFails(p)) /\ GoTo(p, "settle")
  /\ LeaveRollback(p)
  /\ UNCHANGED <<cnt, ctype, file, cluster, rv, sig, handler, born, oprc, logged>>

(* Back in run_scenarios; an exception goes through it and ends krkn. *)
RollbackDone(p) ==
  /\ At(p, "rollback")
  /\ \/ LoopEnds(p) /\ GoTo(p, "settle")
     \/ LoopFails(p) /\ GoTo(p, "dead")
  /\ LeaveRollback(p)
  /\ UNCHANGED <<cnt, ctype, file, cluster, rv, sig, handler, born, oprc, logged>>

(* Mutant: the handler returns without calling the original handler. *)
HandlerDoneReturns(p) ==
  /\ hs[p] # "none"
  /\ \/ LoopEnds(p) /\ UNCHANGED <<pc, rv>>
     \/ LoopFails(p) /\ GoTo(p, "leave") /\ rv' = [rv EXCEPT ![p] = 1]
  /\ EndHandler(p)
  /\ LeaveRollback(p)
  /\ UNCHANGED <<cnt, ctype, file, cluster, born, oprc, logged>>

(* Back in the signal handler, which calls the handler the signal had.  An *)
(* exception is raised in the interrupted frame instead: run() catches it  *)
(* and returns 1, unless run() was not called yet or had returned.         *)
HandlerDone(p) ==
  /\ hs[p] # "none"
  /\ \/ LoopEnds(p) /\ hs[p] \in {"INT", "TERM"} /\ GoTo(p, "dead") /\ UNCHANGED rv
     \/ LoopEnds(p) /\ hs[p] = "HUP" /\ UNCHANGED <<pc, rv>>
     \/ LoopFails(p) /\ pc[p] # "enter" /\ GoTo(p, "leave") /\ rv' = [rv EXCEPT ![p] = 1]
     \/ LoopFails(p) /\ pc[p] \in {"enter", "leave"} /\ GoTo(p, "dead") /\ UNCHANGED rv
  /\ EndHandler(p)
  /\ LeaveRollback(p)
  /\ UNCHANGED <<cnt, ctype, file, cluster, born, oprc, logged>>

OperatorDone ==
  /\ \/ LoopEnds(Operator) /\ oprc' = 0
     \/ LoopFails(Operator) /\ oprc' = 1
  /\ LeaveRollback(Operator)
  /\ UNCHANGED <<main, file, cluster, handler, logged>>

-----------------------------------------------------------------------------
(* The process is killed; its version files and its changes stay. *)
Crash(p) ==
  /\ pc[p] \notin Gone
  /\ GoTo(p, "dead")
  /\ sig' = [sig EXCEPT ![p] = FALSE]
  /\ lock' = [lock EXCEPT ![p] = FALSE]
  /\ hs' = [hs EXCEPT ![p] = "none"]
  /\ LeaveRollback(p)
  /\ UNCHANGED <<cnt, ctype, file, cluster, rv, born, oprc, logged, faults>>

Step(p) ==
  \/ TakeLock(p) \/ Install(p) \/ Settle(p)
  \/ Register(p) \/ Reject(p) \/ SendCreate(p) \/ CreateReturns(p)
  \/ CreateRaises(p) \/ Delete(p)
  \/ LeaveContext(p) \/ Cleanup(p) \/ Remove(p) \/ RemoveRaises(p)
  \/ CleanupDone(p) \/ RollbackFailedRun(p)
  \/ RollbackDone(p) \/ HandlerDone(p)

NextScenario(p) == Finish(p) \/ \E t \in Type : Begin(p, t)

LoopStep(a) == Undo(a) \/ Rename(a)

Server(c) == Apply(c) \/ Lose(c)

OperatorFilters ==
  {<<us, ts>> : us \in {{u} : u \in Uuid} \cup {Uuid}, ts \in {{t} : t \in Type} \cup {Type}}

Next ==
  \/ \E p \in Proc : \/ Start(p) \/ NextScenario(p) \/ Step(p) \/ Crash(p)
                     \/ \E s \in Signals : Signal(p, s)
  \/ \E a \in Actor : LoopStep(a)
  \/ \E c \in Context : Server(c)
  \/ \E f \in OperatorFilters : OperatorBegins(f[1], f[2])
  \/ OperatorDone

Spec == Init /\ [][Next]_vars

-----------------------------------------------------------------------------
(* Properties. *)

FileStatus == {"absent", "pending", "executed"}
MainLabels == Gone \cup Body \cup
  {"idle", "enter", "install", "leave", "cleanup", "removing", "rollback", "settle"}

TypeOK ==
  /\ pc \in [Proc -> MainLabels]
  /\ cnt \in [Proc -> 0..MaxRuns]
  /\ ctype \in [Context -> Type \cup {NoType}]
  /\ file \in [Context -> FileStatus]
  /\ live \subseteq Context /\ inflight \subseteq Context
  /\ rv \in [Proc -> {0, 1}]
  /\ sig \in [Proc -> BOOLEAN] /\ lock \in [Proc -> BOOLEAN]
  /\ hs \in [Proc -> Signals \cup {"none"}]
  /\ lp \in [Actor -> {"idle", "pick", "rename"}]
  /\ todo \in [Actor -> SUBSET Context] /\ cur \in [Actor -> SUBSET Context]
  /\ born \in [Proc -> Nat]
  /\ oprc \in {0, 1} /\ faults \in Nat
  /\ unsaved \subseteq Context /\ missed \subseteq Context

(* The changes a scenario made, or may still make, to the cluster. *)
Changes == live \cup inflight

(* A later scenario of the same process and type has begun: its cleanup    *)
(* removes the file of c too.                                              *)
Superseded(c) == \E n \in (c[2] + 1)..cnt[c[1]] : ctype[<<c[1], n>>] = ctype[c]

(* What the log alone tells of c: the version file could not be written,   *)
(* or the callable ran and was answered with an error.                     *)
Logged(c) == c \in unsaved \cup missed

(* A change that is (or is about to be) in the cluster has a pending       *)
(* version file that undoes it, or the log says why it has none.           *)
AllRecorded == \A c \in Changes : file[c] = "pending" \/ Logged(c)

GivenUp(c) == Logged(c) \/ (~AutoRollback[c[1]] /\ Superseded(c))

(* A crash at any step, a signal that is handled or ignored, a request     *)
(* that is late or a rollback that stops half way: nothing is in the       *)
(* cluster, or on its way there, that execute-rollback cannot find, unless *)
(* the log says so or, without automatic rollback, a later scenario of the *)
(* type has taken the file.                                                *)
Coverage ==
  \A c \in Changes : file[c] = "pending" \/ GivenUp(c)

(* cleanup_rollback_version_files removes every pending file of the run    *)
(* uuid and type, earlier scenarios' files included: with automatic        *)
(* rollback none of them belongs to a change that is still in the cluster. *)
CleanupSafe ==
  [][\A c \in Context : AutoRollback[c[1]] /\ file[c] = "pending" /\ file'[c] = "absent"
                           => c \notin Changes]_vars

(* The handler never runs a rollback on top of the main thread's own       *)
(* rollback or cleanup: no version file is run twice at the same time.     *)
OneRollbackAtATime ==
  \A p \in Proc : hs[p] # "none" => pc[p] \in Body \cup {"enter", "leave"}

(* A process takes away only version files of its own run uuid and of the  *)
(* scenario type it is running; everything else waits for the operator.    *)
ForeignFilesUntouched ==
  [][\A c \in Context : file[c] = "pending" /\ file'[c] # "pending" =>
       \/ lp[Operator] = "rename"
       \/ \E p \in Proc : /\ pc[p] = "removing" \/ lp[p] = "rename"
                          /\ UuidOf[p] = UuidOf[c[1]]
                          /\ ctype[Ctx(p)] = ctype[c]]_vars

(* The version store and the cluster keep the contract of                  *)
(* RollbackContract, a record being a pending version file.  The contract  *)
(* gives up a change whose file or whose undo failed, and, without         *)
(* automatic rollback, one that a later scenario supersedes.               *)
Contract ==
  INSTANCE RollbackContract WITH
    Change <- Context, live <- live, asked <- inflight,
    recoverable <- {c \in Context : file[c] = "pending"},
    waived <- {c \in Context : GivenUp(c)}

ContractKept == Contract!CSpec

(* A file renamed .executed means that its change is gone. *)
ExecutedMeansUndone == \A c \in Changes : file[c] # "executed"

(* A rollback takes the files of one process newest first. *)
NewestFirst ==
  [][\A a \in Actor : \A c \in cur'[a] \ cur[a], d \in todo[a] :
       d[1] = c[1] => d[2] <= c[2]]_vars

-----------------------------------------------------------------------------
(* Liveness.  The main thread, the loops and the API server go on by       *)
(* themselves; the operator sooner or later asks for everything.  Nothing  *)
(* is assumed of starts, signals, crashes or faults.                       *)
Fairness ==
  /\ \A p \in Proc : WF_vars(Step(p)) /\ WF_vars(NextScenario(p))
  /\ \A a \in Actor : WF_vars(LoopStep(a))
  /\ \A c \in Context : WF_vars(Server(c))
  /\ WF_vars(OperatorDone)
  /\ SF_vars(OperatorBegins(Uuid, Type))

FairSpec == Spec /\ Fairness

(* A run that failed is undone, or the log says that it is not, or its     *)
(* process ends (and the operator has the file).                           *)
FailedRunUndone ==
  \A c \in Context :
    (pc[c[1]] = "rollback" /\ Ctx(c[1]) = c)
      ~> (c \notin Changes \/ Logged(c) \/ pc[c[1]] = "dead")

(* When no process is active any more, execute-rollback empties the        *)
(* cluster of everything krkn left in it, but for what the log reports.    *)
OperatorRecovers == <>[]Quiet => <>[](live \subseteq unsaved \cup missed)

(* An interrupt or a termination signal that starts a rollback ends the    *)
(* process after it, once nothing fails any more: a rollback that raises   *)
(* in the handler loses the signal, and the run goes on.                   *)
SignalStops ==
  \A p \in Proc :
    (hs[p] \in {"INT", "TERM"} /\ faults = MaxFaults) ~> pc[p] = "dead"

-----------------------------------------------------------------------------
(* The inductive invariant behind Coverage.  It holds when every process   *)
(* has a run uuid of its own, with or without automatic rollback.          *)
CoverageAssumption == \A p, q \in Proc : UuidOf[p] = UuidOf[q] => p = q

(* A process in the middle of a scenario has begun one. *)
Begun == \A p \in Proc : pc[p] \notin Gone \cup {"idle"} => cnt[p] > 0

(* Where a handler may be, and where a loop may run. *)
Frames ==
  \A p \in Proc :
    /\ sig[p] => pc[p] \in Body \cup {"enter", "install", "leave"}
    /\ pc[p] = "install" => lock[p]
    /\ hs[p] # "none" => pc[p] \in Body \cup {"enter", "leave"}
    /\ lp[p] # "idle" => hs[p] # "none" \/ pc[p] = "rollback"
    /\ pc[p] = "off" => cnt[p] = 0

(* The loop renames the file whose callable it has just run, and no other. *)
OneInHand == \A a \in Actor : \A c, d \in cur[a] : c = d

(* The plugin of context c has not asked for its change yet. *)
Ahead(c) ==
  \/ c[2] > cnt[c[1]]
  \/ c = Ctx(c[1]) /\ pc[c[1]] \in {"enter", "install", "register", "create"}

(* A change is asked for once; it is not in the cluster while it is asked. *)
AskedOnce ==
  /\ \A c \in Context : Ahead(c) => c \notin Changes
  /\ live \cap inflight = {}

(* The current scenario: what its position in the code says of its change. *)
Current ==
  \A p \in Proc :
    /\ pc[p] = "create" => file[Ctx(p)] = "pending" \/ Logged(Ctx(p))
    /\ pc[p] = "hold" => Ctx(p) \notin inflight
    /\ pc[p] = "leave" /\ rv[p] = 0 => Ctx(p) \notin Changes
    /\ pc[p] \in {"cleanup", "removing"} => Ctx(p) \notin Changes

(* A callable has run without an error only when the change is gone for    *)
(* good.                                                                   *)
UndoneInHand ==
  \A a \in Actor : \A c \in cur[a] : c \in missed \/ (c \notin Changes /\ ~Ahead(c))

CoverageInv ==
  /\ TypeOK /\ Begun /\ Frames /\ OneInHand
  /\ AskedOnce /\ Current /\ UndoneInHand /\ Coverage

=============================================================================
