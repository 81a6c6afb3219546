------------------------------ MODULE KrknRun ------------------------------
(***************************************************************************)
(* A run of krkn: run_kraken.main from the signal server to the exit code. *)
(*                                                                         *)
(* The main thread waits for the triggers, starts the health checks, runs  *)
(* the scenarios of every iteration, stops and joins the health checks and *)
(* computes the exit code.  Beside it run the signal server (server.py),   *)
(* to which an operator posts RUN, PAUSE and STOP, and the health check    *)
(* threads (HealthChecks).  The threads are not daemons: the process ends  *)
(* when the main thread and all of them have ended.                        *)
(*                                                                         *)
(* What a scenario does is the matter of ScenarioRollback; here it         *)
(* succeeds, fails, or ends the process (sys.exit, an uncaught exception). *)
(***************************************************************************)
EXTENDS HealthChecks

CONSTANTS
  Scenarios, \* number of entries of chaos_scenarios
  Missing,   \* the entries whose type no plugin has
  Configs,   \* the configurations considered
  MaxPosts   \* bound: requests the operator posts to the signal server

(* publish: publish_kraken_status; signal: signal_state; alerts:           *)
(* check_critical_alerts; profile: "off", or enable_alerts with the alert  *)
(* profile "missing" or "set"; triggers: on_timeout, or "none" without     *)
(* triggers; raises: a step of the loop may raise or exit.                 *)
Configuration ==
  [publish : BOOLEAN, signal : {"RUN", "PAUSE", "STOP"}, alerts : BOOLEAN,
   profile : {"off", "missing", "set"},
   triggers : {"none", "skip", "fail", "run_anyway", "invalid"}, raises : BOOLEAN]

ASSUME RunAssumption ==
  /\ Scenarios \in Nat /\ Missing \subseteq 1..Scenarios
  /\ Configs \subseteq Configuration /\ MaxPosts \in Nat

VARIABLES
  cfg,     \* the configuration of this run
  mpc,     \* where the main thread is
  server,  \* server_status, "none" before the server is started
  sent,    \* requests posted so far
  signal,  \* run_signal
  chaos,   \* chaos_scenarios is not empty
  iter,    \* iteration (not counted in daemon mode)
  idx,     \* the entry of chaos_scenarios being treated
  failed,  \* failed_post_scenarios is not empty
  summary, \* post_chaos_alerts of the summary is not empty
  critical, \* post_critical_alerts > 0
  profile, \* profile_critical_alerts is not empty
  rc,      \* the exit code
  seen,    \* history: "failed", "alert" when a scenario or a check said so
  begun    \* history: scenarios begun since STOP was the last request

rvars == <<cfg, mpc, server, sent, signal, chaos, iter, idx, failed, summary,
           critical, profile, rc, seen, begun>>
vars == <<rvars, hvars>>

Init ==
  /\ HealthInit
  /\ cfg \in Configs /\ mpc = "boot"
  /\ server = "none" /\ sent = 0 /\ signal = cfg.signal
  /\ chaos \in {c \in BOOLEAN : c => Scenarios > 0}  \* a historical window empties it
  /\ iter = 0 /\ idx = 1
  /\ failed = FALSE /\ summary = FALSE /\ critical = FALSE /\ profile = FALSE
  /\ rc = 0 /\ seen = {} /\ begun = 0

Main(from, to) == mpc = from /\ mpc' = to

-----------------------------------------------------------------------------
(* The signal server. *)

(* Before the server is published the address cannot be reached; while     *)
(* the main thread is in start_server the request is already served.       *)
Serving == cfg.publish /\ mpc \notin {"boot", "exited"}

Post(s) ==
  /\ Serving /\ sent < MaxPosts
  /\ server' = s /\ sent' = sent + 1
  /\ begun' = 0
  /\ UNCHANGED <<cfg, mpc, signal, chaos, iter, idx, failed, summary, critical,
                 profile, rc, seen, hvars>>

-----------------------------------------------------------------------------
(* Before the loop. *)

(* start_server starts the server's thread, then publishes signal_state.   *)
StartServer ==
  /\ Main("boot", IF cfg.publish THEN "publish" ELSE "triggers")
  /\ UNCHANGED <<cfg, server, sent, signal, chaos, iter, idx, failed, summary,
                 critical, profile, rc, seen, begun, hvars>>

Publish ==
  /\ Main("publish", "triggers")
  /\ server' = signal /\ begun' = 0
  /\ UNCHANGED <<cfg, sent, signal, chaos, iter, idx, failed, summary, critical,
                 profile, rc, seen, hvars>>

(* wait_for_triggers is satisfied (or there is none), or times out and     *)
(* on_timeout decides; an invalid configuration returns 1.                 *)
Triggers ==
  /\ mpc = "triggers"
  /\ \/ /\ cfg.triggers # "invalid"
        /\ mpc' = "checks" /\ UNCHANGED <<chaos, rc>>
     \/ /\ cfg.triggers = "skip"
        /\ mpc' = "checks" /\ chaos' = FALSE /\ UNCHANGED rc
     \/ /\ cfg.triggers \in {"fail", "invalid"}
        /\ mpc' = "exited" /\ rc' = 1 /\ UNCHANGED chaos
  /\ UNCHANGED <<cfg, server, sent, signal, iter, idx, failed, summary,
                 critical, profile, seen, begun, hvars>>

StartChecks ==
  /\ Main("checks", "while")
  /\ StartAll
  /\ UNCHANGED <<cfg, server, sent, signal, chaos, iter, idx, failed, summary,
                 critical, profile, rc, seen, begun>>

-----------------------------------------------------------------------------
(* The loop. *)

While ==
  /\ mpc = "while"
  /\ mpc' = IF ~(endless \/ iter < Iterations) \/ signal = "STOP" THEN "stop"
            ELSE IF chaos THEN "for" ELSE "next"
  /\ idx' = 1
  /\ UNCHANGED <<cfg, server, sent, signal, chaos, iter, failed, summary,
                 critical, profile, rc, seen, begun, hvars>>

(* Mutant: the server is asked once per iteration. *)
AskOnce ==
  /\ mpc = "for" /\ idx <= Scenarios
  /\ signal' = IF cfg.publish /\ idx = 1 THEN server ELSE signal
  /\ mpc' = IF signal' = "PAUSE" /\ cfg.publish THEN "paused"
            ELSE IF signal' = "STOP" THEN "next" ELSE "begin"
  /\ UNCHANGED <<cfg, server, sent, chaos, iter, idx, failed, summary, critical,
                 profile, rc, seen, begun, hvars>>

(* Before every entry the server is asked for the signal. *)
Ask ==
  /\ mpc = "for" /\ idx <= Scenarios
  /\ signal' = IF cfg.publish THEN server ELSE signal
  /\ mpc' = IF signal' = "PAUSE" /\ cfg.publish THEN "paused"
            ELSE IF signal' = "STOP" THEN "next" ELSE "begin"
  /\ UNCHANGED <<cfg, server, sent, chaos, iter, idx, failed, summary, critical,
                 profile, rc, seen, begun, hvars>>

AskAgain ==
  /\ mpc = "paused"
  /\ signal' = server
  /\ mpc' = CASE server = "PAUSE" -> "paused" [] server = "STOP" -> "next"
              [] OTHER -> "begin"
  /\ UNCHANGED <<cfg, server, sent, chaos, iter, idx, failed, summary, critical,
                 profile, rc, seen, begun, hvars>>

NoMoreEntries ==
  /\ idx > Scenarios /\ Main("for", "next")
  /\ UNCHANGED <<cfg, server, sent, signal, chaos, iter, idx, failed, summary,
                 critical, profile, rc, seen, begun, hvars>>

(* An entry with no scenario files is passed over; a type no plugin has    *)
(* ends the process with sys.exit(-1).                                     *)
Begin ==
  /\ mpc = "begin"
  /\ \/ mpc' = "for" /\ idx' = idx + 1 /\ UNCHANGED <<rc, begun>>
     \/ idx \notin Missing /\ mpc' = "run" /\ UNCHANGED <<idx, rc>>
        /\ begun' = IF server = "STOP" THEN begun + 1 ELSE begun
     \/ idx \in Missing /\ mpc' = "exited" /\ rc' = 255 /\ UNCHANGED <<idx, begun>>
  /\ UNCHANGED <<cfg, server, sent, signal, chaos, iter, failed, summary,
                 critical, profile, seen, hvars>>

Ran ==
  /\ Main("run", "alerts")
  /\ \/ UNCHANGED <<failed, seen>>
     \/ failed' = TRUE /\ seen' = seen \cup {"failed"}
  /\ UNCHANGED <<cfg, server, sent, signal, chaos, iter, idx, summary, critical,
                 profile, rc, begun, hvars>>

(* Mutant: every check starts a summary of its own. *)
CheckAlertsAnew(new) ==
  /\ mpc = "alerts"
  /\ summary' = (cfg.alerts /\ new)
  /\ critical' = (cfg.alerts /\ summary')
  /\ seen' = IF cfg.alerts /\ new THEN seen \cup {"alert"} ELSE seen
  /\ IF critical' THEN mpc' = "next" /\ UNCHANGED idx ELSE mpc' = "for" /\ idx' = idx + 1
  /\ UNCHANGED <<cfg, server, sent, signal, chaos, iter, failed, profile, rc,
                 begun, hvars>>

(* critical_alerts adds the alerts that fire to the summary of the run,    *)
(* and the whole summary is counted.  Any leaves the iteration, not the    *)
(* loop.                                                                   *)
CheckAlerts(new) ==
  /\ mpc = "alerts"
  /\ summary' = (summary \/ (cfg.alerts /\ new))
  /\ critical' = (cfg.alerts /\ summary')
  /\ seen' = IF cfg.alerts /\ new THEN seen \cup {"alert"} ELSE seen
  /\ IF critical' THEN mpc' = "next" /\ UNCHANGED idx ELSE mpc' = "for" /\ idx' = idx + 1
  /\ UNCHANGED <<cfg, server, sent, signal, chaos, iter, failed, profile, rc,
                 begun, hvars>>

NextIteration ==
  /\ Main("next", "while")
  /\ iter' = IF endless THEN iter ELSE iter + 1
  /\ IncrementAll
  /\ UNCHANGED <<cfg, server, sent, signal, chaos, idx, failed, summary, critical,
                 profile, rc, seen, begun>>

(* cerberus.publish_kraken_status exits, the rollback of a failed scenario *)
(* raises, Prometheus or the signal server does not answer, or the user    *)
(* interrupts: nothing below the loop is executed.                         *)
Raise ==
  /\ cfg.raises /\ mpc \in {"for", "paused", "run", "alerts"}
  /\ mpc' = "exited" /\ rc' = 1
  /\ UNCHANGED <<cfg, server, sent, signal, chaos, iter, idx, failed, summary,
                 critical, profile, seen, begun, hvars>>

-----------------------------------------------------------------------------
(* After the loop. *)

StopChecks ==
  /\ Main("stop", "join_http")
  /\ StopAll
  /\ UNCHANGED <<cfg, server, sent, signal, chaos, iter, idx, failed, summary,
                 critical, profile, rc, seen, begun>>

(* Mutant: the telemetry of the http thread is read without joining it. *)
JoinHttpEarly ==
  /\ Main("join_http", "join_virt")
  /\ UNCHANGED <<cfg, server, sent, signal, chaos, iter, idx, failed, summary,
                 critical, profile, rc, seen, begun, hvars>>

JoinHttp ==
  /\ HttpJoined /\ Main("join_http", "join_virt")
  /\ UNCHANGED <<cfg, server, sent, signal, chaos, iter, idx, failed, summary,
                 critical, profile, rc, seen, begun, hvars>>

JoinVirt ==
  /\ VirtJoined /\ Main("join_virt", "gather")
  /\ StartPostChecks
  /\ UNCHANGED <<cfg, server, sent, signal, chaos, iter, idx, failed, summary,
                 critical, profile, rc, seen, begun>>

Gather(b) ==
  /\ mpc = "gather"
  /\ JoinPostCheck(b)
  /\ UNCHANGED rvars

(* The alert profile, after the run: without one main returns -1, and one  *)
(* that does not exist is a sys.exit(1).                                   *)
AlertProfile ==
  /\ mpc = "gather" /\ joined = target.vms
  /\ \/ cfg.profile # "missing" /\ mpc' = "code" /\ UNCHANGED <<profile, rc>>
     \/ cfg.profile = "set" /\ mpc' = "code" /\ profile' = TRUE /\ UNCHANGED rc
     \/ cfg.profile = "missing" /\ mpc' = "exited" /\ rc' \in {1, 255} /\ UNCHANGED profile
  /\ UNCHANGED <<cfg, server, sent, signal, chaos, iter, idx, failed, summary,
                 critical, seen, begun, hvars>>

(* The exit code, in the order of the code. *)
ExitCode ==
  CASE failed -> 1
    [] ~failed /\ ret # 0 -> ret
    [] ~failed /\ ret = 0 /\ VirtReturn # 0 -> VirtReturn
    [] OTHER -> IF critical \/ profile THEN 2 ELSE 0

Return ==
  /\ Main("code", "exited")
  /\ rc' = ExitCode
  /\ UNCHANGED <<cfg, server, sent, signal, chaos, iter, idx, failed, summary,
                 critical, profile, seen, begun, hvars>>

-----------------------------------------------------------------------------
MainStep ==
  \/ StartServer \/ Publish \/ Triggers \/ StartChecks
  \/ While \/ Ask \/ AskAgain \/ NoMoreEntries \/ Begin \/ Ran
  \/ \E new \in BOOLEAN : CheckAlerts(new)
  \/ NextIteration \/ StopChecks \/ JoinHttp \/ JoinVirt
  \/ \E b \in Batch : Gather(b)
  \/ AlertProfile \/ Return

WorkerStep == Worker /\ UNCHANGED rvars

Operate == \E s \in {"RUN", "PAUSE", "STOP"} : Post(s)

Gone == mpc = "exited" /\ hpc \in {"off", "done"} /\ \A b \in Batch : vpc[b] \in {"off", "done"}

(* The process is gone; nothing happens any more. *)
Terminated == Gone /\ UNCHANGED vars

Next == MainStep \/ Raise \/ WorkerStep \/ Operate \/ Terminated

Spec == Init /\ [][Next]_vars

-----------------------------------------------------------------------------
(* Properties. *)

RunTypeOK ==
  /\ cfg \in Configs
  /\ mpc \in {"boot", "publish", "triggers", "checks", "while", "for", "paused", "begin",
              "run", "alerts", "next", "stop", "join_http", "join_virt", "gather",
              "code", "exited"}
  /\ server \in {"none", "RUN", "PAUSE", "STOP"} /\ signal \in {"RUN", "PAUSE", "STOP"}
  /\ sent \in 0..MaxPosts /\ chaos \in BOOLEAN
  /\ iter \in 0..Iterations /\ idx \in 1..(Scenarios + 1)
  /\ failed \in BOOLEAN /\ summary \in BOOLEAN /\ critical \in BOOLEAN
  /\ profile \in BOOLEAN /\ rc \in {0, 1, 2, 3, 255}
  /\ seen \subseteq {"failed", "alert"} /\ begun \in Nat

(* The signal server: not asked unless it is published, and the STOP of an *)
(* operator is not yet known to the main thread at most until its next     *)
(* question.                                                               *)
SignalInv ==
  /\ ~cfg.publish => server = "none" /\ mpc \notin {"publish", "paused"}
  /\ cfg.publish /\ mpc \notin {"boot", "publish"} => server # "none"
  /\ server # "STOP" \/ mpc = "begin" => begun = 0
  /\ begun \in {0, 1}

(* In the body of a loop its condition held. *)
LoopInv ==
  /\ mpc \in {"for", "paused", "begin", "run", "alerts", "next"} => endless \/ iter < Iterations
  /\ mpc \in {"paused", "begin", "run", "alerts"} => idx <= Scenarios

(* What was seen to go wrong is still known. *)
VerdictInv ==
  /\ "failed" \in seen => failed
  /\ "alert" \in seen => summary
  /\ summary = critical /\ (summary => cfg.alerts)

(* Which threads have ended, by where the main thread is. *)
ThreadsInv ==
  /\ mpc \in {"join_virt", "gather", "code"} => HttpJoined
  /\ mpc \in {"gather", "code"} => VirtJoined
  /\ mpc \notin {"gather", "code", "exited"} => \A b \in Batch : post[b] = "off"
  /\ mpc = "code" => joined = target.vms

(* An exit code 0 was computed from everything. *)
ExitInv ==
  /\ mpc # "exited" => rc = 0
  /\ mpc = "exited" /\ rc = 0 =>
       /\ HttpJoined /\ joined = target.vms
       /\ ~failed /\ ~critical /\ ~profile /\ ret = 0 /\ VirtReturn = 0

(* The inductive invariant: that of the health check threads, and the      *)
(* relations above.                                                        *)
MainInv == RunTypeOK /\ SignalInv /\ LoopInv /\ VerdictInv /\ ThreadsInv /\ ExitInv
RunInv == HealthInv /\ MainInv

(* Exit code 0 means that nothing went wrong at any time of the run: no    *)
(* scenario of any iteration failed, no check after any scenario found a   *)
(* critical alert, no URL with exit_on_failure failed twice in a row, and  *)
(* with exit_on_failure no machine failed its post check.                  *)
SuccessIsClean ==
  mpc = "exited" /\ rc = 0 =>
    /\ seen = {} /\ ~profile
    /\ \A u \in ExitOn, c, d \in Code \ {OK} : <<u, c, d>> \notin pairs
    /\ VirtExit => sick = {}

(* After the operator's STOP at most one more entry of chaos_scenarios     *)
(* begins, the one whose turn was checked before the STOP.                 *)
StopBound == begun <= 1

(* The exit code is computed when no thread can change its inputs any      *)
(* more: every health check thread has ended, and a machine whose post     *)
(* check failed is among those collected.                                  *)
CodeIsFinal ==
  mpc = "code" => /\ HttpJoined /\ VirtJoined
                  /\ \A b \in target.vms : post[b] = "done"
                  /\ found = sick

-----------------------------------------------------------------------------
(* Liveness.  Threads and servers run; the operator does what it likes.    *)
Fairness ==
  /\ WF_vars(MainStep)
  /\ WF_vars(HttpTop /\ UNCHANGED rvars) /\ WF_vars(HttpSleep /\ UNCHANGED rvars)
  /\ \A u \in Url : WF_vars((\E c \in Code : HttpPoll(u, c)) /\ UNCHANGED rvars)
  /\ \A b \in Batch :
       /\ WF_vars(VirtTop(b) /\ UNCHANGED rvars)
       /\ WF_vars((\E s \in Status : VirtCheck(b, s)) /\ UNCHANGED rvars)
       /\ WF_vars((\E s \in Status : PostCheck(b, s)) /\ UNCHANGED rvars)

FairSpec == Spec /\ Fairness

(* A run whose loop is bounded, or whose loop the operator stops for good, *)
(* ends, and the process with it.  It must not be left in PAUSE; and an    *)
(* endless run without scenarios never asks for the signal.                *)
RunEnds ==
  /\ <>[](server # "PAUSE")
  /\ endless => [](chaos) /\ <>[](server = "STOP")
  => <>Gone

(* "exiting" means that the process ends: when the main thread is gone, so *)
(* are the health check threads, eventually.  The code stops them only on  *)
(* the way through the end of main, not when the loop raises or exits.     *)
ExitEnds == mpc = "exited" ~> Gone

=============================================================================
