---------------------------- MODULE HealthChecks ----------------------------
(***************************************************************************)
(* The health check plugins of a krkn run, beside the main thread.         *)
(*                                                                         *)
(* HttpHealthCheckPlugin has one worker thread, which polls every          *)
(* configured URL in rounds.  VirtHealthCheckPlugin has one worker thread  *)
(* per batch of virtual machines, and after the run one more thread per    *)
(* batch for the post check.  The main thread starts them, increments      *)
(* their iteration counters, sets their stop events, joins them and reads  *)
(* their queues; the operators it does that with are defined here and used *)
(* by KrknRun.                                                             *)
(*                                                                         *)
(* A batch stands for one virtual machine, and the status of a machine for *)
(* the pair of its SSH and readiness checks; timestamps are left out.      *)
(***************************************************************************)
EXTENDS Naturals, FiniteSets, Sequences

CONSTANTS
  Url,        \* the URLs of the health_checks section
  ExitOn,     \* those with exit_on_failure
  Code,       \* the HTTP status codes an answer may have
  OK,         \* the code 200
  None,       \* no code, no status
  Batch,      \* batches of virtual machines
  Status,     \* what the two checks of a machine may find
  Healthy,    \* the status of a machine that passes both
  VirtExit,   \* exit_on_failure of the kubevirt_checks section
  OnlyFailures, \* only_failures of the kubevirt_checks section
  Iterations, \* tunings.iterations
  Targets     \* what there may be to check: records of urls and vms

ASSUME HealthAssumption ==
  /\ ExitOn \subseteq Url
  /\ OK \in Code /\ Healthy \in Status
  /\ None \notin Code \cup Status
  /\ VirtExit \in BOOLEAN /\ OnlyFailures \in BOOLEAN
  /\ Iterations \in Nat
  /\ IsFiniteSet(Batch)
  /\ Targets \subseteq [urls : SUBSET Url, vms : SUBSET Batch]

VARIABLES
  target,   \* the URLs configured, the batches of machines the cluster has
  endless,  \* iterations is infinity (daemon mode)
  current,  \* current_iterations of the plugins
  stopping, \* the stop events are set
  hpc,      \* where the http thread is: "off", "top", "poll", "done"
  left,     \* URLs still to poll in this round
  tracker,  \* health_check_tracker: the code a URL is tracked with
  httpLog,  \* <<url, code>> of the periods in health_check_telemetry
  ret,      \* ret_value of the http plugin
  vpc,      \* where the virt thread of each batch is: "off", "top", "check", "done"
  vtracker, \* vm_tracker: the status a machine is tracked with
  virtLog,  \* <<batch, status>> of the periods recorded
  post,     \* the post check threads: "off", "run", "done"
  postQ,    \* post_kubevirt_check_queue: sets of unhealthy batches
  joined,   \* post check threads the main thread has joined
  found,    \* unhealthy machines the main thread has collected
  prev,     \* history: the last code polled of each URL
  pairs,    \* history: <<url, code, code>> of consecutive polls
  ill,      \* history: <<batch, status>> of the failures the virt threads saw
  sick      \* history: the batches whose post check failed

http == <<hpc, left, tracker, httpLog, ret, prev, pairs>>
virt == <<vpc, vtracker, virtLog, ill>>
posts == <<post, postQ, joined, found, sick>>
shared == <<target, endless, current, stopping>>
hvars == <<http, virt, posts, shared>>

HealthInit ==
  /\ target \in Targets
  /\ endless \in BOOLEAN /\ current = 0 /\ stopping = FALSE
  /\ hpc = "off" /\ left = {} /\ tracker = [u \in Url |-> None]
  /\ httpLog = {} /\ ret = 0
  /\ vpc = [b \in Batch |-> "off"] /\ vtracker = [b \in Batch |-> None]
  /\ virtLog = {}
  /\ post = [b \in Batch |-> "off"] /\ postQ = <<>> /\ joined = {} /\ found = {}
  /\ prev = [u \in Url |-> None] /\ pairs = {} /\ ill = {} /\ sick = {}

(* The loop condition of every plugin. *)
GoesOn == (endless \/ current < Iterations) /\ ~stopping

-----------------------------------------------------------------------------
(* The http thread. *)

HttpTop ==
  /\ hpc = "top"
  /\ \/ GoesOn /\ hpc' = "poll" /\ left' = target.urls /\ UNCHANGED httpLog
     \/ /\ ~GoesOn /\ hpc' = "done" /\ UNCHANGED left
        /\ httpLog' = httpLog \cup {<<u, tracker[u]>> : u \in {v \in Url : tracker[v] # None}}
  /\ UNCHANGED <<tracker, ret, prev, pairs, virt, posts, shared>>

(* Mutant: only a change of status sets the return value, not a URL that   *)
(* fails from the start.                                                   *)
FirstSightTrusted(u, c) ==
  /\ tracker[u] = None
  /\ tracker' = [tracker EXCEPT ![u] = c]
  /\ ret' = IF c # OK /\ u \in ExitOn /\ prev[u] # None THEN 3 ELSE ret
  /\ UNCHANGED httpLog

(* The status of a URL the plugin does not track yet. *)
FirstSight(u, c) ==
  /\ tracker[u] = None
  /\ tracker' = [tracker EXCEPT ![u] = c]
  /\ ret' = IF c # OK /\ u \in ExitOn /\ ret = 0 THEN 3 ELSE ret
  /\ UNCHANGED httpLog

Unchanged(u, c) == tracker[u] = c /\ UNCHANGED <<tracker, ret, httpLog>>

(* Mutant: the period that ends is not recorded. *)
ChangeForgotten(u, c) ==
  /\ tracker[u] \notin {None, c}
  /\ tracker' = [tracker EXCEPT ![u] = None]
  /\ UNCHANGED <<ret, httpLog>>

(* A change closes the period and drops the tracker entry: the new status  *)
(* is only looked at in the next round.                                    *)
Change(u, c) ==
  /\ tracker[u] \notin {None, c}
  /\ httpLog' = httpLog \cup {<<u, tracker[u]>>}
  /\ tracker' = [tracker EXCEPT ![u] = None]
  /\ UNCHANGED ret

HttpPoll(u, c) ==
  /\ hpc = "poll" /\ u \in left
  /\ left' = left \ {u}
  /\ FirstSight(u, c) \/ Unchanged(u, c) \/ Change(u, c)
  /\ prev' = [prev EXCEPT ![u] = c]
  /\ pairs' = IF prev[u] = None THEN pairs ELSE pairs \cup {<<u, prev[u], c>>}
  /\ UNCHANGED <<hpc, virt, posts, shared>>

HttpSleep ==
  /\ hpc = "poll" /\ left = {}
  /\ hpc' = "top"
  /\ UNCHANGED <<left, tracker, httpLog, ret, prev, pairs, virt, posts, shared>>

-----------------------------------------------------------------------------
(* The virt threads. *)

Records(b, s) == IF OnlyFailures /\ s = Healthy THEN {} ELSE {<<b, s>>}

VirtTop(b) ==
  /\ vpc[b] = "top"
  /\ \/ GoesOn /\ vpc' = [vpc EXCEPT ![b] = "check"] /\ UNCHANGED virtLog
     \/ /\ ~GoesOn /\ vpc' = [vpc EXCEPT ![b] = "done"]
        /\ virtLog' = IF vtracker[b] = None THEN virtLog
                      ELSE virtLog \cup Records(b, vtracker[b])
  /\ UNCHANGED <<vtracker, ill, http, posts, shared>>

Failing(b, s) == IF s = Healthy THEN {} ELSE {<<b, s>>}

(* Mutant: when a status changes the period that ends is not recorded.     *)
VirtCheckForgets(b, s) ==
  /\ vpc[b] = "check"
  /\ vpc' = [vpc EXCEPT ![b] = "top"]
  /\ vtracker' = [vtracker EXCEPT ![b] = s]
  /\ ill' = ill \cup Failing(b, s)
  /\ UNCHANGED <<virtLog, http, posts, shared>>

(* A change closes the period and opens the next one at once.              *)
VirtCheck(b, s) ==
  /\ vpc[b] = "check"
  /\ vpc' = [vpc EXCEPT ![b] = "top"]
  /\ vtracker' = [vtracker EXCEPT ![b] = s]
  /\ virtLog' = IF vtracker[b] \in {None, s} THEN virtLog
                ELSE virtLog \cup Records(b, vtracker[b])
  /\ ill' = ill \cup Failing(b, s)
  /\ UNCHANGED <<http, posts, shared>>

PostCheck(b, s) ==
  /\ post[b] = "run"
  /\ post' = [post EXCEPT ![b] = "done"]
  /\ postQ' = Append(postQ, IF s = Healthy THEN {} ELSE {b})
  /\ sick' = IF s = Healthy THEN sick ELSE sick \cup {b}
  /\ UNCHANGED <<joined, found, http, virt, shared>>

Worker ==
  \/ HttpTop \/ HttpSleep
  \/ \E u \in Url, c \in Code : HttpPoll(u, c)
  \/ \E b \in Batch : \/ VirtTop(b)
                      \/ \E s \in Status : VirtCheck(b, s) \/ PostCheck(b, s)

-----------------------------------------------------------------------------
(* What the main thread does to the plugins.                               *)

StartAll ==
  /\ hpc' = IF target.urls = {} THEN "off" ELSE "top"
  /\ vpc' = [b \in Batch |-> IF b \in target.vms THEN "top" ELSE "off"]
  /\ UNCHANGED <<left, tracker, httpLog, ret, prev, pairs, vtracker, virtLog, ill, posts, shared>>

IncrementAll ==
  /\ current' = IF endless THEN current ELSE current + 1
  /\ UNCHANGED <<target, endless, stopping, http, virt, posts>>

(* Mutant: the stop events are never set. *)
StopAllForgotten == UNCHANGED hvars

StopAll == stopping' = TRUE /\ UNCHANGED <<target, endless, current, http, virt, posts>>

HttpJoined == hpc \in {"off", "done"}

VirtJoined == \A b \in Batch : vpc[b] \in {"off", "done"}

StartPostChecks ==
  /\ post' = [b \in Batch |-> IF b \in target.vms THEN "run" ELSE "off"]
  /\ UNCHANGED <<postQ, joined, found, sick, http, virt, shared>>

(* Mutant: the result is read before the thread is joined. *)
JoinPostCheckEarly(b) ==
  /\ b \notin joined
  /\ joined' = joined \cup {b}
  /\ \/ postQ = <<>> /\ UNCHANGED <<postQ, found>>
     \/ postQ # <<>> /\ postQ' = Tail(postQ) /\ found' = found \cup Head(postQ)
  /\ UNCHANGED <<post, sick, http, virt, shared>>

(* One turn of gather_post_virt_checks: join a thread, then read at most   *)
(* one result.                                                             *)
JoinPostCheck(b) ==
  /\ b \notin joined /\ post[b] = "done"
  /\ joined' = joined \cup {b}
  /\ \/ postQ = <<>> /\ UNCHANGED <<postQ, found>>
     \/ postQ # <<>> /\ postQ' = Tail(postQ) /\ found' = found \cup Head(postQ)
  /\ UNCHANGED <<post, sick, http, virt, shared>>

(* get_return_value of the virt plugin once all post checks are joined. *)
VirtReturn == IF VirtExit /\ found # {} THEN 3 ELSE 0

-----------------------------------------------------------------------------
(* Properties. *)

HealthTypeOK ==
  /\ target \in Targets /\ endless \in BOOLEAN /\ current \in Nat /\ stopping \in BOOLEAN
  /\ hpc \in {"off", "top", "poll", "done"} /\ left \subseteq Url
  /\ tracker \in [Url -> Code \cup {None}] /\ httpLog \subseteq Url \X Code
  /\ ret \in {0, 3}
  /\ vpc \in [Batch -> {"off", "top", "check", "done"}]
  /\ vtracker \in [Batch -> Status \cup {None}] /\ virtLog \subseteq Batch \X Status
  /\ post \in [Batch -> {"off", "run", "done"}] /\ postQ \in Seq(SUBSET Batch)
  /\ joined \subseteq Batch /\ found \subseteq Batch
  /\ prev \in [Url -> Code \cup {None}] /\ pairs \subseteq Url \X Code \X Code
  /\ ill \subseteq Batch \X (Status \ {Healthy}) /\ sick \subseteq Batch

(* A URL with exit_on_failure that fails in two consecutive polls makes    *)
(* the run fail, whatever the poll before them found.  (One failure is not *)
(* enough: between two successes it only closes the period before it, and  *)
(* the plugin forgets it.)                                                 *)
SustainedFailureReported ==
  \A u \in ExitOn, c, d \in Code \ {OK} : <<u, c, d>> \in pairs => ret = 3

(* What the http thread knows: a tracked code is the last one polled, a    *)
(* tracked failure has set the return value, a code polled twice in a row  *)
(* is tracked or recorded, and at the end all that is tracked is recorded. *)
HttpKnows ==
  \A u \in Url :
    /\ tracker[u] # None => prev[u] = tracker[u]
    /\ u \in ExitOn /\ tracker[u] \notin {None, OK} => ret = 3
    /\ \A c \in Code : <<u, c, c>> \in pairs => tracker[u] = c \/ <<u, c>> \in httpLog
    /\ hpc = "done" /\ tracker[u] # None => <<u, tracker[u]>> \in httpLog

(* What the virt threads know: a failure seen is tracked or recorded.      *)
VirtKnows ==
  \A b \in Batch, s \in Status : <<b, s>> \in ill =>
    \/ vpc[b] # "done" /\ vtracker[b] = s
    \/ <<b, s>> \in virtLog

PostDone == {b \in Batch : post[b] = "done"}

(* The post checks that are done are those joined and those with a result  *)
(* in the queue, in number; and no failed machine is anywhere else.        *)
PostsCounted ==
  /\ \A b \in Batch : post[b] # "off" => b \in target.vms
  /\ joined \subseteq PostDone
  /\ Len(postQ) + Cardinality(joined) = Cardinality(PostDone)
  /\ sick = found \cup UNION {postQ[i] : i \in 1..Len(postQ)}

(* The inductive invariant of the threads. *)
HealthInv ==
  HealthTypeOK /\ HttpKnows /\ SustainedFailureReported /\ VirtKnows /\ PostsCounted

(* A code seen in two consecutive polls has a period in the telemetry of   *)
(* the http plugin by the time its thread ends.                            *)
SustainedStatusRecorded ==
  hpc = "done" => \A u \in Url, c \in Code : <<u, c, c>> \in pairs => <<u, c>> \in httpLog

(* The virt plugin is stricter: a failure it sees even once is in its      *)
(* telemetry by the time the thread of the batch ends, with only_failures  *)
(* or without.                                                             *)
VirtFailureRecorded ==
  \A b \in Batch : vpc[b] = "done" => \A s \in Status : <<b, s>> \in ill => <<b, s>> \in virtLog

(* When every post check thread is joined, the main thread has collected   *)
(* all their results: reading at most one result after each join, of       *)
(* whichever thread, loses none.                                           *)
PostChecksCollected == joined = target.vms => found = sick

=============================================================================
