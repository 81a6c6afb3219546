# krkn in TLA+

krkn injects chaos into a Kubernetes cluster: it runs a list of scenarios (kill pods, cut
a network, stop nodes, fill a volume), watches the cluster and the applications meanwhile,
undoes what it did when a scenario fails or the run is interrupted, and ends with an exit
code that a CI job trusts. This directory holds TLA+ models of the parts of krkn whose
correctness depends on order, failure and concurrency, the TLC configurations that check
them, and proofs of the results that matter most.

Paths below are relative to the repository. `tlc -config X.cfg M` checks a run,
`tlapm M.tla` the proofs.

- [1. The system](#1-the-system)
- [2. Modules](#2-modules)
- [3. Rollback: model and code](#3-rollback-model-and-code)
- [4. A run: model and code](#4-a-run-model-and-code)
- [5. Outages: model and code](#5-outages-model-and-code)
- [6. Disruptions: model and code](#6-disruptions-model-and-code)
- [7. Runs and bounds](#7-runs-and-bounds)
- [8. Fairness](#8-fairness)
- [9. Proofs](#9-proofs)
- [10. Where code and documentation disagree](#10-where-code-and-documentation-disagree)
- [11. What the scenarios do not promise](#11-what-the-scenarios-do-not-promise)
- [12. What is not modelled](#12-what-is-not-modelled)
- [13. Plan](#13-plan)

## 1. The system

`run_kraken.py` is one process. It has a main thread, an HTTP server thread when the
status is published, worker threads of the health checks, and threads some scenarios
start. Nothing is persisted but reports and the *version files* of the rollback subsystem.

| component | state | operations | what makes it correct |
|---|---|---|---|
| main (`run_kraken.py`) | signal read last, iteration, entry of `chaos_scenarios`, failed scenarios, alert counters, exit code | wait for triggers, start checks, loop, stop and join checks, exit code | exit code 0 only after a clean run; a STOP is obeyed promptly; the process ends |
| signal server (`server.py`) | `server_status`, the thread | POST RUN, PAUSE, STOP; GET | the last request is what the main thread sees next |
| scenario runner (`abstract_scenario_plugin.py`) | return value of a scenario, run uuid | signal context, `run()`, cleanup or rollback, wait, events, cerberus | every failed scenario is rolled back, no successful one is |
| rollback store (`krkn/rollback/`) | directories `<time_ns>-<uuid>` of version files, pending or `.executed` | write, search, execute and rename, remove | a change in the cluster has a pending file at any instant, or the log says why not |
| rollback signal handler (`signal.py`) | thread-local context, lock, the original handlers | install, handle a signal, chain to the original handler | one rollback at a time; the signal still ends the process |
| rollback commands (`command.py`) | none | execute-rollback, list-rollback, by uuid and type | repeated, it empties the cluster |
| node actions (`node_actions/`) | nodes to act on, affected nodes per worker, a flag for the generic cloud | entries, actions, pools; ten cloud backends | 0 means that the cloud took every request; what is reversible is reversed |
| shut down, zone outage | nodes, timestamps, ACLs of subnets | stop all, wait, start all; block, restore | all down before any starts; a rollback that reaches every node |
| traffic shaping (`network_chaos`, `native/`) | jobs, virtual interfaces, pods with tools | create jobs, wait, delete | one shaper per interface; nothing left when over |
| network_chaos_ng | targets, threads, queue of errors | apply, wait, restore per target | errors reach the return value; the rules of the target are as before |
| deploying scenarios (hogs, syn_flood, http_load, service_hijacking, pvc, storage_throttle) | pods, a change in place, names in the version file | deploy, register, wait, remove; rollback callable | what is there is named; the callable removes what is named |
| killing scenarios (pod_disruption, container, kubevirt_vm_outage, service_disruption) | candidates, kills, a monitor | draw, kill, wait for recovery | as many kills as asked for; 0 only after recovery |
| managed_cluster, time_actions | a ManifestWork, helper pods | create, wait, delete | what runs the command is removed; the last command has run |
| scenario plugin factory | loaded plugins by scenario type | load, create | naming rules, no duplicate types |
| health checks, http | tracker, telemetry, return value, iteration counter, stop event | poll loop, status change | sustained failures reach the exit code and telemetry |
| health checks, virt | tracker per machine, telemetry, post check queue | one thread per batch, post check threads | no failure seen is lost |
| alerts (`prometheus/client.py`) | alert summary of the run | query after every scenario; alert profile at the end | an alert found is never forgotten |
| triggers | conditions, timeout | wait until all or any hold | the run starts, skips or fails as configured |
| cerberus | none | ask for the cluster's health, publish | exits when told to |
| resiliency score | SLO results, weights | score of a scenario and of the run | bounds, weights, missing data |
| telemetry, elastic, reports, junit, chaos recommender | files, documents | write | formatting |

**Interactions.** The main thread calls a plugin's `run_scenarios` synchronously; the plugin
writes a version file *through* the rollback handler before it changes the cluster. A signal
runs the rollback handler *on top of* the interrupted main thread, Python style: the main
thread does not advance while the handler runs, and afterwards continues, dies, or sees an
exception where it was. Other threads of the process (a pool, the daemons of hogs) go on *beside* it. Several krkn processes and the operator share the version directory
and the cluster. The main thread and the health check threads share the plugin objects:
counters, stop events, queues, return values, without locks; it is the order of stop, join
and read that makes this safe. The operator talks to the signal server, whose status the
main thread polls once per scenario. Inside a scenario, node actions and zone outages run a
`ThreadPool`, hogs and network_chaos_ng their own threads, one per node or target; they share
queues, counters and the one version file of the scenario. Everything else a scenario talks to
(cloud, hub, jobs, pods, controllers) goes its own way while the scenario waits.

**Hard behaviours.** A kill between registering, creating and deleting; a signal at any
instruction of a scenario, of its cleanup or of its rollback; an API request that times out
for the client and is applied later; one file of several failing; a search that matches more
than the caller's own files; STOP racing the turn of a scenario; a status change observed
once; results of threads read in another order than they were produced; an exit in the
middle of everything with threads left behind; a request accepted but never carried out, or
refused without a word; a command in a pod that fails and whose answer nobody reads; a
rollback beside threads that still disturb; a wait that gives up while what it waits for goes on; an undo that
depends on the very thing that was broken; an exception in one of several threads. PROJECT.json lists each with its line.

## 2. Modules

| module | models |
|---|---|
| `RollbackContract` | what the rollback subsystem promises: abstract specification |
| `ScenarioRollback` | version store, scenario runner, signal handler, command, one plugin; processes, API server, operator |
| `MCScenarioRollback` | instances for TLC |
| `ScenarioRollbackProofs` | proofs about `ScenarioRollback` for all constants |
| `HealthChecks` | the http and virt plugins: worker threads, and the operators the main thread applies to them |
| `KrknRun` | EXTENDS `HealthChecks`: the main thread, the signal server, the operator; the composition |
| `MCKrknRun` | instances for TLC |
| `KrknRunProofs` | proofs about `KrknRun` for all constants |
| `ScenarioThread` | the thread in a plugin's `run()`: where it is, what it returns |
| `NodePrograms` | pure: every action of the ten cloud backends as a sequence of steps |
| `NodePool` | the workers that execute programs, serially or in a pool, and the cloud |
| `NodeActions` | the node_actions plugin: entries, actions, choice of nodes, telemetry |
| `CloudOutages` | shut_down and both zone outages, with their rollback |
| `Outages` | EXTENDS the two above: one of them per behaviour; the properties |
| `TrafficShaping` | network_chaos, ingress shaping and the three pod outages: jobs that shape interfaces |
| `NetworkModules` | network_chaos_ng and its seven modules |
| `Deployments` | hogs, syn_flood, http_load, service_hijacking, pvc, storage_throttle, with their rollback |
| `PodKills` | pod_disruption, container, kubevirt_vm_outage, service_disruption |
| `Errands` | managed_cluster, time_actions |
| `Disruptions` | EXTENDS the five above: one of them per behaviour; the properties |
| `MCOutages`, `MCDisruptions` | instances for TLC: the scenario files considered |
| `OutagesProofs` | proofs about `Outages` for all constants |
| `DisruptionsSteps` | lemmas: whose step a step of `Disruptions` is, and what it leaves alone |
| `NetworkModulesProofs`, `PodKillsProofs`, `DeploymentsProofs` | EXTEND it: proofs about these three for all constants |
| `DisruptionsProofs` | EXTENDS these: proofs about `TrafficShaping`, `Errands` and what all five share |

`ScenarioRollback` and `KrknRun` meet at one point: the action `Ran` of `KrknRun` is a whole
`run_scenarios`, which `ScenarioRollback` models step by step; when that ends its process
(`pc = "dead"`) `KrknRun` has `Raise`. They share no other state, so they are checked apart.
`Outages` and `Disruptions` refine the same point from the other side: a behaviour of theirs is
one `run()` of a plugin, from its first line to its return, or to the death of its process and
the execution of its version file. The step from the pending file to the call is
`ScenarioRollback`'s.

Definitions marked `Mutant` in the modules are not used by any specification. Each is a
variant of the definition after it with a plausible bug; put in its place, it makes a
property fail. They show that each property depends on the code it is about.

## 3. Rollback: model and code

A *context* `<<p, n>>` is the n-th scenario of process p. It stands for the directory
`<time_ns>-<run_uuid>` (a fresh one for every `run()`, `handler.py:39` and `:239`),
for the version file in it and for the one change that scenario makes. `file[c]` is absent,
pending (`*.py`) or executed (`*.py.executed`); `live` are the changes in the cluster,
`inflight` the requests the API server may still apply.

| actions | code |
|---|---|
| `Begin`, `TakeLock`, `Install`, `LeaveContext` | `signal_context` and `_register_signal_handler` |
| `Register`, `SendCreate`, `CreateReturns`, `CreateRaises`, `Delete`, `Reject` | `application_outage` `run()`; `Register` is `set_rollback_callable` |
| `Cleanup`, `Remove`, `RemoveRaises`, `CleanupDone` | `cleanup_rollback_version_files` |
| `RollbackFailedRun`, `Undo`, `Rename`, `LoopFails`, `LoopEnds`, `RollbackDone` | `execute_rollback_version_files`, one file at a time |
| `Signal`, `HandlerDone`, `EndHandler` | `SignalHandler._signal_handler`, with the loop above run inside it |
| `OperatorBegins`, `OperatorDone` | `command.execute_rollback`, with every combination of filters |
| `Apply`, `Lose` | the API server, external |
| `Crash`, `Settle` | kill -9; the end of a scenario and cerberus' exit |

Abstractions. The text of a version file, its import and its call are the fact that the file
undoes context `c` (`serialization.py`, `version_template.j2`). The scenario has one change;
plugins that create several objects and register once are alike, those that register late
are in `Deployments`. A signal whose handler finds no context or the lock held does nothing,
so it has no action. The lock is `threading.Lock`, not reentrant, and the handler tests it
without blocking. A signal between two scenarios finds an incomplete context and is dropped
(hazard list).

Facts the model rests on. A callable runs a call and *logs* what goes wrong: `Undo` with an
error in the answer, a 404 for a change that is not there yet included, is followed by the rename
as if the change were gone. Two callables also let an exception out, those of shut_down
(`shut_down_scenario_plugin.py:315`) and of the zone outage (`zone_outage_scenario_plugin.py:185`), for an error
outside of their loop over the nodes: before they have started any. The constant `Raises` are the types
that may do so (`LoopFails`); all others only log, and no property below depends on which are which. The
history variables `unsaved` (the version file could not be written) and `missed` (the undo was answered with an error)
are what a user finds in the log, and nowhere else: `Logged`. `AutoRollback` is per process: the option is off by default,
and the run `rollback_crash` has a process with it beside one without.

The *timestamp* of a version file is a default of a dataclass,
evaluated when the class is created, hence `born[p]`, one per process, and not one per file.
`HUP` is the case of a signal whose original handler is `SIG_IGN` (started under nohup):
the handler rolls back and returns into `run()`. Run uuids are per process, unless the user
configures one, and two processes then share a uuid; `UuidOf` is a constant for that reason.

Properties. `Coverage` is the point of the subsystem: a change that is in the cluster, or on its way there, has
its pending version file, or has been *given up* (`GivenUp`): the log says that its file was not written or its
undo failed, or, with automatic rollback off, a later scenario of the type has taken the file along. What it
rules out are losses without a trace: by a crash at any step, a signal that is handled or ignored,
a late request, a rollback that stops half way, or a cleanup. The strict form without the last exception,
`AllRecorded`, is violated without automatic rollback (section 10), which is the default. `ContractKept` states
the same as a refinement: a pending file is a record of `RollbackContract`, no step removes a record whose
change is in the cluster or under way unless it was `waived` in a step *before*, and nothing is asked of
the server that is neither recorded nor waived. `CleanupSafe` concerns the removal *by type and
run uuid*, which takes earlier scenarios' files along: it needs that a failed rollback ends
the process. `OneRollbackAtATime`, `ForeignFilesUntouched`: interference of handler, main
thread, processes and operator. `FailedRunUndone`, `OperatorRecovers`, `SignalStops`:
progress; the first two but for what the log reports.

## 4. A run: model and code

`KrknRun`'s `mpc` follows `run_kraken.main`:
`boot, publish, triggers, checks, while, for, (paused), begin, run, alerts, next, ..., stop,
join_http, join_virt, gather, code, exited`.

| actions | code |
|---|---|
| `StartServer`, `Publish`, `Post` | `server.start_server`, `publish_kraken_status`, `do_POST` |
| `Triggers` | `wait_for_triggers`: satisfied, the three policies of a timeout, an invalid configuration |
| `While`, `Ask`, `AskAgain`, `NoMoreEntries`, `Begin` | the two loops, the questions to the server, unknown types |
| `Ran`, `CheckAlerts`, `NextIteration`, `Raise` | the scenario, the alerts after it, the counters, what leaves the loop |
| `StopChecks`, `JoinHttp`, `JoinVirt`, `Gather`, `AlertProfile`, `Return` | after the loop |

`HealthChecks`: the http thread takes the URLs of a round one at a time (`HttpTop`, `HttpPoll`,
`HttpSleep`); `HttpPoll` keeps the three cases of the code: `FirstSight`, `Unchanged`,
`Change`. The odd one is `Change`: it closes the period in the telemetry and *drops* the
tracker entry, so that the new status is only looked at one poll later. `VirtCheck` opens the
next period at once. `PostCheck` puts one result in the queue; `JoinPostCheck` joins a thread
and then reads at most one result, not necessarily that thread's.

Configuration is data: `cfg` is chosen in `Init` among `Configs`, and `target` among `Targets`
(URLs configured, machines found). The variables `seen`, `begun`, `prev`, `pairs`, `ill`
and `sick` are history: no action reads them, except that `begun` counts entries begun since
the operator's STOP.

Properties. `SuccessIsClean` relates the exit code to everything that happened in all
iterations. `CodeIsFinal`: the inputs of the exit code cannot change any more. `StopBound`:
one entry at most begins after STOP. `SustainedFailureReported` and `SustainedStatusRecorded`
say what the http plugin guarantees in spite of `Change`: what is seen in *two consecutive*
polls. A single failure between two successes is forgotten; this is why they say
"sustained". `VirtFailureRecorded` needs no such clause. `PostChecksCollected`: counting
reads is enough. `RunEnds`: the process terminates.

The guarantee of `RunEnds` excludes an endless run with an empty list of scenarios: it never
asks the server for the signal, and nothing but a kill ends it.

## 5. Outages: model and code

The machines of a cluster (`vm`) belong to the cloud: a power request is accepted (`pending`),
and taken later or never (`Takes`). *Programs* say what a backend does with one node.
`Backend[cloud][action]` is a sequence of methods, each a loop over steps with its own except
clause: `Lookup`, `Ask` (a power request), `Await` (a wait with what its end means), `Kube` (the
wait for Ready), `Command`, `Record` (into `affected`), `Sleep`. The disks of a machine are in, leaving or out: on aws
a detachment is only begun, `Detaches` is its end, and `attach_volume` does nothing for a volume that has not left. Each step names the ways in which it
can go wrong in that client: raise, exit the process (openstack, ibm), go on as if nothing had
happened (alibaba, ibm power), or wait on (bm, docker, vmware). A backend's client is one
record of those ways (`AwsClient`, ...), and the ten backends differ in little else.

| actions | code |
|---|---|
| `Launch`, `Quiet`, `Request`, `Reached`, `Append1`, `Command`, `Network`, `NoWait`, `Wrong` of `NodePool` | one step of `*_node_scenarios.py` by one worker; `Caught` is its except clause |
| `NextEntry`, `Pick`, `Join`, `Extend` | `NodeActionsScenarioPlugin.run`, `get_node`, `run_node`, the pool's starmap, the telemetry |
| `ShutStart`, `SendStop`, `Sent`, `WaitOne`, `Waited`, `SendStart` | `cluster_shut_down`: both pools and both waiting loops |
| `ZoneStart`, `ZoneNext` | `node_based_zone` |
| `Register`, `RollbackStart`, `RollbackAt`, `RollbackNode`, `RollbackEnd` | the callables of shut_down and of the gcp zone |
| `Kill`, `Signal` | kill -9, after which execute-rollback comes; SIGINT or SIGTERM, whose handler runs the callable at once |
| `Takes`, `Detaches` | the cloud, external |
| `AclStart`, `AclBlock`, `AclSleep`, `AclRestore`, `AclSleepAgain`, `AclDelete`, `AclEnd` | `network_based_zone` |

A worker is `running`, `done`, `failed` (an exception) or `lost` (`sys.exit` in a thread of a
pool: the thread ends and the pool waits for its result for ever). With a pool an exception is
only logged; without one it ends the entry. `Kill` stops all workers; a `Signal` does not: while the main thread is in the handler
(`handling`), and after it if the pool is joined (`handled`), the workers it was waiting for go on (`Beside`, `Working`), and may
send a stop after the rollback has sent the start. `unsent` are the nodes with such a stop ahead. `general` is the flag `node_general`, a global that the
first generic entry sets and nothing resets.

Properties. `HonestReturn`, `Restores`, `RecordedWasAsked` and `ActsOnAll` are the questions a user
has after a run that returned 0: was every request taken, is what is reversible reversed, is
the telemetry right (ibm power's stop and reboot record no node, so its records hold starts only). They are stated for the clients that report a refusal
(`Reporting`); section 11 says what becomes of the others. `Restores` speaks of the moment when all workers
of an action have ended without an exception; of a stop_start and a block only if the action was not
skipped (`Skipped`, the flag `general`), and of disks only on bare metal and for the first action of a file, because a worker
that failed earlier may have left a node without disks, for which the later action does nothing; on aws a disk may stay off
(section 11). `AllDownTogether` is what a shut down is for; it is stated for the clouds whose waits
answer True only when they have seen the state, which those of az do not (section 11). `RollbackStarts` relates
the version file to the requests sent: every node asked to stop is in it; a node whose
start fails does not keep the others down, nor does a worker whose stop comes after the rollback of a signal: that one node
may stay down (`RestoresPoweredOff`, section 10). `AclsRestored`: subnets and ACLs of a zone outage.
`OutagesReturn`: every `run()` ends, where the waits have limits.

## 6. Disruptions: model and code

Five modules, which share nothing but `ScenarioThread`.

**`TrafficShaping`.** A job sleeps, sets a filter, sleeps, removes it: `Tick` is the clock of all
jobs and of the wait. `Probe`, `Prepare` and `Create` are the calls per interface or node; `Called` is
the end of one call, `Launched` of a round. `Waited` or `TimedOut` end the wait, `Clear`, `Lift` and
`DeleteJobs` are the finally clauses. `fresh` are jobs made by a call that has not returned its list:
when the call raises, they are not in `job_list`. `Strikes` kills the pod of a job. `Lift` does not look at what
the `modprobe -r` of the virtual interfaces answers, which may fail in silence (the fault `command`). `OneShaper`: two
jobs never hold one interface. `Tidy`: what is gone when the scenario is over, however it went; of the virtual interfaces only if that command worked.

**`NetworkModules`.** `NextConfig` and `JoinModules` are the plugin, which runs a module per target and
reads the queue of errors after the joins. A module on a target goes through `Deploy`, `Examine`,
`Apply`, its sleep, `Clean` and `DeletePod`; after an exception `Undo` and `UndoPod` if it is one for
virtual machines. `net[v]` are the rules of the target *in order*, the foreign ones too: a filter is
inserted at the head and deleted by number, and so a deletion too many hits what was there
before. A command in the module's pod can fail without a word: what `exec_cmd_in_pod` returns is
dropped or logged (`Dud`). `void` and `stuck` count the additions and removals of a module that did nothing. Some modules
remove what they find first (`Blind`): a filter, by number, and the shaping of ingress, which deletes the ingress discipline of the
device whosever it is; egress shaping names its own. `NetworkRestored` says what a module that has ended leaves (`Settled`): the rules as they were, in
their order, if every command worked; otherwise one rule of its own for every removal too few, and, where it is blind, one rule
of others less for every addition too few. No pod, and the uplink is up.
It does not speak of a pod with several processes, of whose rules the filter deletes more than it made (section 11). `Down`, `Poll` and `Recovers` are
`node_interface_down`, whose undo is scheduled in the pod of the module before the link goes
down. `LinkRecovers`: the node gets its uplink back.

**`Deployments`.** A plugin is a sequence of steps, `Look`, `Make`, `Name` (registration), `Await`, `Hold`,
`Unmake`, and hogs run one per node in threads. `named` is the content of the one version file: a
registration replaces the one before. `Trips` is an exception, before or after the effect;
`Unseen` marks the steps that may do nothing and go on: the file of pvc, and the limits storage_throttle writes and resets through
a shell whose answer is not looked at. `KilledNow` is the death of the process; `Signalled` is a signal while threads of hogs run, whose
handler rolls back on the main thread while the threads go on: what they deploy then is `late`. For the plugins without
threads a signal does what a kill and a rollback after it do. `RollBack`, `Rolls` (one object at a time) and `RolledBack` are the
callables; syn_flood's stops at its first failure, and `NameErrors` is that of http_load and
storage_throttle (section 11). `JoinHands`, `Lifts`, `CleansPod`: the joins, and storage_throttle's
finally clause. `HeldIsNamed`, `RollbackRemoves` and `SuccessUndoes`: while it holds, the file
names it; the rollback removes what is named, but for calls that failed and pods that came late; success leaves nothing, but for pods meant
to stay and limits whose reset failed in silence.

**`PodKills`.** `Lists`, a draw, kills, and a wait for recovery with a limit. The cluster brings back what
was killed in its own time (`ComesBack`), except machines whose spec was patched. The monitor that
decides over pods and containers is a thread of krkn-lib (`Settle`). `KillsAsAsked` compares the
number of distinct kills with the number asked for: equal for containers (one that answers every stop with an error counts)
and namespaces, and for pods less at most the excluded ones. It says nothing of virtual machines: `VmsComeBack` compares their return value with the
machines, although one may be drawn twice.

**`Errands`.** A queue of steps per action: `SendWork`, `HearStatus`, `WithdrawWork` for a ManifestWork,
`SkewNode`, `SkewPod`, `CheckClock`, `HearClock`, `DeleteHelper` for time_actions. The work agent
(`Executes`) and the hub (`Reports`) are two further actors: a status is one from before the action until
the hub has noticed. `SuccessUndoes` says that a managed cluster is nevertheless what it was
last told to be, if no wait timed out.

## 7. Runs and bounds

| run | asks | bounds | distinct states |
|---|---|---|---|
| `rollback_crash` | does no change lose its file without a word in the log, with two processes, crashes, an interrupt and faults? is the contract implemented? are other processes' files left alone? | 2 processes, one with automatic rollback and one without, 2 scenarios each, INT, 2 faults (API, file system), one type whose callable may raise or log | 1,067,522 |
| `rollback_signals` | no double rollback, no unsafe cleanup, every change recorded or logged, with every signal and fault and a server that reorders | 1 process, 3 scenarios, 2 types (the callable of one only logs), INT, TERM and HUP, faults of every kind | 348,535 |
| `rollback_live` | progress | 1 process, 2 scenarios, one type whose callable may raise or log, every signal, 2 faults of every kind | 8,456 |
| `run_safety` | exit code, STOP, telemetry, post checks | 1 URL, 2 codes, 2 machines, 1 iteration or endless, 3 entries (one of an unknown type), 1 request, 4 configurations | 1,179,706 |
| `run_live` | termination | 2 iterations or endless, 1 entry, 1 URL, 2 machines, 2 requests, started in RUN or PAUSE | 62,377 |
| `outages` | what return value 0, the records and the rollback of an outage mean; do they end? | 2 nodes and the helper, 10 backends with every action, alone and in a pool, 12 files with several entries, actions, labels, counts or excluded nodes; 5 clouds and 2 runs of the shut down; 2 subnets | 334,278 |
| `disruptions` | what the scenarios on the Kubernetes API leave, report and bring back; do they end? | see below | 320,671 |
| `rollback_order`, `rollback_swallow`, `rollback_manual`, `run_exit`, `shut_signal` | violations, section 10 | minimal | |

*Why these are enough.* Rollback: two scenarios are needed for cleanup to meet an earlier
file, a third to meet the result of that; two processes for foreign files; two faults for a
rollback that fails after a scenario that failed; a process with automatic rollback beside one without, since
only the first may clean up safely. The proofs remove these bounds for the
safety properties of both runs. Runs: three entries let an alert, a failure and a STOP
happen at different ones; two machines suffice for the queue to hold another thread's result;
an endless run makes any number of polls in any iteration possible, so one URL with two codes
meets every sequence of the tracker. `Targets` combines http with one machine, or has
machines alone, to keep the product small; the plugins share nothing but counters. The
proofs remove all these bounds for the safety properties of `run_safety`. `MaxPosts`,
`MaxRuns`, `MaxFaults` and the constants above are the only bounds, and each is a guard of
the action it limits. `BatchSymmetry` is sound because no definition compares batches, and the
run has no liveness property.

*Outages.* Two nodes let one fail while the other goes on, which is all that a pool, a serial
loop or a shut down can tell apart; the files of `MCOutages` hold every action of every backend,
and a second entry or action where something is carried over (the global flag, the affected
nodes, the security group). Requests may be taken in any order with all steps, so that no bound
on time is needed.

*Disruptions.* `Target`, `Victim`, `Quarry`, `Fleet`: two of everything. A job sleeps `Delay` = 2 units and
holds for `Duration` = 1; a serial wait allows `Short` = 1 more, the others `Long` = 3, so that the wait
gives up while a job still holds, as with the code's 20 and 30 seconds. `Own` = `Foreign` = 2 rules and
`Pids` up to 2 processes make a deletion too many visible. `Units` up to 2 targets with `PodsPer` = 2
pods (at least 1: without a target hogs raise and the others return); `Kills` up to 3 of 2, more than there are. Faults per behaviour: `ShapeFaults` = 1, `Mishaps` = 2 (an
exception, and one in its undo), `Slips` = 2 (likewise), `Breaks` = 1, `Glitches` = 1, and `Duds` = 1 command of a module that does nothing. Waits are
counted by `Polls` = 1 and `Tries` = 2. The proofs remove the bounds of `outages` and `disruptions` as well, again for
safety.

`CHECK_DEADLOCK` is left on for rollback and runs: a run that ended stutters in `Terminated`, and in
`ScenarioRollback` the operator can always start again. It is off for `outages` and `disruptions`,
where a behaviour stops when `run()` has returned or the rollback is through; that nothing stops
earlier is `OutagesReturn` and `DisruptionsEnd`.

## 8. Fairness

`ScenarioRollback!Fairness`: weak fairness of each process' steps (a thread that can run is
scheduled; API calls return, through a fault or not), of the loops, of the API server's
decision about a pending request, and of the next scenario or the end of the run. Strong
fairness of execute-rollback without filters: the operator repeats it, although a process
that starts disables it for a while. No fairness for starts, signals, crashes, faults or
filtered commands. Faults are bounded by `MaxFaults`, so "eventually" means once the cluster
has recovered.

`KrknRun!Fairness`: weak fairness of the main thread and of every worker thread's step.
Nothing is assumed of the operator: `RunEnds` has the operator's part as hypotheses, and
scenarios and HTTP requests are assumed to return (the code's requests have timeouts;
scenarios are waits of configured length).

`Outages!Fairness`: weak fairness of the plugin's thread and of each worker. Nothing is assumed of the
cloud: a request may never be taken, and the waits with limits end all the same. Those without
(bm, docker, vmware) and `sys.exit` in a pool are excepted by `MustReturn`.

`Disruptions!Fairness`: weak fairness of the plugin's threads, and of time (`Time`: the clock of jobs and
waits, a scheduled command, a pod that ends after its duration). Nothing is assumed of controllers,
agents or the hub. The recovery of a link is `LinkRecovers`' only engine: `ip link set up`, asleep
in a pod on the node itself.

## 9. Proofs

All theorems are for every value of the constants that satisfies the modules' ASSUMEs.

**Rollback** (`ScenarioRollbackProofs`).

- `TypeCorrect`, `RollbackIsExclusive`: no hypothesis. The invariant is `Shape` (`TypeOK`,
  `Begun`, `Frames`): the signal context is set only inside `run()` or next to it, the lock
  is held during the installation, so no handler starts there.
- `CoverageInvariant`, `ChangesStayCovered`, `ContractIsKept`, `CleanupSafeAlways`: under `CoverageAssumption`, that
  every process has a run uuid of its own (which a user who configures one must see to). Nothing is assumed of
  callables, which may raise or only log; automatic rollback, on or off for each process; signals, ignored or not; faults, late
  requests and crashes.
- `Coverage` is not inductive. `CoverageInv` adds where a handler and a loop may be (`Frames`), that a loop has at most
  one file in hand (`OneInHand`), that a change is asked for once (`AskedOnce`), what the position of a process says of its
  current change (`Current`), and, the heart of it, `UndoneInHand`: a file about to be renamed belongs to a change that
  is gone for good, or that was missed and logged. What a cleanup removes is harmless because of `Settling` (proved beside it,
  for processes with automatic rollback): a *pending* file whose change is not gone is of a process that ended, or of its
  current scenario that is not settled, so that nothing of an earlier scenario is left to be removed by type. For the other
  processes the removed files are those of `Superseded` changes, which `BeginGivesUp` shows to be given up before, when the
  later scenario of their type begins.
- `ContractIsKept`: a step of the model is a step of `RollbackContract`, which has records, changes and waivers only, or a stutter.
- `ForeignFilesAlways`: no hypothesis. `OwnFiles`: a process has files in hand only during a cleanup or
  a rollback, of its own uuid and of the type of its current scenario, which does not change
  meanwhile (`Begin` changes it, with empty hands). Processes that share a configured uuid share these files.

**A run** (`KrknRunProofs`). `RunInvariant` proves `RunInv`, the conjunction of `HealthInv` (what
the threads know: `HttpKnows`, `VirtKnows`, `PostsCounted`) and `MainInv` (the relations with the
main thread). The others follow: `SuccessMeansClean`, `CodeIsLast`, `StopIsPrompt`,
`FailuresReported`, `StatusRecorded`, `VirtRecorded`, `PostChecksComplete`. Two arguments are worth
reading. `HttpKnows` relates the tracker to the *last* poll, which makes the dropped entry
harmless for pairs: if `c` follows `c`, the second is either tracked or closes nothing.
`PostsCounted` counts: results in the queue plus joined threads are the finished threads, so
a join always finds a result, and when all are joined the queue is empty
(`AppendUnion`, `TailUnion`, `AllCollected`). For this the set of batches must be finite.

**Outages** (`OutagesProofs`): every safety property of the run `outages`, for any nodes, any file of entries,
any `Runs` and a cloud that takes, refuses or forgets requests. From these assumptions: the files are sequences
of entries (`EntriesAssumption`), a shut down is for one of the five clouds the plugin has a client for
(`OutageAssumption`; `shut_down_scenario_plugin.py:100`), the helper is not one of the nodes and these are
finitely many (`NodeAssumption`), an action is repeated at least once (`RunsAssumption`).

- The *programs* come first: what is true of every action of every backend, found method by method.
  `ReportingGood`: in the clients that report, a method with a request raises what goes wrong in it, and
  no wait or refusal is passed over in silence. `BackendsTyped` is the weaker fact about all ten.
- `OutTypeOK` is the inductive form of `OutagesInv` (`OutagesInvAlways`): a worker that runs is at a step
  of its program, and each plugin is at one of its own places.
- `HonestReturnAlways` (`Honest`): while nothing is reported, nothing is refused; the exception crosses
  method, worker and plugin one step at a time. `RecordedWasAskedAlways` and `ActsOnAllAlways`
  (`Requests`): a worker past the first request of its program, or done, has had one accepted.
- `RestoresAlways` (`Repairs`): the three undos need the index of the worker's step. `StopStarts`: when every
  worker of a machine is past the request to start, the last request is that one. `DisksBack`, for bare metal: what is detached
  is in the hand of a worker that stands before its attach. `Blocks` is about *all* workers of a pool: one
  may take the group "chaos" of another for the original (section 11). But a group is removed only while the
  subnet does not use it, and without the group nothing can put the subnet on it: when no worker has
  rewired the subnet since its last removal, and one has removed the group, both are as before.
- `AllDownTogetherAlways` (`PhaseByPhase`): between the stops and the starts every machine is at its place,
  on its way, or has been refused, and the waits of the clouds but az only go on when they have seen it.
- `RollbackStartsAlways` (`RollsBack`): all that is stopped is registered, and each node the rollback is past was started after the last
  stop, unless its worker works on beside the handler (`Working`) with its stop still ahead: such a node is in `unsent` (`Unsents`).
- `AclsRestoredAlways` (`AclsOf`: a subnet
  with the blocking ACL is among those still to be restored), `TelemetryCompleteAlways`.

**Disruptions**. `OneScenario` (`DisruptionsSteps`) says whose step a step is: the modules share the thread only,
so each invariant below is about one of them, and the steps of the others leave it alone. The assumptions are the
types of the constants: numbers are naturals, files are sequences of the records the plugin reads, and targets,
victims, machines and clusters are finitely many.

- `NgInvAlways`, `FailuresReportedAlways`, `NetworkRestoredAlways` (`NetworkModulesProofs`), for any targets, rules, processes
  and exceptions, and any number of commands that do nothing. The heart of `NgInv`: the rules of a target are those it had
  before, `was`, with a number of its own *in front* (`Heads`), or with as many of the first missing (`Behind`). The number is
  what was added less what was removed: `k`, the place in the module, corrected by the commands that did nothing, `void` and
  `stuck` (`Excess`). A deletion by number takes one of its own as long as there is one (`RemoveHead`), and one of others after that. The count
  ends even only if as many are deleted as inserted (`Even`), which is why `NetworkRestored` excludes pod_filter with
  several processes. The undo of vmi_chaos removes in the same way, but deletes by name for egress (`Naming`). `EntriesInv`: an exception of a
  thread is in the queue, unless the thread died in its `_rollback`, which takes a second exception.
- `KillsAsAskedAlways`, `VmsComeBackAlways` (`PodKillsProofs`), for any number of victims and kills. `PodsInv`: kills left and
  kills done are what was asked for, less the excluded; a set of sent kills grows by one only as nothing
  is drawn twice. Machines may be drawn twice, so theirs is about the herd instead.
- `HeldIsNamedAlways`, `RollbackRemovesAlways` (`DeploymentsProofs`), for any number of targets, pods and exceptions. A scenario
  is a sequence of steps whose length depends on constants. `ProperSteps` is what the six sequences have in
  common: each step acts on what the scenario owns; before a hold or a wait the last registration names
  everything made before it (`Covers`), and after the last step everything is undone (`Undoes`) or waited
  for (`WaitsForAll`). `DeployInv` then says of each thread what the steps it is past have made, named
  and undone (`MadeByHands`, `NamedByHand`), and of the rollback what is left for it (`RollsInv`). When a signal's handler
  rolls back, threads of hogs go on and what is said of them stays true beside it (`BesideInv`): a pod is named before it is
  deployed (`HogNamesFirst`), and one deployed by then is in `late`. `Loud`: the only undo that may do nothing in silence is
  that of storage_throttle.
  Three of the sequences are a `FlattenSeq`, defined by recursion over the sequence. The library's induction theorems
  have an operator as parameter, out of the provers' reach; `FlattenIs` goes around them with a least
  counterexample (`LeastOf`, from well-foundedness of finite sets).

- `OneShaperAlways`, `TidyAlways` (`DisruptionsProofs`), for any interfaces, delays and durations, jobs killed and calls that raise.
  `ShapeInv`: a target is in one call of a round, and once (`CallsInv`); a job that exists is in one of the lists the
  scenario deletes from, unless a call raised (`ListsInv`); jobs of an earlier round have ended (`RoundsInv`; not
  those of pod_outage, whose two rounds are the two directions and do not meet); and what is filtered is held by a job that runs and will free
  it (`LeftoversInv`), so that a wait that has seen all jobs end has seen all filters go.
- `SuccessUndoesAlways` joins `DeployInv` (`AfterSuccess`) and `ErrandsInv`: between two steps a managed cluster is as it was
  last told, agent and status (`SaysSo`), as long as no wait timed out; during a step its work is the only one
  (`WorksInv`), and a status that changes follows the agent (`Turning`). A clock step has at most the pod of its node.
- `DisruptionsInvAlways` (`TypesInv`) adds to these what the scenarios that were not chosen keep at rest.

**Only model-checked**: the liveness properties `FailedRunUndone`, `OperatorRecovers`, `SignalStops`, `RunEnds`,
`OutagesReturn`, `DisruptionsEnd`, `LinkRecovers`: fairness and ENABLED are out of TLAPS' reach. Every other
property of a passing run, invariant or action property, is a theorem.

## 10. Where code and documentation disagree

- `rollback_order`. `config.py:264` promises LIFO order; all files of a process carry one timestamp.
- `rollback_swallow`. `handler.py:187` renames "if successful"; the callable of application_outage
  logs and swallows API errors, so a failure is a success.
- `rollback_manual`. Without automatic rollback the files of failed scenarios wait for the
  operator, and a later success of the same type in the same run removes them.
- `run_exit`. `sys.exit` or an exception inside the loop does not end the process: nobody stops
  the non-daemon health check threads.
- `shut_signal`. `shut_down_scenario_plugin.py:202` restores "powered-off nodes back to running state". An interrupt while the
  pool stops the nodes runs that callable on the main thread; the pool goes on, and a stop sent after the start wins. The
  version file is renamed, and the node stays off.

Smaller observations, without a run: the comment at `run_kraken.py:803` ranks critical alerts (2) above health checks
(3), the code asks the health checks first; a critical alert leaves only the iteration, though the
log at `run_kraken.py:572` says "exiting"; a STOP posted while the server starts is
overwritten by the first publication (`server.py:76`); PAUSE in the configuration is ignored
when the status is not published; `config.yaml:3` describes `exit_on_failure` as "Exit when a
post action scenario fails", the code uses it to exit after a scenario whether the cluster is healthy or not
(`cerberus/setup.py:112`); a rollback that raises inside the signal handler replaces the signal.

## 11. What the scenarios do not promise

Met while stating the properties of `outages` and `disruptions`. Each is the reason for a hypothesis
in one of them; those that contradict the documentation have a run, in section 10.

*Return values and reports.*
- node_actions: an exception in a pool is only logged (`node_actions_scenario_plugin.py:248`): the
  scenario returns 0. `sys.exit` in a pool (openstack, ibm, ibm power) ends a thread whose result
  `starmap` then awaits for ever. Refusals by alibaba (`:48`) and the stop of ibm power go unnoticed.
- `node_general` stays set after the first generic entry (`:97`): later entries for a cloud run only the
  generic actions and succeed.
- network_chaos_ng: an exception in `_rollback` ends the thread before the queue of errors is told.
- kubevirt_vm_outage: an exception during a wait returns 0; `disable_auto_restart` is never undone, and
  `recover` is never called.
- pod_disruption: excluded pods are drawn and left out, so fewer are killed than asked for. container: five
  answers with an error count as a kill. hogs: a duration below the sampling period divides by zero
  after everything has been cleaned up, and fails the scenario.
- time_actions: `date --date` only prints, and `timedatectl set-time` is sent to a pod that was never created
  (`time_actions_scenario_plugin.py:166`): no clock changes. A clock that is not reset is logged, and 0 returned.
- ibm power: stop and reboot (`ibmcloud_power_node_scenarios.py:347`, `:368`) record no node for the telemetry.
- managed_cluster: a cluster that was stopped is not in the list of available ones, so that a
  start by name falls through to another cluster (`common_functions.py:25`).

*Undo.*
- Every rollback callable logs its errors and returns, but shut_down's and the gcp zone's, which let an exception from outside
  their loop out: an undo that failed leaves a line in the log and a file renamed as executed. Nothing retries it.
- aws disks: `detach_volume` (`aws_node_scenarios.py:245`) only begins the detachment. A volume still in-use when it is to
  be attached again is not attached (`:255`), leaves afterwards, and the scenario returns 0.
- az: a machine whose instance view has fewer than two statuses ends a wait as if it had the state waited for
  (`az_node_scenarios.py:117`, `:147`), so that a shut down may start the cluster before all of it has stopped.
- What commands in a pod answer is dropped or logged (`utils_network_chaos.py:251`, `utils_network_filter.py:64`,
  `ingress_shaping.py:501`, `_remove_throttle` of storage_throttle, `:677`): a rule, an interface or a limit may stay, or a
  deletion by number take a rule of others. Shaping of ingress deletes the ingress discipline and `ifb0` whosever they are.
- A rollback in a signal handler runs beside the threads of a pool or of hogs: a pod deployed after its deletion stays.
- No node scenario registers a rollback. An `az` node_block in a pool may take the blocking group of
  another worker for the original, and restore it (`az_node_scenarios.py:365`); the removal of that group then
  fails. The exception is only logged, but if no worker had one, the subnet has its own group again.
- The callables of http_load and storage_throttle end in a NameError when run from their version file,
  which imports neither `base64` nor `json`: it is logged, nothing is undone, and the file
  counts as executed. syn_flood's stops at the first pod that cannot be deleted.
- storage_throttle: after a failure half way through the limits the finally clause deletes the pod they
  could be reset with. http_load and hogs replace the registration of an earlier entry or thread.
- network_chaos_ng: modules for nodes and pods undo nothing after an exception. With several processes in
  a pod, pod_network_filter deletes more rules than it added, and a failed deletion of the pod makes
  vmi_network_filter delete as many again: rules of others.
- node_interface_down: if the interface is not the node's uplink, the pod is deleted and the
  scheduled recovery with it.
- pod network outage: a serial run with the real numbers always gives up and deletes its jobs while the
  filter is set. If deleting the virtual interfaces raises, the jobs stay.
- zone outage on aws: subnets stay blocked if an ACL cannot be created half way.

*Ending.*
- shut_down asks for ever about a node whose stop was refused (`shut_down_scenario_plugin.py:144`). bm, docker and
  vmware wait without a limit, or beyond it.

## 12. What is not modelled

- In `ScenarioRollback`: a file that names several objects (`Deployments` has those), the deletion of the
  emptied directory, plugins other than application_outage; `Deployments` and `CloudOutages` have
  their callables.
- The chunks in which `pool.map` of a shut down of more than four nodes hands them out, and the pool of one thread of gcp: each node has a
  worker of its own.
- Two processes with the same configured uuid: `UuidOf` allows it, no run claims it safe.
- Configuration parsing, telemetry, elastic, reports, the wait between iterations, the historical
  window except that it may leave no scenario to run.
- IP addresses and node names of machines in the virt check; timestamps and durations, but for the waits
  of `TrafficShaping`.
- What a trigger's conditions answer: only the verdict of the wait, which is free.
- The resiliency score: floating point arithmetic in one thread. Nothing in the program reads it, not
  even the exit code.
- vSphere's creation of machines and disks, and what only its command line uses; which interface, port
  or process a network command names; the load of http_load, hogs and syn_flood and its metrics.
- `invoke/command.py` and the native plugin runner, except as calls that fail, exit, or fail unnoticed.
- The scenario plugin factory (naming rules at start), the chaos recommender (an offline analysis), junit
  and log formatting, the simple health check (an example).

*Assumed of krkn-lib*, which is not in the repository: deleting a pod waits until it is gone; its monitor
reports what it has not seen recover; `list_killable_*` lists what is ready or available.

## 13. Plan

Done: 1. `RollbackContract`, `ScenarioRollback`, its runs and proofs. 2. `HealthChecks`, `KrknRun`,
their runs and proofs. 3. `NodePrograms` to `Outages`. 4. The five modules of `Disruptions`.

5. `OutagesProofs`, `NetworkModulesProofs`, `PodKillsProofs`, `DeploymentsProofs`, `DisruptionsProofs`, and the two action
properties of `ScenarioRollbackProofs`: every safety property of every passing run.

Next: the steps of an abstract contract for `Deployments` and `CloudOutages` (a change is made only by who will
undo it, or names it), as `RollbackContract` is for `ScenarioRollback`, and its refinement; which safety lemmas the
liveness properties rest on (what decreases in each wait).
