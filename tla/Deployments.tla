----------------------------- MODULE Deployments -----------------------------
(***************************************************************************)
(* The scenarios that deploy pods or change something in place, and name   *)
(* what they did in the version file of the run: hogs, syn_flood,          *)
(* http_load, service_hijacking, pvc and storage_throttle, with the        *)
(* callables that undo it.                                                 *)
(*                                                                         *)
(* Each is a sequence of steps; every node of a hog scenario has a thread  *)
(* of its own that runs them.  The scenario of a run has one version file: *)
(* a registration replaces the one before.  The process may be killed, or  *)
(* get a signal: its main thread then rolls back, and other threads go on. *)
(***************************************************************************)
EXTENDS ScenarioThread, Naturals, SequencesExt

CONSTANTS
  Units,   \* numbers of targets, entries, nodes or throttle files considered
  PodsPer, \* number-of-pods
  Slips    \* bound: calls that raise in one behaviour

(* Without a target there is nothing to do: hogs raises, the others return. *)
ASSUME DeploymentsAssumption == {PodsPer, Slips} \subseteq Nat /\ Units \subseteq Nat \ {0}

Deployer == {"hogs", "syn_flood", "http_load", "hijacking", "pvc", "throttle"}

VARIABLES
  units,
  hands,     \* the threads: index of their step, and state
  made,      \* what of this scenario is in the cluster
  live,      \* the pods of it that have not finished
  named,     \* what the version file names
  todo,      \* what the rollback has still to undo
  unreached, \* history: what was not undone when its turn came
  late,      \* history: what was made beside the rollback, or after it
  slips      \* history: calls that raised

clustervars == <<made, live, late>>
rollvars == <<todo, unreached>>
deployvars == <<units, hands, clustervars, named, rollvars, slips>>

PodOf(i, j) == <<"pod", i, j>>
Change(i) == <<"change", i, 1>>
PodsOf(i, last) == {PodOf(i, j) : j \in 1..last}

DeployInit ==
  /\ hands = <<>> /\ made = {} /\ live = {} /\ named = {}
  /\ todo = {} /\ unreached = {} /\ late = {} /\ slips = 0
DeployIdle == DeployInit /\ units = 1
DeployStarts ==
  DeployInit /\ units \in (IF plugin \in {"hijacking", "pvc"} THEN {1} ELSE Units)

-----------------------------------------------------------------------------
(* The steps. *)

Instr(do, on, bad) == [do |-> do, on |-> on, bad |-> bad]
Look == Instr("look", {}, {"raise"})
Hold == Instr("hold", {}, {})
Make(t) == Instr("make", {t}, {"raise"})
Name(ts) == Instr("name", ts, {})
Await(ts, bad) == Instr("await", ts, bad)
Unmake(t) == Instr("unmake", {t}, {"raise"})
Unseen(step) == [step EXCEPT !.bad = {"raise", "on"}] \* may do nothing, without a word

(* The last step divides by the number of samples, which is zero when the  *)
(* duration is short. *)
Hog(i) ==
  <<Look, Name({PodOf(i, 1)}), Make(PodOf(i, 1)), Await({PodOf(i, 1)}, {"raise"}),
    Unmake(PodOf(i, 1)), Look>>

(* Mutant: the pods of a target are registered on their own. *)
SynFloodByTarget ==
  LET pods(i) == [j \in 1..PodsPer |-> Make(PodOf(i, j))]
      target == [i \in 1..units |-> <<Look>> \o pods(i) \o <<Name(PodsOf(i, PodsPer))>>]
  IN  FlattenSeq(target)
        \o <<Await(UNION {PodsOf(k, PodsPer) : k \in 1..units}, {"raise"})>>
SynFlood ==
  LET pods(i) == [j \in 1..PodsPer |-> Make(PodOf(i, j))]
      upTo(i) == UNION {PodsOf(k, PodsPer) : k \in 1..i}
      target == [i \in 1..units |-> <<Look>> \o pods(i) \o <<Name(upTo(i))>>]
  IN  FlattenSeq(target) \o <<Await(upTo(units), {"raise"})>>

(* The wait gives up after the duration and a minute, and goes on. *)
HttpLoad ==
  LET pod(i) == [j \in 1..PodsPer |-> <<Make(PodOf(i, j)), Name(PodsOf(i, j))>>]
      entry(i) ==
        <<Look>> \o FlattenSeq(pod(i)) \o <<Await(PodsOf(i, PodsPer), {"raise", "on"})>>
  IN  FlattenSeq([i \in 1..units |-> entry(i)])

(* Mutant: the web server is not taken down. *)
HijackingStays ==
  <<Look, Make(PodOf(1, 1)), Make(Change(1)), Name({PodOf(1, 1), Change(1)}), Hold,
    Unmake(Change(1))>>
Hijacking ==
  <<Look, Make(PodOf(1, 1)), Make(Change(1)), Name({PodOf(1, 1), Change(1)}), Hold,
    Unmake(Change(1)), Unmake(PodOf(1, 1))>>

(* The file may not be there although nothing was raised; then it is not   *)
(* registered and the scenario fails. *)
Pvc ==
  <<Look, Unseen(Make(Change(1))), [Name({Change(1)}) EXCEPT !.bad = {"raise"}], Hold,
    Unmake(Change(1))>>

(* A privileged pod writes the limits, one file after the other in version *)
(* one of cgroups.  What the shell answers is not looked at: a write may   *)
(* have changed nothing. *)
Throttle ==
  LET limits == {Change(i) : i \in 1..units}
      writes == [i \in 1..units |-> Unseen(Make(Change(i)))]
      resets == [i \in 1..units |-> Unseen(Unmake(Change(i)))]
  IN  <<Look, Make(PodOf(1, 1)), Look, Name({PodOf(1, 1)} \cup limits)>>
        \o writes \o <<Hold>> \o resets

StepsOf(h) ==
  CASE plugin = "hogs" -> Hog(h)
    [] plugin = "syn_flood" -> SynFlood
    [] plugin = "http_load" -> HttpLoad
    [] plugin = "hijacking" -> Hijacking
    [] plugin = "pvc" -> Pvc
    [] plugin = "throttle" -> Throttle

-----------------------------------------------------------------------------
(* The threads. *)

Slip == slips < Slips /\ slips' = slips + 1
Deploying(pc) == At(Deployer, pc)

BeginDeploy ==
  /\ Deploying("entry")
  /\ \/ Slip /\ Return(1) /\ UNCHANGED hands
     \/ /\ Goes("hands") /\ UNCHANGED slips
        /\ hands' = [h \in 1..(IF plugin = "hogs" THEN units ELSE 1) |-> [i |-> 1, st |-> "on"]]
  /\ UNCHANGED <<units, clustervars, named, rollvars>>

At1(h) == StepsOf(h)[hands[h].i]
(* The threads of hogs are daemons: a rollback on the main thread does not *)
(* stop them, only the end of the process does.                            *)
Beside == At({"hogs"}, "rolling") \/ At({"hogs"}, "rolled")
Working == Deploying("hands") \/ Beside
Does(h, do) == Working /\ hands[h].st = "on" /\ At1(h).do = do
(* Mutant: the last step is no end. *)
OneOnPast(h) == hands' = [hands EXCEPT ![h].i = @ + 1]
OneOn(h) ==
  hands' = [hands EXCEPT ![h] = IF @.i = Len(StepsOf(h)) THEN [@ EXCEPT !.st = "done"]
                                ELSE [@ EXCEPT !.i = hands[h].i + 1]]
Kept == UNCHANGED <<threadvars, units, todo>>
Grown(ts) ==
  /\ made' = made \cup ts /\ live' = live \cup {t \in ts : t[1] = "pod"}
  /\ late' = IF Beside THEN late \cup ts ELSE late
Shrunk(ts) == made' = made \ ts /\ live' = live \ ts /\ UNCHANGED late

Passes(h) ==
  /\ \/ Does(h, "look") \/ Does(h, "hold")
     \/ Does(h, "await") /\ (At1(h).on \cap live = {} \/ "on" \in At1(h).bad)
     \/ Does(h, "make") /\ "on" \in At1(h).bad
  /\ OneOn(h) /\ Kept /\ UNCHANGED <<clustervars, named, unreached, slips>>
Makes(h) ==
  /\ Does(h, "make") /\ Grown(At1(h).on)
  /\ OneOn(h) /\ Kept /\ UNCHANGED <<named, unreached, slips>>
Registers(h) ==
  /\ Does(h, "name") /\ (plugin = "pvc" => At1(h).on \subseteq made)
  /\ named' = At1(h).on
  /\ OneOn(h) /\ Kept /\ UNCHANGED <<clustervars, unreached, slips>>
Unmakes(h) ==
  /\ Does(h, "unmake")
  /\ \/ Shrunk(At1(h).on) /\ UNCHANGED unreached
     \/ "on" \in At1(h).bad /\ UNCHANGED clustervars /\ unreached' = unreached \cup At1(h).on
  /\ OneOn(h) /\ Kept /\ UNCHANGED <<named, slips>>

(* A call raises, before or after it has had its effect, or answers that   *)
(* there is nothing; the file of pvc is not found. *)
Trips(h) ==
  /\ Working /\ hands[h].st = "on" /\ "raise" \in At1(h).bad
  /\ IF Does(h, "name") /\ ~(At1(h).on \subseteq made) THEN UNCHANGED slips ELSE Slip
  /\ hands' = [hands EXCEPT ![h].st = "failed"]
  /\ \/ UNCHANGED clustervars
     \/ Does(h, "make") /\ Grown(At1(h).on)
     \/ Does(h, "unmake") /\ Shrunk(At1(h).on)
  /\ Kept /\ UNCHANGED <<named, unreached>>

(* A pod has done its work. *)
Finishes(t) ==
  /\ live' = live \ {t}
  /\ UNCHANGED <<threadvars, units, hands, made, late, named, rollvars, slips>>

-----------------------------------------------------------------------------
(* The end of run. *)

HandsEnd == \A h \in DOMAIN hands : hands[h].st # "on"
Broke == \E h \in DOMAIN hands : hands[h].st = "failed"

(* The finally clause of storage_throttle, from the deployment of the pod  *)
(* on: throttle_applied is true after the last write and before the last   *)
(* reset is done. *)
Applied == hands[1].i > 4 + units /\ hands[1].st = "failed"
JoinHands ==
  /\ Deploying("hands") /\ HandsEnd
  /\ IF plugin = "throttle" /\ hands[1].i > 2
     THEN IF Broke THEN Raises(IF Applied THEN "lifting" ELSE "clean_pod") ELSE Goes("clean_pod")
     ELSE Return(IF Broke THEN 1 ELSE 0)
  /\ todo' = IF plugin = "throttle" THEN {t \in made : t[1] = "change"} ELSE {}
  /\ UNCHANGED <<clustervars, units, hands, named, unreached, slips>>
Lifts ==
  /\ Deploying("lifting")
  /\ \/ /\ \E t \in todo :
             /\ todo' = todo \ {t}
             /\ \/ Shrunk({t}) /\ UNCHANGED unreached
                \/ UNCHANGED clustervars /\ unreached' = unreached \cup {t}
        /\ UNCHANGED <<threadvars, slips>>
     \/ /\ todo # {} /\ Slip /\ Goes("clean_pod") /\ todo' = {} /\ UNCHANGED <<clustervars, unreached>>
     \/ /\ todo = {} /\ Goes("clean_pod") /\ UNCHANGED <<clustervars, todo, unreached, slips>>
  /\ UNCHANGED <<units, hands, named>>
CleansPod ==
  /\ Deploying("clean_pod") /\ Return(rc)
  /\ \/ Shrunk({PodOf(1, 1)}) /\ UNCHANGED slips
     \/ Slip /\ UNCHANGED clustervars
  /\ UNCHANGED <<units, hands, named, rollvars>>

-----------------------------------------------------------------------------
(* The rollback. *)

(* The process is killed; krkn, or a user with the krkn commands, executes *)
(* the version file after a failure or a kill. *)
KilledNow ==
  /\ plugin \in Deployer /\ main \in {"hands", "lifting", "clean_pod"} /\ Goes("killed")
  /\ hands' = <<>> /\ todo' = {}
  /\ UNCHANGED <<clustervars, units, named, unreached, slips>>
RollBack ==
  /\ Deploying("killed") \/ (Deploying("returned") /\ rc = 1)
  /\ named # {} /\ Goes("rolling") /\ todo' = named
  /\ UNCHANGED <<clustervars, units, hands, named, unreached, slips>>
(* A signal: the handler rolls back on the main thread.  It does what a    *)
(* kill and a rollback after it do, unless other threads are at work. *)
Signalled ==
  /\ At({"hogs"}, "hands") /\ named # {} /\ Goes("rolling") /\ todo' = named
  /\ UNCHANGED <<clustervars, units, hands, named, unreached, slips>>

(* What a callable leaves out when a call fails: the rest in one try. *)
LeftOut(t) ==
  CASE plugin = "syn_flood" -> {todo}
    [] plugin = "hijacking" /\ t[1] = "change" -> {{t}, todo}
    [] OTHER -> {{t}}
(* The callables that use json and base64 without importing them: the      *)
(* version file does not either, so they end at once, and only log it. *)
Unimported == {"http_load", "throttle"}
NameErrors ==
  /\ Deploying("rolling") /\ todo # {} /\ plugin \in Unimported
  /\ todo' = {} /\ unreached' = unreached \cup todo
  /\ UNCHANGED <<clustervars, threadvars, units, hands, named, slips>>
(* Mutant: the callable returns after the first of a list. *)
RollsFirst ==
  /\ Deploying("rolling") /\ todo # {} /\ plugin \notin Unimported
  /\ \E t \in todo : Shrunk({t}) /\ todo' = {}
  /\ UNCHANGED <<threadvars, units, hands, named, unreached, slips>>
Rolls ==
  /\ Deploying("rolling") /\ todo # {} /\ plugin \notin Unimported
  /\ \E t \in todo :
       /\ t[1] = "pod" => \A u \in todo : u[1] = "pod"
       /\ \/ Shrunk({t}) /\ todo' = todo \ {t} /\ UNCHANGED <<unreached, slips>>
          \/ /\ Slip /\ UNCHANGED clustervars
             /\ \E out \in LeftOut(t) : todo' = todo \ out /\ unreached' = unreached \cup out
  /\ UNCHANGED <<threadvars, units, hands, named>>
RolledBack ==
  /\ Deploying("rolling") /\ todo = {} /\ Goes("rolled")
  /\ UNCHANGED deployvars

HandStep(h) == Passes(h) \/ Makes(h) \/ Registers(h) \/ Unmakes(h) \/ Trips(h)
DeployStep ==
  \/ BeginDeploy \/ JoinHands \/ Lifts \/ CleansPod \/ RollBack \/ NameErrors \/ Rolls \/ RolledBack
  \/ \E h \in DOMAIN hands : HandStep(h)
=============================================================================
