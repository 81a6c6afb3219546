----------------------------- MODULE MCKrknRun -----------------------------
(* Instances of KrknRun for TLC. *)
EXTENDS KrknRun, TLC

(* What most users run: a signal server, the alerts checked; the triggers  *)
(* do not stop the run when they time out.                                 *)
Usual ==
  [publish |-> TRUE, signal |-> "RUN", alerts |-> TRUE, profile |-> "off",
   triggers |-> "run_anyway", raises |-> FALSE]

(* Other options, several per configuration where they do not interact.    *)
Variants ==
  {[Usual EXCEPT !.raises = TRUE],
   [publish |-> FALSE, signal |-> "PAUSE", alerts |-> FALSE, profile |-> "set",
    triggers |-> "skip", raises |-> FALSE],
   [Usual EXCEPT !.signal = "STOP", !.profile = "missing", !.triggers = "fail"],
   [Usual EXCEPT !.triggers = "invalid"]}

Untriggered == [Usual EXCEPT !.triggers = "none"]
Paused == {Untriggered, [Untriggered EXCEPT !.signal = "PAUSE"]}
Raising == {[Usual EXCEPT !.raises = TRUE]}
OnlyUsual == {Usual}

(* What there is to check: URLs only, machines only, or one of each.       *)
Only(us, bs) == [urls |-> us, vms |-> bs]
Separate == {Only(Url, {}), Only({}, Batch)}
Together == Separate \cup {Only(Url, {b}) : b \in Batch}
Everything == {Only(Url, Batch)}

(* Nothing tells one batch from another. *)
BatchSymmetry == Permutations(Batch)

=============================================================================
