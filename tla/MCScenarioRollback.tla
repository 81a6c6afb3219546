------------------------- MODULE MCScenarioRollback -------------------------
(* Instances of ScenarioRollback for TLC. *)
EXTENDS ScenarioRollback, TLC

CONSTANTS p1, p2, u1, u2, outage, zone

(* Every process generates its run uuid. *)
OwnUuid == p1 :> u1 @@ p2 :> u2

(* One process. *)
OneUuid == p1 :> u1

(* kraken.auto_rollback: the first process rolls back by itself, the       *)
(* second, as by default, leaves that to the operator.                     *)
FirstOnly == p1 :> TRUE @@ p2 :> FALSE
Automatic == p1 :> TRUE
Manual == p1 :> FALSE

=============================================================================
