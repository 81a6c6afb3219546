--------------------------- MODULE ScenarioThread ---------------------------
(***************************************************************************)
(* The thread that calls the run method of a scenario plugin: which plugin *)
(* it is, where it is, and what the method returns.  Every scenario module *)
(* extends this one and adds what its plugin keeps and does.               *)
(***************************************************************************)

VARIABLES
  plugin, \* the scenario plugin that runs
  main,   \* where its thread is
  rc      \* what its run method returns

At(which, pc) == plugin \in which /\ main = pc
Goes(pc) == main' = pc /\ UNCHANGED <<plugin, rc>>
Return(code) == main' = "returned" /\ rc' = code /\ UNCHANGED plugin
(* An exception that ends the method once it has been to pc, where a       *)
(* finally clause starts.                                                  *)
Raises(pc) == main' = pc /\ rc' = 1 /\ UNCHANGED plugin
Over == main \in {"returned", "exited"}

threadvars == <<plugin, main, rc>>

=============================================================================
