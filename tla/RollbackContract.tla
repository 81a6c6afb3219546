-------------------------- MODULE RollbackContract --------------------------
(***************************************************************************)
(* What the rollback subsystem promises, without processes, files, signals *)
(* or crashes.  A change is promised (something that can undo it is        *)
(* recorded), asked of the API server, applied, and finally undone; the    *)
(* record is released only when the change is neither in the cluster nor   *)
(* on its way there, or after it has been given up.  ScenarioRollback      *)
(* implements this contract, a record being a pending version file, and a  *)
(* change being given up when writing its file or undoing it has failed.   *)
(***************************************************************************)
CONSTANT Change

VARIABLES live,        \* changes in the cluster
          asked,       \* changes the API server may still apply
          recoverable, \* changes for which an undo is recorded
          waived       \* changes given up

cvars == <<live, asked, recoverable, waived>>

CInit == live = {} /\ asked = {} /\ recoverable = {} /\ waived = {}

Promise(c) ==
  /\ recoverable' = recoverable \cup {c}
  /\ UNCHANGED <<live, asked, waived>>

Ask(c) ==
  /\ c \in recoverable \cup waived
  /\ asked' = asked \cup {c}
  /\ UNCHANGED <<live, recoverable, waived>>

(* The server applies the request. *)
Grant(c) ==
  /\ c \in asked
  /\ live' = live \cup {c} /\ asked' = asked \ {c}
  /\ UNCHANGED <<recoverable, waived>>

(* The server refuses or loses the request. *)
Refuse(c) ==
  /\ asked' = asked \ {c}
  /\ UNCHANGED <<live, recoverable, waived>>

(* By the scenario itself or by a rollback. *)
Withdraw(c) ==
  /\ live' = live \ {c}
  /\ UNCHANGED <<asked, recoverable, waived>>

(* A step of its own: no record is lost in the step that gives it up. *)
Waive ==
  /\ waived \subseteq waived'
  /\ UNCHANGED <<live, asked, recoverable>>

Release(c) ==
  /\ c \notin live \cup asked \/ c \in waived
  /\ recoverable' = recoverable \ {c}
  /\ UNCHANGED <<live, asked, waived>>

CNext ==
  \/ Waive
  \/ \E c \in Change : \/ Promise(c) \/ Ask(c) \/ Grant(c) \/ Refuse(c)
                       \/ Withdraw(c) \/ Release(c)

CSpec == CInit /\ [][CNext]_cvars

=============================================================================
