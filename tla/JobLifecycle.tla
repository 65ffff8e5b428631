--------------------------- MODULE JobLifecycle ---------------------------
(***************************************************************************)
(* What a runtime job promises to the client that polls it: the status a  *)
(* job reports moves only forward along the lifecycle of spec section 4.2 *)
(* (QUEUED -> RUNNING -> {COMPLETED, FAILED, CANCELLED - RAN TOO LONG},    *)
(* CANCELLED from QUEUED or RUNNING on request), terminal statuses are     *)
(* absorbing, and a deleted job stays deleted.  A job may be created in    *)
(* any status: the fake backend's set_final_status creates jobs directly   *)
(* in the status the test asks for.                                        *)
(***************************************************************************)
CONSTANT JobIds

VARIABLE lifecycle

Pending  == {"QUEUED", "RUNNING"}
Terminal == {"COMPLETED", "FAILED", "CANCELLED", "CANCELLED-RAN-TOO-LONG"}
Statuses == Pending \cup Terminal

\* The edges a reported status may follow.
Edges ==
  {<<"QUEUED", "RUNNING">>, <<"QUEUED", "CANCELLED">>, <<"RUNNING", "CANCELLED">>}
  \cup {<<"RUNNING", s>> : s \in {"COMPLETED", "FAILED", "CANCELLED-RAN-TOO-LONG"}}

LTypeOK == lifecycle \in [JobIds -> Statuses \cup {"ABSENT", "DELETED"}]

LInit == lifecycle = [j \in JobIds |-> "ABSENT"]

\* A job is submitted, in QUEUED or directly in a forced status.
Submit(j) ==
  /\ lifecycle[j] = "ABSENT"
  /\ \E s \in Statuses : lifecycle' = [lifecycle EXCEPT ![j] = s]

\* The job's reported status takes one edge of the lifecycle.
Advance(j) ==
  \E s \in Statuses :
    /\ <<lifecycle[j], s>> \in Edges
    /\ lifecycle' = [lifecycle EXCEPT ![j] = s]

\* The job is removed from the registry.
Delete(j) ==
  /\ lifecycle[j] \in Statuses
  /\ lifecycle' = [lifecycle EXCEPT ![j] = "DELETED"]

LNext == \E j \in JobIds : Submit(j) \/ Advance(j) \/ Delete(j)

LSpec == LInit /\ [][LNext]_lifecycle
============================================================================
