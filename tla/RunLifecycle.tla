---------------------------- MODULE RunLifecycle ----------------------------
(***************************************************************************)
(* The durable life of a run, as the callers of RunManager rely on it: the *)
(* status of each run and the moves it may make, each in one step.         *)
(***************************************************************************)

CONSTANT Runs    \* run identifiers

VARIABLE status  \* status[r]: the status stored for r, "absent" before prepare

(* RUN_STATES and TERMINAL_STATES of run_manager.py.                       *)
RunStates ==
  {"prepared", "started", "checkpointed", "completed", "blocked", "failed", "cancelled"}
TerminalStates == {"completed", "cancelled"}

(* What an operation requires of the stored status, and what it stores.    *)
Allowed(op) ==
  CASE op = "start"      -> {"prepared", "checkpointed", "blocked", "failed"}
    [] op = "checkpoint" -> {"started"}
    [] op \in {"complete", "block", "fail_retryable", "fail_fatal"} ->
                            {"started", "checkpointed"}
    [] OTHER             -> RunStates \ TerminalStates  \* cancel

MisspeltStatusAfter(op) == IF op = "cancel" THEN "canceled" ELSE "started"

StatusAfter(op) ==
  CASE op = "start"      -> "started"
    [] op = "checkpoint" -> "checkpointed"
    [] op = "complete"   -> "completed"
    [] op = "block"      -> "blocked"
    [] op \in {"fail_retryable", "fail_fatal"} -> "failed"
    [] OTHER             -> "cancelled"

TransitionOps ==
  {"start", "checkpoint", "complete", "block", "fail_retryable", "fail_fatal", "cancel"}

(* The moves a status may make, listed: the operations above may make no   *)
(* other.                                                                  *)
LegalMoves ==
  {<<"absent", "prepared">>,
   <<"prepared", "started">>,     <<"prepared", "cancelled">>,
   <<"started", "checkpointed">>, <<"started", "completed">>,
   <<"started", "blocked">>,      <<"started", "failed">>,
   <<"started", "cancelled">>,
   <<"checkpointed", "started">>, <<"checkpointed", "completed">>,
   <<"checkpointed", "blocked">>, <<"checkpointed", "failed">>,
   <<"checkpointed", "cancelled">>,
   <<"blocked", "started">>,      <<"blocked", "cancelled">>,
   <<"failed", "started">>,       <<"failed", "cancelled">>}

Init == status = [r \in Runs |-> "absent"]

Move(r) ==
  \E s \in RunStates : /\ <<status[r], s>> \in LegalMoves
                       /\ status' = [status EXCEPT ![r] = s]

Next == \E r \in Runs : Move(r)

Spec == Init /\ [][Next]_status
=============================================================================
