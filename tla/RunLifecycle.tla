---------------------------- MODULE RunLifecycle ----------------------------
(***************************************************************************)
(* What scenarios/state.py promises of a run's status: it starts CREATED   *)
(* and only ever follows the TRANSITIONS table; RunState.transition raises *)
(* InvalidTransition on any other move.  Review is shown to implement this *)
(* specification, so no call of transition() in the orchestrator raises.   *)
(***************************************************************************)

VARIABLE status

Statuses == {"created", "validated", "invalid", "deliberating",
             "executing_tools", "concluded", "budget_exhausted", "failed"}

TerminalStatuses == {"invalid", "concluded", "budget_exhausted", "failed"}

\* The table; statuses it does not list allow nothing (TRANSITIONS.get(.., set())).
Transitions ==
    [s \in Statuses |->
        CASE s = "created"         -> {"validated", "invalid"}
          [] s = "validated"       -> {"deliberating", "failed"}
          [] s = "deliberating"    -> {"executing_tools", "concluded",
                                       "budget_exhausted", "failed"}
          [] s = "executing_tools" -> {"deliberating", "budget_exhausted", "failed"}
          [] OTHER                 -> {}]

Init == status = "created"

Transition(to) ==
    /\ to \in Transitions[status]
    /\ status' = to

Next == \E to \in Statuses : Transition(to)

Spec == Init /\ [][Next]_status
=============================================================================
