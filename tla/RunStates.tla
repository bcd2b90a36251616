------------------------------ MODULE RunStates ------------------------------
(***************************************************************************)
(* The vocabulary of offboarding/domain/run.py: the statuses of a run, the *)
(* table of legal transitions between them, the reasons a run pauses or    *)
(* fails, and the seven workflow steps.                                    *)
(*                                                                         *)
(* A step is its position in the workflow, so that the order of WORKFLOW   *)
(* in orchestration/graph.py is the order of the naturals; END follows the *)
(* last step, as in the graph.                                             *)
(***************************************************************************)
EXTENDS Naturals

PENDING   == "pending"
RUNNING   == "running"
PAUSED    == "paused"
COMPLETED == "completed"
FAILED    == "failed"
CANCELLED == "cancelled"

RunStatus == {PENDING, RUNNING, PAUSED, COMPLETED, FAILED, CANCELLED}

TERMINAL_RUN_STATUSES == {COMPLETED, FAILED, CANCELLED}

ALLOWED_RUN_TRANSITIONS ==
    [s \in RunStatus |->
        CASE s = PENDING -> {RUNNING, CANCELLED}
          [] s = RUNNING -> {PAUSED, COMPLETED, FAILED, CANCELLED}
          [] s = PAUSED  -> {RUNNING, FAILED, CANCELLED}
          [] OTHER       -> {}]

is_terminal(s) == s \in TERMINAL_RUN_STATUSES

\* Statuses of one attempt at one step: a row of table step_trace.
SKIPPED    == "skipped"
StepStatus == {PENDING, RUNNING, PAUSED, COMPLETED, FAILED, SKIPPED}

ALLOWED_STEP_TRANSITIONS ==
    [s \in StepStatus |->
        CASE s = PENDING -> {RUNNING, SKIPPED}
          [] s = RUNNING -> {COMPLETED, FAILED, PAUSED, RUNNING}
          [] s = PAUSED  -> {RUNNING, COMPLETED, FAILED}
          [] s \in {FAILED, COMPLETED} -> {RUNNING}
          [] OTHER       -> {}]

transition_step(current, target) == target \in ALLOWED_STEP_TRANSITIONS[current]

HR_APPROVAL     == "hr_approval"
SIGNED_DOCUMENT == "signed_document"

PauseReason == {HR_APPROVAL, SIGNED_DOCUMENT}

TOOL_FAILED          == "tool_failed"
APPROVAL_REJECTED    == "approval_rejected"
BUDGET_EXCEEDED      == "budget_exceeded"
INVALID_PLAN         == "invalid_plan"
NEEDS_RECONCILIATION == "needs_reconciliation"

FailureReason == {TOOL_FAILED, APPROVAL_REJECTED, BUDGET_EXCEEDED,
                  "tool_not_allowed", INVALID_PLAN, NEEDS_RECONCILIATION}

FETCH_EMPLOYEE        == 1
PLAN_DEPROVISIONING   == 2
AWAIT_HR_APPROVAL     == 3
REVOKE_ACCESS         == 4
SEND_EXIT_PAPERWORK   == 5
AWAIT_SIGNED_DOCUMENT == 6
FINALIZE              == 7
END                   == 8

StepName == FETCH_EMPLOYEE .. FINALIZE

\* The steps whose tool is side-effecting, each with one ledger key.
EffectStep == {REVOKE_ACCESS, SEND_EXIT_PAPERWORK, FINALIZE}
=============================================================================
