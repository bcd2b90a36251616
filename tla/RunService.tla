----------------------------- MODULE RunService -----------------------------
(***************************************************************************)
(* The lifecycle of one offboarding run: RunService (start, approve,       *)
(* reject, submit_signed_document, resume_run, cancel_run and _advance),   *)
(* the guard and the seven nodes of the workflow, the run row they share   *)
(* and the checkpoint LangGraph keeps for the run's thread.                *)
(*                                                                         *)
(* A driver is one client request in execution: an API worker thread or a  *)
(* CLI process.  A RunService keeps nothing about a run in memory, so any  *)
(* number of drivers may work on the same run; what one of them has read   *)
(* and not yet acted upon is in pc[d], at[d], input[d] and result[d].      *)
(* Runs share no state, each having its own row, thread and keys: one run  *)
(* stands for all.                                                         *)
(*                                                                         *)
(* A tool call is two steps here: its effect lands, and execute ends.      *)
(* EffectService states that contract, which ToolExecutor implements.      *)
(*                                                                         *)
(* The rows of step_trace are left out: no request, guard, node outcome or *)
(* status depends on one.  TracedRun adds them for the steps without a     *)
(* tool, and the plan; ToolExecutor has the rows of the tool steps.        *)
(***************************************************************************)
EXTENDS RunStates, FiniteSets

CONSTANTS
    Drivers,     \* requests that may be in execution at once
    max_steps,   \* runs.max_steps: the step allowance of the run
    MaxCrashes   \* bound: process deaths in a behaviour

ASSUME DriversAssumption    == IsFiniteSet(Drivers) /\ Drivers # {}
ASSUME MaxStepsAssumption   == max_steps \in Nat
ASSUME MaxCrashesAssumption == MaxCrashes \in Nat

VARIABLES
    \* the row of table runs
    status, pause_reason, failure_reason, cancel_requested, step_count,
    \* the thread's latest checkpoint: the step to run next (0: none written),
    \* and the resume value stored with it for that step's interrupt()
    checkpoint, pending,
    \* the providers: steps whose side effect has landed
    effects,
    \* the drivers
    pc, at, input, result,
    \* history: requests accepted, effects landed after a cancellation was
    \* requested, process deaths
    accepted, late, crashes

row     == <<status, pause_reason, failure_reason, cancel_requested, step_count>>
thread  == <<checkpoint, pending>>
locals  == <<pc, at, input, result>>
vars    == <<row, thread, effects, locals, accepted, late, crashes>>

\* What Command(resume=...) carries: HR's decision or the signed document.
ResumeValue == {"approve", "reject", "signature"}

\* start_run's initial state, resume_run's None, or a Command.
GraphInput == {"fresh", "none"} \cup ResumeValue

Position == {"idle", "set_running", "set_cancelled", "flag", "invoke",
             "guard", "bump", "body", "return", "settle"}

\* How graph.invoke ended: the status _advance will write, and the reason.
Settlement ==
    ({PAUSED} \X PauseReason) \cup ({FAILED} \X FailureReason)
        \cup ({COMPLETED, CANCELLED} \X {"none"})

TypeOK ==
    /\ status \in RunStatus \cup {"none"}
    /\ pause_reason \in PauseReason \cup {"none"}
    /\ failure_reason \in FailureReason \cup {"none"}
    /\ cancel_requested \in BOOLEAN
    /\ step_count \in Nat
    /\ checkpoint \in StepName \cup {0, END}
    /\ pending \in ResumeValue \cup {"none"}
    /\ effects \subseteq EffectStep
    /\ pc \in [Drivers -> Position]
    /\ at \in [Drivers -> StepName \cup {0, END}]
    /\ input \in [Drivers -> GraphInput]
    /\ result \in [Drivers -> Settlement \cup {<<"none", "none">>}]
    /\ accepted \subseteq ResumeValue
    /\ late \subseteq EffectStep
    /\ crashes \in Nat

\* No row, no thread, no request.
Init ==
    /\ status = "none" /\ pause_reason = "none" /\ failure_reason = "none"
    /\ cancel_requested = FALSE /\ step_count = 0
    /\ checkpoint = 0 /\ pending = "none"
    /\ effects = {}
    /\ pc = [d \in Drivers |-> "idle"]
    /\ at = [d \in Drivers |-> 0]
    /\ input = [d \in Drivers |-> "none"]
    /\ result = [d \in Drivers |-> <<"none", "none">>]
    /\ accepted = {} /\ late = {} /\ crashes = 0

-----------------------------------------------------------------------------
(* RunRepository *)

transition_run(target) == target \in ALLOWED_RUN_TRANSITIONS[status]

\* Mutant: the move is not validated.
SetStatusUnchecked(target, reason) ==
    /\ status' = target
    /\ pause_reason' = IF target = PAUSED THEN reason ELSE "none"
    /\ failure_reason' = IF target = FAILED THEN reason ELSE failure_reason
    /\ UNCHANGED <<cancel_requested, step_count>>

\* Mutant: one column takes both kinds of reason.
SetStatusOneReason(target, reason) ==
    /\ transition_run(target)
    /\ status' = target
    /\ pause_reason' = reason
    /\ UNCHANGED <<failure_reason, cancel_requested, step_count>>

\* UPDATE runs inside BEGIN IMMEDIATE, after the move was validated against
\* the status read in the same transaction.  The pause reason is overwritten,
\* the failure reason is kept unless a new one is given.
set_status(target, reason) ==
    /\ transition_run(target)
    /\ status' = target
    /\ pause_reason' = IF target = PAUSED THEN reason ELSE "none"
    /\ failure_reason' = IF target = FAILED THEN reason ELSE failure_reason
    /\ UNCHANGED <<cancel_requested, step_count>>

-----------------------------------------------------------------------------
(* Drivers *)

Goto(d, p) == pc' = [pc EXCEPT ![d] = p]

\* The request returns, raises out of the service, or dies.
Leave(d) ==
    /\ Goto(d, "idle")
    /\ at' = [at EXCEPT ![d] = 0]
    /\ input' = [input EXCEPT ![d] = "none"]
    /\ result' = [result EXCEPT ![d] = <<"none", "none">>]

\* A request that has passed its checks and will set the run RUNNING before
\* it invokes the graph with i.
Request(d, i) ==
    /\ Goto(d, "set_running")
    /\ input' = [input EXCEPT ![d] = i]
    /\ UNCHANGED <<at, result, thread, effects, accepted, late, crashes>>

\* start_run: INSERT the row as PENDING.
start_run(d) ==
    /\ pc[d] = "idle"
    /\ status = "none"
    /\ status' = PENDING
    /\ Request(d, "fresh")
    /\ UNCHANGED <<pause_reason, failure_reason, cancel_requested, step_count>>

\* Mutant: any pause will do.
RequirePaused(reason) == status = PAUSED

_require_paused_for(reason) == status = PAUSED /\ pause_reason = reason

_resolve_approval(d, decision) ==
    /\ pc[d] = "idle"
    /\ _require_paused_for(HR_APPROVAL)
    /\ Request(d, decision)
    /\ UNCHANGED row

approve(d) == _resolve_approval(d, "approve")
reject(d)  == _resolve_approval(d, "reject")

submit_signed_document(d) ==
    /\ pc[d] = "idle"
    /\ _require_paused_for(SIGNED_DOCUMENT)
    /\ Request(d, "signature")
    /\ UNCHANGED row

\* set_status(RUNNING), in its own transaction after the checks above; a row
\* that has moved on to a status that forbids it raises.
SetRunning(d) ==
    /\ pc[d] = "set_running"
    /\ \/ /\ set_status(RUNNING, "none")
          /\ Goto(d, "invoke")
          /\ accepted' = accepted \cup ({input[d]} \cap ResumeValue)
          /\ UNCHANGED <<at, input, result>>
       \/ /\ ~transition_run(RUNNING)
          /\ Leave(d)
          /\ UNCHANGED <<row, accepted>>
    /\ UNCHANGED <<thread, effects, late, crashes>>

\* Mutant: any run can be resumed.
ResumeAnyRun(d) ==
    /\ pc[d] = "idle"
    /\ status # "none"
    /\ Goto(d, "invoke")
    /\ UNCHANGED <<row, thread, effects, at, input, result, accepted, late, crashes>>

\* resume_run: only a RUNNING run, and no status is written.
resume_run(d) ==
    /\ pc[d] = "idle"
    /\ status = RUNNING
    /\ Goto(d, "invoke")
    /\ UNCHANGED <<row, thread, effects, at, input, result, accepted, late, crashes>>

\* cancel_run: the status read decides between cancelling at once and setting
\* the flag.
cancel_run(d) ==
    /\ pc[d] = "idle"
    /\ status # "none" /\ ~is_terminal(status)
    /\ Goto(d, IF status \in {PENDING, PAUSED} THEN "set_cancelled" ELSE "flag")
    /\ UNCHANGED <<row, thread, effects, at, input, result, accepted, late, crashes>>

SetCancelled(d) ==
    /\ pc[d] = "set_cancelled"
    /\ \/ set_status(CANCELLED, "none")
       \/ ~transition_run(CANCELLED) /\ UNCHANGED row
    /\ Leave(d)
    /\ UNCHANGED <<thread, effects, accepted, late, crashes>>

\* request_cancel sets the flag whatever the status has become.
request_cancel(d) ==
    /\ pc[d] = "flag"
    /\ cancel_requested' = TRUE
    /\ Leave(d)
    /\ UNCHANGED <<status, pause_reason, failure_reason, step_count,
                   thread, effects, accepted, late, crashes>>

-----------------------------------------------------------------------------
(* LangGraph: invoke loads the thread's latest checkpoint and runs nodes    *)
(* from there, writing a checkpoint after each.                             *)

\* The driver's next node, or the end of the graph.
Enter(d, step) ==
    /\ at' = [at EXCEPT ![d] = step]
    /\ Goto(d, IF step = END THEN "settle" ELSE "guard")
    /\ result' = [result EXCEPT ![d] =
                    IF step = END THEN <<COMPLETED, "none">> ELSE @]

\* Mutant: a resumed run is given its initial state again.
InvokeFromTheTop(d) ==
    /\ pc[d] = "invoke"
    /\ \/ /\ input[d] \in {"fresh", "none"}
          /\ checkpoint' = FETCH_EMPLOYEE
          /\ pending' = "none"
          /\ input' = [input EXCEPT ![d] = "none"]
          /\ Enter(d, FETCH_EMPLOYEE)
       \/ /\ input[d] \in ResumeValue
          /\ pending' = input[d]
          /\ Enter(d, checkpoint)
          /\ UNCHANGED <<checkpoint, input>>
    /\ UNCHANGED <<row, effects, accepted, late, crashes>>

\* A fresh input starts the thread.  A Command stores its resume value with
\* the checkpoint, for whichever interrupt() the checkpoint's step reaches.
\* No input continues the thread with the value already stored, if any.
Invoke(d) ==
    /\ pc[d] = "invoke"
    /\ \/ /\ input[d] = "fresh"
          /\ checkpoint' = FETCH_EMPLOYEE
          /\ pending' = "none"
          /\ input' = [input EXCEPT ![d] = "none"]
          /\ Enter(d, FETCH_EMPLOYEE)
       \/ /\ input[d] \in ResumeValue
          /\ pending' = input[d]
          /\ Enter(d, checkpoint)
          /\ UNCHANGED <<checkpoint, input>>
       \/ /\ input[d] = "none" /\ checkpoint # 0
          /\ input' = [input EXCEPT ![d] = pending]
          /\ Enter(d, checkpoint)
          /\ UNCHANGED thread
       \/ /\ input[d] = "none" /\ checkpoint = 0   \* EmptyInputError
          /\ Leave(d)
          /\ UNCHANGED thread
    /\ UNCHANGED <<row, effects, accepted, late, crashes>>

\* The node returned: its checkpoint is written and the next node is entered.
NodeReturns(d) ==
    /\ pc[d] = "return"
    /\ checkpoint' = at[d] + 1
    /\ pending' = "none"
    /\ input' = [input EXCEPT ![d] = "none"]
    /\ Enter(d, at[d] + 1)
    /\ UNCHANGED <<row, effects, accepted, late, crashes>>

-----------------------------------------------------------------------------
(* The nodes *)

\* graph.invoke ends with an outcome for _advance.
End(d, s, reason) ==
    /\ Goto(d, "settle")
    /\ result' = [result EXCEPT ![d] = <<s, reason>>]
    /\ UNCHANGED <<row, thread, at, input, accepted, crashes>>

Proceed(d, p) ==
    /\ Goto(d, p)
    /\ UNCHANGED <<row, thread, at, input, result, accepted, crashes>>

\* Mutant: the cancellation flag is not looked at.
GuardWithoutCancel(d) ==
    /\ pc[d] = "guard"
    /\ \/ step_count >= max_steps /\ End(d, FAILED, BUDGET_EXCEEDED)
       \/ step_count < max_steps /\ Proceed(d, "bump")
    /\ UNCHANGED <<effects, late>>

\* Mutant: off by one at the allowance.
GuardOneMore(d) ==
    /\ pc[d] = "guard"
    /\ \/ cancel_requested /\ End(d, CANCELLED, "none")
       \/ /\ ~cancel_requested /\ step_count > max_steps
          /\ End(d, FAILED, BUDGET_EXCEEDED)
       \/ ~cancel_requested /\ step_count <= max_steps /\ Proceed(d, "bump")
    /\ UNCHANGED <<effects, late>>

\* guard: reads the row before any work of the step ...
guard(d) ==
    /\ pc[d] = "guard"
    /\ \/ cancel_requested /\ End(d, CANCELLED, "none")
       \/ /\ ~cancel_requested /\ step_count >= max_steps
          /\ End(d, FAILED, BUDGET_EXCEEDED)
       \/ ~cancel_requested /\ step_count < max_steps /\ Proceed(d, "bump")
    /\ UNCHANGED <<effects, late>>

\* ... and counts the step in a second statement.
bump_counters(d) ==
    /\ pc[d] = "bump"
    /\ step_count' = step_count + 1
    /\ Goto(d, "body")
    /\ UNCHANGED <<status, pause_reason, failure_reason, cancel_requested,
                   thread, effects, at, input, result, accepted, late, crashes>>

\* The HR directory answers, or the executor gives up.
fetch_employee(d) ==
    /\ pc[d] = "body" /\ at[d] = FETCH_EMPLOYEE
    /\ \/ Proceed(d, "return")
       \/ \E reason \in {TOOL_FAILED, BUDGET_EXCEEDED} : End(d, FAILED, reason)
    /\ UNCHANGED <<effects, late>>

\* The model's plan passes validation, fails it, or the model cannot be reached.
plan_deprovisioning(d) ==
    /\ pc[d] = "body" /\ at[d] = PLAN_DEPROVISIONING
    /\ \/ Proceed(d, "return")
       \/ \E reason \in {INVALID_PLAN, TOOL_FAILED} : End(d, FAILED, reason)
    /\ UNCHANGED <<effects, late>>

\* Mutant: any decision opens the gate.
ApprovalByAnyDecision(d) ==
    /\ pc[d] = "body" /\ at[d] = AWAIT_HR_APPROVAL
    /\ \/ input[d] = "none" /\ End(d, PAUSED, HR_APPROVAL)
       \/ input[d] # "none" /\ Proceed(d, "return")
    /\ UNCHANGED <<effects, late>>

\* interrupt() pauses unless a resume value is stored with the checkpoint.
\* Only a value with a true "approved" opens the gate.
await_hr_approval(d) ==
    /\ pc[d] = "body" /\ at[d] = AWAIT_HR_APPROVAL
    /\ \/ input[d] = "none" /\ End(d, PAUSED, HR_APPROVAL)
       \/ input[d] = "approve" /\ Proceed(d, "return")
       \/ /\ input[d] \notin {"none", "approve"}
          /\ End(d, FAILED, APPROVAL_REJECTED)
    /\ UNCHANGED <<effects, late>>

\* Mutant: the second gate reports the first gate's pause reason.
SignaturePausesForApproval(d) ==
    /\ pc[d] = "body" /\ at[d] = AWAIT_SIGNED_DOCUMENT
    /\ \/ input[d] = "none" /\ End(d, PAUSED, HR_APPROVAL)
       \/ input[d] # "none" /\ Proceed(d, "return")
    /\ UNCHANGED <<effects, late>>

\* Whatever resume value is stored is taken for the signed document.
await_signed_document(d) ==
    /\ pc[d] = "body" /\ at[d] = AWAIT_SIGNED_DOCUMENT
    /\ \/ input[d] = "none" /\ End(d, PAUSED, SIGNED_DOCUMENT)
       \/ input[d] # "none" /\ Proceed(d, "return")
    /\ UNCHANGED <<effects, late>>

\* tools/ledger.py, tool.call: the provider applies the effect of the step.
\* A driver that is elsewhere sees nothing of it yet.
EffectLands(d) ==
    /\ pc[d] = "body" /\ at[d] \in EffectStep \ effects
    /\ effects' = effects \cup {at[d]}
    /\ late' = IF cancel_requested THEN late \cup {at[d]} ELSE late
    /\ UNCHANGED <<row, thread, locals, accepted, crashes>>

\* Mutant: a failure of the tool is swallowed.
ExecuteSwallowingErrors(d) ==
    /\ pc[d] = "body" /\ at[d] \in EffectStep
    /\ Proceed(d, "return")
    /\ UNCHANGED <<effects, late>>

\* ToolExecutor.execute ends for a side-effecting tool: it returns only if
\* the effect has landed, now or in an earlier attempt, and it may give up
\* whether or not the effect landed.
ExecuteEffect(d) ==
    /\ pc[d] = "body" /\ at[d] \in EffectStep
    /\ \/ at[d] \in effects /\ Proceed(d, "return")
       \/ \E reason \in {TOOL_FAILED, BUDGET_EXCEEDED, NEEDS_RECONCILIATION} :
             End(d, FAILED, reason)
    /\ UNCHANGED <<effects, late>>

Effect(d) == EffectLands(d) \/ ExecuteEffect(d)

revoke_access(d)       == at[d] = REVOKE_ACCESS /\ Effect(d)
send_exit_paperwork(d) == at[d] = SEND_EXIT_PAPERWORK /\ Effect(d)
finalize(d)            == at[d] = FINALIZE /\ Effect(d)

-----------------------------------------------------------------------------
(* _advance, after graph.invoke ended: write the status the outcome means.  *)

\* Mutant: BudgetExceeded escapes and leaves the run as it is.
AdvanceMissingBudget(d) ==
    /\ pc[d] = "settle"
    /\ IF result[d][2] = BUDGET_EXCEEDED \/ ~transition_run(result[d][1])
       THEN UNCHANGED row
       ELSE set_status(result[d][1], result[d][2])
    /\ Leave(d)
    /\ UNCHANGED <<thread, effects, accepted, late, crashes>>

_advance(d) ==
    /\ pc[d] = "settle"
    /\ \/ set_status(result[d][1], result[d][2])
       \/ ~transition_run(result[d][1]) /\ UNCHANGED row
    /\ Leave(d)
    /\ UNCHANGED <<thread, effects, accepted, late, crashes>>

\* The process dies with everything a driver holds in memory.  An exception
\* that _advance has no clause for (an error of the database, a fault in a tool
\* or a node) escapes to the caller, leaves the row RUNNING, and is this step too.
Crash(d) ==
    /\ pc[d] # "idle"
    /\ crashes < MaxCrashes
    /\ crashes' = crashes + 1
    /\ Leave(d)
    /\ UNCHANGED <<row, thread, effects, accepted, late>>

-----------------------------------------------------------------------------

\* A request arrives.
Arrive(d) ==
    \/ start_run(d) \/ approve(d) \/ reject(d) \/ submit_signed_document(d)
    \/ resume_run(d) \/ cancel_run(d)

\* A request in execution takes its next step.
Step(d) ==
    \/ SetRunning(d) \/ SetCancelled(d) \/ request_cancel(d)
    \/ Invoke(d) \/ guard(d) \/ bump_counters(d)
    \/ fetch_employee(d) \/ plan_deprovisioning(d) \/ await_hr_approval(d)
    \/ revoke_access(d) \/ send_exit_paperwork(d) \/ await_signed_document(d)
    \/ finalize(d) \/ NodeReturns(d) \/ _advance(d)

Next == \E d \in Drivers : Arrive(d) \/ Step(d) \/ Crash(d)

\* A live process keeps executing, and an operator who finds a run RUNNING
\* with nobody driving it eventually gets a resume_run through.
Fairness ==
    /\ \A d \in Drivers : WF_vars(Step(d))
    /\ SF_vars(\E d \in Drivers : resume_run(d))

Spec == Init /\ [][Next]_vars /\ Fairness

-----------------------------------------------------------------------------
(* What holds however many requests work on the run at once.                *)

Idle == \A d \in Drivers : pc[d] = "idle"

\* Access is revoked only if an approve() was accepted: no crash, re-run,
\* stale request or second driver gets past the approval gate without one.
RevokedMeansApproved == REVOKE_ACCESS \in effects => "approve" \in accepted

\* Effects land in workflow order: the archive after the paperwork, and the
\* paperwork after the revocation.
EffectsInOrder ==
    \A s \in effects : \A t \in EffectStep : t < s => t \in effects

\* A run is reported COMPLETED only when all three effects have landed.
CompletedMeansAllEffects == status = COMPLETED => effects = EffectStep

\* A terminal status is never left, whoever else was about to write one.
TerminalIsFinal == [][is_terminal(status) => status' = status]_vars

\* A cancellation request lets every other driver finish the step it is in,
\* and lets none begin another: one late effect per other driver at most.
CancelStopsNextStep == Cardinality(late) < Cardinality(Drivers)

\* The step allowance is checked and counted in two statements, so drivers
\* can overrun it together, by at most one step for each driver but one.
StepBudget == step_count < max_steps + Cardinality(Drivers)

-----------------------------------------------------------------------------
(* What holds when requests are served one at a time, crashes included.     *)

\* A completed offboarding has a signed document.
CompletedMeansSigned == status = COMPLETED => "signature" \in accepted

\* "records the run as failed with APPROVAL_REJECTED and the IAM tool is
\* never reached".
RejectedMeansNotRevoked ==
    failure_reason = APPROVAL_REJECTED => REVOKE_ACCESS \notin effects

\* "Run statuses from which no further work happens."
NoWorkAfterTerminal == [][is_terminal(status) => effects' = effects]_vars

\* The reason the row gives for a pause is the gate the thread waits at, so
\* the request the row admits is the one the gate expects.
PauseMatchesCheckpoint ==
    Idle /\ status = PAUSED =>
        \/ pause_reason = HR_APPROVAL /\ checkpoint = AWAIT_HR_APPROVAL
        \/ pause_reason = SIGNED_DOCUMENT /\ checkpoint = AWAIT_SIGNED_DOCUMENT

\* A RUNNING run whose thread has a checkpoint does not stay RUNNING: after
\* the last crash a resumed run pauses, completes, fails or is cancelled.
RunSettles == (status = RUNNING /\ checkpoint # 0) ~> status # RUNNING

-----------------------------------------------------------------------------
(* Claims of the documentation that the code does not keep.                 *)

\* README.md: "Built to survive the process being killed at any point and
\* resumed later": no run stays RUNNING for ever.
SurvivesAnyCrash == status = RUNNING ~> status # RUNNING

\* cancel_run: "Whichever call is driving that step will see RunCancelled and
\* record CANCELLED itself": when nothing crashed and no request is left in
\* execution, a run flagged for cancellation is cancelled, or its step failed.
FlagMeansCancelled ==
    cancel_requested /\ Idle /\ crashes = 0 => status \in {CANCELLED, FAILED}
=============================================================================
