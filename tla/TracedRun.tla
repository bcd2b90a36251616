----------------------------- MODULE TracedRun -----------------------------
(***************************************************************************)
(* A run with what RunService leaves out of the three steps that call no   *)
(* tool: their rows in step_trace (step_span, the check-before-create of   *)
(* the two gates) and the deprovisioning plan, from the model's answer     *)
(* through its validation and the checkpoint to the systems revoked.       *)
(*                                                                         *)
(* Every action is an action of RunService with more said about it, or a   *)
(* statement inside the body of a node, at which RunService stutters.      *)
(***************************************************************************)
EXTENDS RunService, Sequences, Functions

CONSTANTS
    Systems,     \* the systems a plan may name
    Access,      \* the systems of the employee's HR record
    Providers,   \* the plan providers the processes are configured with
    MaxPlan      \* bound: items in a plan

ASSUME AccessAssumption == Access \subseteq Systems /\ IsFiniteSet(Access)
ASSUME ProvidersAssumption == Providers \subseteq {"fake", "gemini"}
ASSUME MaxPlanAssumption == MaxPlan \in Nat

VARIABLES
    trace,      \* the status of each attempt row of each traced step
    spot,       \* where each driver is in the body of a traced step
    mine,       \* the row each driver has open (0: none)
    plan,       \* the checklist in the graph state of each driver
    checklist,  \* the checklist in the thread's checkpoint
    shown,      \* history: the checklist of the last interrupt at the HR gate
    revoked     \* the systems passed to the IAM tool

added == <<trace, spot, mine, plan, checklist, shown, revoked>>

Gate       == {AWAIT_HR_APPROVAL, AWAIT_SIGNED_DOCUMENT}
TracedStep == {PLAN_DEPROVISIONING} \cup Gate

\* enter: before the first statement after the guard; open, pause: inside the
\* check-before-create; interrupt: about to call interrupt(); span: inside
\* step_span.
Spot == {"enter", "open", "pause", "interrupt", "span"}

\* A checklist names a system per item; the order is the model's.
Plan == UNION {[1 .. n -> Systems] : n \in 0 .. MaxPlan}

\* A model's answer: whether it is JSON that fits the schema, and its items.
Answer == [fits : BOOLEAN, items : Plan]

TracedTypeOK ==
    /\ TypeOK
    /\ trace \in [TracedStep -> Seq(StepStatus)]
    /\ spot \in [Drivers -> Spot]
    /\ mine \in [Drivers -> Nat]
    /\ plan \in [Drivers -> Plan]
    /\ checklist \in Plan /\ shown \in Plan /\ revoked \in Plan

TracedInit ==
    /\ Init
    /\ trace = [s \in TracedStep |-> <<>>]
    /\ spot = [d \in Drivers |-> "enter"]
    /\ mine = [d \in Drivers |-> 0]
    /\ plan = [d \in Drivers |-> <<>>]
    /\ checklist = <<>> /\ shown = <<>> /\ revoked = <<>>

-----------------------------------------------------------------------------
(* TraceRepository, one transaction each *)

start_attempt(d) ==
    LET rows == trace[at[d]] IN
    /\ IF rows = <<>> THEN TRUE ELSE transition_step(rows[Len(rows)], RUNNING)
    /\ trace' = [trace EXCEPT ![at[d]] = Append(@, RUNNING)]
    /\ mine' = [mine EXCEPT ![d] = Len(rows) + 1]

_close_attempt(d, target) ==
    /\ transition_step(trace[at[d]][mine[d]], target)
    /\ trace' = [trace EXCEPT ![at[d]][mine[d]] = target]
    /\ mine' = [mine EXCEPT ![d] = 0]

Move(d, p) == spot' = [spot EXCEPT ![d] = p]

\* A statement of a traced step that ends neither the node nor the run.
Inside(d, from, to) ==
    /\ pc[d] = "body" /\ at[d] \in TracedStep
    /\ spot[d] = from /\ Move(d, to)
    /\ UNCHANGED <<vars, plan, checklist, shown, revoked>>

\* The end of the with statement of step_span: the row is closed as the body
\* of the statement ended, and the node goes on to return or raise.
CloseSpan(d, target) ==
    /\ spot[d] = "span" /\ Move(d, "enter")
    /\ _close_attempt(d, target)
    /\ UNCHANGED <<checklist, shown, revoked>>

-----------------------------------------------------------------------------
(* The gates *)

\* Mutant: the row is created whenever the node runs.
NeverPausedBefore(s) == FALSE

\* Mutant: a row of any status counts as the pause.
AnyRowIsAPause(s) == trace[s] # <<>>

_already_paused_here(s) ==
    trace[s] # <<>> /\ trace[s][Len(trace[s])] = PAUSED

\* The latest row decides, in a read of its own, whether a row is written.
CheckPaused(d) ==
    /\ at[d] \in Gate
    /\ Inside(d, "enter", IF _already_paused_here(at[d]) THEN "interrupt" ELSE "open")
    /\ UNCHANGED <<trace, mine>>

OpenPause(d) == Inside(d, "open", "pause") /\ start_attempt(d)

\* Mutant: the row is given the reason of the pause for its status.
PauseWithReason(d) ==
    /\ Inside(d, "pause", "interrupt")
    /\ \E reason \in PauseReason :
          trace' = [trace EXCEPT ![at[d]][mine[d]] = reason]
    /\ mine' = [mine EXCEPT ![d] = 0]

pause_attempt(d) == Inside(d, "pause", "interrupt") /\ _close_attempt(d, PAUSED)

\* interrupt() raises: graph.invoke returns, and the caller sees the plan.
Interrupt(d) ==
    /\ spot[d] = "interrupt" /\ Move(d, "enter")
    /\ input[d] = "none"
    /\ await_hr_approval(d) \/ await_signed_document(d)
    /\ shown' = IF at[d] = AWAIT_HR_APPROVAL THEN plan[d] ELSE shown
    /\ UNCHANGED <<trace, mine, plan, checklist, revoked>>

\* interrupt() returns the resume value, and step_span opens a row.
Resumed(d) ==
    /\ at[d] \in Gate /\ input[d] # "none"
    /\ Inside(d, "interrupt", "span")
    /\ start_attempt(d)

\* Mutant: the row stays as it was opened.
DecideWithoutClosing(d) ==
    /\ spot[d] = "span" /\ Move(d, "enter")
    /\ await_hr_approval(d) \/ await_signed_document(d)
    /\ UNCHANGED <<trace, mine, plan, checklist, shown, revoked>>

\* The rest of the node: a rejection leaves step_span as an exception.
Decide(d) ==
    /\ \/ await_hr_approval(d)
       \/ await_signed_document(d)
    /\ CloseSpan(d, IF pc'[d] = "return" THEN COMPLETED ELSE FAILED)
    /\ UNCHANGED plan

-----------------------------------------------------------------------------
(* The plan *)

\* Mutant: a plan may leave systems out.
ValidateInventedOnly(p) == p # <<>> /\ Range(p) \subseteq Access

\* Not empty, nothing invented, nothing missed.
validate_plan(p) ==
    /\ p # <<>>
    /\ Range(p) \ Access = {}
    /\ Access \ Range(p) = {}

\* What a provider may answer with.  The fake lists the employee's systems;
\* the model may answer anything.
Answers(provider) ==
    IF provider = "fake"
    THEN {a \in Answer : /\ a.fits
                         /\ Range(a.items) = Access
                         /\ Len(a.items) = Cardinality(Access)}
    ELSE Answer

parse_plan(answer) == answer.fits /\ validate_plan(answer.items)

OpenPlanSpan(d) ==
    /\ at[d] = PLAN_DEPROVISIONING
    /\ Inside(d, "enter", "span")
    /\ start_attempt(d)

\* The provider answers with a plan that passes, ...
generate_plan(d) ==
    /\ plan_deprovisioning(d) /\ pc'[d] = "return"
    /\ \E provider \in Providers : \E answer \in Answers(provider) :
          /\ parse_plan(answer)
          /\ plan' = [plan EXCEPT ![d] = answer.items]
    /\ CloseSpan(d, COMPLETED)

\* ... or with one that does not, or the model cannot be reached.
PlanFails(d) ==
    /\ plan_deprovisioning(d) /\ pc'[d] = "settle"
    /\ \/ /\ result'[d] = <<FAILED, INVALID_PLAN>>
          /\ \E provider \in Providers : \E answer \in Answers(provider) :
                ~parse_plan(answer)
       \/ /\ result'[d] = <<FAILED, TOOL_FAILED>>
          /\ "gemini" \in Providers
    /\ CloseSpan(d, FAILED)
    /\ UNCHANGED plan

-----------------------------------------------------------------------------
(* The graph's state *)

\* Mutant: a resumed run has its plan made again.
LoadReplanned(d) ==
    /\ Invoke(d)
    /\ checklist' = IF input[d] = "fresh" THEN <<>> ELSE checklist
    /\ \E p \in {checklist'} \cup Plan :
          /\ p = checklist' \/ validate_plan(p)
          /\ plan' = [plan EXCEPT ![d] = p]
    /\ UNCHANGED <<trace, spot, mine, shown, revoked>>

\* invoke reads the checkpointed state, or starts from the initial one.
Load(d) ==
    /\ Invoke(d)
    /\ checklist' = IF input[d] = "fresh" THEN <<>> ELSE checklist
    /\ plan' = [plan EXCEPT ![d] = checklist']
    /\ UNCHANGED <<trace, spot, mine, shown, revoked>>

\* The checkpoint written after a node holds the driver's whole state.
Save(d) ==
    /\ NodeReturns(d)
    /\ checklist' = plan[d]
    /\ UNCHANGED <<trace, spot, mine, plan, shown, revoked>>

\* The IAM tool is called with the systems of the driver's checklist.
RevokePlanned(d) ==
    /\ revoke_access(d)
    /\ revoked' = IF REVOKE_ACCESS \in effects' \ effects THEN plan[d] ELSE revoked
    /\ UNCHANGED <<trace, spot, mine, plan, checklist, shown>>

\* The process dies, or an exception _advance has no clause for leaves it, as
\* in Crash of RunService.  An open row stays open.
Die(d) ==
    /\ Crash(d)
    /\ spot' = [spot EXCEPT ![d] = "enter"]
    /\ mine' = [mine EXCEPT ![d] = 0]
    /\ UNCHANGED <<trace, plan, checklist, shown, revoked>>

\* Such an exception out of the body of step_span (a model that answers without
\* any text: json.loads(None) is no JSONDecodeError) closes the row on its way.
SpanRaises(d) ==
    /\ Crash(d)
    /\ CloseSpan(d, FAILED)
    /\ UNCHANGED plan

\* What touches neither the traced steps nor the plan.
Elsewhere(d) ==
    /\ \/ SetRunning(d) \/ SetCancelled(d) \/ request_cancel(d)
       \/ guard(d) \/ bump_counters(d) \/ fetch_employee(d)
       \/ send_exit_paperwork(d) \/ finalize(d) \/ _advance(d)
    /\ UNCHANGED added

Progress(d) ==
    \/ CheckPaused(d) \/ OpenPause(d) \/ pause_attempt(d) \/ Interrupt(d)
    \/ Resumed(d) \/ Decide(d)
    \/ OpenPlanSpan(d) \/ generate_plan(d) \/ PlanFails(d)
    \/ Load(d) \/ Save(d) \/ RevokePlanned(d) \/ Elsewhere(d)

TracedNext ==
    \E d \in Drivers : \/ Arrive(d) /\ UNCHANGED added
                       \/ Progress(d)
                       \/ Die(d)
                       \/ SpanRaises(d)

tracedVars == <<vars, added>>

\* The fairness of RunService, for the finer steps.
TracedFairness ==
    /\ \A d \in Drivers : WF_tracedVars(Progress(d))
    /\ SF_tracedVars(\E d \in Drivers : resume_run(d) /\ UNCHANGED added)

TracedSpec == TracedInit /\ [][TracedNext]_tracedVars /\ TracedFairness

-----------------------------------------------------------------------------
(* What holds however many requests work on the run at once.                *)

\* The systems revoked are the systems the employee has: no answer of the
\* model, no second planning after a crash or by another driver and no stale
\* checkpoint brings an incomplete or an invented list to the IAM tool.
RevokedIsAccess == REVOKE_ACCESS \in effects => Range(revoked) = Access

\* The trace has no gap: whatever step the thread has passed has an attempt
\* that was completed.
StepsAreTraced ==
    \A s \in TracedStep : checkpoint > s => COMPLETED \in Range(trace[s])

-----------------------------------------------------------------------------
(* What holds when requests are served one at a time, crashes included.     *)

\* "Revoke access across every system in the approved checklist": what the
\* approver was shown is what is revoked, item for item.
RevokedAsShown == REVOKE_ACCESS \in effects => revoked = shown

PauseRows(g) == {i \in DOMAIN trace[g] : trace[g][i] = PAUSED}

\* The trace answers "which step is this run on?": while the run waits at a
\* gate, the latest row of that gate is a pause.
PauseIsTraced ==
    Idle /\ status = PAUSED => Len(trace[checkpoint]) \in PauseRows(checkpoint)

\* One pause does not produce a row on every resume: a gate is given another
\* pause only when a process died in the middle of it.  An exception that
\* _advance does not map, such as an error of the database between two of the
\* gate's statements, counts as a death here (see Die).
PauseRowsBounded == \A g \in Gate : Cardinality(PauseRows(g)) <= 1 + crashes
=============================================================================
