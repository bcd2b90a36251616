------------------------- MODULE TracedSerialProofs -------------------------
(***************************************************************************)
(* What a traced run guarantees when requests are served one at a time:    *)
(* the plan revoked is the plan shown, and the rows of the two gates.      *)
(***************************************************************************)
EXTENDS TracedRunProofs, RunSerialProofs

\* A step keeps SerialInv, since it is a step of RunService or a stutter.
LEMMA TracedSerialStep ==
  ASSUME OneDriver
  PROVE  SerialInv /\ [TracedNext]_tracedVars => SerialInv'
<1>1. [TracedNext]_tracedVars => [Next]_vars
  BY StepRefines DEF tracedVars
<1>. QED
  BY OneDriver, <1>1, SerialStep

\* What a step of RunService outside the nodes that use the plan does to the
\* fields the invariants below speak of.  A request arrives ...
LEMMA ArriveEffect ==
  ASSUME TypeOK, NEW d \in Drivers, Arrive(d)
  PROVE  /\ UNCHANGED <<checkpoint, pending, effects, pause_reason, crashes>>
         /\ status' = status \/ (status = "none" /\ status' = PENDING)
         /\ pc[d] = "idle" /\ pc'[d] \in {"set_running", "set_cancelled", "flag", "invoke"}
         /\ at'[d] = at[d] /\ result'[d] = result[d]
         /\ \/ input'[d] = input[d]
            \/ input'[d] \in {"fresh", "signature"}
            \/ status = PAUSED /\ pause_reason = HR_APPROVAL
<1>1. DOMAIN pc = Drivers /\ DOMAIN input = Drivers
  BY DEF TypeOK
<1>. QED
  BY <1>1 DEF Arrive, start_run, approve, reject, _resolve_approval, _require_paused_for,
     submit_signed_document, resume_run, cancel_run, Request, Goto, row, thread

\* ... is refused, or sets the run RUNNING; ...
LEMMA SetRunningEffect ==
  ASSUME TypeOK, NEW d \in Drivers, SetRunning(d)
  PROVE  /\ UNCHANGED <<checkpoint, pending, effects, crashes>>
         /\ pc[d] = "set_running" /\ pc'[d] \in {"invoke", "idle"}
         /\ \/ status' = RUNNING /\ transition_run(RUNNING)
            \/ UNCHANGED <<status, pause_reason>>
         /\ \/ at'[d] = at[d] /\ input'[d] = input[d] /\ result'[d] = result[d]
            \/ at'[d] = 0 /\ input'[d] = "none" /\ result'[d] = <<"none", "none">>
<1>1. DOMAIN pc = Drivers /\ DOMAIN at = Drivers /\ DOMAIN input = Drivers
      /\ DOMAIN result = Drivers
  BY DEF TypeOK
<1>. QED
  BY <1>1 DEF SetRunning, set_status, Leave, Goto, row, thread

\* ... or leaves, with what its last statement wrote to the row.
LEMMA LeaveEffect ==
  ASSUME TypeOK, NEW d \in Drivers,
         SetCancelled(d) \/ request_cancel(d) \/ _advance(d) \/ Crash(d)
  PROVE  /\ UNCHANGED <<checkpoint, pending, effects>>
         /\ pc[d] # "idle" /\ pc'[d] = "idle" /\ at'[d] = 0 /\ input'[d] = "none"
         /\ result'[d] = <<"none", "none">>
         /\ \/ UNCHANGED <<status, pause_reason>>
            \/ status' = CANCELLED /\ transition_run(CANCELLED)
            \/ /\ _advance(d) /\ transition_run(result[d][1]) /\ status' = result[d][1]
               /\ status' = PAUSED => pause_reason' = result[d][2]
<1>1. DOMAIN pc = Drivers /\ DOMAIN at = Drivers /\ DOMAIN input = Drivers
      /\ DOMAIN result = Drivers
  BY DEF TypeOK
<1>. QED
  BY <1>1 DEF SetCancelled, request_cancel, _advance, Crash, set_status, Leave, Goto, row,
     thread, CANCELLED, PAUSED

\* A statement of a node moves the request on, or ends graph.invoke with an
\* outcome.
LEMMA NodeEffect ==
  ASSUME TypeOK, NEW d \in Drivers,
         \/ guard(d) \/ bump_counters(d) \/ fetch_employee(d) \/ plan_deprovisioning(d)
         \/ await_hr_approval(d) \/ await_signed_document(d) \/ Effect(d)
  PROVE  /\ UNCHANGED <<checkpoint, pending, status, pause_reason, crashes>>
         /\ at'[d] = at[d] /\ input'[d] = input[d]
         /\ pc[d] \in {"guard", "bump", "body"}
         /\ pc'[d] \in {"bump", "body", "return", "settle"}
         /\ pc'[d] = "return" => pc[d] = "body"
         /\ \/ result'[d] = result[d] /\ pc'[d] # "settle"
            \/ result'[d][1] \in {FAILED, CANCELLED} /\ pc'[d] = "settle"
            \/ /\ result'[d] = <<PAUSED, HR_APPROVAL>> /\ at[d] = AWAIT_HR_APPROVAL
               /\ input[d] = "none" /\ pc[d] = "body" /\ pc'[d] = "settle"
            \/ /\ result'[d] = <<PAUSED, SIGNED_DOCUMENT>> /\ at[d] = AWAIT_SIGNED_DOCUMENT
               /\ input[d] = "none" /\ pc[d] = "body" /\ pc'[d] = "settle"
         /\ result'[d][2] = APPROVAL_REJECTED =>
               \/ at[d] = AWAIT_HR_APPROVAL /\ pc[d] = "body" /\ input[d] # "none"
               \/ result'[d] = result[d]
<1>0. DOMAIN pc = Drivers /\ DOMAIN result = Drivers
  BY DEF TypeOK
<1> USE DEF FAILED, CANCELLED, PAUSED, APPROVAL_REJECTED, BUDGET_EXCEEDED, TOOL_FAILED,
            INVALID_PLAN, NEEDS_RECONCILIATION, HR_APPROVAL, SIGNED_DOCUMENT
<1>1. CASE guard(d) \/ bump_counters(d)
  BY <1>0, <1>1 DEF guard, bump_counters, End, Proceed, Goto, row, thread
<1>2. CASE fetch_employee(d) \/ plan_deprovisioning(d)
  BY <1>0, <1>2 DEF fetch_employee, plan_deprovisioning, End, Proceed, Goto, row, thread
<1>3. CASE await_hr_approval(d) \/ await_signed_document(d)
  BY <1>0, <1>3 DEF await_hr_approval, await_signed_document, End, Proceed, Goto, row, thread
<1>4. CASE Effect(d)
  BY <1>0, <1>4 DEF Effect, EffectLands, ExecuteEffect, End, Proceed, Goto, row, thread, locals
<1>. QED
  BY <1>1, <1>2, <1>3, <1>4

\* graph.invoke starts the thread, or continues it from its checkpoint, or
\* finds none.
LEMMA InvokeEffect ==
  ASSUME TypeOK, NEW d \in Drivers, Invoke(d)
  PROVE  /\ UNCHANGED <<status, pause_reason, effects, crashes>> /\ pc[d] = "invoke"
         /\ \/ /\ input[d] = "fresh" /\ checkpoint' = FETCH_EMPLOYEE /\ pending' = "none"
               /\ input'[d] = "none" /\ at'[d] = FETCH_EMPLOYEE /\ pc'[d] = "guard"
               /\ result'[d] = result[d]
            \/ /\ input[d] # "fresh" /\ checkpoint' = checkpoint
               /\ pending' \in {pending, input[d]} /\ input'[d] \in {pending, input[d]}
               /\ at'[d] = checkpoint /\ pc'[d] \in {"guard", "settle"}
               /\ result'[d] \in {result[d], <<COMPLETED, "none">>}
            \/ /\ input[d] # "fresh" /\ UNCHANGED <<checkpoint, pending>>
               /\ pc'[d] = "idle" /\ at'[d] = 0 /\ input'[d] = "none"
               /\ result'[d] = <<"none", "none">>
<1>1. DOMAIN pc = Drivers /\ DOMAIN at = Drivers /\ DOMAIN input = Drivers
      /\ DOMAIN result = Drivers
  BY DEF TypeOK
<1>. QED
  BY <1>1 DEF Invoke, Enter, Leave, Goto, row, thread, FETCH_EMPLOYEE, END, ResumeValue

\* A node that returns moves the checkpoint on.
LEMMA ReturnEffect ==
  ASSUME TypeOK, NEW d \in Drivers, NodeReturns(d)
  PROVE  /\ UNCHANGED <<status, pause_reason, effects, crashes>> /\ pc[d] = "return"
         /\ checkpoint' = at[d] + 1 /\ at'[d] = at[d] + 1
         /\ pending' = "none" /\ input'[d] = "none"
         /\ pc'[d] \in {"guard", "settle"}
         /\ result'[d] \in {result[d], <<COMPLETED, "none">>}
<1>1. DOMAIN pc = Drivers /\ DOMAIN at = Drivers /\ DOMAIN input = Drivers
      /\ DOMAIN result = Drivers
  BY DEF TypeOK
<1>. QED
  BY <1>1 DEF NodeReturns, Enter, Goto, row

-----------------------------------------------------------------------------
(* The plan that was shown *)

\* Once the approver has seen a checklist, it is the one in the checkpoint, and
\* it stays so through the approval until the revocation.
ShownInv ==
    /\ checkpoint > AWAIT_HR_APPROVAL => shown = checklist
    /\ status = PAUSED /\ pause_reason = HR_APPROVAL => shown = checklist
    /\ pending \in {"approve", "reject"} => shown = checklist
    /\ REVOKE_ACCESS \in effects => revoked = shown

\* A request in the graph works on the checkpointed checklist, unless it has
\* just made one; a decision it carries is about the checklist shown; inside
\* the span of a gate it has a resume value.
ShownTo(d) ==
    /\ AtNode(d) /\ ~(pc[d] = "return" /\ at[d] = PLAN_DEPROVISIONING) => plan[d] = checklist
    /\ input[d] \in {"approve", "reject"} => shown = checklist
    /\ result[d][1] = PAUSED /\ result[d][2] = HR_APPROVAL => shown = checklist
    /\ pc[d] = "return" /\ at[d] = AWAIT_HR_APPROVAL => shown = checklist
    /\ spot[d] = "span" /\ at[d] \in Gate => input[d] # "none"

\* With one request at a time, every step keeps what was shown.
LEMMA ShownStep ==
  ASSUME OneDriver, SerialInv, AddedType, TraceInv, ShownInv, \A d \in Drivers : ShownTo(d),
         [TracedNext]_tracedVars
  PROVE  ShownInv' /\ \A d \in Drivers : ShownTo(d)'
<1>1. CASE UNCHANGED tracedVars
  <2>1. UNCHANGED <<checkpoint, status, pause_reason, pending, effects, pc, at, input, result,
                    shown, checklist, revoked, plan, spot>>
    BY <1>1 DEF tracedVars, vars, added, row, thread, locals
  <2>. QED
    BY <2>1 DEF ShownInv, ShownTo, AtNode
<1>2. ASSUME NEW d \in Drivers,
             \/ Arrive(d) /\ UNCHANGED added
             \/ Progress(d)
             \/ Die(d)
             \/ SpanRaises(d)
      PROVE  ShownInv' /\ ShownTo(d)'
  <2>0. TypeOK /\ DOMAIN plan = Drivers /\ DOMAIN spot = Drivers
    BY DEF SerialInv, TypeInv, AddedType
  <2>1. /\ ShownInv /\ ShownTo(d) /\ RowInv /\ RequestInv(d)
        /\ spot[d] # "enter" => pc[d] = "body" /\ at[d] \in {2, 3, 6}
    BY DEF SerialInv, TraceInv, TracedStep, Gate, PLAN_DEPROVISIONING, AWAIT_HR_APPROVAL,
           AWAIT_SIGNED_DOCUMENT
  <2>t. checkpoint \in 0 .. 8 /\ at[d] \in 0 .. 8 /\ effects \subseteq EffectStep
    BY <2>0 DEF TypeOK, StepName, END, FETCH_EMPLOYEE, FINALIZE
  <2> USE DEF Gate, ShownInv, ShownTo, RowInv, RequestInv, Busy, AtNode, Expected, AtGate, Signed
  <2> USE DEF END, FETCH_EMPLOYEE, PLAN_DEPROVISIONING, AWAIT_HR_APPROVAL, REVOKE_ACCESS,
              SEND_EXIT_PAPERWORK, AWAIT_SIGNED_DOCUMENT, FINALIZE, EffectStep
  <2> USE DEF PENDING, RUNNING, PAUSED, COMPLETED, FAILED, CANCELLED, HR_APPROVAL,
              SIGNED_DOCUMENT, APPROVAL_REJECTED
  <2>2. CASE Arrive(d) /\ UNCHANGED added
    <3>1. UNCHANGED <<plan, checklist, shown, revoked, spot>>
      BY <2>2 DEF added
    <3>. QED
      BY <2>0, <2>1, <2>2, <3>1, ArriveEffect
  <2>3. CASE Die(d) \/ SpanRaises(d)
    <3>1. UNCHANGED <<plan, checklist, shown, revoked>> /\ spot'[d] = "enter" /\ Crash(d)
      BY <2>0, <2>3 DEF Die, SpanRaises, CloseSpan, Move
    <3>. QED
      BY <2>0, <2>1, <3>1, LeaveEffect
  <2>4. CASE CheckPaused(d) \/ OpenPause(d) \/ pause_attempt(d) \/ Resumed(d) \/ OpenPlanSpan(d)
    <3>1. UNCHANGED <<vars, plan, checklist, shown, revoked>>
      BY <2>4 DEF CheckPaused, OpenPause, pause_attempt, Resumed, OpenPlanSpan, Inside
    <3>2. UNCHANGED <<checkpoint, status, pause_reason, pending, effects, pc, at, input, result>>
      BY <3>1 DEF vars, row, thread, locals
    <3>3. spot'[d] = "span" /\ at[d] \in Gate => input[d] # "none"
      BY <2>0, <2>4 DEF CheckPaused, OpenPause, pause_attempt, Resumed, OpenPlanSpan, Inside, Move
    <3>. QED
      BY <2>1, <3>1, <3>2, <3>3
  <2>5. CASE Interrupt(d)
    <3>1. /\ await_hr_approval(d) \/ await_signed_document(d)
          /\ UNCHANGED <<plan, checklist, revoked, effects>>
          /\ shown' = IF at[d] = AWAIT_HR_APPROVAL THEN plan[d] ELSE shown
          /\ spot'[d] = "enter"
      BY <2>0, <2>5 DEF Interrupt, Move, await_hr_approval, await_signed_document
    <3>. QED
      BY <2>0, <2>1, <2>t, <3>1, NodeEffect
  <2>6. CASE Decide(d) \/ PlanFails(d)
    <3>1. /\ await_hr_approval(d) \/ await_signed_document(d) \/ plan_deprovisioning(d)
          /\ UNCHANGED <<plan, checklist, shown, revoked, effects>>
          /\ spot[d] = "span" /\ spot'[d] = "enter"
      BY <2>0, <2>6 DEF Decide, PlanFails, CloseSpan, Move, await_hr_approval, await_signed_document,
                  plan_deprovisioning
    <3>2. pc'[d] = "return" /\ at[d] = 3 => input[d] = "approve"
      <4>1. CASE await_hr_approval(d)
        BY <2>0, <4>1 DEF await_hr_approval, End, Goto, TypeOK
      <4>2. CASE ~await_hr_approval(d)
        BY <3>1, <4>2 DEF await_signed_document, plan_deprovisioning
      <4>. QED
        BY <4>1, <4>2
    <3>3. pc'[d] = "return" => at[d] # 2
      <4>1. CASE Decide(d)
        BY <4>1 DEF Decide, await_hr_approval, await_signed_document
      <4>2. CASE PlanFails(d)
        BY <4>2 DEF PlanFails
      <4>. QED
        BY <2>6, <4>1, <4>2
    <3>. QED
      BY <2>0, <2>1, <2>t, <3>1, <3>2, <3>3, NodeEffect
  <2>7. CASE generate_plan(d)
    <3>1. /\ plan_deprovisioning(d) /\ pc'[d] = "return" /\ at[d] = 2
          /\ UNCHANGED <<checklist, shown, revoked, effects>> /\ spot'[d] = "enter"
      BY <2>0, <2>7 DEF generate_plan, CloseSpan, Move, plan_deprovisioning
    <3>. QED
      BY <2>0, <2>1, <2>t, <3>1, NodeEffect
  <2>8. CASE Load(d)
    <3>1. /\ Invoke(d) /\ checklist' = IF input[d] = "fresh" THEN <<>> ELSE checklist
          /\ plan'[d] = checklist' /\ UNCHANGED <<shown, revoked, spot>>
      BY <2>0, <2>8 DEF Load
    <3>. QED
      BY <2>0, <2>1, <2>t, <3>1, InvokeEffect
  <2>9. CASE Save(d)
    <3>1. NodeReturns(d) /\ checklist' = plan[d] /\ UNCHANGED <<plan, shown, revoked, spot>>
      BY <2>9 DEF Save
    <3>. QED
      BY <2>0, <2>1, <2>t, <3>1, ReturnEffect
  <2>10. CASE RevokePlanned(d)
    <3>1. /\ Effect(d) /\ at[d] = 4 /\ UNCHANGED <<plan, checklist, shown, spot>>
          /\ revoked' = IF 4 \in effects' \ effects THEN plan[d] ELSE revoked
      BY <2>10 DEF RevokePlanned, revoke_access
    <3>2. effects \subseteq effects'
      BY <3>1 DEF Effect, EffectLands, ExecuteEffect
    <3>. QED
      BY <2>0, <2>1, <2>t, <3>1, <3>2, NodeEffect
  <2>11. CASE Elsewhere(d)
    <3>1. UNCHANGED <<plan, checklist, shown, revoked, spot>>
      BY <2>11 DEF Elsewhere, added
    <3>2. CASE SetRunning(d)
      BY <2>0, <2>1, <3>1, <3>2, SetRunningEffect
    <3>3. CASE SetCancelled(d) \/ request_cancel(d) \/ _advance(d)
      BY <2>0, <2>1, <3>1, <3>3, LeaveEffect
    <3>4. CASE guard(d) \/ bump_counters(d) \/ fetch_employee(d)
      <4>1. UNCHANGED effects /\ ~(pc'[d] = "return" /\ at[d] = 3)
            /\ ~(pc'[d] = "return" /\ at[d] = 2)
            /\ ~(pc[d] = "body" /\ at[d] \in Gate)
        BY <2>0, <3>4 DEF guard, bump_counters, fetch_employee, End, Proceed, Goto, TypeOK
      <4>. QED
        BY <2>0, <2>1, <2>t, <3>1, <3>4, <4>1, NodeEffect
    <3>5. CASE send_exit_paperwork(d) \/ finalize(d)
      <4>1. /\ Effect(d) /\ at[d] \in {5, 7}
            /\ effects' \in {effects, effects \cup {at[d]}}
        BY <3>5 DEF send_exit_paperwork, finalize, Effect, EffectLands, ExecuteEffect
      <4>. QED
        BY <2>0, <2>1, <2>t, <3>1, <4>1, NodeEffect
    <3>. QED
      BY <2>11, <3>2, <3>3, <3>4, <3>5 DEF Elsewhere
  <2>. QED
    BY <1>2, <2>2, <2>3, <2>4, <2>5, <2>6, <2>7, <2>8, <2>9, <2>10, <2>11 DEF Progress
<1>. QED
  BY OneDriver, <1>1, <1>2 DEF TracedNext, OneDriver

-----------------------------------------------------------------------------
(* The rows of the gates *)

\* The gates whose latest row is a pause.
Waiting == {g \in Gate : _already_paused_here(g)}

\* How many pauses each gate has recorded.
Pauses == [g \in Gate |-> Cardinality(PauseRows(g))]

\* The pauses of a gate are counted by a natural number.
LEMMA PausesCounted ==
  ASSUME trace \in [TracedStep -> Seq(StepStatus)], NEW g \in Gate
  PROVE  /\ IsFiniteSet(PauseRows(g))
         /\ Pauses[g] = Cardinality(PauseRows(g))
         /\ Pauses[g] \in Nat
<1>1. trace[g] \in Seq(StepStatus)
  BY DEF TracedStep
<1>2. Len(trace[g]) \in Nat /\ PauseRows(g) \subseteq 1 .. Len(trace[g])
  BY <1>1 DEF PauseRows
<1>3. 1 \in Int /\ Len(trace[g]) \in Int
  BY <1>2
<1>4. IsFiniteSet(1 .. Len(trace[g]))
  BY <1>3, FS_Interval
<1>5. IsFiniteSet(PauseRows(g))
  BY <1>2, <1>4, FS_Subset
<1>. QED
  BY <1>5, FS_CardinalityType DEF Pauses

\* Opening a row ends a pause and counts as none.
LEMMA RowOpened ==
  ASSUME trace \in [TracedStep -> Seq(StepStatus)], DOMAIN mine = Drivers,
         NEW d \in Drivers, at[d] \in TracedStep, start_attempt(d)
  PROVE  /\ Waiting' = Waiting \ {at[d]}
         /\ Pauses' = Pauses
         /\ mine'[d] = Len(trace'[at[d]])
<1> DEFINE a == at[d]
<1>1. /\ trace[a] \in Seq(StepStatus)
      /\ trace' = [trace EXCEPT ![a] = Append(trace[a], RUNNING)]
      /\ mine' = [mine EXCEPT ![d] = Len(trace[a]) + 1]
  BY DEF start_attempt
<1>2. /\ trace'[a] = Append(trace[a], RUNNING)
      /\ \A s \in TracedStep : s # a => trace'[s] = trace[s]
  BY <1>1
<1>3. /\ Len(trace'[a]) = Len(trace[a]) + 1 /\ Len(trace[a]) \in Nat
      /\ trace'[a][Len(trace'[a])] = RUNNING
      /\ \A i \in 1 .. Len(trace[a]) : trace'[a][i] = trace[a][i]
      /\ DOMAIN trace'[a] = 1 .. (Len(trace[a]) + 1) /\ DOMAIN trace[a] = 1 .. Len(trace[a])
  BY <1>1, <1>2
<1>4. {i \in DOMAIN trace'[a] : trace'[a][i] = PAUSED} = {i \in DOMAIN trace[a] : trace[a][i] = PAUSED}
  BY <1>3 DEF RUNNING, PAUSED
<1>5. \A g \in Gate : PauseRows(g)' = PauseRows(g)
  <2> SUFFICES ASSUME NEW g \in Gate PROVE PauseRows(g)' = PauseRows(g)
    OBVIOUS
  <2>1. CASE g = a
    BY <1>4, <2>1 DEF PauseRows
  <2>2. CASE g # a
    <3>1. trace'[g] = trace[g]
      BY <1>2, <2>2 DEF TracedStep
    <3>. QED
      BY <3>1 DEF PauseRows
  <2>. QED
    BY <2>1, <2>2
<1>6. Pauses' = Pauses
  BY <1>5 DEF Pauses
<1>7. Waiting' = Waiting \ {a}
  BY <1>2, <1>3 DEF Waiting, _already_paused_here, TracedStep, RUNNING, PAUSED
<1>. QED
  BY <1>1, <1>3, <1>6, <1>7

\* Closing the latest row as paused starts a pause and counts as one; closing it
\* otherwise counts as none.
LEMMA RowClosed ==
  ASSUME trace \in [TracedStep -> Seq(StepStatus)],
         NEW d \in Drivers, at[d] \in TracedStep, mine[d] \in 1 .. Len(trace[at[d]]),
         mine[d] = Len(trace[at[d]]),
         NEW t \in {COMPLETED, FAILED, PAUSED}, _close_attempt(d, t)
  PROVE  /\ t = PAUSED /\ at[d] \in Gate => Waiting' = Waiting \cup {at[d]}
         /\ t # PAUSED => Waiting' = Waiting \ {at[d]}
         /\ \A g \in Gate : /\ Pauses'[g] \in Nat
                            /\ g # at[d] => Pauses'[g] = Pauses[g]
                            /\ t # PAUSED => Pauses'[g] <= Pauses[g]
                            /\ Pauses'[g] <= Pauses[g] + 1
<1> DEFINE a == at[d]
           m == mine[d]
<1>1. /\ trace[a] \in Seq(StepStatus) /\ m \in DOMAIN trace[a] /\ t \in StepStatus
      /\ trace' = [trace EXCEPT ![a] = [trace[a] EXCEPT ![m] = t]]
  BY DEF _close_attempt, StepStatus
<1>2. /\ trace'[a] = [trace[a] EXCEPT ![m] = t]
      /\ \A s \in TracedStep : s # a => trace'[s] = trace[s]
  BY <1>1
<1>3. /\ trace'[a] \in Seq(StepStatus) /\ Len(trace'[a]) = Len(trace[a])
      /\ DOMAIN trace'[a] = DOMAIN trace[a]
      /\ trace'[a][m] = t /\ \A i \in DOMAIN trace[a] : i # m => trace'[a][i] = trace[a][i]
  BY <1>1, <1>2
<1>4. trace' \in [TracedStep -> Seq(StepStatus)]
  BY <1>1, <1>2, <1>3
<1>5. trace'[a] # <<>> /\ trace'[a][Len(trace'[a])] = t
  BY <1>1, <1>3
<1>6. t = PAUSED /\ a \in Gate => Waiting' = Waiting \cup {a}
  BY <1>2, <1>5 DEF Waiting, _already_paused_here, TracedStep
<1>7. t # PAUSED => Waiting' = Waiting \ {a}
  BY <1>2, <1>5 DEF Waiting, _already_paused_here, TracedStep
<1>8. ASSUME NEW g \in Gate
      PROVE  /\ Pauses'[g] \in Nat
             /\ g # a => Pauses'[g] = Pauses[g]
             /\ t # PAUSED => Pauses'[g] <= Pauses[g]
             /\ Pauses'[g] <= Pauses[g] + 1
  <2>1. /\ IsFiniteSet(PauseRows(g)) /\ Pauses[g] = Cardinality(PauseRows(g)) /\ Pauses[g] \in Nat
    BY PausesCounted
  <2>2. Pauses'[g] = Cardinality(PauseRows(g)')
    BY DEF Pauses
  <2>3. CASE g # a
    <3>1. trace'[g] = trace[g]
      BY <1>2, <2>3 DEF TracedStep
    <3>2. PauseRows(g)' = PauseRows(g)
      BY <3>1 DEF PauseRows
    <3>. QED
      BY <2>1, <2>2, <2>3, <3>2
  <2>4. CASE g = a
    <3>1. PauseRows(g)' \subseteq PauseRows(g) \cup {m}
      BY <1>3, <2>4 DEF PauseRows
    <3>2. t # PAUSED => PauseRows(g)' \subseteq PauseRows(g)
      BY <1>3, <2>4 DEF PauseRows
    <3>3. /\ IsFiniteSet(PauseRows(g) \cup {m})
          /\ Cardinality(PauseRows(g) \cup {m}) \in {Pauses[g], Pauses[g] + 1}
      BY <2>1, FS_AddElement
    <3>4. Cardinality(PauseRows(g)') \in Nat /\ Cardinality(PauseRows(g)') <= Pauses[g] + 1
      BY <2>1, <3>1, <3>3, FS_Subset, FS_CardinalityType
    <3>5. t # PAUSED => Cardinality(PauseRows(g)') <= Pauses[g]
      BY <2>1, <3>2, FS_Subset
    <3>. QED
      BY <2>2, <2>4, <3>4, <3>5
  <2>. QED
    BY <2>3, <2>4
<1>. QED
  BY <1>6, <1>7, <1>8

\* A request that has got past the gate and has not yet moved the checkpoint or
\* the status past it.
Beyond(d, g) ==
    /\ at[d] = g
    /\ spot[d] = "span" \/ pc[d] = "return" \/ result[d][2] = APPROVAL_REJECTED

\* A paused run waits at a gate whose latest row is the pause, and a gate has
\* at most one pause more than processes have died.
PauseInv ==
    /\ status = PAUSED => checkpoint \in Waiting
    /\ \A g \in Gate : Pauses[g] <= 1 + crashes

\* What the request has seen of the gate's rows is still so; and a gate that may
\* be given another pause has one to spare.
PauseSeen(d) ==
    /\ result[d][1] = PAUSED => checkpoint \in Waiting
    /\ spot[d] = "interrupt" => at[d] \in Waiting
    /\ spot[d] \in {"open", "pause"} => at[d] \in Gate \ Waiting
    /\ spot[d] \in {"pause", "span"} => mine[d] = Len(trace[at[d]])
    /\ \A g \in Gate \ Waiting :
          checkpoint <= g /\ ~is_terminal(status) /\ ~Beyond(d, g) => Pauses[g] <= crashes

\* A rejection is a failure.
LEMMA RejectionFails ==
  ASSUME TypeOK, NEW d \in Drivers, result[d][2] = APPROVAL_REJECTED
  PROVE  result[d][1] = FAILED
  BY DEF TypeOK, Settlement, PauseReason, HR_APPROVAL, SIGNED_DOCUMENT, APPROVAL_REJECTED

\* With one request at a time, every step keeps what is said of the rows.
LEMMA PauseStep ==
  ASSUME OneDriver, SerialInv, AddedType, TraceInv, \A d \in Drivers : ShownTo(d),
         PauseInv, \A d \in Drivers : PauseSeen(d), [TracedNext]_tracedVars
  PROVE  PauseInv' /\ \A d \in Drivers : PauseSeen(d)'
<1>1. CASE UNCHANGED tracedVars
  <2>1. UNCHANGED <<checkpoint, status, pc, at, result, crashes, trace, spot, mine>>
    BY <1>1 DEF tracedVars, vars, added, row, thread, locals
  <2>2. UNCHANGED <<Waiting, Pauses>>
    BY <2>1 DEF Waiting, Pauses, PauseRows, _already_paused_here
  <2>. QED
    BY <2>1, <2>2 DEF PauseInv, PauseSeen, Beyond
<1>2. ASSUME NEW d \in Drivers,
             \/ Arrive(d) /\ UNCHANGED added
             \/ Progress(d)
             \/ Die(d)
             \/ SpanRaises(d)
      PROVE  PauseInv' /\ PauseSeen(d)'
  <2>0. /\ TypeOK /\ DOMAIN spot = Drivers /\ DOMAIN mine = Drivers
        /\ trace \in [TracedStep -> Seq(StepStatus)]
    BY DEF SerialInv, TypeInv, TraceInv
  <2>1. /\ PauseInv /\ PauseSeen(d) /\ RowInv /\ RequestInv(d)
        /\ spot[d] # "enter" => pc[d] = "body" /\ at[d] \in {2, 3, 6}
        /\ spot[d] \in {"pause", "span"} => mine[d] \in 1 .. Len(trace[at[d]])
        /\ spot[d] = "span" /\ at[d] \in Gate => input[d] # "none"
    BY DEF SerialInv, TraceInv, ShownTo, TracedStep, Gate, PLAN_DEPROVISIONING,
           AWAIT_HR_APPROVAL, AWAIT_SIGNED_DOCUMENT
  <2>t. /\ checkpoint \in 0 .. 8 /\ at[d] \in 0 .. 8 /\ crashes \in Nat
        /\ Waiting \subseteq Gate
        /\ pc[d] # "idle" => status \in RunStatus
    BY DEF SerialInv, TypeInv, TypeOK, StepName, END, FETCH_EMPLOYEE, FINALIZE, Waiting
  <2>n. \A g \in Gate : Pauses[g] \in Nat
    BY <2>0, PausesCounted
  <2>k. ASSUME UNCHANGED trace PROVE Waiting' = Waiting /\ Pauses' = Pauses
    BY <2>k DEF Waiting, Pauses, PauseRows, _already_paused_here
  <2> USE DEF Gate, PauseInv, PauseSeen, Beyond, RequestInv, Busy, AtNode
  <2> USE DEF END, FETCH_EMPLOYEE, PLAN_DEPROVISIONING, AWAIT_HR_APPROVAL, REVOKE_ACCESS,
              SEND_EXIT_PAPERWORK, AWAIT_SIGNED_DOCUMENT, FINALIZE
  <2> USE DEF PENDING, RUNNING, PAUSED, COMPLETED, FAILED, CANCELLED, HR_APPROVAL,
              SIGNED_DOCUMENT, APPROVAL_REJECTED, is_terminal, TERMINAL_RUN_STATUSES
  <2>2. CASE Arrive(d) /\ UNCHANGED added
    <3>1. UNCHANGED <<trace, spot, mine>>
      BY <2>2 DEF added
    <3>. QED
      BY <2>0, <2>1, <2>t, <2>k, <2>2, <3>1, ArriveEffect
  <2>3. CASE Die(d)
    <3>1. UNCHANGED trace /\ spot'[d] = "enter" /\ Crash(d) /\ crashes' = crashes + 1
          /\ UNCHANGED <<status, pause_reason>>
      BY <2>0, <2>3 DEF Die, Crash, row
    <3>. QED
      BY <2>0, <2>1, <2>t, <2>n, <2>k, <3>1, LeaveEffect
  <2>s. CASE SpanRaises(d)
    <3>1. /\ Crash(d) /\ crashes' = crashes + 1 /\ UNCHANGED <<status, pause_reason>>
          /\ spot[d] = "span" /\ spot'[d] = "enter" /\ _close_attempt(d, FAILED)
      BY <2>0, <2>s DEF SpanRaises, CloseSpan, Move, Crash, row
    <3>2. /\ Waiting' = Waiting \ {at[d]}
          /\ \A g \in Gate : /\ Pauses'[g] \in Nat
                             /\ Pauses'[g] <= Pauses[g]
      BY <2>0, <2>1, <3>1, RowClosed DEF TracedStep
    <3>. QED
      BY <2>0, <2>1, <2>t, <2>n, <3>1, <3>2, LeaveEffect
  <2>4. CASE CheckPaused(d)
    <3>1. /\ UNCHANGED <<checkpoint, status, pc, at, result, crashes, trace, mine>>
          /\ at[d] \in Gate /\ spot[d] = "enter" /\ pc[d] = "body"
          /\ spot'[d] = IF _already_paused_here(at[d]) THEN "interrupt" ELSE "open"
      BY <2>0, <2>4 DEF CheckPaused, Inside, Move, vars, row, thread, locals
    <3>2. at[d] \in Waiting <=> _already_paused_here(at[d])
      BY <3>1 DEF Waiting
    <3>. QED
      BY <2>1, <2>t, <2>k, <3>1, <3>2
  <2>5. CASE OpenPause(d) \/ Resumed(d) \/ OpenPlanSpan(d)
    <3>1. /\ UNCHANGED <<checkpoint, status, pc, at, result, crashes>>
          /\ start_attempt(d) /\ at[d] \in TracedStep /\ pc[d] = "body"
          /\ \/ spot[d] = "open" /\ spot'[d] = "pause"
             \/ spot[d] = "interrupt" /\ spot'[d] = "span"
             \/ spot[d] = "enter" /\ spot'[d] = "span" /\ at[d] = 2
      BY <2>0, <2>5 DEF OpenPause, Resumed, OpenPlanSpan, Inside, Move, vars, row, thread, locals
    <3>2. Waiting' = Waiting \ {at[d]} /\ Pauses' = Pauses /\ mine'[d] = Len(trace'[at[d]])
      BY <2>0, <3>1, RowOpened
    <3>. QED
      BY <2>1, <2>t, <3>1, <3>2
  <2>6. CASE pause_attempt(d)
    <3>1. /\ UNCHANGED <<checkpoint, status, pc, at, result, crashes>>
          /\ _close_attempt(d, PAUSED) /\ pc[d] = "body" /\ at[d] \in TracedStep
          /\ spot[d] = "pause" /\ spot'[d] = "interrupt"
      BY <2>0, <2>6 DEF pause_attempt, Inside, Move, vars, row, thread, locals
    <3>2. /\ Waiting' = Waiting \cup {at[d]}
          /\ \A g \in Gate : /\ Pauses'[g] \in Nat
                             /\ g # at[d] => Pauses'[g] = Pauses[g]
                             /\ Pauses'[g] <= Pauses[g] + 1
      BY <2>0, <2>1, <3>1, RowClosed
    <3>3. at[d] \in Gate /\ Pauses[at[d]] <= crashes
      BY <2>1, <2>t, <3>1
    <3>4. \A g \in Gate : Pauses'[g] <= 1 + crashes
      <4> SUFFICES ASSUME NEW g \in Gate PROVE Pauses'[g] <= 1 + crashes
        OBVIOUS
      <4>1. Pauses[g] \in Nat /\ Pauses[at[d]] \in Nat
        BY <2>n, <3>3
      <4>2. CASE g = at[d]
        BY <2>t, <3>2, <3>3, <4>1, <4>2
      <4>3. CASE g # at[d]
        BY <2>1, <3>2, <4>3
      <4>. QED
        BY <4>2, <4>3
    <3>5. PauseInv'
      BY <2>1, <3>1, <3>2, <3>4
    <3>6. /\ \A g \in Gate \ Waiting' : g # at[d] /\ g \notin Waiting /\ Pauses'[g] = Pauses[g]
      BY <3>2
    <3>7. PauseSeen(d)'
      BY <2>1, <2>t, <3>1, <3>2, <3>3, <3>6
    <3>. QED
      BY <3>5, <3>7
  <2>7. CASE Interrupt(d)
    <3>1. /\ await_hr_approval(d) \/ await_signed_document(d)
          /\ UNCHANGED trace /\ spot[d] = "interrupt" /\ spot'[d] = "enter"
          /\ input[d] = "none" /\ pc[d] = "body"
      BY <2>0, <2>7 DEF Interrupt, Move, await_hr_approval, await_signed_document
    <3>2. pc'[d] = "settle"
      BY <2>0, <3>1 DEF await_hr_approval, await_signed_document, End, Goto, TypeOK
    <3>. QED
      BY <2>0, <2>1, <2>t, <2>k, <3>1, <3>2, NodeEffect
  <2>8. CASE Decide(d)
    <3>1. /\ await_hr_approval(d) \/ await_signed_document(d)
          /\ pc[d] = "body" /\ at[d] \in Gate
          /\ CloseSpan(d, IF pc'[d] = "return" THEN COMPLETED ELSE FAILED)
      BY <2>8 DEF Decide, await_hr_approval, await_signed_document
    <3>2. /\ spot[d] = "span" /\ spot'[d] = "enter"
          /\ \E t \in {COMPLETED, FAILED} : _close_attempt(d, t)
      BY <2>0, <3>1 DEF CloseSpan, Move
    <3>3. /\ Waiting' = Waiting \ {at[d]}
          /\ \A g \in Gate : /\ Pauses'[g] \in Nat
                             /\ Pauses'[g] <= Pauses[g]
      BY <2>0, <2>1, <3>1, <3>2, RowClosed DEF TracedStep
    <3>4. pc'[d] = "return" \/ result'[d] = <<FAILED, APPROVAL_REJECTED>>
      BY <2>0, <2>1, <3>1, <3>2 DEF await_hr_approval, await_signed_document, End, Proceed,
                                    Goto, TypeOK
    <3>. QED
      BY <2>0, <2>1, <2>t, <2>n, <3>1, <3>2, <3>3, <3>4, NodeEffect
  <2>9. CASE generate_plan(d) \/ PlanFails(d)
    <3>1. /\ plan_deprovisioning(d) /\ at[d] = 2 /\ pc[d] = "body"
          /\ \E t \in {COMPLETED, FAILED} : CloseSpan(d, t)
      BY <2>9 DEF generate_plan, PlanFails, plan_deprovisioning
    <3>2. /\ spot[d] = "span" /\ spot'[d] = "enter"
          /\ \E t \in {COMPLETED, FAILED} : _close_attempt(d, t)
      BY <2>0, <3>1 DEF CloseSpan, Move
    <3>3. /\ Waiting' = Waiting \ {at[d]}
          /\ \A g \in Gate : Pauses'[g] = Pauses[g]
      BY <2>0, <2>1, <3>1, <3>2, RowClosed DEF TracedStep
    <3>. QED
      BY <2>0, <2>1, <2>t, <2>n, <3>1, <3>2, <3>3, NodeEffect
  <2>10. CASE Load(d)
    <3>1. Invoke(d) /\ UNCHANGED <<trace, spot, mine>>
      BY <2>10 DEF Load
    <3>. QED
      BY <2>0, <2>1, <2>t, <2>k, <3>1, InvokeEffect
  <2>11. CASE Save(d)
    <3>1. NodeReturns(d) /\ UNCHANGED <<trace, spot, mine>>
      BY <2>11 DEF Save
    <3>. QED
      BY <2>0, <2>1, <2>t, <2>k, <3>1, ReturnEffect
  <2>12. ASSUME UNCHANGED <<trace, spot, mine>>,
                guard(d) \/ bump_counters(d) \/ fetch_employee(d) \/ Effect(d)
         PROVE  PauseInv' /\ PauseSeen(d)'
    <3>1. ~(pc[d] = "body" /\ at[d] \in {2, 3, 6})
      BY <2>12 DEF guard, bump_counters, fetch_employee, Effect, EffectLands, ExecuteEffect,
                   EffectStep
    <3>. QED
      BY <2>0, <2>1, <2>t, <2>k, <2>12, <3>1, NodeEffect
  <2>13. CASE RevokePlanned(d)
    BY <2>12, <2>13 DEF RevokePlanned, revoke_access
  <2>14. CASE Elsewhere(d)
    <3>1. UNCHANGED <<trace, spot, mine>>
      BY <2>14 DEF Elsewhere, added
    <3>2. CASE SetRunning(d)
      BY <2>0, <2>1, <2>t, <2>k, <3>1, <3>2, SetRunningEffect, TransitionSources
    <3>3. CASE SetCancelled(d) \/ request_cancel(d)
      <4>1. /\ UNCHANGED crashes /\ pc[d] \in {"set_cancelled", "flag"} /\ ~_advance(d)
        BY <3>3 DEF SetCancelled, request_cancel, _advance
      <4>. QED
        BY <2>0, <2>1, <2>t, <2>k, <3>1, <3>3, <4>1, LeaveEffect
    <3>4. CASE _advance(d)
      <4>1. UNCHANGED crashes /\ pc[d] = "settle" /\ status = RUNNING
        BY <2>1, <3>4 DEF _advance
      <4>2. result[d][2] = APPROVAL_REJECTED => status' = FAILED
        <5>1. transition_run(FAILED)
          BY <4>1 DEF transition_run, ALLOWED_RUN_TRANSITIONS, RunStatus
        <5>. QED
          BY <2>0, <3>4, <5>1, RejectionFails DEF _advance, set_status
      <4>. QED
        BY <2>0, <2>1, <2>t, <2>k, <3>1, <3>4, <4>1, <4>2, LeaveEffect
    <3>5. CASE guard(d) \/ bump_counters(d) \/ fetch_employee(d)
      BY <2>12, <3>1, <3>5
    <3>6. CASE send_exit_paperwork(d) \/ finalize(d)
      BY <2>12, <3>1, <3>6 DEF send_exit_paperwork, finalize
    <3>. QED
      BY <2>14, <3>2, <3>3, <3>4, <3>5, <3>6 DEF Elsewhere
  <2>. QED
    BY <1>2, <2>2, <2>3, <2>s, <2>4, <2>5, <2>6, <2>7, <2>8, <2>9, <2>10, <2>11, <2>13, <2>14
       DEF Progress
<1>. QED
  BY OneDriver, <1>1, <1>2 DEF TracedNext, OneDriver

-----------------------------------------------------------------------------

\* All of it, with one request at a time.
TracedSerialInv ==
    /\ SerialInv /\ TraceInv /\ AddedType
    /\ ShownInv /\ PauseInv
    /\ \A d \in Drivers : ShownTo(d) /\ PauseSeen(d)

\* A run that has not begun satisfies it.
LEMMA TracedSerialInit ==
  ASSUME TypeInv, TraceInv, AddedType, TracedInit
  PROVE  TracedSerialInv
<1>1. SerialInv
  BY SerialInit DEF TracedInit
<1>2. /\ checkpoint = 0 /\ status = "none" /\ pending = "none" /\ effects = {} /\ crashes = 0
      /\ \A d \in Drivers : /\ pc[d] = "idle" /\ input[d] = "none" /\ spot[d] = "enter"
                            /\ result[d] = <<"none", "none">>
      /\ \A g \in Gate : trace[g] = <<>>
  BY DEF TracedInit, Init, TracedStep
<1>3. \A g \in Gate : Pauses[g] = 0
  <2> SUFFICES ASSUME NEW g \in Gate PROVE Pauses[g] = 0
    OBVIOUS
  <2>1. PauseRows(g) = {}
    BY <1>2 DEF PauseRows
  <2>. QED
    BY <2>1, FS_EmptySet DEF Pauses
<1>4. ShownInv /\ PauseInv
  BY <1>2, <1>3 DEF ShownInv, PauseInv, AWAIT_HR_APPROVAL, PAUSED
<1>5. ASSUME NEW d \in Drivers PROVE ShownTo(d) /\ PauseSeen(d)
  BY <1>2, <1>3 DEF ShownTo, PauseSeen, AtNode, PAUSED
<1>. QED
  BY <1>1, <1>4, <1>5 DEF TracedSerialInv

\* TracedSerialInv is an invariant while requests are served one at a time.
LEMMA TracedSerialInvariant ==
  ASSUME OneDriver
  PROVE  TracedSpec => []TracedSerialInv
<1>1. TypeInv /\ TraceInv /\ AddedType /\ TracedInit => TracedSerialInv
  BY TracedSerialInit
<1>2. ASSUME TracedSerialInv, [TracedNext]_tracedVars PROVE TracedSerialInv'
  <2>1. /\ SerialInv /\ TypeInv /\ TraceInv /\ AddedType /\ ShownInv /\ PauseInv
        /\ \A d \in Drivers : ShownTo(d)
        /\ \A d \in Drivers : PauseSeen(d)
    BY <1>2 DEF TracedSerialInv, SerialInv
  <2>2. SerialInv'
    BY OneDriver, <1>2, <2>1, TracedSerialStep
  <2>3. TraceInv'
    BY <1>2, <2>1, TraceStep
  <2>4. AddedType'
    BY <1>2, <2>1, AddedStep
  <2>5. ShownInv' /\ \A d \in Drivers : ShownTo(d)'
    BY OneDriver, <1>2, <2>1, ShownStep
  <2>6. PauseInv' /\ \A d \in Drivers : PauseSeen(d)'
    BY OneDriver, <1>2, <2>1, PauseStep
  <2>. QED
    BY <2>2, <2>3, <2>4, <2>5, <2>6 DEF TracedSerialInv
<1>3. TracedSerialInv /\ [TracedNext]_tracedVars => TracedSerialInv'
  BY <1>2
<1>. QED
  BY <1>1, <1>3, TracedInvariant, PTL DEF TracedSpec

\* plan_deprovisioning, await_hr_approval and revoke_access: served one request
\* at a time, the IAM tool gets the checklist the approver was shown, item for
\* item, whatever the model answers and wherever processes die.
THEOREM ShownIsRevoked ==
  ASSUME OneDriver
  PROVE  TracedSpec => []RevokedAsShown
<1>1. TracedSerialInv => RevokedAsShown
  BY DEF TracedSerialInv, ShownInv, RevokedAsShown
<1>. QED
  BY OneDriver, <1>1, TracedSerialInvariant, PTL

\* _already_paused_here, pause_attempt and interrupt(): served one request at a
\* time, a paused run's gate has the pause as its latest row.
THEOREM PausesAreTraced ==
  ASSUME OneDriver
  PROVE  TracedSpec => []PauseIsTraced
<1>1. TracedSerialInv => PauseIsTraced
  <2> SUFFICES ASSUME TracedSerialInv, status = PAUSED
               PROVE  Len(trace[checkpoint]) \in PauseRows(checkpoint)
    BY DEF PauseIsTraced
  <2>1. /\ checkpoint \in Gate /\ trace[checkpoint] # <<>>
        /\ trace[checkpoint][Len(trace[checkpoint])] = PAUSED
        /\ trace[checkpoint] \in Seq(StepStatus)
    BY DEF TracedSerialInv, TraceInv, PauseInv, Waiting, _already_paused_here, TracedStep
  <2>2. Len(trace[checkpoint]) \in DOMAIN trace[checkpoint]
    BY <2>1
  <2>. QED
    BY <2>1, <2>2 DEF PauseRows
<1>. QED
  BY OneDriver, <1>1, TracedSerialInvariant, PTL

\* _already_paused_here: served one request at a time, however often a run is
\* resumed, a gate is given a second pause row only where a process died.
THEOREM PauseRowsAreFew ==
  ASSUME OneDriver
  PROVE  TracedSpec => []PauseRowsBounded
<1>1. TracedSerialInv => PauseRowsBounded
  BY PausesCounted DEF TracedSerialInv, TraceInv, PauseInv, PauseRowsBounded
<1>. QED
  BY OneDriver, <1>1, TracedSerialInvariant, PTL

\* The guarantees of a run served one request at a time hold of the traced run:
\* a completed run was signed, a rejected one is not revoked, the pause reason
\* names the gate, and no effect lands after a terminal status.
THEOREM TracedRunIsSerial ==
  ASSUME OneDriver
  PROVE  TracedSpec => /\ [](/\ CompletedMeansSigned /\ RejectedMeansNotRevoked
                             /\ PauseMatchesCheckpoint)
                       /\ NoWorkAfterTerminal
<1>1. SerialInv => /\ CompletedMeansSigned /\ RejectedMeansNotRevoked
                   /\ PauseMatchesCheckpoint
  BY DEF SerialInv, RowInv, Signed, AtGate, CompletedMeansSigned, RejectedMeansNotRevoked,
         PauseMatchesCheckpoint
<1>2. TracedSerialInv => SerialInv
  BY DEF TracedSerialInv
<1>3. [TracedNext]_tracedVars => [Next]_vars
  BY StepRefines DEF tracedVars
<1>4. SerialInv /\ [Next]_vars => [is_terminal(status) => effects' = effects]_vars
  BY WorkNeedsRunning
<1>. QED
  BY OneDriver, <1>1, <1>2, <1>3, <1>4, TracedSerialInvariant, PTL DEF TracedSpec,
     NoWorkAfterTerminal
=============================================================================
