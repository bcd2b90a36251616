-------------------------- MODULE RunSerialProofs --------------------------
(***************************************************************************)
(* What RunService guarantees when requests are served one at a time, for  *)
(* every step allowance and any number of crashes and restarts.            *)
(***************************************************************************)
EXTENDS RunServiceProofs

\* No two requests are ever in execution together.
OneDriver == \A d, e \in Drivers : d = e

\* A request in the graph, or between it and the status that frames it.
Busy(d) == pc[d] \in {"invoke", "guard", "bump", "body", "return", "settle"}

\* A request at a node of the graph.
AtNode(d) == pc[d] \in {"guard", "bump", "body", "return"}

\* The resume value is one the thread's next step asks for.
Expected(i) ==
    /\ i \in {"approve", "reject"} => checkpoint = AWAIT_HR_APPROVAL
    /\ i = "signature" => checkpoint = AWAIT_SIGNED_DOCUMENT

\* The pause reason names the gate the thread waits at.
AtGate(reason) ==
    \/ reason = HR_APPROVAL /\ checkpoint = AWAIT_HR_APPROVAL
    \/ reason = SIGNED_DOCUMENT /\ checkpoint = AWAIT_SIGNED_DOCUMENT

Signed == "signature" \in accepted

\* What is durable: no effect is ahead of the checkpoint, the row says where
\* the thread waits, the stored resume value is for that step, and a rejected
\* run has failed before the revocation.
RowInv ==
    /\ \A s \in effects : s <= checkpoint
    /\ status \in {"none", PENDING} => checkpoint = 0 /\ effects = {}
    /\ status = PAUSED => AtGate(pause_reason)
    /\ status = COMPLETED => Signed
    /\ checkpoint > AWAIT_SIGNED_DOCUMENT => Signed
    /\ Expected(pending)
    /\ pending = "signature" => Signed
    /\ failure_reason = APPROVAL_REJECTED => status = FAILED /\ REVOKE_ACCESS \notin effects

\* What one request holds in memory, while it is alone.
RequestInv(d) ==
    /\ Busy(d) => status = RUNNING
    /\ AtNode(d) => at[d] = checkpoint
    /\ Expected(input[d])
    /\ pc[d] # "set_running" /\ input[d] = "signature" => Signed
    /\ input[d] = "fresh" => checkpoint = 0 /\ effects = {}
    /\ pc[d] = "return" /\ at[d] = AWAIT_SIGNED_DOCUMENT => Signed
    /\ result[d][1] = PAUSED => AtGate(result[d][2])
    /\ result[d][1] = COMPLETED => Signed
    /\ result[d][2] = APPROVAL_REJECTED => checkpoint = AWAIT_HR_APPROVAL
    /\ pc[d] # "settle" => result[d] = <<"none", "none">>

SerialInv ==
    /\ TypeInv
    /\ RowInv
    /\ \A d \in Drivers : RequestInv(d)

\* A status moves only along the table: a terminal one not at all, and to
\* RUNNING from PENDING or PAUSED.
LEMMA TransitionSources ==
  ASSUME status \in RunStatus, NEW target, transition_run(target)
  PROVE  /\ status \in {PENDING, RUNNING, PAUSED}
         /\ target \in {RUNNING, PAUSED, COMPLETED, FAILED, CANCELLED}
         /\ target = RUNNING => status \in {PENDING, PAUSED}
  BY DEF transition_run, ALLOWED_RUN_TRANSITIONS, RunStatus,
         PENDING, RUNNING, PAUSED, COMPLETED, FAILED, CANCELLED

\* With one request at a time, every step and every crash keeps SerialInv.
LEMMA SerialStep ==
  ASSUME OneDriver
  PROVE  SerialInv /\ [Next]_vars => SerialInv'
<1> SUFFICES ASSUME SerialInv, [Next]_vars PROVE SerialInv'
  OBVIOUS
<1>0. TypeInv'
  BY TypeStep DEF SerialInv
<1>1. CASE UNCHANGED vars
  <2>1. UNCHANGED <<status, pause_reason, failure_reason, checkpoint, pending, effects,
                    pc, at, input, result, accepted>>
    BY <1>1 DEF vars, row, thread, locals
  <2>. QED
    BY <1>0, <2>1 DEF SerialInv, RowInv, RequestInv, Busy, AtNode, Expected, AtGate, Signed
<1>2. ASSUME NEW d \in Drivers, Arrive(d) \/ Step(d) \/ Crash(d)
      PROVE  RowInv' /\ RequestInv(d)'
  <2>0. /\ RowInv /\ RequestInv(d)
        /\ DOMAIN pc = Drivers /\ DOMAIN at = Drivers
        /\ DOMAIN input = Drivers /\ DOMAIN result = Drivers
    BY DEF SerialInv, TypeInv, TypeOK
  <2>t. /\ checkpoint \in 0 .. 8 /\ at[d] \in 0 .. 8 /\ effects \subseteq EffectStep
        /\ input[d] \in {"fresh", "none", "approve", "reject", "signature"}
    BY DEF SerialInv, TypeInv, TypeOK, StepName, END, FETCH_EMPLOYEE, FINALIZE,
           GraphInput, ResumeValue
  <2>s. pc[d] # "idle" => status \in RunStatus
    BY DEF SerialInv, TypeInv, TypeOK
  <2>left. ASSUME Leave(d)
           PROVE  /\ pc'[d] = "idle" /\ at'[d] = 0 /\ input'[d] = "none"
                  /\ result'[d] = <<"none", "none">>
    BY <2>0, <2>left DEF Leave, Goto
  <2>end. ASSUME NEW s, NEW reason, End(d, s, reason)
          PROVE  /\ pc'[d] = "settle" /\ at'[d] = at[d] /\ input'[d] = input[d]
                 /\ result'[d] = <<s, reason>>
                 /\ UNCHANGED <<status, pause_reason, failure_reason, checkpoint, pending,
                                accepted>>
    BY <2>0, <2>end DEF End, Goto, row, thread
  <2>go. ASSUME NEW p, Proceed(d, p)
         PROVE  /\ pc'[d] = p /\ at'[d] = at[d] /\ input'[d] = input[d]
                /\ result'[d] = result[d]
                /\ UNCHANGED <<status, pause_reason, failure_reason, checkpoint, pending,
                               accepted>>
    BY <2>0, <2>go DEF Proceed, Goto, row, thread
  <2> USE DEF RowInv, RequestInv, Busy, AtNode, Expected, AtGate, Signed
  <2> USE DEF END, FETCH_EMPLOYEE, PLAN_DEPROVISIONING, AWAIT_HR_APPROVAL, REVOKE_ACCESS,
              SEND_EXIT_PAPERWORK, AWAIT_SIGNED_DOCUMENT, FINALIZE, EffectStep
  <2> USE DEF PENDING, RUNNING, PAUSED, COMPLETED, FAILED, CANCELLED, HR_APPROVAL,
              SIGNED_DOCUMENT, APPROVAL_REJECTED, BUDGET_EXCEEDED, TOOL_FAILED,
              INVALID_PLAN, NEEDS_RECONCILIATION
  <2>1. CASE start_run(d)
    <3>1. /\ status = "none" /\ status' = PENDING
          /\ UNCHANGED <<pause_reason, failure_reason, checkpoint, pending, effects, accepted>>
          /\ pc'[d] = "set_running" /\ input'[d] = "fresh"
          /\ at'[d] = at[d] /\ result'[d] = result[d]
      BY <2>0, <2>1 DEF start_run, Request, Goto, row, thread
    <3>. QED
      BY <2>0, <3>1
  <2>2. CASE resume_run(d) \/ cancel_run(d)
    <3>1. /\ UNCHANGED <<status, pause_reason, failure_reason, checkpoint, pending, effects,
                         accepted>>
          /\ at'[d] = at[d] /\ input'[d] = input[d] /\ result'[d] = result[d]
          /\ pc[d] = "idle"
          /\ pc'[d] \in {"set_cancelled", "flag"} \/ (pc'[d] = "invoke" /\ status = RUNNING)
      BY <2>0, <2>2 DEF resume_run, cancel_run, Goto, row, thread
    <3>. QED
      BY <2>0, <3>1
  <2>3. CASE approve(d) \/ reject(d) \/ submit_signed_document(d)
    <3>1. /\ UNCHANGED <<status, pause_reason, failure_reason, checkpoint, pending, effects,
                         accepted>>
          /\ status = PAUSED
          /\ pc[d] = "idle" /\ pc'[d] = "set_running"
          /\ at'[d] = at[d] /\ result'[d] = result[d]
          /\ \/ input'[d] \in {"approve", "reject"} /\ pause_reason = HR_APPROVAL
             \/ input'[d] = "signature" /\ pause_reason = SIGNED_DOCUMENT
      BY <2>0, <2>3 DEF approve, reject, submit_signed_document, _resolve_approval,
                        _require_paused_for, Request, Goto, row, thread
    <3>. QED
      BY <2>0, <3>1
  <2>4. CASE SetRunning(d)
    <3>0. /\ UNCHANGED <<checkpoint, pending, effects>>
          /\ pc[d] = "set_running"
      BY <2>4 DEF SetRunning, thread
    <3>1. CASE set_status(RUNNING, "none") /\ Goto(d, "invoke")
      <4>1. /\ accepted' = accepted \cup ({input[d]} \cap {"approve", "reject", "signature"})
            /\ at'[d] = at[d] /\ input'[d] = input[d] /\ result'[d] = result[d]
            /\ pc'[d] = "invoke"
        BY <2>0, <2>4, <3>1 DEF SetRunning, Goto, Leave, ResumeValue
      <4>2. status \in {PENDING, PAUSED} /\ status' = RUNNING /\ UNCHANGED failure_reason
        BY <2>s, <3>0, <3>1, TransitionSources DEF set_status
      <4>. QED
        BY <2>0, <2>t, <3>0, <4>1, <4>2
    <3>2. CASE Leave(d) /\ UNCHANGED <<row, accepted>>
      <4>1. UNCHANGED <<status, pause_reason, failure_reason, accepted>>
        BY <3>2 DEF row
      <4>. QED
        BY <2>0, <2>left, <3>0, <3>2, <4>1
    <3>. QED
      BY <2>4, <3>1, <3>2 DEF SetRunning
  <2>5. CASE SetCancelled(d)
    <3>0. /\ UNCHANGED <<checkpoint, pending, effects, accepted>>
          /\ pc[d] = "set_cancelled" /\ Leave(d)
      BY <2>5 DEF SetCancelled, thread
    <3>1. \/ UNCHANGED <<status, pause_reason, failure_reason>>
          \/ status' = CANCELLED /\ UNCHANGED failure_reason /\ status # FAILED
      BY <2>5, <2>s, <3>0, TransitionSources DEF SetCancelled, set_status, row
    <3>. QED
      BY <2>0, <2>left, <3>0, <3>1
  <2>6. CASE request_cancel(d) \/ Crash(d)
    <3>0. /\ UNCHANGED <<status, pause_reason, failure_reason, checkpoint, pending, effects,
                         accepted>>
          /\ Leave(d)
      BY <2>6 DEF request_cancel, Crash, row, thread
    <3>. QED
      BY <2>0, <2>left, <3>0
  <2>7. CASE Invoke(d)
    <3>0. /\ pc[d] = "invoke"
          /\ UNCHANGED <<status, pause_reason, failure_reason, effects, accepted>>
      BY <2>7 DEF Invoke, row
    <3>enter. ASSUME NEW step, Enter(d, step)
              PROVE  /\ at'[d] = step
                     /\ pc'[d] = IF step = END THEN "settle" ELSE "guard"
                     /\ result'[d] = IF step = END THEN <<COMPLETED, "none">> ELSE result[d]
      BY <2>0, <3>enter DEF Enter, Goto
    <3>1. CASE input[d] = "fresh"
      <4>1. /\ checkpoint' = 1 /\ pending' = "none" /\ input'[d] = "none" /\ Enter(d, 1)
        BY <2>0, <2>7, <3>1 DEF Invoke, ResumeValue
      <4>2. at'[d] = 1 /\ pc'[d] = "guard" /\ result'[d] = result[d]
        BY <4>1, <3>enter
      <4>. QED
        BY <2>0, <2>t, <3>0, <3>1, <4>1, <4>2
    <3>2. CASE input[d] \in ResumeValue
      <4>1. /\ checkpoint' = checkpoint /\ pending' = input[d] /\ input'[d] = input[d]
            /\ Enter(d, checkpoint)
        BY <2>0, <2>7, <3>2 DEF Invoke, ResumeValue, thread
      <4>2. /\ at'[d] = checkpoint /\ pc'[d] = "guard" /\ result'[d] = result[d]
        BY <2>0, <3>2, <4>1, <3>enter DEF ResumeValue
      <4>. QED
        BY <2>0, <2>t, <3>0, <3>2, <4>1, <4>2
    <3>3. CASE input[d] = "none" /\ checkpoint # 0
      <4>1. /\ checkpoint' = checkpoint /\ pending' = pending /\ input'[d] = pending
            /\ Enter(d, checkpoint)
        BY <2>0, <2>7, <3>3 DEF Invoke, ResumeValue, thread
      <4>p. pending # "fresh"
        BY DEF SerialInv, TypeInv, TypeOK, ResumeValue
      <4>2. CASE checkpoint = END
        <5>1. at'[d] = checkpoint /\ pc'[d] = "settle" /\ result'[d] = <<COMPLETED, "none">>
          BY <4>1, <4>2, <3>enter
        <5>. QED
          BY <2>0, <2>t, <3>0, <4>1, <4>p, <4>2, <5>1
      <4>3. CASE checkpoint # END
        <5>1. at'[d] = checkpoint /\ pc'[d] = "guard" /\ result'[d] = result[d]
          BY <4>1, <4>3, <3>enter
        <5>. QED
          BY <2>0, <2>t, <3>0, <4>1, <4>p, <5>1
      <4>. QED
        BY <4>2, <4>3
    <3>4. CASE Leave(d) /\ UNCHANGED thread
      <4>1. UNCHANGED <<checkpoint, pending>>
        BY <3>4 DEF thread
      <4>. QED
        BY <2>0, <2>left, <3>0, <3>4, <4>1
    <3>. QED
      BY <2>7, <3>1, <3>2, <3>3, <3>4 DEF Invoke
  <2>8. CASE guard(d)
    <3>1. UNCHANGED effects /\ pc[d] = "guard"
      BY <2>8 DEF guard
    <3>2. \/ End(d, CANCELLED, "none")
          \/ End(d, FAILED, BUDGET_EXCEEDED)
          \/ Proceed(d, "bump")
      BY <2>8 DEF guard
    <3>3. CASE Proceed(d, "bump")
      BY <2>0, <2>go, <3>1, <3>3
    <3>4. ASSUME NEW s \in {CANCELLED, FAILED}, NEW reason \in {"none", BUDGET_EXCEEDED},
                 End(d, s, reason)
          PROVE  RowInv' /\ RequestInv(d)'
      BY <2>0, <2>end, <3>1, <3>4
    <3>. QED
      BY <3>2, <3>3, <3>4
  <2>9. CASE bump_counters(d)
    <3>1. /\ UNCHANGED <<status, pause_reason, failure_reason, checkpoint, pending, effects,
                         accepted>>
          /\ at'[d] = at[d] /\ input'[d] = input[d] /\ result'[d] = result[d]
          /\ pc[d] = "bump" /\ pc'[d] = "body"
      BY <2>0, <2>9 DEF bump_counters, Goto, row, thread
    <3>. QED
      BY <2>0, <3>1
  <2>10. CASE fetch_employee(d) \/ plan_deprovisioning(d)
    <3>1. UNCHANGED effects /\ pc[d] = "body" /\ at[d] \in {1, 2}
      BY <2>10 DEF fetch_employee, plan_deprovisioning
    <3>2. \/ Proceed(d, "return")
          \/ \E reason \in {TOOL_FAILED, BUDGET_EXCEEDED, INVALID_PLAN} :
                End(d, FAILED, reason)
      BY <2>10 DEF fetch_employee, plan_deprovisioning
    <3>3. CASE Proceed(d, "return")
      BY <2>0, <2>go, <3>1, <3>3
    <3>4. ASSUME NEW reason \in {TOOL_FAILED, BUDGET_EXCEEDED, INVALID_PLAN},
                 End(d, FAILED, reason)
          PROVE  RowInv' /\ RequestInv(d)'
      BY <2>0, <2>end, <3>1, <3>4
    <3>. QED
      BY <3>2, <3>3, <3>4
  <2>11. CASE await_hr_approval(d)
    <3>1. UNCHANGED effects /\ pc[d] = "body" /\ at[d] = AWAIT_HR_APPROVAL
      BY <2>11 DEF await_hr_approval
    <3>2. \/ Proceed(d, "return")
          \/ End(d, PAUSED, HR_APPROVAL)
          \/ End(d, FAILED, APPROVAL_REJECTED)
      BY <2>11 DEF await_hr_approval
    <3>3. CASE Proceed(d, "return")
      BY <2>0, <2>go, <3>1, <3>3
    <3>4. CASE End(d, PAUSED, HR_APPROVAL)
      BY <2>0, <2>end, <3>1, <3>4
    <3>5. CASE End(d, FAILED, APPROVAL_REJECTED)
      BY <2>0, <2>end, <3>1, <3>5
    <3>. QED
      BY <3>2, <3>3, <3>4, <3>5
  <2>12. CASE await_signed_document(d)
    <3>1. UNCHANGED effects /\ pc[d] = "body" /\ at[d] = AWAIT_SIGNED_DOCUMENT
      BY <2>12 DEF await_signed_document
    <3>2. \/ Proceed(d, "return") /\ input[d] # "none"
          \/ End(d, PAUSED, SIGNED_DOCUMENT)
      BY <2>12 DEF await_signed_document
    <3>3. CASE Proceed(d, "return") /\ input[d] # "none"
      BY <2>0, <2>t, <2>go, <3>1, <3>3
    <3>4. CASE End(d, PAUSED, SIGNED_DOCUMENT)
      BY <2>0, <2>end, <3>1, <3>4
    <3>. QED
      BY <3>2, <3>3, <3>4
  <2>13. CASE EffectLands(d)
    <3>1. /\ UNCHANGED <<status, pause_reason, failure_reason, checkpoint, pending, accepted>>
          /\ pc[d] = "body" /\ at[d] \in EffectStep /\ effects' = effects \cup {at[d]}
          /\ pc'[d] = pc[d] /\ at'[d] = at[d] /\ input'[d] = input[d] /\ result'[d] = result[d]
      BY <2>13 DEF EffectLands, row, thread, locals
    <3>. QED
      BY <2>0, <2>t, <3>1
  <2>14. CASE ExecuteEffect(d)
    <3>1. UNCHANGED effects /\ pc[d] = "body" /\ at[d] \in EffectStep
      BY <2>14 DEF ExecuteEffect
    <3>2. \/ Proceed(d, "return")
          \/ \E reason \in {TOOL_FAILED, BUDGET_EXCEEDED, NEEDS_RECONCILIATION} :
                End(d, FAILED, reason)
      BY <2>14 DEF ExecuteEffect
    <3>3. CASE Proceed(d, "return")
      BY <2>0, <2>go, <3>1, <3>3
    <3>4. ASSUME NEW reason \in {TOOL_FAILED, BUDGET_EXCEEDED, NEEDS_RECONCILIATION},
                 End(d, FAILED, reason)
          PROVE  RowInv' /\ RequestInv(d)'
      BY <2>0, <2>end, <3>1, <3>4
    <3>. QED
      BY <3>2, <3>3, <3>4
  <2>15. CASE NodeReturns(d)
    <3>1. /\ UNCHANGED <<status, pause_reason, failure_reason, effects, accepted>>
          /\ pc[d] = "return" /\ checkpoint' = at[d] + 1 /\ pending' = "none"
          /\ input'[d] = "none" /\ at'[d] = at[d] + 1
          /\ pc'[d] = IF at[d] + 1 = END THEN "settle" ELSE "guard"
          /\ result'[d] = IF at[d] + 1 = END THEN <<COMPLETED, "none">> ELSE result[d]
      BY <2>0, <2>15 DEF NodeReturns, Enter, Goto, row
    <3>. QED
      BY <2>0, <2>t, <3>1
  <2>16. CASE _advance(d)
    <3>0. /\ UNCHANGED <<checkpoint, pending, effects, accepted>>
          /\ pc[d] = "settle" /\ Leave(d) /\ status = RUNNING
      BY <2>0, <2>16 DEF _advance, thread
    <3>1. CASE UNCHANGED <<status, pause_reason, failure_reason>>
      BY <2>0, <2>left, <3>0, <3>1
    <3>2. CASE set_status(result[d][1], result[d][2])
      <4>1. /\ status' = result[d][1]
            /\ pause_reason' = IF result[d][1] = PAUSED THEN result[d][2] ELSE "none"
            /\ failure_reason' = IF result[d][1] = FAILED THEN result[d][2] ELSE failure_reason
            /\ result[d][1] \in {PAUSED, COMPLETED, FAILED, CANCELLED, RUNNING}
        BY <2>s, <3>0, <3>2, TransitionSources DEF set_status
      <4>. QED
        BY <2>0, <2>t, <2>left, <3>0, <4>1
    <3>. QED
      BY <2>16, <3>1, <3>2 DEF _advance, row
  <2>. QED
    BY <1>2, <2>1, <2>2, <2>3, <2>4, <2>5, <2>6, <2>7, <2>8, <2>9, <2>10, <2>11, <2>12,
       <2>13, <2>14, <2>15, <2>16
    DEF Arrive, Step, Effect, revoke_access, send_exit_paperwork, finalize
<1>. QED
  BY OneDriver, <1>0, <1>1, <1>2 DEF Next, SerialInv, OneDriver

\* A run without a row or a request satisfies SerialInv.
LEMMA SerialInit == Init => SerialInv
  BY TypeInit DEF Init, SerialInv, RowInv, RequestInv, Busy, AtNode, Expected, AtGate, Signed,
     PENDING, PAUSED, COMPLETED, APPROVAL_REJECTED, AWAIT_SIGNED_DOCUMENT

\* SerialInv is an invariant while requests are served one at a time.
LEMMA SerialInvariant ==
  ASSUME OneDriver
  PROVE  Spec => []SerialInv
<1>1. SerialInv /\ [Next]_vars => SerialInv'
  BY OneDriver, SerialStep
<1>. QED
  BY <1>1, SerialInit, PTL DEF Spec

-----------------------------------------------------------------------------

\* submit_signed_document, await_signed_document and _advance: served one
\* request at a time, a run whose row says COMPLETED has had a signed document
\* accepted, whatever died in between and whatever was resumed.
THEOREM CompletionIsSigned ==
  ASSUME OneDriver
  PROVE  Spec => []CompletedMeansSigned
<1>1. SerialInv => CompletedMeansSigned
  BY DEF SerialInv, RowInv, Signed, CompletedMeansSigned
<1>. QED
  BY OneDriver, <1>1, SerialInvariant, PTL

\* reject, await_hr_approval and _advance: served one request at a time, a run
\* recorded as rejected has not had its access revoked.
THEOREM RejectionPreventsRevocation ==
  ASSUME OneDriver
  PROVE  Spec => []RejectedMeansNotRevoked
<1>1. SerialInv => RejectedMeansNotRevoked
  BY DEF SerialInv, RowInv, RejectedMeansNotRevoked
<1>. QED
  BY OneDriver, <1>1, SerialInvariant, PTL

\* _require_paused_for and interrupt(): served one request at a time, the pause
\* reason of the row names the gate the thread's checkpoint waits at.
THEOREM PauseNamesTheGate ==
  ASSUME OneDriver
  PROVE  Spec => []PauseMatchesCheckpoint
<1>1. SerialInv => PauseMatchesCheckpoint
  BY DEF SerialInv, RowInv, AtGate, PauseMatchesCheckpoint
<1>. QED
  BY OneDriver, <1>1, SerialInvariant, PTL

\* An effect lands only while the row says RUNNING, since a request in the
\* graph has a RUNNING row.
LEMMA WorkNeedsRunning ==
  SerialInv /\ [Next]_vars => [is_terminal(status) => effects' = effects]_vars
<1>1. ASSUME SerialInv, [Next]_vars, is_terminal(status) PROVE effects' = effects
  <2>1. CASE UNCHANGED vars
    BY <2>1 DEF vars
  <2>2. ASSUME NEW d \in Drivers, EffectLands(d) PROVE FALSE
    BY <1>1, <2>2 DEF EffectLands, SerialInv, RequestInv, Busy, is_terminal,
       TERMINAL_RUN_STATUSES, RUNNING, COMPLETED, FAILED, CANCELLED
  <2>3. ASSUME NEW d \in Drivers, Arrive(d) \/ Step(d) \/ Crash(d), ~EffectLands(d)
        PROVE  effects' = effects
    BY <2>3 DEF Arrive, Step, Effect, start_run, approve, reject, _resolve_approval, Request,
       submit_signed_document, resume_run, cancel_run, SetRunning, SetCancelled, request_cancel,
       Invoke, guard, bump_counters, fetch_employee, plan_deprovisioning, await_hr_approval,
       revoke_access, send_exit_paperwork, await_signed_document, finalize, ExecuteEffect,
       NodeReturns, _advance, Crash
  <2>. QED
    BY <1>1, <2>1, <2>2, <2>3 DEF Next
<1>. QED
  BY <1>1

\* TERMINAL_RUN_STATUSES: served one request at a time, no effect lands once
\* the row has a terminal status.
THEOREM TerminalRunsDoNoWork ==
  ASSUME OneDriver
  PROVE  Spec => NoWorkAfterTerminal
<1>. QED
  BY OneDriver, WorkNeedsRunning, SerialInvariant, PTL DEF Spec, NoWorkAfterTerminal
=============================================================================
