-------------------------- MODULE RunServiceProofs --------------------------
(***************************************************************************)
(* Theorems about RunService, for every number of concurrent requests,     *)
(* every step allowance and any number of crashes.                         *)
(***************************************************************************)
EXTENDS RunService, Counting

-----------------------------------------------------------------------------
(* Type correctness *)

\* TypeOK, and two facts it needs: a request in execution has a row to work
\* on, since the transition table has no entry for a run that does not exist,
\* and a node that returns is one of the seven.
TypeInv ==
    /\ TypeOK
    /\ \A d \in Drivers : /\ pc[d] # "idle" => status # "none"
                          /\ pc[d] = "return" => at[d] \in StepName

\* The outcomes the nodes produce are settlements.
LEMMA Settlements ==
    /\ \A r \in PauseReason : <<PAUSED, r>> \in Settlement
    /\ \A r \in FailureReason : <<FAILED, r>> \in Settlement
    /\ <<COMPLETED, "none">> \in Settlement
    /\ <<CANCELLED, "none">> \in Settlement
  BY DEF Settlement

\* A settlement carries a reason of the kind its status calls for.
LEMMA SettlementReason ==
  ASSUME NEW r \in Settlement \cup {<<"none", "none">>}
  PROVE  /\ r[1] = PAUSED => r[2] \in PauseReason
         /\ r[1] = FAILED => r[2] \in FailureReason
  BY DEF Settlement, PAUSED, FAILED, COMPLETED, CANCELLED

\* set_status moves a typed row to a typed row.
LEMMA SetStatusType ==
  ASSUME TypeOK, status # "none",
         NEW target, NEW reason, set_status(target, reason),
         target = PAUSED => reason \in PauseReason,
         target = FAILED => reason \in FailureReason
  PROVE  /\ status' \in RunStatus
         /\ target \in RunStatus
         /\ status' = target
         /\ pause_reason' \in PauseReason \cup {"none"}
         /\ failure_reason' \in FailureReason \cup {"none"}
         /\ cancel_requested' \in BOOLEAN
         /\ step_count' \in Nat
  BY DEF TypeOK, set_status, transition_run, ALLOWED_RUN_TRANSITIONS, RunStatus,
         PENDING, RUNNING, PAUSED, COMPLETED, FAILED, CANCELLED

\* A node that ends graph.invoke keeps the types.
LEMMA EndType ==
  ASSUME TypeInv, NEW d \in Drivers, pc[d] # "idle",
         NEW s, NEW r, <<s, r>> \in Settlement, End(d, s, r),
         effects' \subseteq EffectStep, late' \subseteq EffectStep
  PROVE  TypeInv'
  BY DEF TypeInv, TypeOK, End, Goto, row, thread, Position

\* A node that goes on keeps the types.
LEMMA ProceedType ==
  ASSUME TypeInv, NEW d \in Drivers, pc[d] # "idle",
         NEW p \in Position, Proceed(d, p), p = "return" => at[d] \in StepName,
         effects' \subseteq EffectStep, late' \subseteq EffectStep
  PROVE  TypeInv'
  BY DEF TypeInv, TypeOK, Proceed, Goto, row, thread, Position

\* Every step keeps TypeInv.
LEMMA TypeStep == TypeInv /\ [Next]_vars => TypeInv'
<1> SUFFICES ASSUME TypeInv, [Next]_vars PROVE TypeInv'
  OBVIOUS
<1> USE DEF TypeInv, TypeOK, row, thread, Position, GraphInput, ResumeValue, StepName,
            EffectStep, END, FETCH_EMPLOYEE, PLAN_DEPROVISIONING, AWAIT_HR_APPROVAL,
            REVOKE_ACCESS, SEND_EXIT_PAPERWORK, AWAIT_SIGNED_DOCUMENT, FINALIZE
<1>1. CASE UNCHANGED vars
  BY <1>1 DEF vars, locals
<1>2. ASSUME NEW d \in Drivers, start_run(d) PROVE TypeInv'
  BY <1>2 DEF start_run, Request, Goto, RunStatus, PENDING
<1>3. ASSUME NEW d \in Drivers, approve(d) \/ reject(d) PROVE TypeInv'
  BY <1>3 DEF approve, reject, _resolve_approval, _require_paused_for, Request, Goto, PAUSED
<1>4. ASSUME NEW d \in Drivers, submit_signed_document(d) PROVE TypeInv'
  BY <1>4 DEF submit_signed_document, _require_paused_for, Request, Goto, PAUSED
<1>5. ASSUME NEW d \in Drivers, resume_run(d) \/ cancel_run(d) PROVE TypeInv'
  BY <1>5 DEF resume_run, cancel_run, Goto, RUNNING
<1>6. ASSUME NEW d \in Drivers, SetRunning(d) PROVE TypeInv'
  <2>1. CASE set_status(RUNNING, "none")
    <3>1. RUNNING # PAUSED /\ RUNNING # FAILED
      BY DEF RUNNING, PAUSED, FAILED
    <3>2. status # "none"
      BY <1>6 DEF SetRunning
    <3>3. /\ status' \in RunStatus /\ status' = RUNNING
          /\ pause_reason' \in PauseReason \cup {"none"}
          /\ failure_reason' \in FailureReason \cup {"none"}
          /\ cancel_requested' \in BOOLEAN /\ step_count' \in Nat
      BY <2>1, <3>1, <3>2, SetStatusType
    <3>. QED
      BY <1>6, <2>1, <3>3 DEF SetRunning, Goto, Leave, set_status, RUNNING
  <2>2. CASE ~set_status(RUNNING, "none")
    BY <1>6, <2>2 DEF SetRunning, Goto, Leave
  <2>. QED
    BY <2>1, <2>2
<1>7. ASSUME NEW d \in Drivers, SetCancelled(d) PROVE TypeInv'
  <2>1. CASE set_status(CANCELLED, "none")
    <3>1. CANCELLED # PAUSED /\ CANCELLED # FAILED
      BY DEF CANCELLED, PAUSED, FAILED
    <3>2. status # "none"
      BY <1>7 DEF SetCancelled
    <3>3. /\ status' \in RunStatus /\ status' = CANCELLED
          /\ pause_reason' \in PauseReason \cup {"none"}
          /\ failure_reason' \in FailureReason \cup {"none"}
          /\ cancel_requested' \in BOOLEAN /\ step_count' \in Nat
      BY <2>1, <3>1, <3>2, SetStatusType
    <3>. QED
      BY <1>7, <3>3 DEF SetCancelled, Goto, Leave, CANCELLED
  <2>2. CASE ~set_status(CANCELLED, "none")
    BY <1>7, <2>2 DEF SetCancelled, Goto, Leave
  <2>. QED
    BY <2>1, <2>2
<1>8. ASSUME NEW d \in Drivers, request_cancel(d) PROVE TypeInv'
  BY <1>8 DEF request_cancel, Goto, Leave
<1>9. ASSUME NEW d \in Drivers, Invoke(d) PROVE TypeInv'
  BY <1>9, Settlements DEF Invoke, Enter, Goto, Leave
<1>10. ASSUME NEW d \in Drivers, guard(d) PROVE TypeInv'
  <2>1. pc[d] = "guard" /\ UNCHANGED <<effects, late>>
    BY <1>10 DEF guard
  <2>2. \/ Proceed(d, "bump")
        \/ End(d, CANCELLED, "none")
        \/ End(d, FAILED, BUDGET_EXCEEDED)
    BY <1>10 DEF guard
  <2>3. BUDGET_EXCEEDED \in FailureReason
    BY DEF FailureReason
  <2>. QED
    BY <2>1, <2>2, <2>3, Settlements, EndType, ProceedType
<1>11. ASSUME NEW d \in Drivers, bump_counters(d) PROVE TypeInv'
  BY <1>11 DEF bump_counters, Goto
<1>12. ASSUME NEW d \in Drivers, fetch_employee(d) \/ plan_deprovisioning(d) PROVE TypeInv'
  <2>1. pc[d] = "body" /\ at[d] \in StepName /\ UNCHANGED <<effects, late>>
    BY <1>12 DEF fetch_employee, plan_deprovisioning
  <2>2. \/ Proceed(d, "return")
        \/ \E r \in FailureReason : End(d, FAILED, r)
    BY <1>12 DEF fetch_employee, plan_deprovisioning, FailureReason, BUDGET_EXCEEDED,
                 TOOL_FAILED, INVALID_PLAN
  <2>. QED
    BY <2>1, <2>2, Settlements, EndType, ProceedType
<1>13. ASSUME NEW d \in Drivers, await_hr_approval(d) \/ await_signed_document(d)
       PROVE  TypeInv'
  <2>1. pc[d] = "body" /\ at[d] \in StepName /\ UNCHANGED <<effects, late>>
    BY <1>13 DEF await_hr_approval, await_signed_document
  <2>2. \/ Proceed(d, "return")
        \/ \E r \in PauseReason : End(d, PAUSED, r)
        \/ End(d, FAILED, APPROVAL_REJECTED)
    BY <1>13 DEF await_hr_approval, await_signed_document, PauseReason
  <2>3. APPROVAL_REJECTED \in FailureReason
    BY DEF FailureReason
  <2>. QED
    BY <2>1, <2>2, <2>3, Settlements, EndType, ProceedType
<1>14. ASSUME NEW d \in Drivers, ExecuteEffect(d) PROVE TypeInv'
  <2>1. /\ pc[d] = "body" /\ at[d] \in EffectStep /\ at[d] \in StepName
        /\ UNCHANGED <<effects, late>>
    BY <1>14 DEF ExecuteEffect
  <2>2. \/ Proceed(d, "return")
        \/ \E r \in FailureReason : End(d, FAILED, r)
    BY <1>14 DEF ExecuteEffect, FailureReason, BUDGET_EXCEEDED, TOOL_FAILED,
                 NEEDS_RECONCILIATION
  <2>3. CASE Proceed(d, "return")
    BY <2>1, <2>3, ProceedType
  <2>4. CASE \E r \in FailureReason : End(d, FAILED, r)
    BY <2>1, <2>4, Settlements, EndType
  <2>. QED
    BY <2>2, <2>3, <2>4
<1>14b. ASSUME NEW d \in Drivers, EffectLands(d) PROVE TypeInv'
  BY <1>14b DEF EffectLands, locals
<1>15. ASSUME NEW d \in Drivers, NodeReturns(d) PROVE TypeInv'
  <2>1. at[d] \in StepName /\ status # "none"
    BY <1>15 DEF NodeReturns
  <2>2. at[d] + 1 \in StepName \cup {0, END}
    BY <2>1
  <2>3. result' \in [Drivers -> Settlement \cup {<<"none", "none">>}]
    BY <1>15, Settlements DEF NodeReturns, Enter
  <2>. QED
    BY <1>15, <2>1, <2>2, <2>3 DEF NodeReturns, Enter, Goto
<1>16. ASSUME NEW d \in Drivers, _advance(d) PROVE TypeInv'
  <2>1. status # "none"
    BY <1>16 DEF _advance
  <2>2. CASE set_status(result[d][1], result[d][2])
    <3>1. /\ status' \in RunStatus
          /\ pause_reason' \in PauseReason \cup {"none"}
          /\ failure_reason' \in FailureReason \cup {"none"}
          /\ cancel_requested' \in BOOLEAN /\ step_count' \in Nat
      BY <2>1, <2>2, SetStatusType, SettlementReason
    <3>2. status' # "none"
      BY <3>1 DEF RunStatus, PENDING, RUNNING, PAUSED, COMPLETED, FAILED, CANCELLED
    <3>. QED
      BY <1>16, <3>1, <3>2 DEF _advance, Goto, Leave
  <2>3. CASE UNCHANGED row
    BY <1>16, <2>3 DEF _advance, Goto, Leave
  <2>. QED
    BY <1>16, <2>2, <2>3 DEF _advance
<1>17. ASSUME NEW d \in Drivers, Crash(d) PROVE TypeInv'
  BY <1>17 DEF Crash, Goto, Leave
<1>. QED
  BY <1>1, <1>2, <1>3, <1>4, <1>5, <1>6, <1>7, <1>8, <1>9, <1>10, <1>11, <1>12,
     <1>13, <1>14, <1>14b, <1>15, <1>16, <1>17
  DEF Next, Arrive, Step, Effect, revoke_access, send_exit_paperwork, finalize

\* The initial state has the types.
LEMMA TypeInit == Init => TypeInv
  <1> SUFFICES ASSUME Init PROVE TypeInv
    OBVIOUS
  <1>1. /\ status \in RunStatus \cup {"none"} /\ pause_reason \in PauseReason \cup {"none"}
        /\ failure_reason \in FailureReason \cup {"none"} /\ cancel_requested \in BOOLEAN
    BY Zenon DEF Init
  <1>2. /\ step_count \in Nat /\ checkpoint \in StepName \cup {0, END} /\ crashes \in Nat
        /\ effects \subseteq EffectStep /\ accepted \subseteq ResumeValue
        /\ late \subseteq EffectStep /\ pending \in ResumeValue \cup {"none"}
    BY DEF Init
  <1>3. /\ pc \in [Drivers -> Position] /\ at \in [Drivers -> StepName \cup {0, END}]
        /\ input \in [Drivers -> GraphInput]
    BY DEF Init, Position, GraphInput
  <1>4. result \in [Drivers -> Settlement \cup {<<"none", "none">>}]
    BY DEF Init
  <1>5. \A d \in Drivers : pc[d] = "idle"
    BY DEF Init
  <1>. QED
    BY <1>1, <1>2, <1>3, <1>4, <1>5 DEF TypeInv, TypeOK

\* TypeInv holds in every state.
LEMMA TypeInvariant == Spec => []TypeInv
  BY TypeInit, TypeStep, PTL DEF Spec

\* The row, the checkpoint and the drivers keep their types: no interleaving
\* of requests and crashes writes a status or a reason outside the enums.
THEOREM TypeCorrect == Spec => []TypeOK
<1>1. TypeInv => TypeOK
  BY DEF TypeInv
<1>. QED
  BY <1>1, TypeInvariant, PTL

-----------------------------------------------------------------------------
(* The workflow's position is earned *)

\* A position in the workflow that was reached honestly: the effects of all
\* earlier steps have landed and, past the approval gate, an approve() was
\* accepted.
Reached(p) ==
    /\ \A s \in EffectStep : s < p => s \in effects
    /\ p > AWAIT_HR_APPROVAL => "approve" \in accepted

\* The inductive invariant: the durable checkpoint and every driver's place
\* are positions honestly reached, a step about to return has earned the next
\* one, and "approve" is only ever found where an accepted request put it.
FlowInv ==
    /\ TypeInv
    /\ EffectsInOrder
    /\ RevokedMeansApproved
    /\ CompletedMeansAllEffects
    /\ Reached(checkpoint)
    /\ pending = "approve" => "approve" \in accepted
    /\ \A d \in Drivers :
        /\ Reached(at[d])
        /\ pc[d] = "return" => Reached(at[d] + 1)
        /\ pc[d] # "set_running" /\ input[d] = "approve" => "approve" \in accepted
        /\ result[d][1] = COMPLETED => effects = EffectStep

\* Whoever is honestly at the end of the graph has all effects behind it.
LEMMA ReachedEnd ==
  ASSUME TypeOK, Reached(END)
  PROVE  effects = EffectStep
<1>1. \A s \in EffectStep : s \in effects
  BY DEF Reached, EffectStep, END, REVOKE_ACCESS, SEND_EXIT_PAPERWORK, FINALIZE
<1>2. effects \subseteq EffectStep
  BY DEF TypeOK
<1>. QED
  BY <1>1, <1>2

\* Every step of every driver, and every crash, preserves FlowInv.
LEMMA FlowStep == FlowInv /\ [Next]_vars => FlowInv'
<1> SUFFICES ASSUME FlowInv, [Next]_vars PROVE FlowInv'
  OBVIOUS
<1>0. TypeInv'
  BY TypeStep DEF FlowInv
<1>a. \A d \in Drivers : pc[d] = "return" /\ at[d] + 1 = END => effects = EffectStep
  BY ReachedEnd DEF FlowInv, TypeInv
<1>b. checkpoint = END => effects = EffectStep
  BY ReachedEnd DEF FlowInv, TypeInv
<1> USE <1>0
<1> USE DEF FlowInv, Reached, EffectsInOrder, RevokedMeansApproved,
            CompletedMeansAllEffects, TypeInv, TypeOK, row, thread, ResumeValue,
            StepName, EffectStep, END, FETCH_EMPLOYEE, PLAN_DEPROVISIONING,
            AWAIT_HR_APPROVAL, REVOKE_ACCESS, SEND_EXIT_PAPERWORK,
            AWAIT_SIGNED_DOCUMENT, FINALIZE
<1>1. CASE UNCHANGED vars
  BY <1>1 DEF vars, locals
<1>2. ASSUME NEW d \in Drivers, start_run(d) PROVE FlowInv'
  BY <1>2 DEF start_run, Request, Goto, PENDING, COMPLETED
<1>3. ASSUME NEW d \in Drivers, approve(d) \/ reject(d) PROVE FlowInv'
  BY <1>3 DEF approve, reject, _resolve_approval, Request, Goto
<1>4. ASSUME NEW d \in Drivers, submit_signed_document(d) PROVE FlowInv'
  BY <1>4 DEF submit_signed_document, Request, Goto
<1>5. ASSUME NEW d \in Drivers, resume_run(d) \/ cancel_run(d) PROVE FlowInv'
  BY <1>5 DEF resume_run, cancel_run, Goto
<1>6. ASSUME NEW d \in Drivers, SetRunning(d) PROVE FlowInv'
  <2>1. CASE ~transition_run(RUNNING)
    BY <1>6, <2>1 DEF SetRunning, Goto, Leave, set_status, COMPLETED
  <2>2. CASE transition_run(RUNNING)
    <3>1. /\ status' = RUNNING /\ pc' = [pc EXCEPT ![d] = "invoke"]
          /\ accepted' = accepted \cup ({input[d]} \cap ResumeValue)
          /\ UNCHANGED <<at, input, result, checkpoint, pending, effects>>
      BY <1>6, <2>2 DEF SetRunning, Goto, set_status
    <3>2. accepted \subseteq accepted' /\ (input[d] = "approve" => "approve" \in accepted')
      BY <3>1
    <3>. QED
      BY <3>1, <3>2 DEF RUNNING, COMPLETED
  <2>. QED
    BY <2>1, <2>2
<1>7. ASSUME NEW d \in Drivers, SetCancelled(d) PROVE FlowInv'
  BY <1>7 DEF SetCancelled, Goto, Leave, set_status, CANCELLED, COMPLETED
<1>8. ASSUME NEW d \in Drivers, request_cancel(d) PROVE FlowInv'
  BY <1>8 DEF request_cancel, Goto, Leave, COMPLETED
<1>9. ASSUME NEW d \in Drivers, Invoke(d) PROVE FlowInv'
  <2>0. UNCHANGED <<row, effects, accepted>> /\ pc[d] = "invoke"
    BY <1>9 DEF Invoke
  <2>1. CASE input[d] = "fresh"
    BY <1>9, <2>0, <2>1 DEF Invoke, Enter, Goto, COMPLETED
  <2>2. CASE input[d] \in ResumeValue
    <3>1. CASE checkpoint = END
      BY <1>9, <2>0, <2>2, <3>1, <1>b DEF Invoke, Enter, Goto
    <3>2. CASE checkpoint # END
      BY <1>9, <2>0, <2>2, <3>2 DEF Invoke, Enter, Goto
    <3>. QED
      BY <3>1, <3>2
  <2>3. CASE input[d] = "none" /\ checkpoint # 0
    <3>1. CASE checkpoint = END
      BY <1>9, <2>0, <2>3, <3>1, <1>b DEF Invoke, Enter, Goto
    <3>2. CASE checkpoint # END
      BY <1>9, <2>0, <2>3, <3>2 DEF Invoke, Enter, Goto
    <3>. QED
      BY <3>1, <3>2
  <2>4. CASE input[d] = "none" /\ checkpoint = 0
    BY <1>9, <2>0, <2>4 DEF Invoke, Leave, Goto, COMPLETED
  <2>. QED
    BY <1>9, <2>1, <2>2, <2>3, <2>4 DEF Invoke
<1>10. ASSUME NEW d \in Drivers, guard(d) PROVE FlowInv'
  BY <1>10 DEF guard, End, Proceed, Goto, COMPLETED, CANCELLED, FAILED
<1>11. ASSUME NEW d \in Drivers, bump_counters(d) PROVE FlowInv'
  BY <1>11 DEF bump_counters, Goto
<1>12. ASSUME NEW d \in Drivers, fetch_employee(d) \/ plan_deprovisioning(d) PROVE FlowInv'
  BY <1>12 DEF fetch_employee, plan_deprovisioning, End, Proceed, Goto, COMPLETED, FAILED
<1>13. ASSUME NEW d \in Drivers, await_hr_approval(d) PROVE FlowInv'
  BY <1>13 DEF await_hr_approval, End, Proceed, Goto, COMPLETED, FAILED, PAUSED
<1>14. ASSUME NEW d \in Drivers, await_signed_document(d) PROVE FlowInv'
  BY <1>14 DEF await_signed_document, End, Proceed, Goto, COMPLETED, PAUSED
<1>15. ASSUME NEW d \in Drivers, ExecuteEffect(d) PROVE FlowInv'
  BY <1>15 DEF ExecuteEffect, End, Proceed, Goto, COMPLETED, FAILED
<1>15b. ASSUME NEW d \in Drivers, EffectLands(d) PROVE FlowInv'
  BY <1>15b DEF EffectLands, locals, COMPLETED
<1>16. ASSUME NEW d \in Drivers, NodeReturns(d) PROVE FlowInv'
  <2>1. /\ UNCHANGED <<row, effects, accepted>>
        /\ pc[d] = "return" /\ at[d] \in StepName /\ Reached(at[d] + 1)
        /\ checkpoint' = at[d] + 1 /\ pending' = "none"
        /\ at' = [at EXCEPT ![d] = at[d] + 1]
        /\ input' = [input EXCEPT ![d] = "none"]
    BY <1>16 DEF NodeReturns, Enter
  <2>2. CASE at[d] + 1 = END
    <3>1. effects = EffectStep
      BY <2>1, <2>2, <1>a
    <3>. QED
      BY <1>16, <2>1, <2>2, <3>1 DEF NodeReturns, Enter, Goto
  <2>3. CASE at[d] + 1 # END
    BY <1>16, <2>1, <2>3 DEF NodeReturns, Enter, Goto
  <2>. QED
    BY <2>2, <2>3
<1>17. ASSUME NEW d \in Drivers, _advance(d) PROVE FlowInv'
  BY <1>17 DEF _advance, Goto, Leave, set_status, COMPLETED
<1>18. ASSUME NEW d \in Drivers, Crash(d) PROVE FlowInv'
  BY <1>18 DEF Crash, Goto, Leave, COMPLETED
<1>. QED
  BY <1>1, <1>2, <1>3, <1>4, <1>5, <1>6, <1>7, <1>8, <1>9, <1>10, <1>11, <1>12, <1>13,
     <1>14, <1>15, <1>16, <1>17, <1>18, <1>15b
  DEF Next, Arrive, Step, Effect, revoke_access, send_exit_paperwork, finalize

\* FlowInv holds in every state of every behaviour.
LEMMA FlowInvariant == Spec => []FlowInv
<1>1. Init => FlowInv
  <2> SUFFICES ASSUME Init PROVE FlowInv
    OBVIOUS
  <2>1. TypeInv
    BY TypeInit
  <2>2. \A d \in Drivers : at[d] = 0 /\ pc[d] = "idle" /\ input[d] = "none"
                          /\ result[d] = <<"none", "none">>
    BY DEF Init
  <2>3. Reached(0)
    BY DEF Reached, EffectStep, REVOKE_ACCESS, SEND_EXIT_PAPERWORK, FINALIZE,
           AWAIT_HR_APPROVAL
  <2>4. EffectsInOrder /\ RevokedMeansApproved /\ CompletedMeansAllEffects
    BY DEF Init, EffectsInOrder, RevokedMeansApproved, CompletedMeansAllEffects, COMPLETED
  <2>. QED
    BY <2>1, <2>2, <2>3, <2>4 DEF Init, FlowInv, COMPLETED
<1>. QED
  BY <1>1, FlowStep, PTL DEF Spec

\* However many requests, duplicates and crashes there are, access is revoked
\* only in a run for which an approve() was accepted.
THEOREM ApprovalGateHolds == Spec => []RevokedMeansApproved
<1>1. FlowInv => RevokedMeansApproved
  BY DEF FlowInv
<1>. QED
  BY <1>1, FlowInvariant, PTL

\* The three effects land in workflow order, whoever drives the run.
THEOREM EffectsLandInOrder == Spec => []EffectsInOrder
<1>1. FlowInv => EffectsInOrder
  BY DEF FlowInv
<1>. QED
  BY <1>1, FlowInvariant, PTL

\* A COMPLETED run has revoked access, sent the paperwork and archived the
\* record: no crash, replay or race reports completion without the work.
THEOREM CompletionIsReal == Spec => []CompletedMeansAllEffects
<1>1. FlowInv => CompletedMeansAllEffects
  BY DEF FlowInv
<1>. QED
  BY <1>1, FlowInvariant, PTL

-----------------------------------------------------------------------------
(* Terminal statuses *)

\* No request, late or duplicate, moves a run out of a terminal status.
THEOREM TerminalStatusStays == Spec => TerminalIsFinal
<1>1. TypeInv /\ [Next]_vars => [is_terminal(status) => status' = status]_vars
  <2> SUFFICES ASSUME TypeInv, Next, is_terminal(status) PROVE status' = status
    BY DEF vars
  <2>1. PICK d \in Drivers : Arrive(d) \/ Step(d) \/ Crash(d)
    BY DEF Next
  <2>2. status \in TERMINAL_RUN_STATUSES /\ status # "none"
    BY DEF is_terminal, TERMINAL_RUN_STATUSES, COMPLETED, FAILED, CANCELLED
  <2>3. ~ \E target, reason : set_status(target, reason)
    <3>1. ALLOWED_RUN_TRANSITIONS[status] = {}
      BY <2>2 DEF ALLOWED_RUN_TRANSITIONS, RunStatus, TERMINAL_RUN_STATUSES,
                  PENDING, RUNNING, PAUSED, COMPLETED, FAILED, CANCELLED
    <3>. QED
      BY <3>1 DEF set_status, transition_run
  <2>4. CASE Arrive(d)
    BY <2>2, <2>4 DEF Arrive, start_run, approve, reject, _resolve_approval,
                      submit_signed_document, resume_run, cancel_run, row
  <2>5. CASE SetRunning(d) \/ SetCancelled(d) \/ _advance(d)
    BY <2>3, <2>5 DEF SetRunning, SetCancelled, _advance, row
  <2>6. CASE request_cancel(d) \/ Invoke(d) \/ guard(d) \/ bump_counters(d) \/ NodeReturns(d)
    BY <2>6 DEF request_cancel, Invoke, guard, bump_counters, NodeReturns, End, Proceed, row
  <2>7. CASE fetch_employee(d) \/ plan_deprovisioning(d) \/ await_hr_approval(d)
               \/ EffectLands(d) \/ ExecuteEffect(d) \/ await_signed_document(d)
    BY <2>7 DEF fetch_employee, plan_deprovisioning, await_hr_approval, EffectLands,
                ExecuteEffect, await_signed_document, End, Proceed, row
  <2>8. CASE Crash(d)
    BY <2>8 DEF Crash, row
  <2>. QED
    BY <2>1, <2>4, <2>5, <2>6, <2>7, <2>8
    DEF Step, Effect, revoke_access, send_exit_paperwork, finalize
<1>. QED
  BY <1>1, TypeInvariant, PTL DEF Spec, TerminalIsFinal

-----------------------------------------------------------------------------
(* Counting *)

\* There are drivers, a whole number of them.
LEMMA DriverCount == Cardinality(Drivers) \in Nat \ {0}
  BY DriversAssumption, FS_CardinalityType, FS_EmptySet

\* Drivers that have passed the guard and not yet counted the step.
Bumping == {d \in Drivers : pc[d] = "bump"}

\* The inductive invariant behind the step allowance: whoever passed the guard
\* found a step still free, and the others that did are fewer than all.
StepCountInv ==
    /\ TypeInv
    /\ step_count + Cardinality(Bumping) < max_steps + Cardinality(Drivers)

\* Every step keeps StepCountInv.
LEMMA StepCountStep == StepCountInv /\ [Next]_vars => StepCountInv'
<1> SUFFICES ASSUME StepCountInv, [Next]_vars PROVE StepCountInv'
  OBVIOUS
<1>0. TypeInv' /\ TypeInv /\ step_count \in Nat /\ step_count' \in Nat
  BY TypeStep DEF StepCountInv, TypeInv, TypeOK
<1>1. /\ Bumping \in SUBSET Drivers /\ IsFiniteSet(Bumping) /\ Cardinality(Bumping) \in Nat
  BY DriversAssumption, CountSubset DEF Bumping
<1>2. ASSUME step_count' = step_count, Bumping' \in SUBSET Bumping PROVE StepCountInv'
  <2>1. Cardinality(Bumping') \in Nat /\ Cardinality(Bumping') <= Cardinality(Bumping)
    BY <1>1, <1>2, CountSubset
  <2>. QED
    BY <1>0, <1>1, <1>2, <2>1, DriverCount, MaxStepsAssumption DEF StepCountInv
<1>3. CASE UNCHANGED vars
  BY <1>2, <1>3 DEF vars, row, locals, Bumping
<1>4. ASSUME NEW d \in Drivers, guard(d) PROVE StepCountInv'
  <2>1. step_count' = step_count /\ pc[d] = "guard"
    BY <1>4 DEF guard, End, Proceed, row
  <2>2. CASE pc'[d] # "bump"
    BY <1>2, <1>4, <2>1, <2>2, <1>0 DEF guard, End, Proceed, Goto, Bumping, TypeInv, TypeOK
  <2>3. CASE pc'[d] = "bump"
    <3>1. step_count < max_steps /\ pc' = [pc EXCEPT ![d] = "bump"]
      BY <1>4, <2>3, <1>0 DEF guard, End, Proceed, Goto, TypeInv, TypeOK
    <3>2. Bumping' = Bumping \cup {d} /\ d \notin Bumping
      BY <2>1, <3>1, <1>0 DEF Bumping, TypeInv, TypeOK
    <3>3. Cardinality(Bumping') = Cardinality(Bumping) + 1
      BY <1>1, <3>2, FS_AddElement
    <3>4. Cardinality(Bumping) < Cardinality(Drivers)
      BY <1>1, <3>2, CountProperSubset, DriversAssumption
    <3>. QED
      BY <1>0, <1>1, <2>1, <3>1, <3>3, <3>4, DriverCount, MaxStepsAssumption DEF StepCountInv
  <2>. QED
    BY <2>2, <2>3
<1>5. ASSUME NEW d \in Drivers, bump_counters(d) PROVE StepCountInv'
  <2>1. Bumping' = Bumping \ {d} /\ d \in Bumping /\ step_count' = step_count + 1
    BY <1>5, <1>0 DEF bump_counters, Goto, Bumping, TypeInv, TypeOK
  <2>2. Cardinality(Bumping') = Cardinality(Bumping) - 1
    BY <1>1, <2>1, FS_RemoveElement
  <2>. QED
    BY <1>0, <1>1, <2>1, <2>2, DriverCount, MaxStepsAssumption DEF StepCountInv
<1>6. ASSUME NEW d \in Drivers, Arrive(d) \/ Crash(d) PROVE StepCountInv'
  BY <1>2, <1>6, <1>0
  DEF Arrive, start_run, approve, reject, _resolve_approval, submit_signed_document,
      resume_run, cancel_run, Request, Crash, Leave, Goto, row, Bumping, TypeInv, TypeOK
<1>7. ASSUME NEW d \in Drivers,
             SetRunning(d) \/ SetCancelled(d) \/ request_cancel(d) \/ _advance(d)
      PROVE  StepCountInv'
  BY <1>2, <1>7, <1>0
  DEF SetRunning, SetCancelled, request_cancel, _advance, set_status, Leave, Goto, row,
      Bumping, TypeInv, TypeOK
<1>8. ASSUME NEW d \in Drivers, Invoke(d) \/ NodeReturns(d) PROVE StepCountInv'
  BY <1>2, <1>8, <1>0
  DEF Invoke, NodeReturns, Enter, Leave, Goto, row, Bumping, TypeInv, TypeOK
<1>9. ASSUME NEW d \in Drivers,
             fetch_employee(d) \/ plan_deprovisioning(d) \/ await_hr_approval(d)
               \/ await_signed_document(d) \/ ExecuteEffect(d) \/ EffectLands(d)
      PROVE  StepCountInv'
  BY <1>2, <1>9, <1>0
  DEF fetch_employee, plan_deprovisioning, await_hr_approval, await_signed_document,
      ExecuteEffect, EffectLands, End, Proceed, Goto, row, locals, Bumping, TypeInv, TypeOK
<1>. QED
  BY <1>3, <1>4, <1>5, <1>6, <1>7, <1>8, <1>9
  DEF Next, Step, Effect, revoke_access, send_exit_paperwork, finalize

\* Drivers that read the step count together overrun the allowance by at most
\* one step for each driver but one.
THEOREM StepBudgetHolds == Spec => []StepBudget
<1>1. Init => StepCountInv
  <2> SUFFICES ASSUME Init PROVE StepCountInv
    OBVIOUS
  <2>1. Bumping = {} /\ step_count = 0
    BY DEF Init, Bumping
  <2>. QED
    BY <2>1, TypeInit, FS_EmptySet, DriverCount, MaxStepsAssumption DEF StepCountInv
<1>2. StepCountInv => StepBudget
  <2>1. Bumping \in SUBSET Drivers
    BY DEF Bumping
  <2>2. Cardinality(Bumping) \in Nat
    BY <2>1, DriversAssumption, CountSubset
  <2>. QED
    BY <2>2, DriverCount, MaxStepsAssumption DEF StepCountInv, StepBudget, TypeInv, TypeOK
<1>. QED
  BY <1>1, <1>2, StepCountStep, PTL DEF Spec

\* Drivers in a step, past its guard, whose effect may still land.
Landing == {d \in Drivers : pc[d] \in {"bump", "body"} /\ at[d] \in EffectStep \ effects}

\* The inductive invariant behind the cancellation: once it is requested, no
\* driver passes a guard any more, so every late effect uses up a driver that
\* was in its step then; and the one that made the request was not.
CancelInv ==
    /\ TypeInv
    /\ ~cancel_requested => late = {}
    /\ cancel_requested => Cardinality(late) + Cardinality(Landing) < Cardinality(Drivers)

\* The sets that are counted are finite.
LEMMA LateCounts ==
  ASSUME TypeInv
  PROVE  /\ IsFiniteSet(late) /\ Cardinality(late) \in Nat
         /\ Landing \in SUBSET Drivers
         /\ IsFiniteSet(Landing) /\ Cardinality(Landing) \in Nat
<1>1. late \in SUBSET (1 .. 7)
  BY DEF TypeInv, TypeOK, EffectStep, REVOKE_ACCESS, SEND_EXIT_PAPERWORK, FINALIZE
<1>2. IsFiniteSet(1 .. 7)
  <2>1. 1 \in Int /\ 7 \in Int
    OBVIOUS
  <2>. QED
    BY <2>1, FS_Interval
<1>3. Landing \in SUBSET Drivers
  BY DEF Landing
<1>4. IsFiniteSet(late) /\ Cardinality(late) \in Nat
  BY <1>1, <1>2, CountSubset
<1>5. IsFiniteSet(Landing) /\ Cardinality(Landing) \in Nat
  BY <1>3, CountSubset, DriversAssumption
<1>. QED
  BY <1>3, <1>4, <1>5

\* Every step keeps CancelInv.
LEMMA CancelStep == CancelInv /\ [Next]_vars => CancelInv'
<1> SUFFICES ASSUME CancelInv, [Next]_vars PROVE CancelInv'
  OBVIOUS
<1>0. TypeInv' /\ TypeInv
  BY TypeStep DEF CancelInv
<1>1. /\ IsFiniteSet(late) /\ Cardinality(late) \in Nat
      /\ Landing \in SUBSET Drivers
      /\ IsFiniteSet(Landing) /\ Cardinality(Landing) \in Nat
      /\ Cardinality(Drivers) \in Nat
  BY <1>0, LateCounts, DriverCount
<1>2. ASSUME UNCHANGED <<late, cancel_requested>>, cancel_requested => Landing' \in SUBSET Landing
      PROVE  CancelInv'
  <2>1. CASE ~cancel_requested
    BY <1>0, <1>2, <2>1 DEF CancelInv
  <2>2. CASE cancel_requested
    <3>1. Cardinality(Landing') \in Nat /\ Cardinality(Landing') <= Cardinality(Landing)
      BY <1>1, <1>2, <2>2, CountSubset
    <3>. QED
      BY <1>0, <1>1, <1>2, <2>2, <3>1 DEF CancelInv
  <2>. QED
    BY <2>1, <2>2
<1>3. CASE UNCHANGED vars
  BY <1>2, <1>3 DEF vars, row, locals, Landing
<1>4. ASSUME NEW d \in Drivers, request_cancel(d) PROVE CancelInv'
  <2>1. Landing' = Landing /\ d \notin Landing /\ UNCHANGED late /\ cancel_requested'
    BY <1>4, <1>0 DEF request_cancel, Leave, Goto, Landing, TypeInv, TypeOK
  <2>2. Cardinality(Landing) < Cardinality(Drivers)
    BY <1>1, <2>1, CountProperSubset, DriversAssumption
  <2>. QED
    BY <1>0, <1>1, <2>1, <2>2, FS_EmptySet DEF CancelInv
<1>5. ASSUME NEW d \in Drivers, EffectLands(d) PROVE CancelInv'
  <2>1. CASE ~cancel_requested
    BY <1>2, <1>5, <2>1 DEF EffectLands, row
  <2>2. CASE cancel_requested
    <3>a. /\ late' = late \cup {at[d]} /\ effects' = effects \cup {at[d]}
          /\ pc[d] = "body" /\ at[d] \in EffectStep \ effects
          /\ UNCHANGED <<cancel_requested, pc, at>>
      BY <1>5, <2>2 DEF EffectLands, row, locals
    <3>1. /\ late' = late \cup {at[d]} /\ cancel_requested' = cancel_requested
          /\ Landing' \in SUBSET (Landing \ {d}) /\ d \in Landing
      BY <3>a DEF Landing
    <3>2. Cardinality(late') <= Cardinality(late) + 1 /\ Cardinality(late') \in Nat
      <4>1. Cardinality(late \cup {at[d]}) =
              IF at[d] \in late THEN Cardinality(late) ELSE Cardinality(late) + 1
        BY <1>1, FS_AddElement
      <4>. QED
        BY <3>1, <1>1, <4>1
    <3>3. IsFiniteSet(Landing \ {d}) /\ Cardinality(Landing \ {d}) = Cardinality(Landing) - 1
      BY <3>1, <1>1, FS_RemoveElement
    <3>4. Cardinality(Landing') <= Cardinality(Landing) - 1 /\ Cardinality(Landing') \in Nat
      BY <3>1, <3>3, CountSubset
    <3>. QED
      BY <1>0, <1>1, <2>2, <3>1, <3>2, <3>4 DEF CancelInv
  <2>. QED
    BY <2>1, <2>2
<1>6. ASSUME NEW d \in Drivers, Arrive(d) \/ Crash(d) PROVE CancelInv'
  BY <1>2, <1>6, <1>0
  DEF Arrive, start_run, approve, reject, _resolve_approval, submit_signed_document,
      resume_run, cancel_run, Request, Crash, Leave, Goto, row, Landing, TypeInv, TypeOK
<1>7. ASSUME NEW d \in Drivers, SetRunning(d) \/ SetCancelled(d) \/ _advance(d)
      PROVE  CancelInv'
  BY <1>2, <1>7, <1>0
  DEF SetRunning, SetCancelled, _advance, set_status, Leave, Goto, row,
      Landing, TypeInv, TypeOK
<1>8. ASSUME NEW d \in Drivers, Invoke(d) \/ NodeReturns(d) PROVE CancelInv'
  BY <1>2, <1>8, <1>0
  DEF Invoke, NodeReturns, Enter, Leave, Goto, row, Landing, TypeInv, TypeOK
<1>9. ASSUME NEW d \in Drivers, guard(d) \/ bump_counters(d) PROVE CancelInv'
  BY <1>2, <1>9, <1>0
  DEF guard, bump_counters, End, Proceed, Goto, row, Landing, TypeInv, TypeOK
<1>10. ASSUME NEW d \in Drivers,
              fetch_employee(d) \/ plan_deprovisioning(d) \/ await_hr_approval(d)
                \/ await_signed_document(d) \/ ExecuteEffect(d)
       PROVE  CancelInv'
  BY <1>2, <1>10, <1>0
  DEF fetch_employee, plan_deprovisioning, await_hr_approval, await_signed_document,
      ExecuteEffect, End, Proceed, Goto, row, Landing, TypeInv, TypeOK
<1>. QED
  BY <1>3, <1>4, <1>5, <1>6, <1>7, <1>8, <1>9, <1>10
  DEF Next, Step, Effect, revoke_access, send_exit_paperwork, finalize

\* After a cancellation is requested each other driver finishes at most the
\* step it is in: no more than one late effect for each of them.
THEOREM CancelStopsSteps == Spec => []CancelStopsNextStep
<1>1. Init => CancelInv
  <2> SUFFICES ASSUME Init PROVE CancelInv
    OBVIOUS
  <2>1. late = {} /\ cancel_requested = FALSE
    BY Zenon DEF Init
  <2>. QED
    BY <2>1, TypeInit DEF CancelInv
<1>2. CancelInv => CancelStopsNextStep
  <2> SUFFICES ASSUME CancelInv PROVE Cardinality(late) < Cardinality(Drivers)
    BY DEF CancelStopsNextStep
  <2>1. /\ Cardinality(late) \in Nat /\ Cardinality(Landing) \in Nat
        /\ Cardinality(Drivers) \in Nat \ {0}
    BY LateCounts, DriverCount DEF CancelInv
  <2>2. CASE late = {}
    BY <2>1, <2>2, FS_EmptySet
  <2>3. CASE late # {}
    BY <2>1, <2>3 DEF CancelInv
  <2>. QED
    BY <2>2, <2>3
<1>. QED
  BY <1>1, <1>2, CancelStep, PTL DEF Spec
=============================================================================
