-------------------------- MODULE TracedRunProofs --------------------------
(***************************************************************************)
(* Theorems about TracedRun, for every number of concurrent requests and   *)
(* crashes, every set of systems and every plan the model may answer with. *)
(***************************************************************************)
EXTENDS TracedRun, RunServiceProofs

-----------------------------------------------------------------------------
(* Every step is a step of RunService *)

\* What the trace and the plan add changes nothing of the run itself.
LEMMA StepRefines == TracedNext => [Next]_vars
<1> SUFFICES ASSUME NEW d \in Drivers,
                    \/ Arrive(d) /\ UNCHANGED added
                    \/ Progress(d)
                    \/ Die(d)
                    \/ SpanRaises(d)
             PROVE  [Next]_vars
  BY DEF TracedNext
<1>1. CASE Arrive(d)
  BY <1>1 DEF Next
<1>2. CASE Die(d) \/ SpanRaises(d)
  BY <1>2 DEF Next, Die, SpanRaises
<1>3. CASE CheckPaused(d) \/ OpenPause(d) \/ pause_attempt(d) \/ Resumed(d) \/ OpenPlanSpan(d)
  BY <1>3 DEF CheckPaused, OpenPause, pause_attempt, Resumed, OpenPlanSpan, Inside
<1>4. CASE Interrupt(d) \/ Decide(d) \/ generate_plan(d) \/ PlanFails(d)
  BY <1>4 DEF Interrupt, Decide, generate_plan, PlanFails, Step, Next
<1>5. CASE Load(d) \/ Save(d) \/ RevokePlanned(d) \/ Elsewhere(d)
  BY <1>5 DEF Load, Save, RevokePlanned, Elsewhere, Step, Next
<1>. QED
  BY <1>1, <1>2, <1>3, <1>4, <1>5 DEF Progress

\* The run inside a traced run is a run of RunService: its safety theorems
\* hold of the finer one.
THEOREM ImplementsRunService == TracedSpec => Init /\ [][Next]_vars
<1>1. TracedInit => Init
  BY DEF TracedInit
<1>2. [TracedNext]_tracedVars => [Next]_vars
  BY StepRefines DEF tracedVars
<1>. QED
  BY <1>1, <1>2, PTL DEF TracedSpec

\* A step keeps the types of the run.
LEMMA TracedTypeStep == TypeInv /\ [TracedNext]_tracedVars => TypeInv'
  BY StepRefines, TypeStep DEF tracedVars

-----------------------------------------------------------------------------
(* The plan *)

\* The driver is at a node of the graph.
Working(d) == pc[d] \in {"guard", "bump", "body", "return"}

\* The list names the employee's systems.
Complete(p) == Range(p) = Access

\* Past the planning step, the durable checklist and every driver's copy of it
\* name the employee's systems.
PlanInv ==
    /\ RevokedIsAccess
    /\ checkpoint > PLAN_DEPROVISIONING => Complete(checklist)
    /\ \A d \in Drivers : Working(d) =>
        /\ at[d] > PLAN_DEPROVISIONING => Complete(plan[d])
        /\ pc[d] = "return" /\ at[d] = PLAN_DEPROVISIONING => Complete(plan[d])
    /\ DOMAIN plan = Drivers

\* A list that passes the validation names the employee's systems.
LEMMA ValidatedIsComplete ==
  ASSUME NEW p, validate_plan(p)
  PROVE  Complete(p)
  BY Zenon DEF validate_plan, Complete

\* Every step keeps PlanInv.
LEMMA PlanStep == TypeInv /\ PlanInv /\ [TracedNext]_tracedVars => PlanInv'
<1> SUFFICES ASSUME TypeInv, PlanInv, [TracedNext]_tracedVars PROVE PlanInv'
  OBVIOUS
<1> USE DEF PlanInv, RevokedIsAccess, Working, Complete, TypeInv, TypeOK, StepName, END,
            FETCH_EMPLOYEE, PLAN_DEPROVISIONING, AWAIT_HR_APPROVAL, REVOKE_ACCESS,
            SEND_EXIT_PAPERWORK, AWAIT_SIGNED_DOCUMENT, FINALIZE
<1>1. CASE UNCHANGED tracedVars
  BY <1>1 DEF tracedVars, vars, added, thread, locals
<1>2. ASSUME NEW d \in Drivers, Arrive(d) /\ UNCHANGED added PROVE PlanInv'
  BY <1>2 DEF added, Arrive, start_run, approve, reject, _resolve_approval, thread,
              submit_signed_document, resume_run, cancel_run, Request, Goto
<1>3. ASSUME NEW d \in Drivers, Die(d) \/ SpanRaises(d) PROVE PlanInv'
  BY <1>3 DEF Die, SpanRaises, CloseSpan, Crash, Leave, Goto, thread
<1>4. ASSUME NEW d \in Drivers,
             CheckPaused(d) \/ OpenPause(d) \/ pause_attempt(d) \/ Resumed(d) \/ OpenPlanSpan(d)
      PROVE  PlanInv'
  BY <1>4 DEF CheckPaused, OpenPause, pause_attempt, Resumed, OpenPlanSpan, Inside, vars,
              thread, locals
<1>5. ASSUME NEW d \in Drivers, Interrupt(d) \/ Decide(d) PROVE PlanInv'
  BY <1>5 DEF Interrupt, Decide, CloseSpan, await_hr_approval, await_signed_document,
              End, Proceed, Goto, thread
<1>6. ASSUME NEW d \in Drivers, generate_plan(d) PROVE PlanInv'
  <2>1. PICK a \in Answer : validate_plan(a.items) /\ plan' = [plan EXCEPT ![d] = a.items]
    BY <1>6 DEF generate_plan, parse_plan, Answers
  <2>2. Complete(a.items)
    BY <2>1, ValidatedIsComplete
  <2>. QED
    BY <1>6, <2>1, <2>2 DEF generate_plan, plan_deprovisioning, CloseSpan, End, Proceed,
                            Goto, thread
<1>7. ASSUME NEW d \in Drivers, PlanFails(d) PROVE PlanInv'
  BY <1>7 DEF PlanFails, plan_deprovisioning, CloseSpan, End, Proceed, Goto, thread
<1>8. ASSUME NEW d \in Drivers, Load(d) PROVE PlanInv'
  <2>1. /\ plan' = [plan EXCEPT ![d] = checklist'] /\ UNCHANGED <<effects, revoked>>
        /\ checklist' = IF input[d] = "fresh" THEN <<>> ELSE checklist
        /\ pc[d] = "invoke"
    BY <1>8 DEF Load, Invoke
  <2>2. CASE input[d] = "fresh"
    BY <1>8, <2>1, <2>2 DEF Load, Invoke, Enter, Leave, Goto, thread, ResumeValue
  <2>3. CASE input[d] # "fresh" /\ checkpoint' = checkpoint
             /\ at' = [at EXCEPT ![d] = checkpoint]
    <3>1. checklist' = checklist /\ \A e \in Drivers \ {d} : pc'[e] = pc[e]
      BY <1>8, <2>1, <2>3 DEF Load, Invoke, Enter, Leave, Goto
    <3>2. pc'[d] # "return"
      BY <1>8 DEF Load, Invoke, Enter, Leave, Goto
    <3>. QED
      BY <2>1, <2>3, <3>1, <3>2
  <2>4. CASE input[d] # "fresh" /\ checkpoint' = checkpoint
             /\ at' = [at EXCEPT ![d] = 0] /\ pc' = [pc EXCEPT ![d] = "idle"]
    BY <2>1, <2>4
  <2>. QED
    BY <1>8, <2>2, <2>3, <2>4 DEF Load, Invoke, Enter, Leave, Goto, thread
<1>9. ASSUME NEW d \in Drivers, Save(d) PROVE PlanInv'
  BY <1>9 DEF Save, NodeReturns, Enter, Goto
<1>10. ASSUME NEW d \in Drivers, RevokePlanned(d) PROVE PlanInv'
  BY <1>10 DEF RevokePlanned, revoke_access, Effect, EffectLands, ExecuteEffect, End,
               Proceed, Goto, thread, locals
<1>11. ASSUME NEW d \in Drivers, Elsewhere(d) PROVE PlanInv'
  <2>1. CASE SetRunning(d) \/ SetCancelled(d) \/ request_cancel(d) \/ _advance(d)
    BY <1>11, <2>1 DEF Elsewhere, added, SetRunning, SetCancelled, request_cancel, _advance,
                       Leave, Goto, thread
  <2>2. CASE guard(d) \/ bump_counters(d) \/ fetch_employee(d)
    BY <1>11, <2>2 DEF Elsewhere, added, guard, bump_counters, fetch_employee, End,
                       Proceed, Goto, thread
  <2>3. CASE send_exit_paperwork(d) \/ finalize(d)
    BY <1>11, <2>3 DEF Elsewhere, added, send_exit_paperwork, finalize, Effect, EffectLands,
                       ExecuteEffect, End, Proceed, Goto, thread, locals
  <2>. QED
    BY <1>11, <2>1, <2>2, <2>3 DEF Elsewhere
<1>. QED
  BY <1>1, <1>2, <1>3, <1>4, <1>5, <1>6, <1>7, <1>8, <1>9, <1>10, <1>11
     DEF TracedNext, Progress

-----------------------------------------------------------------------------
(* The trace *)

\* The step has an attempt that was completed.
Done(s) == COMPLETED \in Range(trace[s])

\* Whatever has been passed, by the checkpoint or by a driver, was completed;
\* and a driver that will close a row has one, which no other step of its own
\* can have left behind.
TraceInv ==
    /\ trace \in [TracedStep -> Seq(StepStatus)]
    /\ DOMAIN mine = Drivers /\ DOMAIN spot = Drivers
    /\ \A s \in TracedStep : checkpoint > s => Done(s)
    /\ \A d \in Drivers : Working(d) =>
        /\ \A s \in TracedStep : at[d] > s => Done(s)
        /\ pc[d] = "return" /\ at[d] \in TracedStep => Done(at[d])
    /\ \A d \in Drivers :
        /\ spot[d] # "enter" => pc[d] = "body" /\ at[d] \in TracedStep
        /\ spot[d] \in {"pause", "span"} => mine[d] \in 1 .. Len(trace[at[d]])

\* Opening a row keeps what is there.
LEMMA OpenKeeps ==
  ASSUME TraceInv, NEW d \in Drivers, at[d] \in TracedStep, start_attempt(d)
  PROVE  /\ trace' \in [TracedStep -> Seq(StepStatus)]
         /\ \A s \in TracedStep : Done(s) => Done(s)'
         /\ \A s \in TracedStep : Len(trace[s]) <= Len(trace'[s])
         /\ mine' = [mine EXCEPT ![d] = Len(trace'[at[d]])]
         /\ Len(trace'[at[d]]) \in Nat \ {0}
<1> DEFINE a == at[d]
<1>1. /\ trace[a] \in Seq(StepStatus) /\ RUNNING \in StepStatus
      /\ trace' = [trace EXCEPT ![a] = Append(trace[a], RUNNING)]
      /\ mine' = [mine EXCEPT ![d] = Len(trace[a]) + 1]
  BY DEF TraceInv, start_attempt, StepStatus
<1>2. /\ trace'[a] = Append(trace[a], RUNNING)
      /\ \A s \in TracedStep : s # a => trace'[s] = trace[s]
      /\ trace' \in [TracedStep -> Seq(StepStatus)]
  BY <1>1 DEF TraceInv
<1>3. Len(trace'[a]) = Len(trace[a]) + 1 /\ Len(trace[a]) \in Nat
  BY <1>1, <1>2
<1>4. Done(a) => COMPLETED \in Range(trace'[a])
  <2> SUFFICES ASSUME Done(a) PROVE COMPLETED \in Range(trace'[a])
    OBVIOUS
  <2>1. PICK i \in DOMAIN trace[a] : trace[a][i] = COMPLETED
    BY DEF Done, Range
  <2>2. i \in DOMAIN trace'[a] /\ trace'[a][i] = COMPLETED
    BY <1>1, <1>2, <2>1
  <2>. QED
    BY <2>2 DEF Done, Range
<1>5. ASSUME NEW s \in TracedStep, s # a, Done(s) PROVE Done(s)'
  BY <1>2, <1>5 DEF Done
<1>6. \A s \in TracedStep : Len(trace[s]) <= Len(trace'[s])
  <2> SUFFICES ASSUME NEW s \in TracedStep PROVE Len(trace[s]) <= Len(trace'[s])
    OBVIOUS
  <2>1. Len(trace[s]) \in Nat
    BY DEF TraceInv
  <2>. QED
    BY <1>2, <1>3, <2>1
<1>7. ASSUME NEW s \in TracedStep, Done(s) PROVE Done(s)'
  BY <1>4, <1>5, <1>7 DEF Done
<1>8. Len(trace'[a]) \in Nat \ {0}
  BY <1>3
<1>9. mine' = [mine EXCEPT ![d] = Len(trace'[a])]
  BY <1>1, <1>3, Zenon
<1>. QED
  BY <1>2, <1>6, <1>7, <1>8, <1>9

\* Closing a row never takes a completed one, since the table of step
\* transitions lets a completed attempt only be followed by another.
LEMMA CloseKeeps ==
  ASSUME TraceInv, NEW d \in Drivers, at[d] \in TracedStep,
         mine[d] \in 1 .. Len(trace[at[d]]),
         NEW t \in {COMPLETED, FAILED, PAUSED}, _close_attempt(d, t)
  PROVE  /\ trace' \in [TracedStep -> Seq(StepStatus)]
         /\ \A s \in TracedStep : Done(s) => Done(s)'
         /\ \A s \in TracedStep : Len(trace'[s]) = Len(trace[s])
         /\ t = COMPLETED => COMPLETED \in Range(trace'[at[d]])
<1> DEFINE a == at[d]
           m == mine[d]
<1>1. /\ trace[a] \in Seq(StepStatus) /\ m \in DOMAIN trace[a] /\ t \in StepStatus
      /\ trace' = [trace EXCEPT ![a] = [trace[a] EXCEPT ![m] = t]]
      /\ trace[a][m] \in StepStatus
  BY DEF TraceInv, _close_attempt, StepStatus
<1>2. trace[a][m] # COMPLETED
  BY <1>1 DEF _close_attempt, transition_step, ALLOWED_STEP_TRANSITIONS, StepStatus, PENDING,
              RUNNING, PAUSED, COMPLETED, FAILED, SKIPPED
<1>3. /\ trace'[a] = [trace[a] EXCEPT ![m] = t]
      /\ \A s \in TracedStep : s # a => trace'[s] = trace[s]
  BY <1>1 DEF TraceInv
<1>4. /\ trace'[a] \in Seq(StepStatus) /\ Len(trace'[a]) = Len(trace[a])
      /\ DOMAIN trace'[a] = DOMAIN trace[a]
  BY <1>1, <1>3
<1>5. trace' \in [TracedStep -> Seq(StepStatus)]
  BY <1>1, <1>3, <1>4 DEF TraceInv
<1>6. Done(a) => COMPLETED \in Range(trace'[a])
  <2> SUFFICES ASSUME Done(a) PROVE COMPLETED \in Range(trace'[a])
    OBVIOUS
  <2>1. PICK i \in DOMAIN trace[a] : trace[a][i] = COMPLETED
    BY DEF Done, Range
  <2>2. i \in DOMAIN trace'[a] /\ trace'[a][i] = COMPLETED
    BY <1>1, <1>2, <1>3, <1>4, <2>1
  <2>. QED
    BY <2>2 DEF Done, Range
<1>7. t = COMPLETED => COMPLETED \in Range(trace'[a])
  <2>1. m \in DOMAIN trace'[a] /\ trace'[a][m] = t
    BY <1>1, <1>3, <1>4
  <2>. QED
    BY <2>1 DEF Done, Range
<1>8. ASSUME NEW s \in TracedStep, s # a, Done(s) PROVE Done(s)'
  BY <1>3, <1>8 DEF Done
<1>9. ASSUME NEW s \in TracedStep, Done(s) PROVE Done(s)'
  BY <1>6, <1>8, <1>9 DEF Done
<1>. QED
  BY <1>3, <1>4, <1>5, <1>7, <1>9

\* Every step keeps TraceInv.
LEMMA TraceStep == TypeInv /\ TraceInv /\ [TracedNext]_tracedVars => TraceInv'
<1> SUFFICES ASSUME TypeInv, TraceInv, [TracedNext]_tracedVars PROVE TraceInv'
  OBVIOUS
<1> USE DEF Done, Working, TypeInv, TypeOK, TracedStep, Gate, StepName, END,
            FETCH_EMPLOYEE, PLAN_DEPROVISIONING, AWAIT_HR_APPROVAL, REVOKE_ACCESS,
            SEND_EXIT_PAPERWORK, AWAIT_SIGNED_DOCUMENT, FINALIZE
<1>1. CASE UNCHANGED tracedVars
  BY <1>1 DEF TraceInv, tracedVars, vars, added, thread, locals
<1>2. ASSUME NEW d \in Drivers, Arrive(d) /\ UNCHANGED added PROVE TraceInv'
  BY <1>2 DEF TraceInv, added, Arrive, start_run, approve, reject, _resolve_approval,
              thread, submit_signed_document, resume_run, cancel_run, Request, Goto
<1>3. ASSUME NEW d \in Drivers, Die(d) PROVE TraceInv'
  BY <1>3 DEF TraceInv, Die, Crash, Leave, Goto, thread
<1>4. ASSUME NEW d \in Drivers, CheckPaused(d) PROVE TraceInv'
  BY <1>4 DEF TraceInv, CheckPaused, Inside, Move, vars, thread, locals
<1>5. ASSUME NEW d \in Drivers, OpenPause(d) \/ Resumed(d) \/ OpenPlanSpan(d) PROVE TraceInv'
  <2>1. /\ start_attempt(d) /\ pc[d] = "body" /\ at[d] \in TracedStep
        /\ UNCHANGED <<pc, at, checkpoint>>
        /\ \E p \in {"pause", "span"} : spot' = [spot EXCEPT ![d] = p]
    BY <1>5 DEF OpenPause, Resumed, OpenPlanSpan, Inside, Move, vars, thread, locals
  <2>2. /\ trace' \in [TracedStep -> Seq(StepStatus)]
        /\ \A s \in TracedStep : Done(s) => Done(s)'
        /\ \A s \in TracedStep : Len(trace[s]) <= Len(trace'[s])
        /\ mine' = [mine EXCEPT ![d] = Len(trace'[at[d]])]
        /\ Len(trace'[at[d]]) \in Nat \ {0}
    BY <2>1, OpenKeeps
  <2>3. \A s \in TracedStep : Len(trace[s]) \in Nat /\ Len(trace'[s]) \in Nat
    BY <2>2 DEF TraceInv
  <2>. QED
    BY <2>1, <2>2, <2>3 DEF TraceInv
<1>6. ASSUME NEW d \in Drivers, pause_attempt(d) PROVE TraceInv'
  <2>1. /\ _close_attempt(d, PAUSED) /\ at[d] \in TracedStep /\ spot[d] = "pause"
        /\ UNCHANGED <<pc, at, checkpoint>> /\ pc[d] = "body"
        /\ spot' = [spot EXCEPT ![d] = "interrupt"]
        /\ mine' = [mine EXCEPT ![d] = 0]
    BY <1>6 DEF pause_attempt, Inside, Move, _close_attempt, vars, thread, locals
  <2>2. /\ trace' \in [TracedStep -> Seq(StepStatus)]
        /\ \A s \in TracedStep : Done(s) => Done(s)'
        /\ \A s \in TracedStep : Len(trace'[s]) = Len(trace[s])
    BY <2>1, CloseKeeps DEF TraceInv
  <2>. QED
    BY <2>1, <2>2 DEF TraceInv
<1>7. ASSUME NEW d \in Drivers, Interrupt(d) PROVE TraceInv'
  BY <1>7 DEF TraceInv, Interrupt, Move, await_hr_approval, await_signed_document,
              End, Proceed, Goto, thread
<1>8. ASSUME NEW d \in Drivers,
             Decide(d) \/ generate_plan(d) \/ PlanFails(d) \/ SpanRaises(d)
      PROVE  TraceInv'
  <2>1. PICK t \in {COMPLETED, FAILED} :
              CloseSpan(d, t) /\ (pc'[d] = "return" => t = COMPLETED)
    <3>1. CASE Decide(d) \/ generate_plan(d) \/ PlanFails(d)
      BY <3>1 DEF Decide, generate_plan, PlanFails
    <3>2. CASE SpanRaises(d)
      BY <3>2 DEF SpanRaises, Crash, Leave, Goto
    <3>. QED
      BY <1>8, <3>1, <3>2
  <2>2. /\ pc[d] = "body" /\ at[d] \in TracedStep /\ UNCHANGED checkpoint
        /\ \/ UNCHANGED at /\ \E p \in {"return", "settle"} : pc' = [pc EXCEPT ![d] = p]
           \/ at' = [at EXCEPT ![d] = 0] /\ pc' = [pc EXCEPT ![d] = "idle"]
    <3>1. CASE Decide(d) \/ generate_plan(d) \/ PlanFails(d)
      BY <3>1 DEF Decide, generate_plan, PlanFails, await_hr_approval, await_signed_document,
                  plan_deprovisioning, End, Proceed, Goto, thread
    <3>2. CASE SpanRaises(d)
      BY <3>2 DEF SpanRaises, CloseSpan, Crash, Leave, Goto, thread, TraceInv
    <3>. QED
      BY <1>8, <3>1, <3>2
  <2>3. /\ _close_attempt(d, t) /\ spot[d] = "span"
        /\ spot' = [spot EXCEPT ![d] = "enter"] /\ mine' = [mine EXCEPT ![d] = 0]
    BY <2>1 DEF CloseSpan, Move, _close_attempt
  <2>4. /\ trace' \in [TracedStep -> Seq(StepStatus)]
        /\ \A s \in TracedStep : Done(s) => Done(s)'
        /\ \A s \in TracedStep : Len(trace'[s]) = Len(trace[s])
        /\ t = COMPLETED => COMPLETED \in Range(trace'[at[d]])
    BY <2>2, <2>3, CloseKeeps DEF TraceInv
  <2>5. pc'[d] = "return" => Done(at[d])'
    BY <2>1, <2>2, <2>4 DEF Done
  <2>6. CASE UNCHANGED at
    <3>1. \E p \in {"return", "settle", "idle"} : pc' = [pc EXCEPT ![d] = p]
      BY <2>2
    <3>. QED
      BY <2>2, <2>3, <2>4, <2>5, <2>6, <3>1 DEF TraceInv
  <2>7. CASE at' = [at EXCEPT ![d] = 0] /\ pc' = [pc EXCEPT ![d] = "idle"]
    BY <2>2, <2>3, <2>4, <2>7 DEF TraceInv
  <2>. QED
    BY <2>2, <2>6, <2>7
<1>9. ASSUME NEW d \in Drivers, Load(d) PROVE TraceInv'
  <2>1. pc[d] = "invoke" /\ UNCHANGED <<trace, spot, mine>>
    BY <1>9 DEF Load, Invoke
  <2>2. CASE /\ checkpoint' = FETCH_EMPLOYEE /\ at' = [at EXCEPT ![d] = FETCH_EMPLOYEE]
             /\ pc' = [pc EXCEPT ![d] = "guard"]
    BY <2>1, <2>2 DEF TraceInv
  <2>3. CASE /\ checkpoint' = checkpoint /\ at' = [at EXCEPT ![d] = checkpoint]
             /\ \E p \in {"guard", "settle"} : pc' = [pc EXCEPT ![d] = p]
    BY <2>1, <2>3 DEF TraceInv
  <2>4. CASE /\ checkpoint' = checkpoint /\ at' = [at EXCEPT ![d] = 0]
             /\ pc' = [pc EXCEPT ![d] = "idle"]
    BY <2>1, <2>4 DEF TraceInv
  <2>. QED
    BY <1>9, <2>2, <2>3, <2>4 DEF Load, Invoke, Enter, Leave, Goto, thread
<1>10. ASSUME NEW d \in Drivers, Save(d) PROVE TraceInv'
  <2>1. /\ pc[d] = "return" /\ checkpoint' = at[d] + 1 /\ at[d] \in StepName
        /\ at' = [at EXCEPT ![d] = at[d] + 1] /\ UNCHANGED <<trace, spot, mine>>
        /\ \E p \in {"guard", "settle"} : pc' = [pc EXCEPT ![d] = p]
    BY <1>10 DEF Save, NodeReturns, Enter, Goto
  <2>2. \A s \in TracedStep : at[d] + 1 > s => Done(s)
    BY <2>1 DEF TraceInv
  <2>. QED
    BY <2>1, <2>2 DEF TraceInv
<1>11. ASSUME NEW d \in Drivers, RevokePlanned(d) PROVE TraceInv'
  BY <1>11 DEF TraceInv, RevokePlanned, revoke_access, Effect, EffectLands,
               ExecuteEffect, End, Proceed, Goto, thread, locals
<1>12. ASSUME NEW d \in Drivers, Elsewhere(d) PROVE TraceInv'
  <2>1. CASE SetRunning(d) \/ SetCancelled(d) \/ request_cancel(d) \/ _advance(d)
    BY <1>12, <2>1 DEF TraceInv, Elsewhere, added, SetRunning, SetCancelled,
                       request_cancel, _advance, Leave, Goto, thread
  <2>2. CASE guard(d) \/ bump_counters(d) \/ fetch_employee(d)
    BY <1>12, <2>2 DEF TraceInv, Elsewhere, added, guard, bump_counters,
                       fetch_employee, End, Proceed, Goto, thread
  <2>3. CASE send_exit_paperwork(d) \/ finalize(d)
    BY <1>12, <2>3 DEF TraceInv, Elsewhere, added, send_exit_paperwork, finalize,
                       Effect, EffectLands, ExecuteEffect, End, Proceed, Goto, thread, locals
  <2>. QED
    BY <1>12, <2>1, <2>2, <2>3 DEF Elsewhere
<1>. QED
  BY <1>1, <1>2, <1>3, <1>4, <1>5, <1>6, <1>7, <1>8, <1>9, <1>10, <1>11, <1>12
     DEF TracedNext, Progress

-----------------------------------------------------------------------------
(* Types *)

\* The types of what TracedRun adds, the trace apart.
AddedType ==
    /\ spot \in [Drivers -> Spot]
    /\ mine \in [Drivers -> Nat]
    /\ plan \in [Drivers -> Plan]
    /\ checklist \in Plan /\ shown \in Plan /\ revoked \in Plan

\* The checklist of the initial state is a list, under any bound.
LEMMA EmptyPlan == <<>> \in Plan
<1>1. 0 \in 0 .. MaxPlan
  BY MaxPlanAssumption
<1>2. <<>> \in [1 .. 0 -> Systems]
  OBVIOUS
<1>. QED
  BY <1>1, <1>2 DEF Plan

\* The model's answers are answers.
LEMMA AnswerItems ==
  ASSUME NEW provider, NEW answer \in Answers(provider)
  PROVE  answer.items \in Plan
  BY DEF Answers, Answer

\* Every step keeps AddedType.
LEMMA AddedStep == TraceInv /\ TypeInv /\ AddedType /\ [TracedNext]_tracedVars => AddedType'
<1> SUFFICES ASSUME TraceInv, TypeInv, AddedType, [TracedNext]_tracedVars PROVE AddedType'
  OBVIOUS
<1> USE DEF AddedType, Spot
<1>1. CASE UNCHANGED tracedVars
  BY <1>1 DEF tracedVars, added
<1>2. ASSUME NEW d \in Drivers, Arrive(d) /\ UNCHANGED added PROVE AddedType'
  BY <1>2 DEF added
<1>3. ASSUME NEW d \in Drivers, Die(d) PROVE AddedType'
  BY <1>3 DEF Die
<1>4. ASSUME NEW d \in Drivers, CheckPaused(d) PROVE AddedType'
  BY <1>4 DEF CheckPaused, Inside, Move
<1>5. ASSUME NEW d \in Drivers, OpenPause(d) \/ Resumed(d) \/ OpenPlanSpan(d) PROVE AddedType'
  <2>1. at[d] \in TracedStep /\ start_attempt(d)
    BY <1>5 DEF OpenPause, Resumed, OpenPlanSpan, Inside
  <2>2. Len(trace[at[d]]) + 1 \in Nat
    BY <2>1 DEF TraceInv
  <2>3. mine' \in [Drivers -> Nat]
    BY <2>1, <2>2 DEF start_attempt
  <2>. QED
    BY <1>5, <2>3 DEF OpenPause, Resumed, OpenPlanSpan, Inside, Move
<1>6. ASSUME NEW d \in Drivers, pause_attempt(d) PROVE AddedType'
  BY <1>6 DEF pause_attempt, Inside, Move, _close_attempt
<1>7. ASSUME NEW d \in Drivers, Interrupt(d) PROVE AddedType'
  BY <1>7 DEF Interrupt, Move
<1>8. ASSUME NEW d \in Drivers, Decide(d) \/ PlanFails(d) \/ SpanRaises(d)
      PROVE  AddedType'
  BY <1>8 DEF Decide, PlanFails, SpanRaises, CloseSpan, Move, _close_attempt
<1>9. ASSUME NEW d \in Drivers, generate_plan(d) PROVE AddedType'
  <2>1. plan' \in [Drivers -> Plan]
    BY <1>9, AnswerItems DEF generate_plan
  <2>. QED
    BY <1>9, <2>1 DEF generate_plan, CloseSpan, Move, _close_attempt
<1>10. ASSUME NEW d \in Drivers, Load(d) PROVE AddedType'
  BY <1>10, EmptyPlan DEF Load
<1>11. ASSUME NEW d \in Drivers, Save(d) \/ RevokePlanned(d) PROVE AddedType'
  BY <1>11 DEF Save, RevokePlanned
<1>12. ASSUME NEW d \in Drivers, Elsewhere(d) PROVE AddedType'
  BY <1>12 DEF Elsewhere, added
<1>. QED
  BY <1>1, <1>2, <1>3, <1>4, <1>5, <1>6, <1>7, <1>8, <1>9, <1>10, <1>11, <1>12
     DEF TracedNext, Progress

-----------------------------------------------------------------------------

\* The four invariants hold together in every state.
LEMMA TracedInvariant == TracedSpec => [](TypeInv /\ PlanInv /\ TraceInv /\ AddedType)
<1>1. TracedInit => TypeInv /\ PlanInv /\ TraceInv /\ AddedType
  <2> SUFFICES ASSUME TracedInit PROVE TypeInv /\ PlanInv /\ TraceInv /\ AddedType
    OBVIOUS
  <2>1. TypeInv
    BY TypeInit DEF TracedInit
  <2>2. /\ checkpoint = 0 /\ effects = {} /\ \A d \in Drivers : pc[d] = "idle"
        /\ \A d \in Drivers : spot[d] = "enter"
    BY DEF TracedInit, Init
  <2>3. PlanInv
    BY <2>2 DEF TracedInit, PlanInv, RevokedIsAccess, Working, PLAN_DEPROVISIONING
  <2>4. TraceInv
    BY <2>2 DEF TracedInit, TraceInv, Working, TracedStep, Gate,
                PLAN_DEPROVISIONING, AWAIT_HR_APPROVAL, AWAIT_SIGNED_DOCUMENT
  <2>5. AddedType
    BY EmptyPlan DEF TracedInit, AddedType, Spot
  <2>. QED
    BY <2>1, <2>3, <2>4, <2>5
<1>. QED
  BY <1>1, TracedTypeStep, PlanStep, TraceStep, AddedStep, PTL DEF TracedSpec

\* start_attempt, _close_attempt, parse_plan and the graph state: every row of
\* the trace has a step status, and every checklist that is made, stored, shown
\* or passed to the IAM tool is one, in every reachable state.
THEOREM TracedTypeCorrect == TracedSpec => []TracedTypeOK
<1>1. TypeInv /\ TraceInv /\ AddedType => TracedTypeOK
  BY DEF TypeInv, TraceInv, AddedType, TracedTypeOK
<1>. QED
  BY <1>1, TracedInvariant, PTL

\* Whatever the model answers, whoever drives the run and wherever processes
\* die, the systems revoked are the systems the employee has.
THEOREM OnlyAccessIsRevoked == TracedSpec => []RevokedIsAccess
<1>1. PlanInv => RevokedIsAccess
  BY DEF PlanInv
<1>. QED
  BY <1>1, TracedInvariant, PTL

\* However often a step is repeated, by resumes or by several drivers, a step
\* the thread has passed has a completed attempt in the trace.
THEOREM PassedStepsAreTraced == TracedSpec => []StepsAreTraced
<1>1. TraceInv => StepsAreTraced
  BY DEF TraceInv, Done, StepsAreTraced
<1>. QED
  BY <1>1, TracedInvariant, PTL
=============================================================================
