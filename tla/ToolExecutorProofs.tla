------------------------- MODULE ToolExecutorProofs -------------------------
(***************************************************************************)
(* Theorems about ToolExecutor, for every number of drivers and of steps,  *)
(* every allowance and every retry policy.                                 *)
(***************************************************************************)
EXTENDS ToolExecutor, Counting

-----------------------------------------------------------------------------
(* The ledger inside the executor *)

\* The ledger of the executor, together with what is proved about it.
Proved == INSTANCE SideEffectLedgerProofs
            WITH MaxCalls <- max_tool_calls + Cardinality(Drivers)

\* What the ledger assumes of its constants holds of the executor's.
LEMMA LedgerConstants ==
    /\ Queryable \subseteq Keys /\ Flaky \subseteq Queryable
    /\ max_tool_calls + Cardinality(Drivers) \in Nat
  BY ExecutorKeysAssumption, ExecutorDriversAssumption, BudgetAssumption, FS_CardinalityType

\* The two instances of the ledger are one.
LEMMA SameLedger ==
    /\ Ledger!Next <=> Proved!Next
    /\ Ledger!TypeOK <=> Proved!TypeOK
    /\ Ledger!Init <=> Proved!Init
<1>1. Ledger!Next <=> Proved!Next
  BY DEF Ledger!Next, Ledger!Step, Ledger!RunOnce, Ledger!Get, Ledger!TryReserve,
         Ledger!ResumeInProgress, Ledger!AdoptInProgress, Ledger!MarkInProgress,
         Ledger!ToolCall, Ledger!ToolApply, Ledger!MarkCompleted, Ledger!CallRaised,
         Ledger!AdoptRaised, Ledger!MarkFailed, Ledger!StoreRaises, Ledger!Crash,
         Ledger!Goto, Ledger!Return,
         Ledger!_set_state, Ledger!mark_in_progress, Ledger!mark_completed,
         Ledger!mark_failed, Ledger!record, Ledger!_ask_provider, Ledger!RESERVED,
         Ledger!IN_PROGRESS, Ledger!COMPLETED, Ledger!FAILED, Ledger!PerformedOutcome,
         Proved!Next, Proved!Step, Proved!RunOnce, Proved!Get, Proved!TryReserve,
         Proved!ResumeInProgress, Proved!AdoptInProgress, Proved!MarkInProgress,
         Proved!ToolCall, Proved!ToolApply, Proved!MarkCompleted, Proved!CallRaised,
         Proved!AdoptRaised, Proved!MarkFailed, Proved!StoreRaises, Proved!Crash,
         Proved!Goto, Proved!Return,
         Proved!_set_state, Proved!mark_in_progress, Proved!mark_completed,
         Proved!mark_failed, Proved!record, Proved!_ask_provider, Proved!RESERVED,
         Proved!IN_PROGRESS, Proved!COMPLETED, Proved!FAILED, Proved!PerformedOutcome
<1>2. Ledger!TypeOK <=> Proved!TypeOK
  BY DEF Ledger!TypeOK, Ledger!RowState, Ledger!Position, Ledger!Outcome,
         Ledger!PerformedOutcome, Ledger!ReplayedOutcome, Ledger!RaisedOutcome,
         Ledger!RESERVED, Ledger!IN_PROGRESS, Ledger!COMPLETED, Ledger!FAILED,
         Proved!TypeOK, Proved!RowState, Proved!Position, Proved!Outcome,
         Proved!PerformedOutcome, Proved!ReplayedOutcome, Proved!RaisedOutcome,
         Proved!RESERVED, Proved!IN_PROGRESS, Proved!COMPLETED, Proved!FAILED
<1>3. Ledger!Init <=> Proved!Init
  BY DEF Ledger!Init, Proved!Init
<1>. QED
  BY <1>1, <1>2, <1>3

\* A step of the ledger keeps the ledger's invariant.
LEMMA LedgerInvStep == Proved!LedgerInv /\ [Ledger!Next]_ledger => Proved!LedgerInv'
<1>1. Proved!LedgerInv /\ [Proved!Next]_Proved!vars => Proved!LedgerInv'
  BY LedgerConstants, Proved!LedgerStep
<1>2. [Ledger!Next]_ledger => [Proved!Next]_Proved!vars
  BY SameLedger DEF ledger, Proved!vars
<1>. QED
  BY <1>1, <1>2

\* A statement of run_once changes nothing of the other drivers, and of the
\* world at most what its key stands for.
LEMMA LedgerFrame ==
  ASSUME Ledger!TypeOK, NEW d \in Drivers, Ledger!Step(d) \/ Ledger!StoreRaises(d)
  PROVE  /\ pc[d] # "idle" /\ UNCHANGED <<key, calls>>
         /\ \A e \in Drivers \ {d} : pc'[e] = pc[e] /\ outcome'[e] = outcome[e]
         /\ \/ applied' = applied
            \/ applied' = [applied EXCEPT ![key[d]] = @ + 1]
<1> USE DEF Ledger!TypeOK, Ledger!Goto, Ledger!Return, Ledger!record
<1>1. CASE Ledger!Get(d) \/ Ledger!TryReserve(d)
  BY <1>1 DEF Ledger!Get, Ledger!TryReserve
<1>2. CASE Ledger!ResumeInProgress(d) \/ Ledger!AdoptInProgress(d)
  BY <1>2 DEF Ledger!ResumeInProgress, Ledger!AdoptInProgress
<1>3. CASE Ledger!MarkInProgress(d) \/ Ledger!ToolCall(d) \/ Ledger!ToolApply(d)
  BY <1>3 DEF Ledger!MarkInProgress, Ledger!ToolCall, Ledger!ToolApply
<1>4. CASE Ledger!MarkCompleted(d) \/ Ledger!CallRaised(d) \/ Ledger!AdoptRaised(d)
            \/ Ledger!MarkFailed(d)
  BY <1>4 DEF Ledger!MarkCompleted, Ledger!CallRaised, Ledger!AdoptRaised, Ledger!MarkFailed
<1>5. CASE Ledger!StoreRaises(d)
  BY <1>5 DEF Ledger!StoreRaises
<1>. QED
  BY <1>1, <1>2, <1>3, <1>4, <1>5 DEF Ledger!Step

-----------------------------------------------------------------------------
(* The trace *)

\* Opening a row adds one, RUNNING, and touches no other.
LEMMA OpenRow ==
  ASSUME TypeOK, NEW d \in Drivers, NEW p, start_attempt(d, p)
  PROVE  LET k == step[d]
             new == Len(trace[k]) + 1
         IN  /\ trace' \in [Keys -> Seq(StepStatus)]
             /\ new \in Nat /\ new \notin DOMAIN trace[k]
             /\ mine' = [mine EXCEPT ![d] = new]
             /\ DOMAIN trace'[k] = DOMAIN trace[k] \cup {new}
             /\ trace'[k][new] = RUNNING
             /\ \A i \in DOMAIN trace[k] : trace'[k][i] = trace[k][i]
             /\ \A l \in Keys \ {k} : trace'[l] = trace[l]
<1> DEFINE k == step[d]
           new == Len(trace[k]) + 1
<1>1. /\ k \in Keys /\ trace[k] \in Seq(StepStatus) /\ RUNNING \in StepStatus
      /\ trace' = [trace EXCEPT ![k] = Append(trace[k], RUNNING)]
      /\ mine' = [mine EXCEPT ![d] = new]
  BY DEF TypeOK, start_attempt, StepStatus
<1>2. /\ trace'[k] = Append(trace[k], RUNNING)
      /\ \A l \in Keys \ {k} : trace'[l] = trace[l]
      /\ trace' \in [Keys -> Seq(StepStatus)]
  BY <1>1 DEF TypeOK
<1>3. /\ Len(trace[k]) \in Nat /\ DOMAIN trace[k] = 1 .. Len(trace[k])
      /\ DOMAIN trace'[k] = 1 .. new
  BY <1>1, <1>2
<1>4. DOMAIN trace'[k] = DOMAIN trace[k] \cup {new} /\ new \notin DOMAIN trace[k]
  BY <1>3
<1>5. trace'[k][new] = RUNNING /\ \A i \in DOMAIN trace[k] : trace'[k][i] = trace[k][i]
  BY <1>1, <1>2, <1>3
<1>. QED
  BY <1>1, <1>2, <1>3, <1>4, <1>5

\* Closing a row changes that row only.
LEMMA CloseRow ==
  ASSUME TypeOK, NEW d \in Drivers, NEW target \in StepStatus,
         mine[d] \in DOMAIN trace[step[d]], _close_attempt(d, target)
  PROVE  LET k == step[d]
         IN  /\ trace' \in [Keys -> Seq(StepStatus)]
             /\ mine' = [mine EXCEPT ![d] = 0]
             /\ DOMAIN trace'[k] = DOMAIN trace[k]
             /\ trace'[k][mine[d]] = target
             /\ \A i \in DOMAIN trace[k] \ {mine[d]} : trace'[k][i] = trace[k][i]
             /\ \A l \in Keys \ {k} : trace'[l] = trace[l]
<1> DEFINE k == step[d]
           m == mine[d]
<1>1. /\ k \in Keys /\ trace[k] \in Seq(StepStatus) /\ m \in DOMAIN trace[k]
      /\ trace' = [trace EXCEPT ![k] = [trace[k] EXCEPT ![m] = target]]
      /\ mine' = [mine EXCEPT ![d] = 0]
  BY DEF TypeOK, _close_attempt
<1>2. /\ trace'[k] = [trace[k] EXCEPT ![m] = target]
      /\ \A l \in Keys \ {k} : trace'[l] = trace[l]
  BY <1>1 DEF TypeOK
<1>3. trace'[k] \in Seq(StepStatus) /\ DOMAIN trace'[k] = DOMAIN trace[k]
  BY <1>1, <1>2
<1>4. trace' \in [Keys -> Seq(StepStatus)]
  BY <1>1, <1>2, <1>3 DEF TypeOK
<1>. QED
  BY <1>1, <1>2, <1>3, <1>4

-----------------------------------------------------------------------------
(* The inductive invariant *)

\* A driver is inside run_once only for the step it executes, has not
\* succeeded before it is done, and its open row is its own.
Own(d) ==
    /\ at[d] # "ledger" => pc[d] = "idle"
    /\ at[d] = "ledger" => key[d] = step[d]
    /\ at[d] # "idle" => result[d] # "ok"
    /\ at[d] \in Tracing => /\ mine[d] \in DOMAIN trace[step[d]]
                            /\ trace[step[d]][mine[d]] = RUNNING

\* No two drivers have the same row open.
Apart(d, e) ==
    d # e /\ at[d] \in Tracing /\ at[e] \in Tracing /\ step[d] = step[e]
        => mine[d] # mine[e]

ExecInv ==
    /\ TypeOK
    /\ Proved!LedgerInv
    /\ \A d \in Drivers : Own(d)
    /\ \A d, e \in Drivers : Apart(d, e)

\* Every step of the executor is a step of the ledger, or none.
LEMMA LedgerRefines == TypeOK /\ [Next]_vars => [Ledger!Next]_ledger
<1> SUFFICES ASSUME TypeOK, [Next]_vars PROVE [Ledger!Next]_ledger
  OBVIOUS
<1>1. CASE UNCHANGED vars
  BY <1>1 DEF vars
<1>2. ASSUME NEW d \in Drivers, NEW k \in Keys, execute(d, k) PROVE UNCHANGED ledger
  BY <1>2 DEF execute
<1>3. ASSUME NEW d \in Drivers,
             _check_budget(d) \/ _trace_refusal(d) \/ StartAttempt(d) \/ Bump(d)
               \/ CompleteAttempt(d) \/ FailAttempt(d) \/ EscapeLedger(d)
      PROVE  UNCHANGED ledger
  BY <1>3 DEF _check_budget, _trace_refusal, StartAttempt, Bump, CompleteAttempt, FailAttempt,
              EscapeLedger, Escape
<1>4. ASSUME NEW d \in Drivers, CallLedger(d) PROVE Ledger!Next
  BY <1>4 DEF CallLedger, TypeOK, Ledger!Next
<1>5. ASSUME NEW d \in Drivers, InLedger(d) PROVE Ledger!Next
  BY <1>5 DEF InLedger, Ledger!Next
<1>6. ASSUME NEW d \in Drivers, Crash(d) PROVE [Ledger!Next]_ledger
  BY <1>6 DEF Crash, Ledger!Next
<1>7. ASSUME NEW d \in Drivers, DatabaseRaises(d) PROVE [Ledger!Next]_ledger
  BY <1>7 DEF DatabaseRaises, Escape, Ledger!Next
<1>. QED
  BY <1>1, <1>2, <1>3, <1>4, <1>5, <1>6, <1>7 DEF Next, Step

\* Every step keeps ExecInv.
LEMMA ExecStep == ExecInv /\ [Next]_vars => ExecInv'
<1> SUFFICES ASSUME ExecInv, [Next]_vars PROVE ExecInv'
  OBVIOUS
<1>0. Proved!LedgerInv' /\ Ledger!TypeOK'
  <2>1. Proved!LedgerInv'
    BY LedgerRefines, LedgerInvStep DEF ExecInv
  <2>2. Proved!TypeOK'
    BY <2>1 DEF Proved!LedgerInv
  <2>3. Ledger!TypeOK' <=> Proved!TypeOK'
    BY SameLedger, PTL
  <2>. QED
    BY <2>1, <2>2, <2>3
<1> USE <1>0, BudgetAssumption
<1> USE DEF ExecInv, TypeOK, Own, Apart, Position, Tracing, Result
<1>1. CASE UNCHANGED vars
  BY <1>1 DEF vars, ledger, locals
<1>2. ASSUME NEW d \in Drivers, NEW k \in Keys, execute(d, k) PROVE ExecInv'
  BY <1>2 DEF execute, ledger
<1>3. ASSUME NEW d \in Drivers, _check_budget(d) PROVE ExecInv'
  BY <1>3 DEF _check_budget, ledger
<1>4. ASSUME NEW d \in Drivers, NEW p \in {"refused", "bump"}, at[d] \notin Tracing,
             at[d] # "idle", start_attempt(d, p),
             UNCHANGED <<ledger, tool_call_count, step, attempt, result,
                         executions, crashes, escapes>>
      PROVE  ExecInv'
  <2> DEFINE k == step[d]
             new == Len(trace[k]) + 1
  <2>1. /\ trace' \in [Keys -> Seq(StepStatus)]
        /\ new \in Nat /\ new \notin DOMAIN trace[k]
        /\ mine' = [mine EXCEPT ![d] = new]
        /\ DOMAIN trace'[k] = DOMAIN trace[k] \cup {new}
        /\ trace'[k][new] = RUNNING
        /\ \A i \in DOMAIN trace[k] : trace'[k][i] = trace[k][i]
        /\ \A l \in Keys \ {k} : trace'[l] = trace[l]
    BY <1>4, OpenRow
  <2>2. at' = [at EXCEPT ![d] = p]
    BY <1>4 DEF start_attempt
  <2> HIDE DEF new
  <2>3. TypeOK'
    BY <1>4, <2>1, <2>2 DEF ledger
  <2>4. ASSUME NEW e \in Drivers PROVE Own(e)'
    BY <1>4, <2>1, <2>2, <2>4 DEF ledger
  <2>5. ASSUME NEW e \in Drivers, NEW f \in Drivers PROVE Apart(e, f)'
    BY <1>4, <2>1, <2>2, <2>5
  <2>. QED
    BY <2>3, <2>4, <2>5
<1>5. ASSUME NEW d \in Drivers, NEW target \in {COMPLETED, FAILED}, NEW p \in {"idle", "check"},
             at[d] \in Tracing, pc[d] = "idle", _close_attempt(d, target),
             at' = [at EXCEPT ![d] = p],
             attempt' \in [Drivers -> 1 .. max_attempts],
             NEW r \in Result, result' = [result EXCEPT ![d] = r], p = "idle" \/ r # "ok",
             UNCHANGED <<ledger, tool_call_count, step, executions, crashes>>, escapes' \in Nat
      PROVE  ExecInv'
  <2> DEFINE k == step[d]
  <2>0. target \in StepStatus /\ mine[d] \in DOMAIN trace[k]
    BY <1>5 DEF StepStatus
  <2>1. /\ trace' \in [Keys -> Seq(StepStatus)]
        /\ mine' = [mine EXCEPT ![d] = 0]
        /\ DOMAIN trace'[k] = DOMAIN trace[k]
        /\ \A i \in DOMAIN trace[k] \ {mine[d]} : trace'[k][i] = trace[k][i]
        /\ \A l \in Keys \ {k} : trace'[l] = trace[l]
    BY <1>5, <2>0, CloseRow
  <2>3. TypeOK'
    BY <1>5, <2>1 DEF ledger
  <2>4. ASSUME NEW e \in Drivers PROVE Own(e)'
    BY <1>5, <2>1, <2>4 DEF ledger
  <2>5. ASSUME NEW e \in Drivers, NEW f \in Drivers PROVE Apart(e, f)'
    BY <1>5, <2>1, <2>5
  <2>. QED
    BY <2>3, <2>4, <2>5
<1>6. ASSUME NEW d \in Drivers, _trace_refusal(d) PROVE ExecInv'
  <2>1. CASE at[d] = "refuse"
    BY <1>4, <1>6, <2>1 DEF _trace_refusal
  <2>2. CASE at[d] = "refused"
    <3>1. /\ _close_attempt(d, FAILED) /\ at' = [at EXCEPT ![d] = "idle"]
          /\ attempt' = [attempt EXCEPT ![d] = 1]
          /\ result' = [result EXCEPT ![d] = "budget_exceeded"]
          /\ UNCHANGED <<ledger, tool_call_count, step, executions, crashes, escapes>>
      BY <1>6, <2>2 DEF _trace_refusal, Return
    <3>2. attempt' \in [Drivers -> 1 .. max_attempts]
      BY <3>1
    <3>3. "budget_exceeded" \in Result /\ at[d] \in Tracing /\ pc[d] = "idle"
      BY <2>2
    <3>. QED
      BY <1>5, <3>1, <3>2, <3>3
  <2>. QED
    BY <1>6, <2>1, <2>2 DEF _trace_refusal
<1>7. ASSUME NEW d \in Drivers, StartAttempt(d) PROVE ExecInv'
  BY <1>4, <1>7 DEF StartAttempt
<1>8. ASSUME NEW d \in Drivers, Bump(d) PROVE ExecInv'
  BY <1>8 DEF Bump, ledger
<1>9. ASSUME NEW d \in Drivers, CallLedger(d) PROVE ExecInv'
  <2>1. /\ \A e \in Drivers \ {d} : pc'[e] = pc[e] /\ key'[e] = key[e]
        /\ key'[d] = step[d] /\ at[d] = "call" /\ at' = [at EXCEPT ![d] = "ledger"]
        /\ UNCHANGED <<tool_call_count, trace, step, attempt, mine, result,
                       executions, crashes, escapes>>
    BY <1>9 DEF CallLedger, Ledger!RunOnce, Ledger!TypeOK
  <2>2. TypeOK'
    BY <2>1
  <2>3. ASSUME NEW e \in Drivers PROVE Own(e)'
    BY <2>1, <2>3
  <2>4. ASSUME NEW e \in Drivers, NEW f \in Drivers PROVE Apart(e, f)'
    BY <2>1, <2>4
  <2>. QED
    BY <2>2, <2>3, <2>4
<1>10. ASSUME NEW d \in Drivers, InLedger(d) PROVE ExecInv'
  <2>1. /\ UNCHANGED key /\ \A e \in Drivers \ {d} : pc'[e] = pc[e]
        /\ at[d] = "ledger"
        /\ UNCHANGED <<tool_call_count, trace, locals, executions, crashes, escapes>>
    BY <1>10, LedgerFrame DEF InLedger
  <2>. QED
    BY <2>1 DEF locals
<1>11. ASSUME NEW d \in Drivers, CompleteAttempt(d) PROVE ExecInv'
  <2>1. /\ _close_attempt(d, COMPLETED) /\ at' = [at EXCEPT ![d] = "idle"]
        /\ attempt' = [attempt EXCEPT ![d] = 1]
        /\ result' = [result EXCEPT ![d] = "ok"] /\ at[d] = "ledger" /\ pc[d] = "idle"
        /\ UNCHANGED <<ledger, tool_call_count, step, executions, crashes, escapes>>
    BY <1>11 DEF CompleteAttempt, Return
  <2>2. attempt' \in [Drivers -> 1 .. max_attempts]
    BY <2>1
  <2>. QED
    BY <1>5, <2>1, <2>2
<1>12. ASSUME NEW d \in Drivers, FailAttempt(d) PROVE ExecInv'
  <2>1. /\ _close_attempt(d, FAILED) /\ at[d] = "ledger" /\ pc[d] = "idle"
        /\ outcome[d] \in Ledger!RaisedOutcome
        /\ UNCHANGED <<ledger, tool_call_count, step, executions, crashes, escapes>>
    BY <1>12 DEF FailAttempt, Caught
  <2>2. CASE outcome[d] = "transient" /\ attempt[d] < max_attempts
    <3>1. /\ at' = [at EXCEPT ![d] = "check"] /\ UNCHANGED result
          /\ attempt' = [attempt EXCEPT ![d] = attempt[d] + 1]
      BY <1>12, <2>2 DEF FailAttempt
    <3>2. attempt' \in [Drivers -> 1 .. max_attempts]
      BY <2>2, <3>1
    <3>3. result' = [result EXCEPT ![d] = result[d]] /\ result[d] # "ok"
      BY <2>1, <3>1
    <3>. QED
      BY <1>5, <2>1, <3>1, <3>2, <3>3
  <2>3. CASE ~(outcome[d] = "transient" /\ attempt[d] < max_attempts)
    <3>1. /\ at' = [at EXCEPT ![d] = "idle"]
          /\ attempt' = [attempt EXCEPT ![d] = 1]
          /\ result' = [result EXCEPT ![d] = outcome[d]]
      BY <1>12, <2>3 DEF FailAttempt, Return
    <3>2. attempt' \in [Drivers -> 1 .. max_attempts] /\ outcome[d] \in Result
      BY <2>1, <3>1
    <3>. QED
      BY <1>5, <2>1, <3>1, <3>2
  <2>. QED
    BY <2>2, <2>3
<1>13. ASSUME NEW d \in Drivers, Crash(d) PROVE ExecInv'
  <2>1. /\ \A e \in Drivers \ {d} : pc'[e] = pc[e]
        /\ pc'[d] = "idle" /\ UNCHANGED key
    BY <1>13 DEF Crash, Ledger!Crash, Ledger!TypeOK, ledger
  <2>2. /\ at' = [at EXCEPT ![d] = "idle"] /\ attempt' = [attempt EXCEPT ![d] = 1]
        /\ result' = [result EXCEPT ![d] = "none"] /\ mine' = [mine EXCEPT ![d] = 0]
        /\ crashes' = crashes + 1
        /\ UNCHANGED <<tool_call_count, trace, step, executions, escapes>>
    BY <1>13 DEF Crash, Return
  <2>3. TypeOK'
    BY <2>2
  <2>4. ASSUME NEW e \in Drivers PROVE Own(e)'
    BY <2>1, <2>2, <2>4
  <2>5. ASSUME NEW e \in Drivers, NEW f \in Drivers PROVE Apart(e, f)'
    BY <2>2, <2>5
  <2>. QED
    BY <2>3, <2>4, <2>5
<1>14. ASSUME NEW d \in Drivers, Escape(d), pc[d] = "idle", UNCHANGED trace PROVE ExecInv'
  <2>1. /\ at' = [at EXCEPT ![d] = "idle"] /\ attempt' = [attempt EXCEPT ![d] = 1]
        /\ result' = [result EXCEPT ![d] = "error"] /\ mine' = [mine EXCEPT ![d] = 0]
        /\ escapes' = escapes + 1
        /\ UNCHANGED <<ledger, tool_call_count, trace, step, executions, crashes>>
    BY <1>14 DEF Escape, Return
  <2>2. TypeOK'
    BY <2>1 DEF Ledger!RaisedOutcome
  <2>3. ASSUME NEW e \in Drivers PROVE Own(e)'
    BY <1>14, <2>1, <2>3 DEF ledger
  <2>4. ASSUME NEW e \in Drivers, NEW f \in Drivers PROVE Apart(e, f)'
    BY <2>1, <2>4
  <2>. QED
    BY <2>2, <2>3, <2>4
<1>15. ASSUME NEW d \in Drivers, EscapeLedger(d) PROVE ExecInv'
  BY <1>14, <1>15 DEF EscapeLedger
<1>16. ASSUME NEW d \in Drivers, DatabaseRaises(d) PROVE ExecInv'
  <2>1. CASE /\ at[d] = "ledger" /\ Ledger!StoreRaises(d)
             /\ UNCHANGED <<tool_call_count, trace, locals, executions, crashes, escapes>>
    <3>1. UNCHANGED key /\ \A e \in Drivers \ {d} : pc'[e] = pc[e]
      BY <2>1, LedgerFrame
    <3>. QED
      BY <2>1, <3>1 DEF locals
  <2>2. CASE Escape(d) /\ pc[d] = "idle" /\ UNCHANGED trace
    BY <1>14, <2>2
  <2>3. CASE /\ Escape(d) /\ pc[d] = "idle" /\ at[d] \in {"refused", "ledger"}
             /\ \E t \in {COMPLETED, FAILED} : _close_attempt(d, t)
    <3>1. /\ at' = [at EXCEPT ![d] = "idle"] /\ attempt' = [attempt EXCEPT ![d] = 1]
          /\ result' = [result EXCEPT ![d] = "error"] /\ escapes' = escapes + 1
          /\ UNCHANGED <<ledger, tool_call_count, step, executions, crashes>>
      BY <2>3 DEF Escape, Return
    <3>2. /\ attempt' \in [Drivers -> 1 .. max_attempts] /\ escapes' \in Nat
          /\ "error" \in Result
      BY <3>1 DEF Ledger!RaisedOutcome
    <3>. QED
      BY <1>5, <2>3, <3>1, <3>2
  <2>4. at[d] # "ledger" => pc[d] = "idle"
    OBVIOUS
  <2>. QED
    BY <1>16, <2>1, <2>2, <2>3, <2>4 DEF DatabaseRaises
<1>. QED
  BY <1>1, <1>2, <1>3, <1>6, <1>7, <1>8, <1>9, <1>10, <1>11, <1>12, <1>13, <1>15, <1>16
  DEF Next, Step

\* ExecInv holds in every state of every behaviour.
LEMMA ExecInvariant == Spec => []ExecInv
<1>1. Init => ExecInv
  <2> SUFFICES ASSUME Init PROVE ExecInv
    OBVIOUS
  <2>1. Proved!LedgerInv /\ Ledger!TypeOK
    <3>1. Proved!Init
      BY SameLedger DEF Init
    <3>2. Proved!TypeOK
      BY <3>1 DEF Proved!Init, Proved!TypeOK, Proved!RowState, Proved!Position, Proved!Outcome
    <3>. QED
      BY <3>1, <3>2, SameLedger, LedgerConstants
      DEF Proved!Init, Proved!LedgerInv, Proved!WriteAhead, Proved!CompletedMeansLanded,
          Proved!SuccessMeansLanded, Proved!Marked,
          Proved!PerformedOutcome, Proved!ReplayedOutcome, Proved!COMPLETED
  <2>2. TypeOK
    BY <2>1, BudgetAssumption DEF Init, TypeOK, Position, Result, Ledger!Init
  <2>3. \A d \in Drivers : at[d] = "idle" /\ pc[d] = "idle"
    BY DEF Init, Ledger!Init
  <2>. QED
    BY <2>1, <2>2, <2>3 DEF ExecInv, Own, Apart, Tracing
<1>. QED
  BY <1>1, ExecStep, PTL DEF Spec

\* The executor's state keeps its type: the retry loop never passes the
\* policy's limit, and execute ends only in the ways it documents.
THEOREM TypeCorrect == Spec => []TypeOK
<1>1. ExecInv => TypeOK
  BY DEF ExecInv
<1>. QED
  BY <1>1, ExecInvariant, PTL

\* With budget, retries, refusals and crashes around it, the ledger sees only
\* calls of run_once: whatever is proved of the ledger holds in the executor.
THEOREM ExecutorUsesLedger == Spec => UsesLedger
<1>1. ExecInv /\ [Next]_vars => [Ledger!Next]_ledger
  BY LedgerRefines DEF ExecInv
<1>2. Init => Ledger!Init
  BY DEF Init
<1>. QED
  BY <1>1, <1>2, ExecInvariant, PTL DEF Spec, UsesLedger

\* No attempt, of this driver or another, changes a row of the trace that is
\* closed: each driver closes the row it opened.
THEOREM ClosedRowsAreKept == Spec => ClosedRowsStay
<1>1. ExecInv /\ [Next]_vars
        => [\A k \in Keys : \A i \in Rows(k) :
              trace[k][i] # RUNNING => trace'[k][i] = trace[k][i]]_vars
  <2> SUFFICES ASSUME ExecInv, Next, NEW k \in Keys, NEW i \in DOMAIN trace[k],
                      trace[k][i] # RUNNING
               PROVE  trace'[k][i] = trace[k][i]
    BY DEF vars, Rows
  <2> PICK d \in Drivers : \/ \E c \in Keys : execute(d, c)
                          \/ Step(d) \/ DatabaseRaises(d) \/ Crash(d)
    BY DEF Next
  <2>0. TypeOK /\ Own(d) /\ step[d] \in Keys
    BY DEF ExecInv, TypeOK
  <2>1. CASE UNCHANGED trace
    BY <2>1
  <2>2. CASE \E p : start_attempt(d, p)
    BY <2>0, <2>2, OpenRow
  <2>3. CASE at[d] \in Tracing /\ \E t \in {COMPLETED, FAILED} : _close_attempt(d, t)
    <3>1. PICK t \in {COMPLETED, FAILED} : _close_attempt(d, t)
      BY <2>3
    <3>2. t \in StepStatus
      BY DEF StepStatus
    <3>3. mine[d] \in DOMAIN trace[step[d]] /\ trace[step[d]][mine[d]] = RUNNING
      BY <2>0, <2>3 DEF Own
    <3>4. /\ \A j \in DOMAIN trace[step[d]] \ {mine[d]} :
                  trace'[step[d]][j] = trace[step[d]][j]
          /\ \A l \in Keys \ {step[d]} : trace'[l] = trace[l]
      BY <2>0, <3>1, <3>2, <3>3, CloseRow
    <3>. QED
      BY <3>3, <3>4
  <2>4. CASE (\E c \in Keys : execute(d, c)) \/ Crash(d) \/ _check_budget(d) \/ Bump(d)
               \/ CallLedger(d) \/ InLedger(d) \/ EscapeLedger(d)
    BY <2>1, <2>4 DEF execute, Crash, _check_budget, Bump, CallLedger, InLedger, EscapeLedger
  <2>5. CASE StartAttempt(d)
    BY <2>2, <2>5 DEF StartAttempt
  <2>6. CASE _trace_refusal(d) \/ CompleteAttempt(d) \/ FailAttempt(d)
    BY <2>2, <2>3, <2>6 DEF _trace_refusal, CompleteAttempt, FailAttempt, Tracing
  <2>7. CASE DatabaseRaises(d)
    BY <2>1, <2>3, <2>7 DEF DatabaseRaises, Tracing
  <2>. QED
    BY <2>4, <2>5, <2>6, <2>7 DEF Step
<1>. QED
  BY <1>1, ExecInvariant, PTL DEF Spec, ClosedRowsStay

-----------------------------------------------------------------------------
(* The contract of execute *)

\* Every step of the executor is a step of the abstract service, or none.
LEMMA EffectsStep == ExecInv /\ [Next]_vars => [Effects!Next]_Effects!vars
<1> SUFFICES ASSUME ExecInv, [Next]_vars PROVE [Effects!Next]_Effects!vars
  OBVIOUS
<1> DEFINE landed == {k \in Keys : applied[k] > 0}
           serving == [e \in Drivers |-> IF at[e] = "idle" THEN "none" ELSE step[e]]
           done == [e \in Drivers |-> IF result[e] = "ok" THEN step[e] ELSE "none"]
<1>0. /\ Effects!vars = <<landed, serving, done>>
      /\ Effects!vars' = <<landed', serving', done'>>
  BY DEF Effects!vars
<1>a. /\ \A e \in Drivers : step[e] \in Keys /\ step[e] # "none"
      /\ \A e \in Drivers : at[e] # "idle" => result[e] # "ok"
      /\ DOMAIN at = Drivers /\ DOMAIN result = Drivers /\ DOMAIN step = Drivers
  BY ExecutorKeysAssumption DEF ExecInv, TypeOK, Own
<1>b. ASSUME NEW d \in Drivers, at[d] # "idle", UNCHANGED <<applied, step>>,
             NEW r, r # "ok", result' = [result EXCEPT ![d] = r],
             at' = [at EXCEPT ![d] = "idle"]
      PROVE  Effects!GiveUp(d)
  <2>1. serving[d] # "none" /\ UNCHANGED <<landed, done>>
    BY <1>a, <1>b
  <2>2. serving' = [serving EXCEPT ![d] = "none"]
    BY <1>a, <1>b
  <2>. QED
    BY <2>1, <2>2 DEF Effects!GiveUp
<1>c. ASSUME NEW d \in Drivers, at[d] # "idle", UNCHANGED <<applied, step, result>>,
             NEW p, p # "idle", at' = [at EXCEPT ![d] = p]
      PROVE  UNCHANGED <<landed, serving, done>>
  BY <1>a, <1>c
<1>1. CASE UNCHANGED vars
  BY <1>0, <1>1 DEF vars, ledger, locals
<1>2. ASSUME NEW d \in Drivers, NEW k \in Keys, execute(d, k) PROVE Effects!Call(d, k)
  <2>1. serving[d] = "none" /\ UNCHANGED landed
    BY <1>2 DEF execute, ledger
  <2>2. /\ serving' = [serving EXCEPT ![d] = k]
        /\ done' = [done EXCEPT ![d] = "none"]
    BY <1>2, <1>a DEF execute
  <2>. QED
    BY <2>1, <2>2 DEF Effects!Call
<1>3. ASSUME NEW d \in Drivers, _check_budget(d) \/ StartAttempt(d) \/ Bump(d)
      PROVE  UNCHANGED <<landed, serving, done>>
  BY <1>3, <1>c DEF _check_budget, StartAttempt, start_attempt, Bump, ledger
<1>4. ASSUME NEW d \in Drivers, _trace_refusal(d)
      PROVE  Effects!GiveUp(d) \/ UNCHANGED <<landed, serving, done>>
  <2>1. CASE at[d] = "refuse"
    BY <1>4, <2>1, <1>c DEF _trace_refusal, start_attempt, ledger
  <2>2. CASE at[d] = "refused"
    BY <1>4, <2>2, <1>b DEF _trace_refusal, Return, ledger
  <2>. QED
    BY <1>4, <2>1, <2>2 DEF _trace_refusal
<1>5. ASSUME NEW d \in Drivers, CallLedger(d) PROVE UNCHANGED <<landed, serving, done>>
  BY <1>5, <1>c DEF CallLedger, Ledger!RunOnce
<1>6. ASSUME NEW d \in Drivers, InLedger(d)
      PROVE  Effects!Land(d) \/ UNCHANGED <<landed, serving, done>>
  <2>1. at[d] = "ledger" /\ key[d] = step[d] /\ UNCHANGED <<at, step, result>>
    BY <1>6 DEF InLedger, ExecInv, Own, locals
  <2>2. \/ applied' = applied
        \/ applied' = [applied EXCEPT ![step[d]] = @ + 1]
    BY <1>6, <2>1, LedgerFrame DEF InLedger, ExecInv, TypeOK
  <2>3. CASE applied' = applied
    BY <2>1, <2>3
  <2>4. CASE applied' = [applied EXCEPT ![step[d]] = @ + 1]
    <3>1. landed' = landed \cup {serving[d]} /\ serving[d] # "none"
      BY <2>1, <2>4, <1>a DEF ExecInv, TypeOK, Ledger!TypeOK
    <3>2. UNCHANGED <<serving, done>>
      BY <2>1
    <3>. QED
      BY <3>1, <3>2 DEF Effects!Land
  <2>. QED
    BY <2>2, <2>3, <2>4
<1>7. ASSUME NEW d \in Drivers, CompleteAttempt(d) PROVE Effects!Succeed(d)
  <2>1. /\ at[d] = "ledger" /\ UNCHANGED <<applied, step>>
        /\ at' = [at EXCEPT ![d] = "idle"] /\ result' = [result EXCEPT ![d] = "ok"]
        /\ outcome[d] \in Ledger!PerformedOutcome \cup Ledger!ReplayedOutcome
    BY <1>7 DEF CompleteAttempt, Succeeded, Return, ledger
  <2>2. applied[step[d]] > 0
    BY <2>1 DEF ExecInv, Own, Proved!LedgerInv, Proved!SuccessMeansLanded,
                Ledger!PerformedOutcome, Ledger!ReplayedOutcome,
                Proved!PerformedOutcome, Proved!ReplayedOutcome
  <2>3. serving[d] = step[d] /\ serving[d] \in landed /\ UNCHANGED landed
    BY <2>1, <2>2, <1>a
  <2>4. /\ serving' = [serving EXCEPT ![d] = "none"]
        /\ done' = [done EXCEPT ![d] = serving[d]]
    BY <2>1, <2>3, <1>a
  <2>. QED
    BY <2>3, <2>4 DEF Effects!Succeed
<1>8. ASSUME NEW d \in Drivers, FailAttempt(d)
      PROVE  Effects!GiveUp(d) \/ UNCHANGED <<landed, serving, done>>
  <2>1. outcome[d] # "ok" /\ at[d] # "idle" /\ UNCHANGED <<applied, step>>
    BY <1>8 DEF FailAttempt, Caught, Ledger!RaisedOutcome, ledger
  <2>2. CASE outcome[d] = "transient" /\ attempt[d] < max_attempts
    BY <1>8, <2>1, <2>2, <1>c DEF FailAttempt
  <2>3. CASE ~(outcome[d] = "transient" /\ attempt[d] < max_attempts)
    BY <1>8, <2>1, <2>3, <1>b DEF FailAttempt, Return
  <2>. QED
    BY <2>2, <2>3
<1>9. ASSUME NEW d \in Drivers, Crash(d) PROVE Effects!GiveUp(d)
  <2>1. UNCHANGED <<applied, step>>
    BY <1>9 DEF Crash, Ledger!Crash, ledger
  <2>. QED
    BY <1>9, <2>1, <1>b DEF Crash, Return
<1>10. ASSUME NEW d \in Drivers, EscapeLedger(d) PROVE Effects!GiveUp(d)
  BY <1>10, <1>b DEF EscapeLedger, Escape, Return, ledger
<1>11. ASSUME NEW d \in Drivers, DatabaseRaises(d)
       PROVE  Effects!GiveUp(d) \/ UNCHANGED <<landed, serving, done>>
  <2>1. CASE Ledger!StoreRaises(d) /\ UNCHANGED locals
    BY <2>1 DEF Ledger!StoreRaises, locals
  <2>2. CASE Escape(d) /\ at[d] # "idle"
    BY <2>2, <1>b DEF Escape, Return, ledger
  <2>. QED
    BY <1>11, <2>1, <2>2 DEF DatabaseRaises
<1>. QED
  BY <1>0, <1>1, <1>2, <1>3, <1>4, <1>5, <1>6, <1>7, <1>8, <1>9, <1>10, <1>11
  DEF Next, Step, Effects!Next

\* The executor implements the contract the workflow is built on: an effect
\* lands only while a call for it is in service, and execute returns a receipt
\* only for an effect that has landed, whatever is retried and whoever dies.
THEOREM ExecutorServesEffects == Spec => ServesEffects
<1>1. Init => Effects!Init
  BY DEF Init, Ledger!Init, Effects!Init
<1>. QED
  BY <1>1, EffectsStep, ExecInvariant, PTL DEF Spec, ServesEffects, Effects!Spec

-----------------------------------------------------------------------------
(* Counting *)

\* The drivers that are about to call the ledger, that are about to write the
\* count, that have passed the budget check and not yet counted, and that have
\* an open row.
Calling  == {d \in Drivers : at[d] = "call"}
Bumping  == {d \in Drivers : at[d] = "bump"}
Admitted == {d \in Drivers : at[d] \in {"start", "bump"}}
Opened   == {d \in Drivers : at[d] \in Tracing}

\* Only driver d moves.
Moves(d) == \A e \in Drivers \ {d} : at'[e] = at[e]

\* A driver that moves from one position to another changes each of the four
\* counts by its own share.
LEMMA CountPositions ==
  ASSUME NEW d \in Drivers, Moves(d)
  PROVE  /\ Cardinality(Calling') = Cardinality(Calling)
              - (IF at[d] = "call" THEN 1 ELSE 0) + (IF at'[d] = "call" THEN 1 ELSE 0)
         /\ Cardinality(Bumping') = Cardinality(Bumping)
              - (IF at[d] = "bump" THEN 1 ELSE 0) + (IF at'[d] = "bump" THEN 1 ELSE 0)
         /\ Cardinality(Admitted') = Cardinality(Admitted)
              - (IF at[d] \in {"start", "bump"} THEN 1 ELSE 0)
              + (IF at'[d] \in {"start", "bump"} THEN 1 ELSE 0)
         /\ Cardinality(Opened') = Cardinality(Opened)
              - (IF at[d] \in Tracing THEN 1 ELSE 0) + (IF at'[d] \in Tracing THEN 1 ELSE 0)
<1>0. IsFiniteSet(Calling) /\ IsFiniteSet(Bumping) /\ IsFiniteSet(Admitted) /\ IsFiniteSet(Opened)
  <2>1. /\ Calling \in SUBSET Drivers /\ Bumping \in SUBSET Drivers
        /\ Admitted \in SUBSET Drivers /\ Opened \in SUBSET Drivers
    BY DEF Calling, Bumping, Admitted, Opened
  <2>. QED
    BY <2>1, ExecutorDriversAssumption, CountSubset
<1>1. Cardinality(Calling') = Cardinality(Calling) - Share(d, Calling) + Share(d, Calling')
  <2>1. Calling \ {d} = Calling' \ {d}
    BY DEF Calling, Moves
  <2>. QED
    BY <1>0, <2>1, CountMove
<1>2. Cardinality(Bumping') = Cardinality(Bumping) - Share(d, Bumping) + Share(d, Bumping')
  <2>1. Bumping \ {d} = Bumping' \ {d}
    BY DEF Bumping, Moves
  <2>. QED
    BY <1>0, <2>1, CountMove
<1>3. Cardinality(Admitted') = Cardinality(Admitted) - Share(d, Admitted) + Share(d, Admitted')
  <2>1. Admitted \ {d} = Admitted' \ {d}
    BY DEF Admitted, Moves
  <2>. QED
    BY <1>0, <2>1, CountMove
<1>4. Cardinality(Opened') = Cardinality(Opened) - Share(d, Opened) + Share(d, Opened')
  <2>1. Opened \ {d} = Opened' \ {d}
    BY DEF Opened, Moves
  <2>. QED
    BY <1>0, <2>1, CountMove
<1>5. /\ (d \in Calling <=> at[d] = "call") /\ (d \in Calling' <=> at'[d] = "call")
      /\ (d \in Bumping <=> at[d] = "bump") /\ (d \in Bumping' <=> at'[d] = "bump")
      /\ (d \in Admitted <=> at[d] \in {"start", "bump"})
      /\ (d \in Admitted' <=> at'[d] \in {"start", "bump"})
      /\ (d \in Opened <=> at[d] \in Tracing) /\ (d \in Opened' <=> at'[d] \in Tracing)
  BY DEF Calling, Bumping, Admitted, Opened
<1>. QED
  BY <1>1, <1>2, <1>3, <1>4, <1>5 DEF Share

\* The rows of the trace, as pairs.
LEMMA RowPairs ==
    /\ \A r : r \in AllRows <=> \E k \in Keys : \E i \in DOMAIN trace[k] : r = <<k, i>>
    /\ \A r : r \in AllRows' <=> \E k \in Keys : \E i \in DOMAIN trace'[k] : r = <<k, i>>
  BY DEF AllRows, Rows

\* Opening a row adds one to the rows and to the open ones.
LEMMA OpenCounts ==
  ASSUME TypeOK, IsFiniteSet(AllRows), NEW d \in Drivers, NEW p, start_attempt(d, p)
  PROVE  /\ IsFiniteSet(AllRows') /\ Cardinality(AllRows) \in Nat
         /\ Cardinality(AllRows') = Cardinality(AllRows) + 1
         /\ Cardinality(OpenRows) \in Nat
         /\ Cardinality(OpenRows') = Cardinality(OpenRows) + 1
<1> DEFINE k == step[d]
           new == Len(trace[k]) + 1
           r == <<k, new>>
<1>1. /\ k \in Keys /\ new \notin DOMAIN trace[k]
      /\ DOMAIN trace'[k] = DOMAIN trace[k] \cup {new}
      /\ trace'[k][new] = RUNNING
      /\ \A i \in DOMAIN trace[k] : trace'[k][i] = trace[k][i]
      /\ \A l \in Keys \ {k} : trace'[l] = trace[l]
  BY OpenRow DEF TypeOK
<1> HIDE DEF new, k
<1>2. AllRows' = AllRows \cup {r} /\ r \notin AllRows
  BY <1>1, RowPairs
<1>3. ASSUME NEW q \in AllRows
      PROVE  trace'[q[1]][q[2]] = trace[q[1]][q[2]]
  BY <1>1, <1>3, RowPairs
<1>4. OpenRows' = OpenRows \cup {r} /\ r \notin OpenRows
  <2>1. trace'[r[1]][r[2]] = RUNNING
    BY <1>1
  <2>. QED
    BY <1>2, <1>3, <2>1 DEF OpenRows
<1>5. IsFiniteSet(OpenRows)
  BY CountSubset DEF OpenRows
<1>. QED
  BY <1>2, <1>4, <1>5, FS_AddElement, FS_CardinalityType

\* Closing an open row takes one from the open rows.
LEMMA CloseCounts ==
  ASSUME TypeOK, IsFiniteSet(AllRows), NEW d \in Drivers, NEW target \in {COMPLETED, FAILED},
         mine[d] \in DOMAIN trace[step[d]], trace[step[d]][mine[d]] = RUNNING,
         _close_attempt(d, target)
  PROVE  /\ AllRows' = AllRows
         /\ Cardinality(OpenRows) \in Nat
         /\ Cardinality(OpenRows') = Cardinality(OpenRows) - 1
<1> DEFINE k == step[d]
           m == mine[d]
           r == <<k, m>>
<1>0. target \in StepStatus /\ target # RUNNING
  BY DEF StepStatus, COMPLETED, FAILED, RUNNING
<1>1. /\ k \in Keys /\ m \in DOMAIN trace[k]
      /\ DOMAIN trace'[k] = DOMAIN trace[k]
      /\ trace'[k][m] = target
      /\ \A i \in DOMAIN trace[k] \ {m} : trace'[k][i] = trace[k][i]
      /\ \A l \in Keys \ {k} : trace'[l] = trace[l]
  BY <1>0, CloseRow DEF TypeOK
<1>a. trace[k][m] = RUNNING
  OBVIOUS
<1> HIDE DEF k, m
<1>2. AllRows' = AllRows /\ r \in AllRows
  BY <1>1, RowPairs
<1>3. ASSUME NEW q \in AllRows, q # r
      PROVE  trace'[q[1]][q[2]] = trace[q[1]][q[2]]
  BY <1>1, <1>3, RowPairs
<1>4. OpenRows' = OpenRows \ {r} /\ r \in OpenRows
  BY <1>0, <1>1, <1>2, <1>3, <1>a DEF OpenRows
<1>5. IsFiniteSet(OpenRows)
  BY CountSubset DEF OpenRows
<1>. QED
  BY <1>2, <1>4, <1>5, FS_RemoveElement, FS_CardinalityType

\* The inductive invariant behind the limits.  A call that is about to be
\* made has been counted, a count that is about to be written has its row, a
\* driver that passed the budget check holds one of the counts still free, and
\* every open row has a driver, a death or an escaped exception to answer for it.
CountInv ==
    /\ ExecInv
    /\ IsFiniteSet(AllRows)
    /\ calls + Cardinality(Calling) <= tool_call_count
    /\ tool_call_count + Cardinality(Bumping) <= Cardinality(AllRows)
    /\ tool_call_count + Cardinality(Admitted) < max_tool_calls + Cardinality(Drivers)
    /\ Cardinality(OpenRows) <= crashes + escapes + Cardinality(Opened)

\* The counts are natural numbers.
LEMMA CountTypes ==
  ASSUME CountInv
  PROVE  /\ Cardinality(Calling) \in Nat /\ Cardinality(Bumping) \in Nat
         /\ Cardinality(Admitted) \in Nat /\ Cardinality(Opened) \in Nat
         /\ Cardinality(AllRows) \in Nat /\ Cardinality(OpenRows) \in Nat
         /\ Cardinality(Drivers) \in Nat /\ calls \in Nat /\ tool_call_count \in Nat
         /\ crashes \in Nat /\ escapes \in Nat /\ max_tool_calls \in Nat
<1>1. OpenRows \in SUBSET AllRows
  BY DEF OpenRows
<1>2. /\ Calling \in SUBSET Drivers /\ Bumping \in SUBSET Drivers
      /\ Admitted \in SUBSET Drivers /\ Opened \in SUBSET Drivers
  BY DEF Calling, Bumping, Admitted, Opened
<1>3. IsFiniteSet(AllRows) /\ IsFiniteSet(Drivers)
  BY ExecutorDriversAssumption DEF CountInv
<1>4. Cardinality(AllRows) \in Nat /\ Cardinality(OpenRows) \in Nat /\ Cardinality(Drivers) \in Nat
  BY <1>1, <1>3, CountSubset
<1>5. /\ Cardinality(Calling) \in Nat /\ Cardinality(Bumping) \in Nat
      /\ Cardinality(Admitted) \in Nat /\ Cardinality(Opened) \in Nat
  BY <1>2, <1>3, CountSubset
<1>. QED
  BY <1>4, <1>5, BudgetAssumption DEF CountInv, ExecInv, TypeOK, Ledger!TypeOK

\* Every step keeps CountInv.
LEMMA CountStep == CountInv /\ [Next]_vars => CountInv'
<1> SUFFICES ASSUME CountInv, [Next]_vars PROVE CountInv'
  OBVIOUS
<1>0. ExecInv' /\ TypeOK /\ \A d \in Drivers : Own(d)
  BY ExecStep DEF CountInv, ExecInv
<1>t. /\ Cardinality(Calling) \in Nat /\ Cardinality(Bumping) \in Nat
      /\ Cardinality(Admitted) \in Nat /\ Cardinality(Opened) \in Nat
      /\ Cardinality(AllRows) \in Nat /\ Cardinality(OpenRows) \in Nat
      /\ Cardinality(Drivers) \in Nat /\ calls \in Nat /\ tool_call_count \in Nat
      /\ crashes \in Nat /\ escapes \in Nat /\ max_tool_calls \in Nat
  BY CountTypes
<1> USE <1>0, <1>t
<1>r. ASSUME UNCHANGED trace PROVE AllRows' = AllRows /\ OpenRows' = OpenRows
  BY <1>r DEF AllRows, OpenRows, Rows
<1>1. CASE UNCHANGED vars
  <2>1. UNCHANGED <<trace, at, calls, tool_call_count, crashes, escapes>>
    BY <1>1 DEF vars, ledger, locals
  <2>2. UNCHANGED <<Calling, Bumping, Admitted, Opened>>
    BY <2>1 DEF Calling, Bumping, Admitted, Opened
  <2>. QED
    BY <2>1, <2>2, <1>r DEF CountInv
<1>2. ASSUME NEW d \in Drivers, NEW k \in Keys, execute(d, k) PROVE CountInv'
  <2>1. /\ at[d] = "idle" /\ at'[d] = "check" /\ Moves(d)
        /\ UNCHANGED <<trace, calls, tool_call_count, crashes, escapes>>
    BY <1>2 DEF execute, ledger, TypeOK, Moves
  <2>. QED
    BY <2>1, <1>r, CountPositions DEF CountInv, Tracing
<1>3. ASSUME NEW d \in Drivers, _check_budget(d) PROVE CountInv'
  <2>1. /\ at[d] = "check" /\ UNCHANGED <<trace, calls, tool_call_count, crashes, escapes>>
        /\ at'[d] = IF tool_call_count >= max_tool_calls THEN "refuse" ELSE "start"
        /\ Moves(d)
    BY <1>3 DEF _check_budget, ledger, TypeOK, Moves
  <2>2. CASE tool_call_count >= max_tool_calls
    <3>1. at'[d] = "refuse"
      BY <2>1, <2>2
    <3>. QED
      BY <2>1, <3>1, <1>r, CountPositions DEF CountInv, Tracing
  <2>3. CASE tool_call_count < max_tool_calls
    <3>1. at'[d] = "start"
      BY <2>1, <2>3
    <3>2. Cardinality(Admitted) < Cardinality(Drivers)
      <4>1. Admitted \in SUBSET Drivers /\ d \notin Admitted
        BY <2>1 DEF Admitted
      <4>. QED
        BY <4>1, CountProperSubset, ExecutorDriversAssumption
    <3>. QED
      BY <2>1, <2>3, <3>1, <3>2, <1>r, CountPositions DEF CountInv, Tracing
  <2>. QED
    BY <2>2, <2>3
<1>4. ASSUME NEW d \in Drivers, at[d] = "refuse", start_attempt(d, "refused"),
             UNCHANGED <<calls, tool_call_count, crashes, escapes>>
      PROVE  CountInv'
  <2>1. at'[d] = "refused" /\ Moves(d)
    BY <1>4 DEF start_attempt, TypeOK, Moves
  <2>2. /\ IsFiniteSet(AllRows') /\ Cardinality(AllRows') = Cardinality(AllRows) + 1
        /\ Cardinality(OpenRows') = Cardinality(OpenRows) + 1
    BY <1>4, OpenCounts DEF CountInv
  <2>. QED
    BY <1>4, <2>1, <2>2, CountPositions DEF CountInv, Tracing
<1>5. ASSUME NEW d \in Drivers, StartAttempt(d) PROVE CountInv'
  <2>1. /\ at[d] = "start" /\ at'[d] = "bump" /\ Moves(d) /\ start_attempt(d, "bump")
        /\ UNCHANGED <<calls, tool_call_count, crashes, escapes>>
    BY <1>5 DEF StartAttempt, start_attempt, ledger, TypeOK, Moves
  <2>2. /\ IsFiniteSet(AllRows') /\ Cardinality(AllRows') = Cardinality(AllRows) + 1
        /\ Cardinality(OpenRows') = Cardinality(OpenRows) + 1
    BY <2>1, OpenCounts DEF CountInv
  <2>. QED
    BY <2>1, <2>2, CountPositions DEF CountInv, Tracing
<1>6. ASSUME NEW d \in Drivers, Bump(d) PROVE CountInv'
  <2>1. /\ at[d] = "bump" /\ at'[d] = "call" /\ Moves(d)
        /\ tool_call_count' = tool_call_count + 1
        /\ UNCHANGED <<trace, calls, crashes, escapes>>
    BY <1>6 DEF Bump, ledger, TypeOK, Moves
  <2>. QED
    BY <2>1, <1>r, CountPositions DEF CountInv, Tracing
<1>7. ASSUME NEW d \in Drivers, CallLedger(d) PROVE CountInv'
  <2>1. /\ at[d] = "call" /\ at'[d] = "ledger" /\ Moves(d) /\ calls' = calls + 1
        /\ UNCHANGED <<trace, tool_call_count, crashes, escapes>>
    BY <1>7 DEF CallLedger, Ledger!RunOnce, TypeOK, Moves
  <2>. QED
    BY <2>1, <1>r, CountPositions DEF CountInv, Tracing
<1>8. ASSUME NEW d \in Drivers, InLedger(d) PROVE CountInv'
  <2>1. UNCHANGED <<trace, at, calls, tool_call_count, crashes, escapes>>
    BY <1>8, LedgerFrame DEF InLedger, locals, TypeOK
  <2>2. UNCHANGED <<Calling, Bumping, Admitted, Opened>>
    BY <2>1 DEF Calling, Bumping, Admitted, Opened
  <2>. QED
    BY <2>1, <2>2, <1>r DEF CountInv
<1>9. ASSUME NEW d \in Drivers, at[d] \in {"refused", "ledger"},
             at'[d] \in {"idle", "check"}, Moves(d),
             NEW t \in {COMPLETED, FAILED}, _close_attempt(d, t),
             UNCHANGED <<calls, tool_call_count, crashes>>, escapes' \in {escapes, escapes + 1}
      PROVE  CountInv'
  <2>1. AllRows' = AllRows /\ Cardinality(OpenRows') = Cardinality(OpenRows) - 1
    BY <1>9, CloseCounts DEF CountInv, Own, Tracing
  <2>. QED
    BY <1>9, <2>1, CountPositions DEF CountInv, Tracing
<1>10. ASSUME NEW d \in Drivers, _trace_refusal(d) PROVE CountInv'
  <2>1. CASE at[d] = "refuse"
    BY <1>4, <1>10, <2>1 DEF _trace_refusal, ledger
  <2>2. CASE at[d] = "refused"
    <3>1. /\ at'[d] = "idle" /\ Moves(d) /\ _close_attempt(d, FAILED)
          /\ UNCHANGED <<calls, tool_call_count, crashes, escapes>>
      BY <1>10, <2>2 DEF _trace_refusal, Return, ledger, TypeOK, Moves
    <3>. QED
      BY <1>9, <2>2, <3>1
  <2>. QED
    BY <1>10, <2>1, <2>2 DEF _trace_refusal
<1>11. ASSUME NEW d \in Drivers, CompleteAttempt(d) \/ FailAttempt(d) PROVE CountInv'
  <2>1. /\ at[d] = "ledger" /\ UNCHANGED <<calls, tool_call_count, crashes, escapes>>
        /\ \E t \in {COMPLETED, FAILED} : _close_attempt(d, t)
    BY <1>11 DEF CompleteAttempt, FailAttempt, ledger
  <2>2. at'[d] \in {"idle", "check"} /\ Moves(d)
    BY <1>11 DEF CompleteAttempt, FailAttempt, Return, TypeOK, Moves
  <2>. QED
    BY <1>9, <2>1, <2>2
<1>12. ASSUME NEW d \in Drivers, Crash(d) PROVE CountInv'
  <2>1. /\ at'[d] = "idle" /\ Moves(d) /\ crashes' = crashes + 1
        /\ UNCHANGED <<trace, calls, tool_call_count, escapes>>
    BY <1>12 DEF Crash, Return, Ledger!Crash, ledger, TypeOK, Moves
  <2>. QED
    BY <2>1, <1>r, CountPositions DEF CountInv, Tracing
<1>13. ASSUME NEW d \in Drivers, Escape(d), UNCHANGED trace PROVE CountInv'
  <2>1. /\ at'[d] = "idle" /\ Moves(d) /\ escapes' = escapes + 1
        /\ UNCHANGED <<calls, tool_call_count, crashes>>
    BY <1>13 DEF Escape, Return, ledger, TypeOK, Moves
  <2>. QED
    BY <1>13, <2>1, <1>r, CountPositions DEF CountInv, Tracing
<1>14. ASSUME NEW d \in Drivers, DatabaseRaises(d) PROVE CountInv'
  <2>1. CASE /\ Ledger!StoreRaises(d)
             /\ UNCHANGED <<tool_call_count, trace, locals, crashes, escapes>>
    <3>1. UNCHANGED <<trace, at, calls, tool_call_count, crashes, escapes>>
      BY <2>1, LedgerFrame DEF locals, TypeOK
    <3>2. UNCHANGED <<Calling, Bumping, Admitted, Opened>>
      BY <3>1 DEF Calling, Bumping, Admitted, Opened
    <3>. QED
      BY <3>1, <3>2, <1>r DEF CountInv
  <2>2. CASE Escape(d) /\ UNCHANGED trace
    BY <1>13, <2>2
  <2>3. CASE /\ Escape(d) /\ at[d] \in {"refused", "ledger"}
             /\ \E t \in {COMPLETED, FAILED} : _close_attempt(d, t)
    <3>1. /\ at'[d] = "idle" /\ Moves(d) /\ escapes' = escapes + 1
          /\ UNCHANGED <<calls, tool_call_count, crashes>>
      BY <2>3 DEF Escape, Return, ledger, TypeOK, Moves
    <3>. QED
      BY <1>9, <2>3, <3>1
  <2>. QED
    BY <1>14, <2>1, <2>2, <2>3 DEF DatabaseRaises
<1>. QED
  BY <1>1, <1>2, <1>3, <1>5, <1>6, <1>7, <1>8, <1>10, <1>11, <1>12, <1>13, <1>14
  DEF Next, Step, EscapeLedger

\* CountInv holds in every state of every behaviour.
LEMMA CountInvariant == Spec => []CountInv
<1>1. Init /\ ExecInv => CountInv
  <2> SUFFICES ASSUME Init, ExecInv PROVE CountInv
    OBVIOUS
  <2>1. AllRows = {}
    BY DEF Init, AllRows, Rows
  <2>2. OpenRows = {}
    BY <2>1 DEF OpenRows
  <2>4. Calling = {} /\ Bumping = {} /\ Admitted = {} /\ Opened = {}
    BY DEF Init, Calling, Bumping, Admitted, Opened, Tracing
  <2>5. Cardinality(Drivers) \in Nat /\ Cardinality(Drivers) # 0
    BY ExecutorDriversAssumption, FS_CardinalityType, FS_EmptySet
  <2>. QED
    BY <2>1, <2>2, <2>4, <2>5, FS_EmptySet, BudgetAssumption DEF Init, Ledger!Init, CountInv
<1>. QED
  BY <1>1, CountStep, ExecInvariant, PTL DEF Spec

\* No more calls of the ledger than counts, no more counts than rows, however
\* many processes die between the three writes.
THEOREM NothingUncounted == Spec => []CallsAreCounted
<1>1. CountInv => CallsAreCounted
  BY CountTypes DEF CountInv, CallsAreCounted
<1>. QED
  BY <1>1, CountInvariant, PTL

\* Drivers that check the allowance together overrun it by at most one call
\* for each driver but one, whatever the number of retries and crashes.
THEOREM ToolBudgetHolds == Spec => []ToolBudget
<1>1. CountInv => ToolBudget
  BY CountTypes DEF CountInv, ToolBudget
<1>. QED
  BY <1>1, CountInvariant, PTL

\* A row left RUNNING has a driver at work, a death or an exception execute has
\* no clause for to answer for it: every way out of an attempt that the code
\* names closes the row, for any number of drivers, retries and refusals.
THEOREM OpenRowsHaveOwners == Spec => []OpenRowsAccounted
<1>1. CountInv => OpenRowsAccounted
  BY DEF CountInv, OpenRowsAccounted, Opened
<1>. QED
  BY <1>1, CountInvariant, PTL

\* A driver that is about to call run_once can: the bound that the executor
\* gives the ledger's history of calls is never what stops it.
BoundNeverBinds ==
    \A d \in Drivers :
        at[d] = "call" => pc[d] = "idle" /\ calls < max_tool_calls + Cardinality(Drivers)

\* The ledger inside the executor is not cut short by its bound: with the
\* budget around it, no behaviour of run_once is left out.
THEOREM LedgerIsUnbounded == Spec => []BoundNeverBinds
<1>1. CountInv => BoundNeverBinds
  <2> SUFFICES ASSUME CountInv, NEW d \in Drivers, at[d] = "call"
               PROVE  pc[d] = "idle" /\ calls < max_tool_calls + Cardinality(Drivers)
    BY DEF BoundNeverBinds
  <2>1. pc[d] = "idle"
    BY DEF CountInv, ExecInv, Own
  <2>2. Calling \in SUBSET Drivers /\ Calling # {}
    BY DEF Calling
  <2>3. Cardinality(Calling) # 0
    BY <2>2, CountSubset, ExecutorDriversAssumption, FS_EmptySet
  <2>. QED
    BY <2>1, <2>3, CountTypes DEF CountInv
<1>. QED
  BY <1>1, CountInvariant, PTL

-----------------------------------------------------------------------------
(* The ledger's promises, kept through the executor *)

\* run_once inside execute, any number of requests, each retrying within its
\* policy: an effect that landed has a row past reserved, and a completed row
\* or a call reported done stands for an effect that landed.
THEOREM LedgerPromisesHold ==
    Spec => [](Proved!WriteAhead /\ Proved!CompletedMeansLanded /\ Proved!SuccessMeansLanded)
<1>1. ExecInv => Proved!WriteAhead /\ Proved!CompletedMeansLanded /\ Proved!SuccessMeansLanded
  BY DEF ExecInv, Proved!LedgerInv
<1>. QED
  BY <1>1, ExecInvariant, PTL

\* No two requests are ever in execution together.
OneDriver == \A d, e \in Drivers : d = e

\* The at-most-once contract of execute: served one request at a time, through
\* every retry, refusal, exhausted budget and crash, each step changes the world
\* at most once and reports it performed at most once, whether or not its
\* provider can be asked; and a row is failed only if nothing was applied.
THEOREM EffectsAtMostOnce ==
  ASSUME OneDriver
  PROVE  Spec => [](/\ Proved!AtMostOnce
                    /\ Proved!PerformedAtMostOnce
                    /\ Proved!FailedMeansNotApplied)
<1>1. Init => Proved!SerialInv
  <2>1. Proved!Init => Proved!SerialInv
    BY LedgerConstants, Proved!SerialInit
  <2>. QED
    BY <2>1, SameLedger DEF Init
<1>2. ExecInv /\ Proved!SerialInv /\ [Next]_vars => Proved!SerialInv'
  <2>1. Proved!OneDriver
    BY OneDriver DEF OneDriver, Proved!OneDriver
  <2>2. Proved!SerialInv /\ [Proved!Next]_Proved!vars => Proved!SerialInv'
    BY <2>1, LedgerConstants, Proved!SerialStep
  <2>3. ExecInv /\ [Next]_vars => [Ledger!Next]_ledger
    BY LedgerRefines DEF ExecInv
  <2>4. [Ledger!Next]_ledger => [Proved!Next]_Proved!vars
    BY SameLedger DEF ledger, Proved!vars
  <2>. QED
    BY <2>2, <2>3, <2>4
<1>3. Proved!SerialInv => /\ Proved!AtMostOnce
                          /\ Proved!PerformedAtMostOnce
                          /\ Proved!FailedMeansNotApplied
  BY DEF Proved!SerialInv, Proved!PerformedAtMostOnce
<1>. QED
  BY <1>1, <1>2, <1>3, ExecInvariant, PTL DEF Spec
=============================================================================
