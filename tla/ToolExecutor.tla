---------------------------- MODULE ToolExecutor ----------------------------
(***************************************************************************)
(* ToolExecutor.execute (tools/executor.py) around the ledger: the tool    *)
(* budget, the retries of transient failures and the row of step_trace     *)
(* that every attempt opens and closes.  A call of the ledger runs through *)
(* the actions of SideEffectLedger, whose variables are shared.            *)
(*                                                                         *)
(* The allowlists of the nodes name the tool each node asks for, so the    *)
(* registry never refuses here, and every tool is side-effecting: the HR   *)
(* directory differs only in skipping the ledger.                          *)
(***************************************************************************)
EXTENDS RunStates, FiniteSets, Sequences

CONSTANTS
    Drivers, Keys, Queryable, Flaky,  \* as in SideEffectLedger
    max_tool_calls,   \* runs.max_tool_calls: the tool-call allowance of the run
    max_attempts,     \* RetryPolicy.max_attempts
    MaxExecutions     \* bound: calls of execute in a behaviour

ASSUME BudgetAssumption == /\ max_tool_calls \in Nat
                           /\ max_attempts \in Nat \ {0}
                           /\ MaxExecutions \in Nat
ASSUME ExecutorDriversAssumption == IsFiniteSet(Drivers) /\ Drivers # {}
ASSUME ExecutorKeysAssumption == /\ Flaky \subseteq Queryable /\ Queryable \subseteq Keys
                                 /\ "none" \notin Keys

VARIABLES
    row, applied, pc, key, outcome, performed, calls,  \* the ledger's
    tool_call_count,  \* runs.tool_call_count
    trace,            \* status of each attempt row of each key's step
    step,             \* the step, hence the key, each driver executes
    at,               \* where each driver is in execute
    attempt,          \* attempt_number of each driver's retry loop
    mine,             \* the trace row of each driver's attempt (0: none)
    result,           \* how each driver's execute ended
    executions,       \* history: calls of execute
    crashes,          \* history: process deaths
    escapes           \* history: exceptions execute has no clause for

ledger == <<row, applied, pc, key, outcome, performed, calls>>
locals == <<step, at, attempt, mine, result>>
vars   == <<ledger, tool_call_count, trace, locals, executions, crashes, escapes>>

\* The budget bounds the calls of run_once, so the ledger needs no bound.
Ledger == INSTANCE SideEffectLedger
            WITH MaxCalls <- max_tool_calls + Cardinality(Drivers)

Position == {"idle", "check", "refuse", "refused", "start", "bump", "call", "ledger"}

\* Positions at which a driver has an open row in the trace.
Tracing == {"refused", "bump", "call", "ledger"}

Result == {"none", "ok", "budget_exceeded"} \cup Ledger!RaisedOutcome

\* What run_once returns, and what it raises that an except clause names.
Succeeded == Ledger!PerformedOutcome \cup Ledger!ReplayedOutcome
Caught    == Ledger!RaisedOutcome \ {"error"}

TypeOK ==
    /\ Ledger!TypeOK
    /\ tool_call_count \in Nat
    /\ trace \in [Keys -> Seq(StepStatus)]
    /\ step \in [Drivers -> Keys]
    /\ at \in [Drivers -> Position]
    /\ attempt \in [Drivers -> 1 .. max_attempts]
    /\ mine \in [Drivers -> Nat]
    /\ result \in [Drivers -> Result]
    /\ executions \in Nat
    /\ crashes \in Nat
    /\ escapes \in Nat

Init ==
    /\ Ledger!Init
    /\ tool_call_count = 0
    /\ trace = [k \in Keys |-> <<>>]
    /\ step = key
    /\ at = [d \in Drivers |-> "idle"]
    /\ attempt = [d \in Drivers |-> 1]
    /\ mine = [d \in Drivers |-> 0]
    /\ result = [d \in Drivers |-> "none"]
    /\ executions = 0
    /\ crashes = 0
    /\ escapes = 0

-----------------------------------------------------------------------------
(* TraceRepository: each operation is one BEGIN IMMEDIATE transaction.     *)

\* INSERT the next attempt of the step as RUNNING; the previous attempt's
\* status must permit it.
start_attempt(d, p) ==
    LET rows == trace[step[d]] IN
    /\ IF rows = <<>> THEN TRUE ELSE transition_step(rows[Len(rows)], RUNNING)
    /\ trace' = [trace EXCEPT ![step[d]] = Append(@, RUNNING)]
    /\ mine' = [mine EXCEPT ![d] = Len(rows) + 1]
    /\ at' = [at EXCEPT ![d] = p]

\* Mutant: the row closed is the step's latest, whoever opened it.
CloseLatestAttempt(d, target) ==
    /\ trace' = [trace EXCEPT ![step[d]][Len(trace[step[d]])] = target]
    /\ mine' = [mine EXCEPT ![d] = 0]

\* UPDATE the driver's own row.
_close_attempt(d, target) ==
    /\ transition_step(trace[step[d]][mine[d]], target)
    /\ trace' = [trace EXCEPT ![step[d]][mine[d]] = target]
    /\ mine' = [mine EXCEPT ![d] = 0]

-----------------------------------------------------------------------------
(* ToolExecutor.execute *)

\* execute returns or raises.
Return(d, r) ==
    /\ at' = [at EXCEPT ![d] = "idle"]
    /\ attempt' = [attempt EXCEPT ![d] = 1]
    /\ result' = [result EXCEPT ![d] = r]

\* A node enters execute for its step's effect.
execute(d, k) ==
    /\ at[d] = "idle"
    /\ executions < MaxExecutions
    /\ executions' = executions + 1
    /\ at' = [at EXCEPT ![d] = "check"]
    /\ step' = [step EXCEPT ![d] = k]
    /\ result' = [result EXCEPT ![d] = "none"]
    /\ UNCHANGED <<ledger, tool_call_count, trace, attempt, mine, crashes, escapes>>

\* Mutant: off by one at the allowance.
CheckBudgetOneMore(d) ==
    /\ at[d] = "check"
    /\ at' = [at EXCEPT ![d] =
                IF tool_call_count > max_tool_calls THEN "refuse" ELSE "start"]
    /\ UNCHANGED <<ledger, tool_call_count, trace, step, attempt, mine, result,
                   executions, crashes, escapes>>

\* The count is read here and incremented in Bump, two statements later.
_check_budget(d) ==
    /\ at[d] = "check"
    /\ at' = [at EXCEPT ![d] =
                IF tool_call_count >= max_tool_calls THEN "refuse" ELSE "start"]
    /\ UNCHANGED <<ledger, tool_call_count, trace, step, attempt, mine, result,
                   executions, crashes, escapes>>

\* Mutant: the refusal is swallowed and the attempt begun again.
RefusalRetried(d) ==
    /\ at[d] = "refuse"
    /\ at' = [at EXCEPT ![d] = "check"]
    /\ UNCHANGED <<ledger, tool_call_count, trace, step, attempt, mine, result,
                   executions, crashes, escapes>>

\* A refusal is traced as an attempt that failed.
_trace_refusal(d) ==
    /\ \/ /\ at[d] = "refuse"
          /\ start_attempt(d, "refused")
          /\ UNCHANGED <<attempt, result>>
       \/ /\ at[d] = "refused"
          /\ _close_attempt(d, FAILED)
          /\ Return(d, "budget_exceeded")
    /\ UNCHANGED <<ledger, tool_call_count, step, executions, crashes, escapes>>

StartAttempt(d) ==
    /\ at[d] = "start"
    /\ start_attempt(d, "bump")
    /\ UNCHANGED <<ledger, tool_call_count, step, attempt, result, executions, crashes, escapes>>

\* Mutant: a retry is not counted again.
BumpFirstAttempt(d) ==
    /\ at[d] = "bump"
    /\ tool_call_count' = tool_call_count + (IF attempt[d] = 1 THEN 1 ELSE 0)
    /\ at' = [at EXCEPT ![d] = "call"]
    /\ UNCHANGED <<ledger, trace, step, attempt, mine, result, executions, crashes, escapes>>

Bump(d) ==
    /\ at[d] = "bump"
    /\ tool_call_count' = tool_call_count + 1
    /\ at' = [at EXCEPT ![d] = "call"]
    /\ UNCHANGED <<ledger, trace, step, attempt, mine, result, executions, crashes, escapes>>

\* Mutant: the tool is called around the ledger.
CallToolDirectly(d) ==
    /\ at[d] = "call"
    /\ applied' = [applied EXCEPT ![step[d]] = @ + 1]
    /\ outcome' = [outcome EXCEPT ![d] = "performed"]
    /\ at' = [at EXCEPT ![d] = "ledger"]
    /\ UNCHANGED <<row, pc, key, performed, calls, tool_call_count, trace, step,
                   attempt, mine, result, executions, crashes, escapes>>

CallLedger(d) ==
    /\ at[d] = "call"
    /\ Ledger!RunOnce(d, step[d])
    /\ at' = [at EXCEPT ![d] = "ledger"]
    /\ UNCHANGED <<tool_call_count, trace, step, attempt, mine, result,
                   executions, crashes, escapes>>

InLedger(d) ==
    /\ at[d] = "ledger"
    /\ Ledger!Step(d)
    /\ UNCHANGED <<tool_call_count, trace, locals, executions, crashes, escapes>>

\* Mutant: any answer of the ledger closes the attempt as completed.
CompleteAnyAttempt(d) ==
    /\ at[d] = "ledger" /\ pc[d] = "idle"
    /\ _close_attempt(d, COMPLETED)
    /\ Return(d, "ok")
    /\ UNCHANGED <<ledger, tool_call_count, step, executions, crashes, escapes>>

\* run_once returned an outcome.
CompleteAttempt(d) ==
    /\ at[d] = "ledger" /\ pc[d] = "idle"
    /\ outcome[d] \in Succeeded
    /\ _close_attempt(d, COMPLETED)
    /\ Return(d, "ok")
    /\ UNCHANGED <<ledger, tool_call_count, step, executions, crashes, escapes>>

\* Mutant: the row of an attempt that will be retried stays open.
FailLastAttemptOnly(d) ==
    /\ at[d] = "ledger" /\ pc[d] = "idle"
    /\ outcome[d] \in Caught
    /\ IF outcome[d] = "transient" /\ attempt[d] < max_attempts
       THEN /\ attempt' = [attempt EXCEPT ![d] = @ + 1]
            /\ at' = [at EXCEPT ![d] = "check"]
            /\ UNCHANGED <<trace, mine, result>>
       ELSE _close_attempt(d, FAILED) /\ Return(d, outcome[d])
    /\ UNCHANGED <<ledger, tool_call_count, step, executions, crashes, escapes>>

\* Mutant: off by one at the limit of the policy.
FailRetryingOnceMore(d) ==
    /\ at[d] = "ledger" /\ pc[d] = "idle"
    /\ outcome[d] \in Caught
    /\ _close_attempt(d, FAILED)
    /\ IF outcome[d] = "transient" /\ attempt[d] <= max_attempts
       THEN /\ attempt' = [attempt EXCEPT ![d] = @ + 1]
            /\ at' = [at EXCEPT ![d] = "check"]
            /\ UNCHANGED result
       ELSE Return(d, outcome[d])
    /\ UNCHANGED <<ledger, tool_call_count, step, executions, crashes, escapes>>

\* run_once raised what an except clause names: a transient failure is retried
\* until the policy is exhausted, the others leave execute at once.
FailAttempt(d) ==
    /\ at[d] = "ledger" /\ pc[d] = "idle"
    /\ outcome[d] \in Caught
    /\ _close_attempt(d, FAILED)
    /\ IF outcome[d] = "transient" /\ attempt[d] < max_attempts
       THEN /\ attempt' = [attempt EXCEPT ![d] = @ + 1]
            /\ at' = [at EXCEPT ![d] = "check"]
            /\ UNCHANGED result
       ELSE Return(d, outcome[d])
    /\ UNCHANGED <<ledger, tool_call_count, step, executions, crashes, escapes>>

\* An exception no clause names leaves execute: it is not retried, and the row
\* of the attempt stays as it is.
Escape(d) ==
    /\ Return(d, "error")
    /\ mine' = [mine EXCEPT ![d] = 0]
    /\ escapes' = escapes + 1
    /\ UNCHANGED <<ledger, tool_call_count, step, executions, crashes>>

\* run_once raised such an exception.
EscapeLedger(d) ==
    /\ at[d] = "ledger" /\ pc[d] = "idle" /\ outcome[d] = "error"
    /\ Escape(d)
    /\ UNCHANGED trace

\* A statement of a repository raises, inside the ledger or around it: nothing
\* was written, or it was and the read that follows every write raises.  (That
\* read is made at "refused" and "bump" for start_attempt, at "call" for
\* bump_counters.)
DatabaseRaises(d) ==
    \/ /\ at[d] = "ledger"
       /\ Ledger!StoreRaises(d)
       /\ UNCHANGED <<tool_call_count, trace, locals, executions, crashes, escapes>>
    \/ /\ \/ at[d] \in {"check", "refuse", "refused", "start", "bump", "call"}
          \/ at[d] = "ledger" /\ pc[d] = "idle" /\ outcome[d] \in Succeeded \cup Caught
       /\ Escape(d)
       /\ UNCHANGED trace
    \/ /\ \/ at[d] = "refused" /\ _close_attempt(d, FAILED)
          \/ /\ at[d] = "ledger" /\ pc[d] = "idle"
             /\ \/ outcome[d] \in Succeeded /\ _close_attempt(d, COMPLETED)
                \/ outcome[d] \in Caught /\ _close_attempt(d, FAILED)
       /\ Escape(d)

\* The process dies, inside the ledger or around it.
Crash(d) ==
    /\ at[d] # "idle"
    /\ \/ Ledger!Crash(d)
       \/ pc[d] = "idle" /\ UNCHANGED ledger
    /\ Return(d, "none")
    /\ mine' = [mine EXCEPT ![d] = 0]
    /\ crashes' = crashes + 1
    /\ UNCHANGED <<tool_call_count, trace, step, executions, escapes>>

Step(d) ==
    \/ _check_budget(d) \/ _trace_refusal(d) \/ StartAttempt(d) \/ Bump(d)
    \/ CallLedger(d) \/ InLedger(d) \/ CompleteAttempt(d) \/ FailAttempt(d)
    \/ EscapeLedger(d)

Next ==
    \E d \in Drivers :
        \/ \E k \in Keys : execute(d, k)
        \/ Step(d)
        \/ DatabaseRaises(d)
        \/ Crash(d)

\* A live driver goes on; nothing obliges a database to raise.
Spec == Init /\ [][Next]_vars /\ \A d \in Drivers : WF_vars(Step(d))

-----------------------------------------------------------------------------

Rows(k) == DOMAIN trace[k]

AllRows == UNION {{k} \X Rows(k) : k \in Keys}

OpenRows == {r \in AllRows : trace[r[1]][r[2]] = RUNNING}

\* Nothing reaches the ledger untraced or uncounted: each call of run_once has
\* been counted against the allowance before, and each count has a trace row,
\* also when processes die between the three writes.
CallsAreCounted ==
    calls <= tool_call_count /\ tool_call_count <= Cardinality(AllRows)

\* The allowance is checked and counted in separate statements, so drivers can
\* overrun it together, by at most one call for each driver but one; crashes
\* and retries do not add to it.
ToolBudget == tool_call_count < max_tool_calls + Cardinality(Drivers)

\* A row that reads RUNNING is an attempt some driver is making, or was left by
\* a process death or by an exception execute has no clause for: a success, a
\* replay, a refusal, a retry and the three failures it names, in whatever order
\* drivers and attempts follow each other, all close their own row.
OpenRowsAccounted ==
    Cardinality(OpenRows)
        <= crashes + escapes + Cardinality({d \in Drivers : at[d] \in Tracing})

\* The trace is append-only: no later attempt, of this driver or another,
\* changes a row once it is closed.
ClosedRowsStay ==
    [][\A k \in Keys : \A i \in Rows(k) :
          trace[k][i] # RUNNING => trace'[k][i] = trace[k][i]]_vars

\* execute ends, with a result or an error, unless the process dies: retries
\* stop at the policy's limit or at the allowance, a refusal is not retried, and
\* the loser of a race for a reservation does not try for ever.
ExecuteReturns == \A d \in Drivers : at[d] # "idle" ~> at[d] = "idle"

\* Retries, refusals and crashes around the ledger use it only through
\* run_once: the executor implements the ledger's specification, so that what
\* holds of every ledger behaviour holds here.
UsesLedger == Ledger!Init /\ [][Ledger!Next]_ledger

\* What a node sees of the executor: the effects that have landed, the effect
\* each call in service is for, and the effect a call reported as done.
Effects ==
    INSTANCE EffectService WITH
        None    <- "none",
        landed  <- {k \in Keys : applied[k] > 0},
        serving <- [d \in Drivers |-> IF at[d] = "idle" THEN "none" ELSE step[d]],
        done    <- [d \in Drivers |-> IF result[d] = "ok" THEN step[d] ELSE "none"]

\* The executor keeps the contract the workflow is built on: with the ledger,
\* the budget, the retries and the crashes inside it, an effect lands only
\* while a call for it is in service, and execute returns only if its effect
\* has landed.
ServesEffects == Effects!Spec
=============================================================================
