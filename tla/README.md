# Offboarding orchestrator: a TLA+ verification project

The program offboards an employee through a durable seven-step workflow with
two human gates and three side effects on outside systems. Its promises are
about what survives when processes die, tools fail half-way, and several
requests work on one run. This directory models those parts in TLA+, checks
them with TLC on small instances, and proves the safety properties and the
refinements with TLAPS for every number of requests, keys and crashes.

Paths below are relative to `src/offboarding/` unless they start with `src/`.

## Inventory

| Component | State | Operations | Talks to |
|---|---|---|---|
| Run state machine `domain/run.py` | none (tables) | `transition_run`, `transition_step`, `is_terminal` | repositories |
| Run repository `persistence/runs.py` | table `runs`: status, reasons, `cancel_requested`, counters | `create`, `set_status`, `request_cancel`, `bump_counters` | SQLite, one `BEGIN IMMEDIATE` per write |
| Trace repository `persistence/trace.py` | table `step_trace`: one row per attempt | `start_attempt`, `complete_/fail_/pause_attempt` | written by the executor, the gates and `step_span` |
| Side-effect repository `persistence/side_effects.py` | table `side_effects`: one row per idempotency key | `get`, `try_reserve`, `mark_in_progress/completed/failed` | the ledger |
| Ledger `tools/ledger.py` | none of its own | `run_once`, `_resume_existing`, `_ask_provider` | side-effect repository, providers |
| Executor `tools/executor.py` | none of its own | `execute`: registry, budget, retries, trace | ledger, run and trace repositories |
| Providers and tools `tools/providers.py`, `iam.py`, `documents.py`, `hr_directory.py` | `provider_effects`: what really happened | `call`, `lookup` | the ledger, across a network |
| Nodes and guard `orchestration/nodes.py` | none | `guard` and seven nodes, two of which `interrupt()` | executor, repositories, LangGraph |
| Graph and checkpointer `orchestration/graph.py` | LangGraph's checkpoint per thread | `invoke` | nodes |
| Run service `orchestration/run_service.py` | none | `start_run`, `approve`, `reject`, `submit_signed_document`, `resume_run`, `cancel_run`, `_advance` | graph, run repository |
| Plan providers `llm/` | none | `generate_plan`, `validate_plan` | one node |
| API and CLI `api/main.py`, `cli/main.py` | one service and one connection per process | one route or command per operation | run service |

What is hard here:

- **Crashes.** There is no recovery thread: a run interrupted anywhere is
  continued by an operator's `resume_run`, which re-runs the interrupted node
  from its top. Everything a node did before must be safe to meet again.
- **Effects outside the database.** A provider can apply an effect and the
  answer can be lost, so the ledger's row and the world can disagree for as
  long as it takes to ask the provider, and the provider may not answer.
- **Concurrent requests.** The service keeps nothing in memory and takes no
  lock for the length of an operation. What it checks (status, pause reason,
  counters, ledger row) it reads in one statement and acts on in another.
- **Retries and budgets** that are checked and counted in separate statements.

What makes each component correct is the list of properties under *Runs*;
`PROJECT.json` lists the hazards they answer to, at their lines.

## Modules

**`RunStates`** is the vocabulary of `domain/run.py`. Steps are numbers, so the
order of the workflow is the order of the naturals.

**`SideEffectLedger`** is `run_once`, one action per database statement or
exchange with the provider. `row` is the table, `applied` counts how often the
world really changed under a key, `pc` holds where a driver is and therefore
what it has read and not yet acted on. `ToolCall` and `ToolApply` split the
tool call at the moment the world changes, so that a failure or a death can
fall on either side of it. A call may also raise an exception that is no
`ToolError`, and any statement of the store may raise one, before or after its
write (`StoreRaises`): both leave `run_once` as outcome `error`. Tools come in three kinds: queryable
(`lookup` answers, and the provider deduplicates by key, as the tools of this
repository do), flaky (the same, but `lookup` may raise), and unqueryable (no
`lookup`, no deduplication).

**`ToolExecutor`** puts `execute` around the ledger: the budget check, the trace
row, the counter, the call and the close are separate actions, as they are
separate transactions. Its except clauses name three exceptions; any other, from
the ledger (`EscapeLedger`) or from a repository, `bump_counters` outside the
`try` included (`DatabaseRaises`), leaves `execute` with the row of the attempt
still RUNNING, and `escapes` counts them beside the deaths. It instantiates `SideEffectLedger` on shared variables,
and `UsesLedger` checks that it implements that specification. It follows that
what holds of every behaviour of the ledger holds with retries, refusals and
budget exhaustion around it.

**`EffectService`** is the abstract promise of `execute` to a node, in four
actions: a step asks for its effect, the effect lands at some moment while
somebody is asking, a call that succeeds ends after its effect has landed, and
a call that gives up says nothing. `ServesEffects` checks that `ToolExecutor`,
ledger, retries and crashes included, implements it.

**`RunService`** is the life of one run: the row, the checkpoint, and drivers
that are requests in execution. A request is split wherever the code has a
transaction boundary: `approve` reads and checks (`_resolve_approval`), then
sets RUNNING (`SetRunning`), then enters the graph (`Invoke`). A node is its
guard, its count, its body and its checkpoint. A tool call is the contract of
`EffectService`: the effect lands (`EffectLands`), and later the call ends
(`ExecuteEffect`), with success only if it has landed. An exception that
`_advance` has no clause for (an error of the database, a fault in a tool) goes
through to the caller and leaves the row RUNNING; for the run that is what a
death is, and `Crash` stands for both.

**`TracedRun`** extends `RunService` with what the steps that call no tool
write and carry. The trace: the check-before-create of a pause row, the pause,
the span around a decision and around the planning, each a statement of its own
between which a process may die. The plan: any answer the model may give
(`Answer`: text that does not fit the schema, or any list of systems), parsed
and validated, kept in the driver's state, saved with the checkpoint, shown at
the HR gate and handed to the IAM tool by whichever process resumes the run.
An exception that `_advance` does not map is a death here too (`Die`), except
that `step_span` closes the row on the way if it comes out of a span
(`SpanRaises`). Every action is one of `RunService` with more said about it, or a stutter of it
(theorem `ImplementsRunService`).

**`Connections`** is below the repositories: `BEGIN IMMEDIATE`, SELECT, UPDATE,
`commit()`, `rollback()`, the write lock and `busy_timeout`, for the two shapes
the operations have (`set_status`, a read-modify-write inside `immediate()`, and
`mark_in_progress`, an autocommitted UPDATE followed by a `commit()`). A thread
uses its process's connection, and the threads of the API all use one. This
module says when the others may take a repository operation for one step: when
no two threads share a connection.

**`MC*`** name model values; **`*Proofs`** hold the theorems, and **`Counting`**
the lemmas on cardinalities they share.

External behaviour, modelled from its use: LangGraph writes the checkpoint of a
node synchronously before it enters the next one, keeps the value of
`Command(resume=...)` with the checkpoint until the node that consumes it has
returned, and raises on `invoke(None)` for a thread without a checkpoint. The
first is an assumption about a default: `run_service.py` line 276 passes no
`durability`, and nothing under `src/` says which mode LangGraph then takes. With
checkpoints written in the background, a death could leave a checkpoint behind
the node that has returned, and a decision already acted on could be asked for
again. `RejectedMeansNotRevoked` (and its theorem `RejectionPreventsRevocation`)
rests on the assumption, since such a run could be revoked and then rejected.

## Runs

Ledger (`MCSideEffectLedger`):

- `ledger_restart`: one driver at a time; failures, lost answers, retries and
  crashes. Each key changes the world at most once for every kind of tool
  (`AtMostOnce`), a failed row is clean (`FailedMeansNotApplied`), no more
  calls report `performed` than times the world changed
  (`PerformedMeansChanged`), a tool whose provider
  answers is not called again (`NeverCallsAgain`), completed rows stay
  (`CompletedIsFinal`). Three keys, one of each kind, and five calls, more than
  the attempts a key needs to pass through every row state and be replayed.
- `ledger_concurrent`: two drivers in `run_once`. Write-ahead order, truth of
  reported successes, and termination of the re-entry on a lost reservation.
  `_set_state` writes unconditionally, so a slow driver can take a completed row
  back to *in_progress* or *failed*; `LandedIsReported` says that this is harmless
  to the next call, which still ends in success and never tells the workflow that
  a landed effect failed. Three calls allow a race and a later attempt at what it left.
- `ledger_lookup_raises` (violation): `FailsClosed` with a raising `lookup`.

Executor (`MCToolExecutor`):

- `executor`: two drivers, two steps, retries, a small budget, errors of the
  database and crashes anywhere.
  Calls are traced and counted before they are made (`CallsAreCounted`); the
  budget is overrun by at most one call per extra driver (`ToolBudget`); only a
  death or an exception `execute` has no clause for leaves an open row, one each
  (`OpenRowsAccounted`); closed rows are never rewritten
  (`ClosedRowsStay`); `execute` ends (`ExecuteReturns`); the ledger is only used
  through `run_once` (`UsesLedger`); a node gets what `RunService` assumes
  (`ServesEffects`). Two executions of three attempts each
  exceed the budget of three calls: races on one step, overruns, refusals, an
  exhausted policy and a re-execution after a crash or an error all occur. The
  safety properties are also proved for every number of executions, drivers and
  calls.

Run service (`MCTracedRun` for `run_restart`, `MCRunService` for the others):

- `run_restart`: one request at a time, up to three crashes. A completed run is
  signed, a rejected one was not revoked, the pause reason names the gate the
  thread waits at, no effect lands after a terminal status, and a RUNNING run
  with a checkpoint settles. Whatever the model answers, the systems revoked
  are the employee's (`RevokedIsAccess`) and the list the approver was shown
  (`RevokedAsShown`). Every step passed has a completed attempt
  (`StepsAreTraced`), a run that waits shows its pause (`PauseIsTraced`), and
  only a death, or an exception `_advance` does not map, makes a gate pause twice
  in the trace (`PauseRowsBounded`). The
  allowance of 13 steps exceeds the nine entries of an undisturbed run (the
  gates are entered twice) by one per crash and one more, so neither completion
  nor exhaustion is cut off. Two systems of the employee, one that can be
  invented and plans of up to two items give incomplete, repeated, invented,
  reordered and empty plans.
- `run_concurrent`: two requests at once and a crash. No revocation without
  approval, effects in order, COMPLETED means all three effects, terminal
  statuses are final, at most one effect per other driver after a cancellation,
  and the step allowance is overrun by at most one step per extra driver. Ten
  steps let a run complete and let the allowance be exhausted by two drivers.
- `run_stale_approval`, `run_cancel_race`, `run_killed_at_start`,
  `run_late_cancel` (violations): see *Findings*.

Connections (`MCConnections`):

- `connections`: three threads with a connection each, any statuses, time-outs
  and deaths. A status is written over the one that was read (`ReadIsCurrent`),
  each committed status is a legal move from the one before it
  (`TransitionsLegal`), a mark that has returned stays (`MarkDurable`), and the
  write lock is given back (`LockReleased`). Three threads let one hold the lock
  while another waits and a third times out or marks.
- `shared_connection` (violation): `ReadIsCurrent` with two threads of the API.

`CHECK_DEADLOCK FALSE` except for the connections: calls, executions and crashes are bounded,
and a run that is terminal has nothing left to do.

## Fairness

`WF(Step(d))`: a live process keeps executing its own statements. Nothing is
assumed about requests arriving, and a crash is never obliged to happen or to
stop happening other than by its bound; nor is an error of the database
(`StoreRaises` and `DatabaseRaises` are outside the fair steps). `RunSettles` and `SurvivesAnyCrash`
assume in addition `SF(resume_run)`: the program has no recovery loop, so its
promise to survive a kill is a promise to an operator who does resume; strong
fairness because other requests may take the driver from time to time.
`TracedFairness` says the same of the finer steps of `TracedRun`, and in
`Connections` a live thread executes its next statement.

## Findings

- A stale approval passes the signature gate (`run_stale_approval`): the pause
  reason is checked outside the transaction that moves the status, so a duplicate
  `approve` can answer the signed-document interrupt.
- A cancellation overtaken by an approval cancels a run that goes on working
  (`run_cancel_race`).
- A kill between `set_status(RUNNING)` and the first checkpoint leaves a run no
  operation can finish (`run_killed_at_start`).
- A cancellation flagged after the last guard of a segment is not recorded by
  the call in progress (`run_late_cancel`).
- A `lookup` that raises is taken for "never landed" when the tool is
  queryable (`ledger_lookup_raises`); the deduplication of the provider, not
  the ledger, keeps the effect single.
- Two threads of the API on its one connection (`shared_connection`): the
  `commit()` of one ends the transaction of the other between its read and its
  write, and both move on from the status both have read. `persistence/base.py`
  lines 31-32 exclude just that. `MarkDurable` and `TransitionsLegal` fail in
  the same configuration.

Remarks that have no run. Two live drivers of one key can both report `performed`
for a world that changed once, although `tools/ledger.py` line 78 calls it "True
only when this call actually changed the world": a row a driver has just reserved
is taken for one nobody works on, both call the tool, and the provider gives the
second the receipt of the first. So `PerformedMeansChanged` is checked and proved
for one driver; with two drivers on the constants of `ledger_concurrent` it is
violated. An exception outside the classes `execute` names, or
any error of SQLite, leaves a row of the trace RUNNING, and one that `_advance`
does not map (also `json.loads(None)`, when the model answers without text) leaves
the run RUNNING until it is resumed, though no process has died. An error of the model is raised as transient for "the step's retry
policy" (`llm/gemini.py` line 97), but planning does not go through the executor
and nothing retries it. And `validate_plan` refuses every plan of an employee
without systems, so such a run always fails.

## Proofs

`SideEffectLedgerProofs`, for all `Drivers`, `Keys`, `Queryable`, `Flaky`:

- `TypeCorrect`; then `LedgerInv`, inductive for any number of drivers. It adds
  to the checked invariants what each program position knows: a driver past
  `mark` has a row past *reserved*, and one about to complete or adopt has seen
  the effect land. These facts are stable because rows never return to
  *absent* or *reserved* and `applied` never decreases, so delay cannot falsify them.
  It gives `WriteAheadHolds` and `SuccessIsReal`.
- `SerialInv`, inductive under the hypothesis `OneDriver` (any two drivers are
  equal): the row a driver read is still the row. It gives `AtMostOnceHolds`,
  `FailedRowsAreClean`, `PerformedOnce`, `LandedEffectsAreNotRetried`,
  `CompletedRowsStay`. `PerformedOnce` says both that a call reported as performed
  stands for a change of the world (`PerformedMeansChanged`) and that there is at
  most one for each key. The hypothesis is needed: two drivers can both report it.

`ToolExecutorProofs`, for all finite non-empty sets of drivers, all sets of keys,
budgets and retry policies. It instantiates `SideEffectLedgerProofs` on the
executor's variables, so that the ledger's lemmas are cited, not repeated:

- `ExecInv`: a driver inside `run_once` is at the executor's call, for the
  executor's key; a driver with a trace row open owns it, and no two drivers own
  the same; and the ledger's `LedgerInv`. The ownership is what makes a close hit
  the right row when attempts interleave. It gives `TypeCorrect`,
  `ClosedRowsAreKept` and the two refinements: `ExecutorUsesLedger`, by showing
  that each step is a step of the ledger or leaves its variables alone, and
  `ExecutorServesEffects`, in which `SuccessMeansLanded` of the ledger is what
  makes `Succeed` of `EffectService` legal.
- `CountInv`: the drivers between two of the three writes (trace, count, call)
  are covered by the difference between the counters, and those past the budget
  check by what the allowance leaves for them. It gives `NothingUncounted`,
  `ToolBudgetHolds`, `OpenRowsHaveOwners`, and `LedgerIsUnbounded`: the bound on
  the ledger's history of calls never disables a call, so it cuts nothing off.
- `LedgerPromisesHold`, and under `OneDriver` `EffectsAtMostOnce`: through the
  refinement the executor inherits the ledger's guarantees, up to the headline
  one, that each step changes the world at most once through all retries and
  crashes.

`RunServiceProofs`, for all finite sets of drivers, allowances and crash bounds:

- `TypeCorrect` through `TypeInv`, which adds that a request in execution has a
  row (the transition table has no entry for a run that does not exist).
- `FlowInv`: what a checkpoint, or a driver's position, says about the effects
  behind it and the approval that opened the gate. It is stable because effects
  and accepted decisions only accumulate, whichever driver holds a stale copy.
  It gives `ApprovalGateHolds`, `EffectsLandInOrder`, `CompletionIsReal`.
- `TerminalStatusStays` follows from the transition table and the fact that
  every write of the status validates it in the same transaction.
- `StepCountInv`: the count plus the drivers between guard and count stays below
  the allowance plus the number of drivers, since a driver passes the guard only
  below the allowance. It gives `StepBudgetHolds`.
- `CancelInv`: once the flag is set, each late effect has a driver that was past
  its guard, each such driver accounts for at most one, and the driver that set the flag is
  none of them. It gives `CancelStopsSteps`.

`RunSerialProofs`, for all allowances and crash bounds, under the hypothesis
`OneDriver` (any two drivers are equal), which is what "one request at a time"
means in the code; `run_stale_approval` and `run_cancel_race` refute two of the
four without it:

- `SerialInv` joins what is durable (`RowInv`: no effect ahead of the checkpoint,
  a paused row names the checkpoint's gate, the stored resume value is one that
  step asks for, nothing past the signature gate without a signature) to what a
  request holds in memory (`RequestInv`: in the graph the row is RUNNING and the
  node is the checkpoint's). A crash discards the second and keeps the first,
  which is why the first must stand alone. It gives `CompletionIsSigned`,
  `RejectionPreventsRevocation`, `PauseNamesTheGate` and `TerminalRunsDoNoWork`.

`TracedRunProofs`, for the same and for all sets of systems, accesses, providers
and plan lengths:

- `ImplementsRunService`: every step is a step or a stutter of `RunService`, so
  the safety theorems above hold of the traced run.
- `PlanInv`: past the planning step the durable checklist and every driver's
  copy name the employee's systems. A second planning by another driver or after
  a crash replaces one complete list by another, which is why it is stable. It
  gives `OnlyAccessIsRevoked`.
- `TraceInv`: what the checkpoint or a driver has passed has a completed
  attempt, and a driver about to close a row has one. Completed attempts stay,
  not because rows have owners but because the table of step transitions has no
  closing move out of *completed*. It gives `PassedStepsAreTraced`, and with
  `AddedType` it gives `TracedTypeCorrect`.

`TracedSerialProofs`, for the same, under `OneDriver`:

- `ShownInv` and `ShownTo`: from the moment the HR gate interrupts, the checklist
  shown is the one in the checkpoint, and every decision in flight, stored or in
  memory, is about it. It gives `ShownIsRevoked`.
- `PauseInv` and `PauseSeen`: a run waits only at a gate whose latest row is the
  pause, and a driver closes the latest row. For the number of pauses, a gate that
  may still be given one (not passed, its latest row no pause, the run not
  terminal, no request beyond it) has at most as many as processes have died;
  every other gate has at most one more. A death is the only step that turns a
  gate of the second kind into one of the first, and it pays for it. It gives
  `PausesAreTraced` and `PauseRowsAreFew`.
- `TracedRunIsSerial`: the results of `RunSerialProofs`, of the traced run.

`ConnectionsProofs`, for all sets of threads, under the hypothesis
`OwnConnections` (no two threads share a connection):

- `ConnInv`: the thread inside `immediate()` is the only one with a transaction,
  its view is the database until it writes, and what it is about to commit is
  a legal move. It gives `TypeCorrect` (proved here, in no run), `ReadsAreCurrent`,
  `CommittedMovesAreLegal` and `MarksAreDurable`; `shared_connection` refutes
  the second without the hypothesis.

The only other assumptions are the `ASSUME`s of the modules: finite, non-empty
sets of drivers (a process has finitely many threads; needed to count them),
natural numbers for allowances and bounds, and tools that are flaky only if they
are queryable. TLC evaluates them on every run. The inductive invariants of the
one-request proofs were also checked with TLC on the constants of `run_restart`.

Only model-checked: liveness (`CallReturns`, `LandedIsReported`, `ExecuteReturns`, `RunSettles`,
`LockReleased`), which is outside this prover's reach, and the violations of
*Findings*, which are counterexamples. Every invariant, action property and
refinement of the passing runs has a theorem.

## Not modelled

- LangGraph itself: it is external, with the behaviour listed under *Modules*.
- A whole run over a shared connection. `RunService`, `SideEffectLedger`,
  `ToolExecutor` and `TracedRun` take each repository operation for atomic,
  which `Connections` justifies for separate processes only.
- What HTTP status an exception becomes, and what the command line prints. The
  routes and commands that change a run are the requests of `RunService`.
- The tool registry (a constant table in which every node finds its tool),
  redaction, prompts, backoff times, and the construction of objects.
- `src/scripts/demo.py`, a scripted tour over the service that adds no
  behaviour. Runs share no state, so one run stands for all.

## Plan

Every invariant, action property and refinement that a run checks is proved. What
would extend the development, in order of worth:

1. The two properties of `ToolExecutor` and `RunService` that meet at
   `EffectService` joined in one module: a run whose effect steps are executions,
   instead of the contract between them.
2. What remains true of the findings with several requests at once: a weaker
   form of `NoWorkAfterTerminal` that counts the effects of a stale request, as
   `CancelStopsNextStep` does for the cancellation flag.
3. A lemma that `Connections` with own connections implements atomic repository
   operations, stated as a refinement.
