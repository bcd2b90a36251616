-------------------------- MODULE SideEffectLedger --------------------------
(***************************************************************************)
(* The idempotency ledger of offboarding/tools/ledger.py: the only path    *)
(* from a workflow step to a tool that changes the outside world.          *)
(*                                                                         *)
(* A driver is one thread of control inside SideEffectLedger.run_once (an  *)
(* API worker thread or a CLI process).  Every read or write of the        *)
(* side_effects table and every exchange with the provider is one action,  *)
(* because each is its own committed SQLite statement or network call: a   *)
(* process can die, and another driver can run, between any two of them.   *)
(* The value a driver has read and not yet acted upon is in its program    *)
(* position pc[d].                                                         *)
(*                                                                         *)
(* An idempotency key "{run_id}:{step_name}:{operation}" is an element of  *)
(* Keys: one key stands for one logical effect and excludes the attempt    *)
(* number, so every attempt at the effect uses the same element.           *)
(***************************************************************************)
EXTENDS Naturals

CONSTANTS
    Drivers,      \* threads of control that may be inside run_once
    Keys,         \* idempotency keys, one per logical side effect
    Queryable,    \* keys whose tool is a SideEffectingTool: lookup() answers,
                  \* and the provider honours the key
    Flaky,        \* queryable keys whose lookup() may raise instead of answering
    MaxCalls      \* bound: run_once calls in a behaviour

ASSUME QueryableAssumption == Queryable \subseteq Keys
ASSUME FlakyAssumption == Flaky \subseteq Queryable
ASSUME MaxCallsAssumption == MaxCalls \in Nat

VARIABLES
    row,        \* side_effects.state of each key, "absent" before the INSERT
    applied,    \* how often the outside world was changed under each key
    pc,         \* where each driver is in run_once, "idle" outside it
    key,        \* the key each driver was called with
    outcome,    \* how each driver's last call ended
    performed,  \* history: calls that returned an outcome with performed = True
    calls       \* history: calls of run_once so far

vars == <<row, applied, pc, key, outcome, performed, calls>>

RESERVED    == "reserved"
IN_PROGRESS == "in_progress"
COMPLETED   == "completed"
FAILED      == "failed"

RowState == {"absent", RESERVED, IN_PROGRESS, COMPLETED, FAILED}

\* get, reserve, ask, adopt, mark, call, apply, complete: the statements of
\* run_once in order; raised_*: inside `except Exception`, by exception class.
Position == {"idle", "get", "reserve", "ask", "adopt", "mark", "call", "apply",
             "complete", "raised_transient", "raised_permanent", "raised_other",
             "adopt_raised", "fail"}

\* LedgerOutcome with performed = True, ...
PerformedOutcome == {"performed", "reconciled"}
\* ... with replayed = True (from the ledger, or recovered from the provider) ...
ReplayedOutcome  == {"replayed", "recovered"}
\* ... and the exceptions run_once raises; "error" is any that is neither a
\* TransientToolError, a PermanentToolError nor SideEffectReconciliationRequired:
\* sqlite3.OperationalError of the store, a fault in the code of a tool.
RaisedOutcome    == {"transient", "permanent", "reconciliation_required", "error"}

Outcome == {"none"} \cup PerformedOutcome \cup ReplayedOutcome \cup RaisedOutcome

TypeOK ==
    /\ row \in [Keys -> RowState]
    /\ applied \in [Keys -> Nat]
    /\ pc \in [Drivers -> Position]
    /\ key \in [Drivers -> Keys]
    /\ outcome \in [Drivers -> Outcome]
    /\ performed \in [Keys -> Nat]
    /\ calls \in Nat

Init ==
    /\ row = [k \in Keys |-> "absent"]
    /\ applied = [k \in Keys |-> 0]
    /\ pc = [d \in Drivers |-> "idle"]
    /\ key \in [Drivers -> Keys]
    /\ outcome = [d \in Drivers |-> "none"]
    /\ performed = [k \in Keys |-> 0]
    /\ calls = 0

-----------------------------------------------------------------------------
(* The repository: SideEffectRepository.                                   *)

\* UPDATE ... SET state = s, whatever the row said before.
_set_state(k, s) == row' = [row EXCEPT ![k] = s]

\* Mutant: a state no reader of the table knows.
MarkFailedUnknownState(k) == _set_state(k, "error")

mark_in_progress(k) == _set_state(k, IN_PROGRESS)
mark_completed(k)   == _set_state(k, COMPLETED)
mark_failed(k)      == _set_state(k, FAILED)

-----------------------------------------------------------------------------
(* The provider: what the ledger can learn and cause across the network.   *)

\* The results _ask_provider can return: whether the effect landed, or None
\* when the tool has no lookup() or its lookup() raises.
_ask_provider(k) ==
    {landed \in BOOLEAN :
        \/ k \in Queryable /\ landed = (applied[k] > 0)
        \/ k \notin Queryable \ Flaky /\ ~landed}

\* ProviderStore.record: INSERT OR IGNORE, so a provider that honours the key
\* applies it once; one that cannot be queried applies every call it gets.
record(k) ==
    IF k \in Queryable /\ applied[k] > 0
    THEN UNCHANGED applied
    ELSE applied' = [applied EXCEPT ![k] = @ + 1]

-----------------------------------------------------------------------------
(* run_once *)

Goto(d, p) == /\ pc' = [pc EXCEPT ![d] = p]
              /\ UNCHANGED <<key, outcome, performed, calls>>

\* Leave run_once with an outcome.
Return(d, o) ==
    /\ pc' = [pc EXCEPT ![d] = "idle"]
    /\ outcome' = [outcome EXCEPT ![d] = o]
    /\ performed' = IF o \in PerformedOutcome
                    THEN [performed EXCEPT ![key[d]] = @ + 1]
                    ELSE performed
    /\ UNCHANGED <<key, calls>>

\* The executor calls run_once: a first attempt, a retry, a re-run of the
\* node after a restart, or a second driver of the same run.
RunOnce(d, k) ==
    /\ pc[d] = "idle"
    /\ calls < MaxCalls
    /\ calls' = calls + 1
    /\ pc' = [pc EXCEPT ![d] = "get"]
    /\ key' = [key EXCEPT ![d] = k]
    /\ outcome' = [outcome EXCEPT ![d] = "none"]
    /\ UNCHANGED <<row, applied, performed>>

\* Mutant: a completed row is not replayed.
GetIgnoringCompleted(d) ==
    LET state == row[key[d]] IN
    /\ pc[d] = "get"
    /\ \/ state = "absent" /\ Goto(d, "reserve")
       \/ state = IN_PROGRESS /\ Goto(d, "ask")
       \/ state \in {RESERVED, FAILED, COMPLETED} /\ Goto(d, "mark")
    /\ UNCHANGED <<row, applied>>

\* Mutant: any row at all is taken for an effect that landed.
GetReplayingAnyRow(d) ==
    /\ pc[d] = "get"
    /\ IF row[key[d]] = "absent" THEN Goto(d, "reserve") ELSE Return(d, "replayed")
    /\ UNCHANGED <<row, applied>>

\* Mutant: a failed row is answered with the failure instead of a fresh call.
GetFailingAgain(d) ==
    LET state == row[key[d]] IN
    /\ pc[d] = "get"
    /\ \/ state = "absent" /\ Goto(d, "reserve")
       \/ state = COMPLETED /\ Return(d, "replayed")
       \/ state = IN_PROGRESS /\ Goto(d, "ask")
       \/ state = RESERVED /\ Goto(d, "mark")
       \/ state = FAILED /\ Return(d, "permanent")
    /\ UNCHANGED <<row, applied>>

\* existing = self._store.get(key), and the branch of _resume_existing the
\* state read selects.  A completed row is replayed without the tool.
Get(d) ==
    LET state == row[key[d]] IN
    /\ pc[d] = "get"
    /\ \/ state = "absent" /\ Goto(d, "reserve")
       \/ state = COMPLETED /\ Return(d, "replayed")
       \/ state = IN_PROGRESS /\ Goto(d, "ask")
       \/ state \in {RESERVED, FAILED} /\ Goto(d, "mark")
    /\ UNCHANGED <<row, applied>>

\* Mutant: the loser of the race tries the INSERT again.
TryReserveForever(d) ==
    /\ pc[d] = "reserve"
    /\ IF row[key[d]] = "absent"
       THEN _set_state(key[d], RESERVED) /\ Goto(d, "mark")
       ELSE UNCHANGED row /\ Goto(d, "reserve")
    /\ UNCHANGED applied

\* try_reserve: the UNIQUE key decides who inserts; the loser re-enters.
TryReserve(d) ==
    /\ pc[d] = "reserve"
    /\ IF row[key[d]] = "absent"
       THEN _set_state(key[d], RESERVED) /\ Goto(d, "mark")
       ELSE UNCHANGED row /\ Goto(d, "get")
    /\ UNCHANGED applied

\* Mutant: the tool is called again without asking the provider.
ResumeWithoutAsking(d) ==
    /\ pc[d] = "ask"
    /\ IF key[d] \in Queryable THEN Goto(d, "mark")
                              ELSE Return(d, "reconciliation_required")
    /\ UNCHANGED <<row, applied>>

\* Mutant: no answer counts as "did not land", whatever the tool.
ResumeFailingOpen(d) ==
    /\ pc[d] = "ask"
    /\ \E landed \in _ask_provider(key[d]) :
          Goto(d, IF landed THEN "adopt" ELSE "mark")
    /\ UNCHANGED <<row, applied>>

\* An in_progress row: ask the provider.  Landed: adopt it.  No answer from a
\* tool that cannot be queried: refuse.  Otherwise go on to call the tool.
ResumeInProgress(d) ==
    /\ pc[d] = "ask"
    /\ \E landed \in _ask_provider(key[d]) :
          \/ landed /\ Goto(d, "adopt")
          \/ ~landed /\ key[d] \notin Queryable
                     /\ Return(d, "reconciliation_required")
          \/ ~landed /\ key[d] \in Queryable /\ Goto(d, "mark")
    /\ UNCHANGED <<row, applied>>

AdoptInProgress(d) ==
    /\ pc[d] = "adopt"
    /\ mark_completed(key[d])
    /\ Return(d, "recovered")
    /\ UNCHANGED applied

\* Mutant: the row is not written before the call.
MarkNothing(d) ==
    /\ pc[d] = "mark"
    /\ Goto(d, "call")
    /\ UNCHANGED <<row, applied>>

\* Write-ahead: committed before the tool is called.
MarkInProgress(d) ==
    /\ pc[d] = "mark"
    /\ mark_in_progress(key[d])
    /\ Goto(d, "call")
    /\ UNCHANGED applied

\* tool.call up to the point where the world would change: a provider that
\* honours the key returns the receipt of an effect it already applied, else
\* the call may be refused for good or fail on the way.  Any tool may raise
\* an exception of another class.
ToolCall(d) ==
    LET honoured == key[d] \in Queryable /\ applied[key[d]] > 0 IN
    /\ pc[d] = "call"
    /\ \/ honoured /\ Goto(d, "complete")
       \/ ~honoured /\ \E p \in {"apply", "raised_transient", "raised_permanent"} :
                          Goto(d, p)
       \/ Goto(d, "raised_other")
    /\ UNCHANGED <<row, applied>>

\* The provider applies the effect; the answer may be lost on the way back.
ToolApply(d) ==
    /\ pc[d] = "apply"
    /\ record(key[d])
    /\ \E p \in {"complete", "raised_transient", "raised_other"} : Goto(d, p)
    /\ UNCHANGED row

MarkCompleted(d) ==
    /\ pc[d] = "complete"
    /\ mark_completed(key[d])
    /\ Return(d, "performed")
    /\ UNCHANGED applied

\* Mutant: a transient failure closes the row as a permanent one does.
CallRaisedAlwaysFails(d) ==
    /\ pc[d] \in {"raised_transient", "raised_permanent", "raised_other"}
    /\ \E landed \in _ask_provider(key[d]) :
          Goto(d, IF landed THEN "adopt_raised" ELSE "fail")
    /\ UNCHANGED <<row, applied>>

\* except Exception: an effect that landed is adopted, a permanent failure
\* closes the row, any other leaves it in_progress for the next attempt.
CallRaised(d) ==
    /\ pc[d] \in {"raised_transient", "raised_permanent", "raised_other"}
    /\ \E landed \in _ask_provider(key[d]) :
          \/ landed /\ Goto(d, "adopt_raised")
          \/ ~landed /\ pc[d] = "raised_permanent" /\ Goto(d, "fail")
          \/ ~landed /\ pc[d] = "raised_transient" /\ Return(d, "transient")
          \/ ~landed /\ pc[d] = "raised_other" /\ Return(d, "error")
    /\ UNCHANGED <<row, applied>>

AdoptRaised(d) ==
    /\ pc[d] = "adopt_raised"
    /\ mark_completed(key[d])
    /\ Return(d, "reconciled")
    /\ UNCHANGED applied

MarkFailed(d) ==
    /\ pc[d] = "fail"
    /\ mark_failed(key[d])
    /\ Return(d, "permanent")
    /\ UNCHANGED applied

\* A statement of the store raises, and the exception leaves run_once: nothing
\* was written, or it was and the read that follows every write raises.  (At
\* "mark" and "call" that read is the one of try_reserve and mark_in_progress.)
StoreRaises(d) ==
    /\ \/ /\ pc[d] \in {"get", "reserve", "adopt", "mark", "call", "complete",
                        "adopt_raised", "fail"}
          /\ UNCHANGED row
       \/ pc[d] \in {"adopt", "complete", "adopt_raised"} /\ mark_completed(key[d])
       \/ pc[d] = "fail" /\ mark_failed(key[d])
    /\ Return(d, "error")
    /\ UNCHANGED applied

\* The process dies: everything but the two databases is gone.
Crash(d) ==
    /\ pc[d] # "idle"
    /\ pc' = [pc EXCEPT ![d] = "idle"]
    /\ UNCHANGED <<row, applied, key, outcome, performed, calls>>

Step(d) ==
    \/ Get(d) \/ TryReserve(d) \/ ResumeInProgress(d) \/ AdoptInProgress(d)
    \/ MarkInProgress(d) \/ ToolCall(d) \/ ToolApply(d) \/ MarkCompleted(d)
    \/ CallRaised(d) \/ AdoptRaised(d) \/ MarkFailed(d)

Next ==
    \E d \in Drivers :
        \/ \E k \in Keys : RunOnce(d, k)
        \/ Step(d)
        \/ StoreRaises(d)
        \/ Crash(d)

\* A live driver keeps executing its own statements; nothing obliges anyone
\* to call run_once, the store to raise or a process to die.
Spec == Init /\ [][Next]_vars /\ \A d \in Drivers : WF_vars(Step(d))

-----------------------------------------------------------------------------
(* What holds whatever the drivers do and however they interleave.         *)

\* Write-ahead ordering: an effect that changed the world has a row that says
\* an attempt was made.  "reserved" really means the call never happened, so
\* a restart that finds it may proceed without asking.
WriteAhead ==
    \A k \in Keys : applied[k] > 0 => row[k] \notin {"absent", RESERVED}

\* A completed row, the one state that suppresses every later call, is only
\* ever written for an effect that landed: no effect is lost to a replay.
CompletedMeansLanded ==
    \A k \in Keys : row[k] = COMPLETED => applied[k] > 0

\* run_once never reports success to the workflow for an effect that did not
\* happen, whether performed, reconciled, recovered or replayed.
SuccessMeansLanded ==
    \A d \in Drivers :
        outcome[d] \in PerformedOutcome \cup ReplayedOutcome
            => applied[key[d]] > 0

\* run_once returns or raises unless the process dies: losing the race for the
\* UNIQUE key re-enters, and the re-entry cannot go on forever.
CallReturns == \A d \in Drivers : pc[d] # "idle" ~> pc[d] = "idle"

\* What a slow driver can do to another's row is harmless to whoever calls next:
\* a call that begins after the effect has landed, at a provider that honours
\* the key, ends in success, although a late mark_in_progress or mark_failed may
\* have taken the completed row back before it.  It never tells the workflow
\* that the effect failed or needs reconciliation; only an exception that is no
\* ToolError, or a death (which leaves no outcome), can come in between.
LandedIsReported ==
    \A d \in Drivers, k \in Queryable :
        pc[d] = "get" /\ key[d] = k /\ applied[k] > 0
            ~> /\ pc[d] = "idle"
               /\ outcome[d] \in PerformedOutcome \cup ReplayedOutcome \cup {"error", "none"}

-----------------------------------------------------------------------------
(* What the ledger promises when a run has one driver at a time: any number *)
(* of retries, crashes and restarts, one after the other.                   *)

\* The contract of run_once: every key changes the world at most once, also
\* when the provider cannot be queried and does not deduplicate.
AtMostOnce == \A k \in Keys : applied[k] <= 1

\* "failed: a previous attempt failed with nothing applied. Retry."
FailedMeansNotApplied ==
    \A k \in Keys : row[k] = FAILED => applied[k] = 0

\* LedgerOutcome.performed is "True only when this call actually changed the
\* world": no more calls report it than times the world was changed.
PerformedMeansChanged == \A k \in Keys : performed[k] <= applied[k]

\* LedgerOutcome.performed is reported for at most one call per key.
PerformedAtMostOnce == \A k \in Keys : performed[k] <= 1

\* A tool whose effect has landed is not called again: the ledger alone, and
\* not the provider's own deduplication, stops the second call, provided that
\* the provider answers when it is asked.
NeverCallsAgain ==
    \A d \in Drivers :
        pc[d] = "call" /\ key[d] \notin Flaky => applied[key[d]] = 0

\* ledger.py says of a lookup that raises that it "keeps us on the fail-closed
\* path": no second call of a tool whose effect may have landed.
FailsClosed == \A d \in Drivers : pc[d] = "call" => applied[key[d]] = 0

\* No statement takes a completed row back to a state that permits a call.
CompletedIsFinal ==
    [][\A k \in Keys : row[k] = COMPLETED => row'[k] = COMPLETED]_vars

=============================================================================
