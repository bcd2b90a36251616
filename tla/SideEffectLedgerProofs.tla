---------------------- MODULE SideEffectLedgerProofs ----------------------
(***************************************************************************)
(* Theorems about SideEffectLedger, for every set of drivers and of keys   *)
(* and every choice of the queryable and the flaky ones.                   *)
(***************************************************************************)
EXTENDS SideEffectLedger, TLAPS

-----------------------------------------------------------------------------
(* Type correctness *)

\* A state that satisfies TypeOK is followed only by such states.
LEMMA TypeStep == TypeOK /\ [Next]_vars => TypeOK'
<1> SUFFICES ASSUME TypeOK, [Next]_vars PROVE TypeOK'
  OBVIOUS
<1> USE DEF TypeOK, RowState, Position, Outcome, PerformedOutcome,
            ReplayedOutcome, RaisedOutcome, RESERVED, IN_PROGRESS, COMPLETED, FAILED
<1>1. CASE UNCHANGED vars
  BY <1>1 DEF vars
<1>2. ASSUME NEW d \in Drivers, NEW k \in Keys, RunOnce(d, k) PROVE TypeOK'
  BY <1>2 DEF RunOnce
<1>3. ASSUME NEW d \in Drivers, Get(d) PROVE TypeOK'
  BY <1>3 DEF Get, Goto, Return
<1>4. ASSUME NEW d \in Drivers, TryReserve(d) PROVE TypeOK'
  BY <1>4 DEF TryReserve, Goto, _set_state
<1>5. ASSUME NEW d \in Drivers, ResumeInProgress(d) PROVE TypeOK'
  BY <1>5 DEF ResumeInProgress, Goto, Return
<1>6. ASSUME NEW d \in Drivers, AdoptInProgress(d) PROVE TypeOK'
  BY <1>6 DEF AdoptInProgress, Return, mark_completed, _set_state
<1>7. ASSUME NEW d \in Drivers, MarkInProgress(d) PROVE TypeOK'
  BY <1>7 DEF MarkInProgress, Goto, mark_in_progress, _set_state
<1>8. ASSUME NEW d \in Drivers, ToolCall(d) PROVE TypeOK'
  BY <1>8 DEF ToolCall, Goto
<1>9. ASSUME NEW d \in Drivers, ToolApply(d) PROVE TypeOK'
  BY <1>9 DEF ToolApply, Goto, record
<1>10. ASSUME NEW d \in Drivers, MarkCompleted(d) PROVE TypeOK'
  BY <1>10 DEF MarkCompleted, Return, mark_completed, _set_state
<1>11. ASSUME NEW d \in Drivers, CallRaised(d) PROVE TypeOK'
  BY <1>11 DEF CallRaised, Goto, Return
<1>12. ASSUME NEW d \in Drivers, AdoptRaised(d) PROVE TypeOK'
  BY <1>12 DEF AdoptRaised, Return, mark_completed, _set_state
<1>13. ASSUME NEW d \in Drivers, MarkFailed(d) PROVE TypeOK'
  BY <1>13 DEF MarkFailed, Return, mark_failed, _set_state
<1>14. ASSUME NEW d \in Drivers, Crash(d) PROVE TypeOK'
  BY <1>14 DEF Crash
<1>15. ASSUME NEW d \in Drivers, StoreRaises(d) PROVE TypeOK'
  BY <1>15 DEF StoreRaises, Return, mark_completed, mark_failed, _set_state
<1>. QED
  BY <1>1, <1>2, <1>3, <1>4, <1>5, <1>6, <1>7, <1>8, <1>9, <1>10, <1>11, <1>12,
     <1>13, <1>14, <1>15 DEF Next, Step

\* The ledger's state keeps its type: rows only ever hold the four states of
\* SideEffectRepository, and run_once ends only in the ways it documents.
THEOREM TypeCorrect == Spec => []TypeOK
<1>1. Init => TypeOK
  BY DEF Init, TypeOK, RowState, Position, Outcome
<1>. QED
  BY <1>1, TypeStep, PTL DEF Spec

-----------------------------------------------------------------------------
(* Any number of drivers *)

\* Positions a driver reaches only after mark_in_progress has committed, or
\* after it has read the mark of another driver.
Marked == {"ask", "adopt", "call", "apply", "complete", "raised_transient",
           "raised_permanent", "raised_other", "adopt_raised", "fail"}

\* The inductive invariant behind the guarantees that need no exclusion: no
\* row goes back to absent or reserved, so what a driver knows of the row and
\* of the provider when it moves on stays true however long it is delayed.
LedgerInv ==
    /\ TypeOK
    /\ WriteAhead
    /\ CompletedMeansLanded
    /\ SuccessMeansLanded
    /\ \A d \in Drivers :
        /\ pc[d] = "mark" => row[key[d]] # "absent"
        /\ pc[d] \in Marked => row[key[d]] \notin {"absent", RESERVED}
        /\ pc[d] \in {"adopt", "adopt_raised", "complete"} => applied[key[d]] > 0

\* Every step of every driver, and every crash, preserves LedgerInv.
LEMMA LedgerStep == LedgerInv /\ [Next]_vars => LedgerInv'
<1> SUFFICES ASSUME LedgerInv, [Next]_vars PROVE LedgerInv'
  OBVIOUS
<1>0. TypeOK'
  BY TypeStep DEF LedgerInv
<1> USE <1>0, QueryableAssumption
<1> USE DEF LedgerInv, TypeOK, WriteAhead, CompletedMeansLanded, SuccessMeansLanded,
            Marked, PerformedOutcome, ReplayedOutcome,
            RESERVED, IN_PROGRESS, COMPLETED, FAILED
<1>1. CASE UNCHANGED vars
  BY <1>1 DEF vars
<1>2. ASSUME NEW d \in Drivers, NEW k \in Keys, RunOnce(d, k) PROVE LedgerInv'
  BY <1>2 DEF RunOnce
<1>3. ASSUME NEW d \in Drivers, Get(d) PROVE LedgerInv'
  BY <1>3 DEF Get, Goto, Return
<1>4. ASSUME NEW d \in Drivers, TryReserve(d) PROVE LedgerInv'
  BY <1>4 DEF TryReserve, Goto, _set_state
<1>5. ASSUME NEW d \in Drivers, ResumeInProgress(d) PROVE LedgerInv'
  BY <1>5 DEF ResumeInProgress, Goto, Return, _ask_provider
<1>6. ASSUME NEW d \in Drivers, AdoptInProgress(d) PROVE LedgerInv'
  BY <1>6 DEF AdoptInProgress, Return, mark_completed, _set_state
<1>7. ASSUME NEW d \in Drivers, MarkInProgress(d) PROVE LedgerInv'
  BY <1>7 DEF MarkInProgress, Goto, mark_in_progress, _set_state
<1>8. ASSUME NEW d \in Drivers, ToolCall(d) PROVE LedgerInv'
  BY <1>8 DEF ToolCall, Goto
<1>9. ASSUME NEW d \in Drivers, ToolApply(d) PROVE LedgerInv'
  BY <1>9 DEF ToolApply, Goto, record
<1>10. ASSUME NEW d \in Drivers, MarkCompleted(d) PROVE LedgerInv'
  BY <1>10 DEF MarkCompleted, Return, mark_completed, _set_state
<1>11. ASSUME NEW d \in Drivers, CallRaised(d) PROVE LedgerInv'
  BY <1>11 DEF CallRaised, Goto, Return, _ask_provider
<1>12. ASSUME NEW d \in Drivers, AdoptRaised(d) PROVE LedgerInv'
  BY <1>12 DEF AdoptRaised, Return, mark_completed, _set_state
<1>13. ASSUME NEW d \in Drivers, MarkFailed(d) PROVE LedgerInv'
  BY <1>13 DEF MarkFailed, Return, mark_failed, _set_state
<1>14. ASSUME NEW d \in Drivers, Crash(d) PROVE LedgerInv'
  BY <1>14 DEF Crash
<1>15. ASSUME NEW d \in Drivers, StoreRaises(d) PROVE LedgerInv'
  BY <1>15 DEF StoreRaises, Return, mark_completed, mark_failed, _set_state
<1>. QED
  BY <1>1, <1>2, <1>3, <1>4, <1>5, <1>6, <1>7, <1>8, <1>9, <1>10, <1>11, <1>12,
     <1>13, <1>14, <1>15 DEF Next, Step

\* LedgerInv holds in every state of every behaviour.
LEMMA LedgerInvariant == Spec => []LedgerInv
<1>1. Init => LedgerInv
  <2> SUFFICES ASSUME Init PROVE LedgerInv
    OBVIOUS
  <2>1. TypeOK
    BY DEF Init, TypeOK, RowState, Position, Outcome
  <2>. QED
    BY <2>1, QueryableAssumption
    DEF Init, LedgerInv, WriteAhead, CompletedMeansLanded, SuccessMeansLanded,
        Marked, PerformedOutcome, ReplayedOutcome, COMPLETED
<1>. QED
  BY <1>1, LedgerStep, PTL DEF Spec

\* The write-ahead ordering holds however many drivers race and crash: an
\* effect that landed always has a row past "reserved".
THEOREM WriteAheadHolds == Spec => []WriteAhead
<1>1. LedgerInv => WriteAhead
  BY DEF LedgerInv
<1>. QED
  BY <1>1, LedgerInvariant, PTL

\* A completed row, and every success run_once reports, stands for an effect
\* that landed, however many drivers race and crash.
THEOREM SuccessIsReal == Spec => [](CompletedMeansLanded /\ SuccessMeansLanded)
<1>1. LedgerInv => CompletedMeansLanded /\ SuccessMeansLanded
  BY DEF LedgerInv
<1>. QED
  BY <1>1, LedgerInvariant, PTL

-----------------------------------------------------------------------------
(* One driver at a time *)

\* No two drivers of the run are ever in execution together.
OneDriver == \A d, e \in Drivers : d = e

\* The inductive invariant behind the at-most-once contract.  What the driver
\* read of the row is still what the row says, so that it calls the tool only
\* for an effect that has not landed, or, when a lookup raised, for one whose
\* provider will recognise the key; and it closes a row as failed only when
\* nothing was applied.
SerialInv ==
    /\ LedgerInv
    /\ AtMostOnce
    /\ FailedMeansNotApplied
    /\ \A k \in Keys : performed[k] = 0 \/ (performed[k] = 1 /\ row[k] = COMPLETED)
    /\ \A d \in Drivers :
        /\ pc[d] \in Marked => row[key[d]] = IN_PROGRESS
        /\ pc[d] \in {"reserve", "mark"} => row[key[d]] # COMPLETED
        /\ pc[d] \in {"mark", "call"} /\ key[d] \notin Flaky => applied[key[d]] = 0
        /\ pc[d] \in {"apply", "raised_permanent", "fail"} => applied[key[d]] = 0

\* With one driver at a time every step and every crash preserves SerialInv.
LEMMA SerialStep ==
  ASSUME OneDriver
  PROVE  SerialInv /\ [Next]_vars => SerialInv'
<1> SUFFICES ASSUME SerialInv, [Next]_vars PROVE SerialInv'
  OBVIOUS
<1>0. LedgerInv'
  BY LedgerStep DEF SerialInv
<1> USE <1>0, OneDriver, QueryableAssumption, FlakyAssumption
<1> USE DEF SerialInv, OneDriver, LedgerInv, TypeOK, WriteAhead, AtMostOnce,
            FailedMeansNotApplied, Marked, PerformedOutcome,
            RESERVED, IN_PROGRESS, COMPLETED, FAILED
<1>1. CASE UNCHANGED vars
  BY <1>1 DEF vars
<1>2. ASSUME NEW d \in Drivers, NEW k \in Keys, RunOnce(d, k) PROVE SerialInv'
  BY <1>2 DEF RunOnce
<1>3. ASSUME NEW d \in Drivers, Get(d) PROVE SerialInv'
  BY <1>3 DEF Get, Goto, Return
<1>4. ASSUME NEW d \in Drivers, TryReserve(d) PROVE SerialInv'
  BY <1>4 DEF TryReserve, Goto, _set_state
<1>5. ASSUME NEW d \in Drivers, ResumeInProgress(d) PROVE SerialInv'
  BY <1>5 DEF ResumeInProgress, Goto, Return, _ask_provider
<1>6. ASSUME NEW d \in Drivers, AdoptInProgress(d) PROVE SerialInv'
  BY <1>6 DEF AdoptInProgress, Return, mark_completed, _set_state
<1>7. ASSUME NEW d \in Drivers, MarkInProgress(d) PROVE SerialInv'
  BY <1>7 DEF MarkInProgress, Goto, mark_in_progress, _set_state
<1>8. ASSUME NEW d \in Drivers, ToolCall(d) PROVE SerialInv'
  BY <1>8 DEF ToolCall, Goto
<1>9. ASSUME NEW d \in Drivers, ToolApply(d) PROVE SerialInv'
  <2>1. applied[key[d]] = 0
    BY <1>9 DEF ToolApply
  <2>2. applied' = [applied EXCEPT ![key[d]] = 1]
    BY <1>9, <2>1 DEF ToolApply, record
  <2>3. row[key[d]] \notin {COMPLETED, FAILED}
    BY <1>9 DEF ToolApply
  <2>. QED
    BY <1>9, <2>1, <2>2, <2>3 DEF ToolApply, Goto
<1>10. ASSUME NEW d \in Drivers, MarkCompleted(d) PROVE SerialInv'
  BY <1>10 DEF MarkCompleted, Return, mark_completed, _set_state
<1>11. ASSUME NEW d \in Drivers, CallRaised(d) PROVE SerialInv'
  BY <1>11 DEF CallRaised, Goto, Return, _ask_provider
<1>12. ASSUME NEW d \in Drivers, AdoptRaised(d) PROVE SerialInv'
  BY <1>12 DEF AdoptRaised, Return, mark_completed, _set_state
<1>13. ASSUME NEW d \in Drivers, MarkFailed(d) PROVE SerialInv'
  BY <1>13 DEF MarkFailed, Return, mark_failed, _set_state
<1>14. ASSUME NEW d \in Drivers, Crash(d) PROVE SerialInv'
  BY <1>14 DEF Crash
<1>15. ASSUME NEW d \in Drivers, StoreRaises(d) PROVE SerialInv'
  BY <1>15 DEF StoreRaises, Return, mark_completed, mark_failed, _set_state
<1>. QED
  BY <1>1, <1>2, <1>3, <1>4, <1>5, <1>6, <1>7, <1>8, <1>9, <1>10, <1>11, <1>12,
     <1>13, <1>14, <1>15 DEF Next, Step

\* With no row, no call and no effect, SerialInv holds.
LEMMA SerialInit == Init => SerialInv
<1> SUFFICES ASSUME Init PROVE SerialInv
  OBVIOUS
<1>1. TypeOK
  BY DEF Init, TypeOK, RowState, Position, Outcome
<1>2. LedgerInv
  BY <1>1, QueryableAssumption
  DEF Init, LedgerInv, WriteAhead, CompletedMeansLanded, SuccessMeansLanded,
      Marked, PerformedOutcome, ReplayedOutcome, COMPLETED
<1>. QED
  BY <1>2 DEF Init, SerialInv, AtMostOnce, FailedMeansNotApplied, Marked, FAILED

\* With one driver at a time SerialInv holds in every state.
LEMMA SerialInvariant ==
  ASSUME OneDriver
  PROVE  Spec => []SerialInv
<1>1. SerialInv /\ [Next]_vars => SerialInv'
  BY OneDriver, SerialStep
<1>. QED
  BY <1>1, SerialInit, PTL DEF Spec

\* The contract of run_once: with one driver at a time, whatever fails and
\* wherever the process dies, each key changes the world at most once, also
\* when the provider cannot be queried and does not deduplicate.
THEOREM AtMostOnceHolds ==
  ASSUME OneDriver
  PROVE  Spec => []AtMostOnce
<1>1. SerialInv => AtMostOnce
  BY DEF SerialInv
<1>. QED
  BY <1>1, OneDriver, SerialInvariant, PTL

\* A failed row permits a fresh attempt, and rightly: nothing was applied.
THEOREM FailedRowsAreClean ==
  ASSUME OneDriver
  PROVE  Spec => []FailedMeansNotApplied
<1>1. SerialInv => FailedMeansNotApplied
  BY DEF SerialInv
<1>. QED
  BY <1>1, OneDriver, SerialInvariant, PTL

\* With one driver at a time at most one call per key reports that it changed
\* the world, and none does unless the world was changed.
THEOREM PerformedOnce ==
  ASSUME OneDriver
  PROVE  Spec => [](PerformedAtMostOnce /\ PerformedMeansChanged)
<1>1. SerialInv => PerformedAtMostOnce
  BY DEF SerialInv, PerformedAtMostOnce
<1>2. SerialInv => PerformedMeansChanged
  BY DEF SerialInv, LedgerInv, TypeOK, CompletedMeansLanded, PerformedMeansChanged
<1>. QED
  BY <1>1, <1>2, OneDriver, SerialInvariant, PTL

\* With one driver at a time, a tool whose provider answers is never called
\* for an effect that has already landed.
THEOREM LandedEffectsAreNotRetried ==
  ASSUME OneDriver
  PROVE  Spec => []NeverCallsAgain
<1>1. SerialInv => NeverCallsAgain
  BY DEF SerialInv, NeverCallsAgain
<1>. QED
  BY <1>1, OneDriver, SerialInvariant, PTL

\* With one driver at a time no statement takes a completed row back.
THEOREM CompletedRowsStay ==
  ASSUME OneDriver
  PROVE  Spec => CompletedIsFinal
<1>1. SerialInv /\ [Next]_vars
        => [\A k \in Keys : row[k] = COMPLETED => row'[k] = COMPLETED]_vars
  <2> SUFFICES ASSUME SerialInv, Next, NEW k \in Keys, row[k] = COMPLETED
               PROVE  row'[k] = COMPLETED
    BY DEF vars
  <2> PICK d \in Drivers : \/ \E c \in Keys : RunOnce(d, c)
                          \/ Step(d) \/ StoreRaises(d) \/ Crash(d)
    BY DEF Next
  <2> USE DEF SerialInv, LedgerInv, TypeOK, Marked, COMPLETED, IN_PROGRESS
  <2>1. CASE (\E c \in Keys : RunOnce(d, c)) \/ Crash(d)
    BY <2>1 DEF RunOnce, Crash
  <2>2. CASE Get(d) \/ ResumeInProgress(d) \/ ToolCall(d) \/ ToolApply(d) \/ CallRaised(d)
    BY <2>2 DEF Get, ResumeInProgress, ToolCall, ToolApply, CallRaised
  <2>3. CASE TryReserve(d)
    BY <2>3 DEF TryReserve, _set_state
  <2>4. CASE AdoptInProgress(d) \/ MarkCompleted(d) \/ AdoptRaised(d)
    BY <2>4 DEF AdoptInProgress, MarkCompleted, AdoptRaised, mark_completed, _set_state
  <2>5. CASE MarkInProgress(d)
    BY <2>5 DEF MarkInProgress, mark_in_progress, _set_state
  <2>6. CASE MarkFailed(d)
    BY <2>6 DEF MarkFailed, mark_failed, _set_state
  <2>7. CASE StoreRaises(d)
    BY <2>7 DEF StoreRaises, mark_completed, mark_failed, _set_state
  <2>. QED
    BY <2>1, <2>2, <2>3, <2>4, <2>5, <2>6, <2>7 DEF Step
<1>. QED
  BY <1>1, OneDriver, SerialInvariant, PTL DEF Spec, CompletedIsFinal
=============================================================================
