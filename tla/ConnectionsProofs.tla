------------------------- MODULE ConnectionsProofs -------------------------
(***************************************************************************)
(* Theorems about Connections for every number of threads, on one          *)
(* hypothesis: no two threads share a connection.  It is what the modules  *)
(* that take an operation of a repository for one step rest on.            *)
(***************************************************************************)
EXTENDS Connections, TLAPS

\* No two threads share a connection, as processes of their own do not.
OwnConnections ==
    \A t, u \in Threads : connection(t) = connection(u) => t = u

\* The statements of immediate() after its BEGIN.
Transaction == {"select", "update", "commit", "rollback"}

\* The write lock is held by the thread inside immediate() and by no other.
LockInv ==
    /\ \A t \in Threads : pc[t] \in Transaction => open = {connection(t)}
    /\ \A t \in Threads : connection(t) \in open => pc[t] \in Transaction
    /\ open # {} => \E t \in Threads : open = {connection(t)}

\* What a thread knows of the rows at each of its statements.
ViewInv ==
    \A t \in Threads :
        /\ pc[t] \in {"select", "update"} => view = db
        /\ pc[t] = "update" =>
              /\ read[t] = db.status
              /\ target[t] \in ALLOWED_RUN_TRANSITIONS[db.status]
        /\ pc[t] = "commit" =>
              /\ view.effect = db.effect
              /\ view.status \in ALLOWED_RUN_TRANSITIONS[db.status]
        /\ pc[t] = "mark_commit" => db.effect = IN_PROGRESS

ConnInv == TypeOK /\ LockInv /\ ViewInv /\ MarkDurable

-----------------------------------------------------------------------------

\* A status is followed by statuses.
LEMMA TargetsAreStatuses ==
  ASSUME NEW s \in RunStatus
  PROVE  ALLOWED_RUN_TRANSITIONS[s] \subseteq RunStatus
  BY DEF ALLOWED_RUN_TRANSITIONS, RunStatus, PENDING, RUNNING, PAUSED, COMPLETED,
         FAILED, CANCELLED

\* The invariant holds of a run nobody works on.
LEMMA InitConn == Init => ConnInv
  BY DEF Init, ConnInv, TypeOK, LockInv, ViewInv, MarkDurable, Position, Transaction, Row

\* A step of any thread, and the death of any process, keeps it.
LEMMA StepConn ==
  ASSUME OwnConnections
  PROVE  ConnInv /\ [Next]_vars => ConnInv'
<1> SUFFICES ASSUME ConnInv, [Next]_vars PROVE ConnInv'
  OBVIOUS
<1> USE OwnConnections DEF ConnInv, LockInv, ViewInv, MarkDurable, OwnConnections, Transaction
<1>1. CASE UNCHANGED vars
  BY <1>1 DEF vars, TypeOK
<1>2. ASSUME NEW t \in Threads, NEW s \in RunStatus, set_status(t, s) PROVE ConnInv'
  BY <1>2 DEF set_status, TypeOK, Position
<1>3. ASSUME NEW t \in Threads, mark_in_progress(t) PROVE ConnInv'
  BY <1>3 DEF mark_in_progress, Goto, TypeOK, Position
<1>4. ASSUME NEW t \in Threads, Begin(t) PROVE ConnInv'
  <2>1. ~InTransaction(t)
    BY <1>4 DEF Begin, InTransaction
  <2>2. connection(t) \in Connection
    BY DEF Connection
  <2>. QED
    BY <1>4, <2>1, <2>2 DEF Begin, Goto, TypeOK, Position
<1>5. ASSUME NEW t \in Threads, Select(t) PROVE ConnInv'
  <2>1. Visible(t) = db /\ db.status \in RunStatus
    BY <1>5 DEF Select, Visible, InTransaction, TypeOK, Row
  <2>. QED
    BY <1>5, <2>1 DEF Select, TypeOK, Position
<1>6. ASSUME NEW t \in Threads, Update(t) PROVE ConnInv'
  <2>1. /\ InTransaction(t) /\ open = {connection(t)} /\ view = db
        /\ target[t] \in ALLOWED_RUN_TRANSITIONS[db.status]
    BY <1>6 DEF Update, InTransaction
  <2>2. target[t] \in RunStatus
    BY <2>1, TargetsAreStatuses DEF TypeOK, Row
  <2>3. view' = [db EXCEPT !.status = target[t]] /\ db' = db
    BY <1>6, <2>1 DEF Update, Write, Visible
  <2>4. view' \in Row /\ view'.effect = db.effect /\ view'.status = target[t]
    BY <2>2, <2>3 DEF TypeOK, Row
  <2>. QED
    BY <1>6, <2>1, <2>3, <2>4 DEF Update, Goto, TypeOK, Position
<1>7. ASSUME NEW t \in Threads, CommitImmediate(t) PROVE ConnInv'
  <2>1. open = {connection(t)} /\ InTransaction(t) /\ view.effect = db.effect
    BY <1>7 DEF CommitImmediate, InTransaction
  <2>2. db' = view /\ open' = {} /\ view' = view
    BY <1>7, <2>1 DEF CommitImmediate, Commit, Visible
  <2>3. \A u \in Threads : u # t => pc[u] \notin Transaction
    BY <2>1
  <2>. QED
    BY <1>7, <2>1, <2>2, <2>3 DEF CommitImmediate, Leave, TypeOK, Position
<1>8. ASSUME NEW t \in Threads, Rollback(t) PROVE ConnInv'
  BY <1>8 DEF Rollback, Leave, TypeOK, Position
<1>9. ASSUME NEW t \in Threads, _set_state(t) PROVE ConnInv'
  <2>1. ~InTransaction(t)
    BY <1>9 DEF _set_state, InTransaction
  <2>2. open = {} /\ db' = [db EXCEPT !.effect = IN_PROGRESS] /\ view' = view
    BY <1>9, <2>1 DEF _set_state, Write, Visible, Locked, InTransaction
  <2>3. db' \in Row /\ db'.effect = IN_PROGRESS
    BY <2>2 DEF TypeOK, Row
  <2>4. \A u \in Threads : pc[u] \notin Transaction
    BY <2>2
  <2>. QED
    BY <1>9, <2>2, <2>3, <2>4 DEF _set_state, Goto, TypeOK, Position
<1>10. ASSUME NEW t \in Threads, CommitMark(t) PROVE ConnInv'
  <2>1. ~InTransaction(t) /\ db.effect = IN_PROGRESS
    BY <1>10 DEF CommitMark, InTransaction
  <2>2. db' = db /\ open' = open /\ view' = view
    BY <1>10, <2>1 DEF CommitMark, Commit, Visible, InTransaction
  <2>. QED
    BY <1>10, <2>1, <2>2 DEF CommitMark, Leave, TypeOK, Position
<1>11. ASSUME NEW t \in Threads, BusyTimeout(t) PROVE ConnInv'
  BY <1>11 DEF BusyTimeout, InTransaction, Goto, Leave, TypeOK, Position
<1>12. ASSUME NEW c \in Connection, Die(c) PROVE ConnInv'
  <2>1. PICK t \in Threads : c = connection(t)
    BY DEF Connection
  <2>2. /\ pc' = [pc EXCEPT ![t] = "idle"]
        /\ target' = [target EXCEPT ![t] = "none"]
        /\ read' = [read EXCEPT ![t] = "none"]
    BY <1>12, <2>1 DEF Die, TypeOK
  <2>3. open' = open \ {connection(t)} /\ UNCHANGED <<db, view, marked>>
    BY <1>12, <2>1 DEF Die
  <2>. QED
    BY <2>2, <2>3 DEF TypeOK, Position
<1>. QED
  BY <1>1, <1>2, <1>3, <1>4, <1>5, <1>6, <1>7, <1>8, <1>9, <1>10, <1>11, <1>12
     DEF Next, Step

\* A committed status is a legal move from the one before it.
LEMMA StepLegal ==
  ASSUME OwnConnections, ConnInv, Next, db'.status # db.status
  PROVE  db'.status \in ALLOWED_RUN_TRANSITIONS[db.status]
<1> USE DEF ConnInv, LockInv, ViewInv, OwnConnections, Transaction
<1>1. ASSUME NEW t \in Threads, CommitImmediate(t) PROVE db' = view /\ pc[t] = "commit"
  BY <1>1 DEF CommitImmediate, Commit, Visible, InTransaction
<1>2. ASSUME NEW t \in Threads, Update(t) PROVE db' = db
  BY <1>2 DEF Update, Write, InTransaction
<1>3. ASSUME NEW t \in Threads, _set_state(t) PROVE db'.status = db.status
  <2>1. ~InTransaction(t)
    BY <1>3 DEF _set_state, InTransaction
  <2>. QED
    BY <1>3, <2>1 DEF _set_state, Write, Visible, TypeOK, Row
<1>4. ASSUME NEW t \in Threads, CommitMark(t) PROVE db' = db
  BY <1>4 DEF CommitMark, Commit, Visible, InTransaction
<1>5. PICK t \in Threads : CommitImmediate(t)
  BY <1>2, <1>3, <1>4 DEF Next, Step, set_status, mark_in_progress, Begin, Select,
                          Rollback, BusyTimeout, Die
<1>. QED
  BY <1>1, <1>5

-----------------------------------------------------------------------------

\* The invariant holds throughout.
LEMMA ConnInvariant ==
  ASSUME OwnConnections
  PROVE  Spec => []ConnInv
<1>1. ConnInv /\ [Next]_vars => ConnInv'
  BY OwnConnections, StepConn
<1>. QED
  BY InitConn, <1>1, PTL DEF Spec

\* The rows and the statements of every thread keep their types.
THEOREM TypeCorrect ==
  ASSUME OwnConnections
  PROVE  Spec => []TypeOK
<1>1. ConnInv => TypeOK
  BY DEF ConnInv
<1>. QED
  BY OwnConnections, ConnInvariant, <1>1, PTL

\* Whatever the number of processes, a set_status writes over the status it
\* has read and validated.
THEOREM ReadsAreCurrent ==
  ASSUME OwnConnections
  PROVE  Spec => []ReadIsCurrent
<1>1. ConnInv => ReadIsCurrent
  BY DEF ConnInv, LockInv, ViewInv, ReadIsCurrent, Visible, InTransaction, Transaction
<1>. QED
  BY OwnConnections, ConnInvariant, <1>1, PTL

\* No interleaving of set_status calls commits an illegal move of the run.
THEOREM CommittedMovesAreLegal ==
  ASSUME OwnConnections
  PROVE  Spec => TransitionsLegal
<1>1. ConnInv /\ [Next]_vars =>
        [db'.status # db.status
            => db'.status \in ALLOWED_RUN_TRANSITIONS[db.status]]_vars
  BY OwnConnections, StepLegal DEF vars
<1>. QED
  BY OwnConnections, ConnInvariant, <1>1, PTL DEF Spec, TransitionsLegal

\* A mark that has returned is never lost to another process's rollback,
\* commit or death.
THEOREM MarksAreDurable ==
  ASSUME OwnConnections
  PROVE  Spec => []MarkDurable
<1>1. ConnInv => MarkDurable
  BY DEF ConnInv
<1>. QED
  BY OwnConnections, ConnInvariant, <1>1, PTL
=============================================================================
