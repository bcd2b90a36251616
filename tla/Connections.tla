---------------------------- MODULE Connections ----------------------------
(***************************************************************************)
(* The statements and transactions under the repositories: what the other  *)
(* modules take for one step when they set a status or mark a ledger row.  *)
(*                                                                         *)
(* A repository operation is a few statements on its thread's connection.  *)
(* Connections run in autocommit mode (isolation_level=None): the only     *)
(* transactions are those of immediate(), and commit() and rollback() act  *)
(* on whatever transaction the connection has open, if any.  A writer of   *)
(* another connection waits for the write lock up to busy_timeout, then    *)
(* raises.                                                                 *)
(*                                                                         *)
(* The operations are the two kinds the repositories have: set_status, a   *)
(* read-modify-write inside immediate() (request_cancel, start_attempt and *)
(* _close_attempt have its shape), and mark_in_progress, an UPDATE and a   *)
(* commit() (the other marks, try_reserve, create and bump_counters have   *)
(* its shape).  The database is one run's status and one ledger row.       *)
(***************************************************************************)
EXTENDS RunStates

CONSTANTS
    Threads,      \* threads of control that use the database
    ApiThreads    \* those of the API's process, which has one connection

ASSUME ApiThreadsAssumption == ApiThreads \subseteq Threads

VARIABLES
    db,       \* the committed rows
    open,     \* connections with an open transaction: at most one, which has
              \* the write lock
    view,     \* the rows as the open transaction sees them
    pc,       \* the statement each thread is at
    target,   \* the status each thread's set_status is to write
    read,     \* the status each thread's set_status has read
    marked    \* history: threads whose mark_in_progress has returned

vars == <<db, open, view, pc, target, read, marked>>

RESERVED    == "reserved"
IN_PROGRESS == "in_progress"

Row == [status : RunStatus, effect : {RESERVED, IN_PROGRESS}]

\* get_service: the threads of the API share the process's Services, hence its
\* connection; every other process has built its own.
connection(t) == IF t \in ApiThreads THEN "api" ELSE t

Connection == {connection(t) : t \in Threads}

Position == {"idle", "begin", "select", "update", "commit", "rollback",
             "mark", "mark_commit"}

TypeOK ==
    /\ db \in Row /\ view \in Row
    /\ open \subseteq Connection
    /\ pc \in [Threads -> Position]
    /\ target \in [Threads -> RunStatus \cup {"none"}]
    /\ read \in [Threads -> RunStatus \cup {"none"}]
    /\ marked \subseteq Threads

\* A run with a reserved effect.
Init ==
    /\ db \in {r \in Row : ~is_terminal(r.status) /\ r.effect = RESERVED}
    /\ view = db
    /\ open = {}
    /\ pc = [t \in Threads |-> "idle"]
    /\ target = [t \in Threads |-> "none"]
    /\ read = [t \in Threads |-> "none"]
    /\ marked = {}

-----------------------------------------------------------------------------
(* SQLite *)

Goto(t, p) == pc' = [pc EXCEPT ![t] = p] /\ UNCHANGED <<target, read>>

\* The operation returns or raises.
Leave(t) ==
    /\ pc' = [pc EXCEPT ![t] = "idle"]
    /\ target' = [target EXCEPT ![t] = "none"]
    /\ read' = [read EXCEPT ![t] = "none"]

\* The thread's connection has a transaction open.
InTransaction(t) == connection(t) \in open

\* Another connection has the write lock.
Locked(t) == open \ {connection(t)} # {}

\* What the thread's connection sees.
Visible(t) == IF InTransaction(t) THEN view ELSE db

\* A write joins the transaction its connection has open; outside one it is
\* committed at once, if the lock is free.
Write(t, rows) ==
    IF InTransaction(t)
    THEN view' = rows /\ UNCHANGED db
    ELSE ~Locked(t) /\ db' = rows /\ UNCHANGED view

\* conn.commit(): ends the connection's transaction, whoever began it.
Commit(t) ==
    /\ db' = Visible(t)
    /\ open' = open \ {connection(t)}
    /\ UNCHANGED view

-----------------------------------------------------------------------------
(* RunRepository.set_status *)

set_status(t, s) ==
    /\ pc[t] = "idle"
    /\ pc' = [pc EXCEPT ![t] = "begin"]
    /\ target' = [target EXCEPT ![t] = s]
    /\ UNCHANGED <<db, open, view, read, marked>>

\* Mutant: a deferred transaction, which takes no lock before it writes.
BeginDeferred(t) ==
    /\ pc[t] = "begin" /\ Goto(t, "select")
    /\ UNCHANGED <<db, open, view, marked>>

\* BEGIN IMMEDIATE takes the write lock; inside a transaction of the same
\* connection it raises, before the try of immediate().
Begin(t) ==
    /\ pc[t] = "begin"
    /\ \/ /\ InTransaction(t)
          /\ Leave(t)
          /\ UNCHANGED <<open, view>>
       \/ /\ open = {}
          /\ open' = {connection(t)} /\ view' = db
          /\ Goto(t, "select")
    /\ UNCHANGED <<db, marked>>

\* SELECT status, and transition_run, which raises if the move is illegal.
Select(t) ==
    /\ pc[t] = "select"
    /\ pc' = [pc EXCEPT ![t] =
                IF target[t] \in ALLOWED_RUN_TRANSITIONS[Visible(t).status]
                THEN "update" ELSE "rollback"]
    /\ read' = [read EXCEPT ![t] = Visible(t).status]
    /\ UNCHANGED <<db, open, view, target, marked>>

Update(t) ==
    /\ pc[t] = "update" /\ Goto(t, "commit")
    /\ Write(t, [Visible(t) EXCEPT !.status = target[t]])
    /\ UNCHANGED <<open, marked>>

\* immediate(): the body ended without an exception.
CommitImmediate(t) ==
    /\ pc[t] = "commit" /\ Leave(t)
    /\ Commit(t)
    /\ UNCHANGED marked

\* Mutant: an exception leaves the transaction open.
RollbackNothing(t) ==
    /\ pc[t] = "rollback" /\ Leave(t)
    /\ UNCHANGED <<db, open, view, marked>>

\* immediate(): the body raised.
Rollback(t) ==
    /\ pc[t] = "rollback" /\ Leave(t)
    /\ open' = open \ {connection(t)}
    /\ UNCHANGED <<db, view, marked>>

-----------------------------------------------------------------------------
(* SideEffectRepository.mark_in_progress *)

mark_in_progress(t) ==
    /\ pc[t] = "idle" /\ Goto(t, "mark")
    /\ UNCHANGED <<db, open, view, marked>>

\* Mutant: the driver's implicit transaction, opened by the UPDATE, is left to
\* a later commit().
SetStateUncommitted(t) ==
    /\ pc[t] = "mark" /\ open = {} /\ Leave(t)
    /\ open' = {connection(t)}
    /\ view' = [db EXCEPT !.effect = IN_PROGRESS]
    /\ marked' = marked \cup {t}
    /\ UNCHANGED db

_set_state(t) ==
    /\ pc[t] = "mark" /\ Goto(t, "mark_commit")
    /\ Write(t, [Visible(t) EXCEPT !.effect = IN_PROGRESS])
    /\ UNCHANGED <<open, marked>>

\* self._conn.commit(), after which the tool may be called.
CommitMark(t) ==
    /\ pc[t] = "mark_commit" /\ Leave(t)
    /\ Commit(t)
    /\ marked' = marked \cup {t}

-----------------------------------------------------------------------------

\* busy_timeout has passed: the statement raises, and inside immediate() the
\* exception is followed by a rollback().
BusyTimeout(t) ==
    /\ Locked(t)
    /\ \/ pc[t] \in {"begin", "mark"} /\ Leave(t)
       \/ pc[t] = "update" /\ ~InTransaction(t) /\ Goto(t, "rollback")
    /\ UNCHANGED <<db, open, view, marked>>

\* A process dies with its threads; the database discards its transaction.
Die(c) ==
    LET dead == {t \in Threads : connection(t) = c} IN
    /\ \E t \in dead : pc[t] # "idle"
    /\ open' = open \ {c}
    /\ pc' = [t \in Threads |-> IF t \in dead THEN "idle" ELSE pc[t]]
    /\ target' = [t \in Threads |-> IF t \in dead THEN "none" ELSE target[t]]
    /\ read' = [t \in Threads |-> IF t \in dead THEN "none" ELSE read[t]]
    /\ UNCHANGED <<db, view, marked>>

Step(t) ==
    \/ Begin(t) \/ Select(t) \/ Update(t) \/ CommitImmediate(t) \/ Rollback(t)
    \/ _set_state(t) \/ CommitMark(t) \/ BusyTimeout(t)

Next ==
    \/ \E t \in Threads : \/ \E s \in RunStatus : set_status(t, s)
                          \/ mark_in_progress(t)
                          \/ Step(t)
    \/ \E c \in Connection : Die(c)

\* A live thread executes its next statement.
Spec == Init /\ [][Next]_vars /\ \A t \in Threads : WF_vars(Step(t))

-----------------------------------------------------------------------------

\* "BEGIN IMMEDIATE acquires the write lock before we read, so two callers
\* cannot both read status paused and then both transition away from it": when
\* a set_status writes, the status is still the one it has read and validated.
ReadIsCurrent ==
    \A t \in Threads : pc[t] = "update" => Visible(t).status = read[t]

\* "A concurrent approve and cancel cannot interleave into an illegal state":
\* each status that is committed is a legal move from the one before it.
TransitionsLegal ==
    [][db'.status # db.status
          => db'.status \in ALLOWED_RUN_TRANSITIONS[db.status]]_vars

\* "Written and committed before the call": once mark_in_progress has
\* returned, the row says so to every later reader, also after a crash.
MarkDurable == marked # {} => db.effect = IN_PROGRESS

\* The write lock is released, whatever the operation that took it ended with:
\* otherwise every later operation of every process would fail.
LockReleased == \A c \in Connection : c \in open ~> c \notin open
=============================================================================
