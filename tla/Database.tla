------------------------------ MODULE Database ------------------------------
(***************************************************************************)
(* The shared connection (src/mtrtk/store/db.py): statements of many tasks *)
(* serialised by a lock, `transaction()` as the only way to group writes,  *)
(* and tasks that are cancelled at any await.                              *)
(*                                                                         *)
(* aiosqlite runs statements in one thread, in the order they were asked   *)
(* for; cancelling the task that awaits one does not take it back.         *)
(***************************************************************************)
EXTENDS Naturals, Sequences, FiniteSets

CONSTANTS
  Units,   \* tasks that write two rows in a transaction, through a repository
           \* whose own trailing commit() is then a no-op
  Writers, \* tasks that execute one write and then commit()
  MaxCancels, \* bound: tasks cancelled
  MaxErrors   \* bound: statements that fail (a full disk, a constraint)

Tasks == Units \union Writers

VARIABLES
  at,        \* at[t]: the await the task stands at
  lock,      \* _lock: its holder or "free"
  txTask,    \* _tx_task
  thread,    \* statements queued for the connection's thread
  inTx,      \* the connection is inside a transaction
  open,      \* writes of the open transaction
  stored,    \* writes committed to the file
  cancels, errors,
  dangling   \* history: a task was cancelled at its BEGIN

tasks == <<at, lock, txTask>>
file == <<inTx, open, stored>>
bounds == <<cancels, errors>>
state == <<tasks, thread, file, bounds, dangling>>

Init ==
  /\ at = [t \in Tasks |-> "idle"]
  /\ lock = "free" /\ txTask = "none"
  /\ thread = <<>> /\ inTx = FALSE /\ open = {} /\ stored = {}
  /\ cancels = 0 /\ errors = 0 /\ dangling = FALSE

\* The task awaits the answer to a statement; the lock may pass to or from it.
Asks(t, op) == thread' = Append(thread, [task |-> t, op |-> op]) /\ at' = [at EXCEPT ![t] = op]

Owns(t) == txTask = t

\* `transaction()`: the lock, then BEGIN IMMEDIATE.
Begin(t) ==
  /\ t \in Units /\ at[t] = "idle" /\ lock = "free"
  /\ lock' = t /\ Asks(t, "begin")
  /\ UNCHANGED <<txTask, file, bounds, dangling>>

\* `execute` of a single write: behind any transaction.
Execute(t) ==
  /\ t \in Writers /\ at[t] = "idle" /\ lock = "free"
  /\ lock' = t /\ Asks(t, "first")
  /\ UNCHANGED <<txTask, file, bounds, dangling>>

\* Mutant of CommitInside: a repository's trailing commit() ends the unit.
CommitInsideReal(t) == "commit_inside"

\* What a unit awaits after its first write: `commit()` does nothing in the
\* task that owns the transaction.
CommitInside(t) == IF Owns(t) THEN "second" ELSE "commit_inside"

\* The lock around one statement is released and taken again for the commit.
Commit(t) ==
  /\ t \in Writers /\ at[t] = "written" /\ lock = "free"
  /\ lock' = t /\ Asks(t, "commit")
  /\ UNCHANGED <<txTask, file, bounds, dangling>>

-----------------------------------------------------------------------------

Op == Head(thread).op
Who == Head(thread).task
Write(t, op) == <<t, op>>

\* What a statement does to the connection.
Effect ==
  CASE Op = "begin" -> inTx' = TRUE /\ UNCHANGED <<open, stored>>
    [] Op \in {"first", "second"} ->
         IF inTx THEN open' = open \union {Write(Who, Op)} /\ UNCHANGED <<inTx, stored>>
         ELSE stored' = stored \union {Write(Who, Op)} /\ UNCHANGED <<inTx, open>>
    [] Op \in {"commit", "commit_inside"} ->
         inTx' = FALSE /\ stored' = stored \union open /\ open' = {}
    [] Op = "rollback" -> inTx' = FALSE /\ open' = {} /\ UNCHANGED stored

\* Mutant of AfterError: the body's error leaves the transaction open.
AfterErrorKeeps(t) == /\ at' = [at EXCEPT ![t] = "failed"] /\ lock' = "free" /\ txTask' = "none"
                      /\ thread' = Tail(thread)

\* `except BaseException: rollback`; outside a transaction the lock is let go.
AfterError(t) ==
  IF Owns(t)
  THEN /\ at' = [at EXCEPT ![t] = "rollback"] /\ UNCHANGED <<lock, txTask>>
       /\ thread' = Append(Tail(thread), [task |-> t, op |-> "rollback"])
  ELSE /\ at' = [at EXCEPT ![t] = "failed"] /\ lock' = "free" /\ UNCHANGED txTask
       /\ thread' = Tail(thread)

\* The task goes on to its next statement.
Continue(t, op) ==
  /\ at' = [at EXCEPT ![t] = op] /\ UNCHANGED lock
  /\ thread' = Append(Tail(thread), [task |-> t, op |-> op])

Leaves(t, where) ==
  /\ at' = [at EXCEPT ![t] = where] /\ lock' = "free"
  /\ thread' = Tail(thread)

\* The answer reaches a task that still waits for it.
Resume(t) ==
  CASE Op = "begin" -> txTask' = t /\ Continue(t, "first")
    [] Op = "first" /\ t \in Units -> UNCHANGED txTask /\ Continue(t, CommitInside(t))
    [] Op = "commit_inside" -> UNCHANGED txTask /\ Continue(t, "second")
    [] Op = "second" -> UNCHANGED txTask /\ Continue(t, "commit")
    [] Op = "first" /\ t \in Writers -> UNCHANGED txTask /\ Leaves(t, "written")
    [] Op = "commit" -> txTask' = (IF Owns(t) THEN "none" ELSE txTask) /\ Leaves(t, "done")
    [] Op = "rollback" -> txTask' = "none" /\ Leaves(t, "failed")

Fails == (Op = "begin" /\ inTx) \/ (Op \in {"first", "second"} /\ errors < MaxErrors)

\* The thread runs the next statement and its task resumes.  A BEGIN inside a
\* transaction fails; a write may.
Runs ==
  /\ thread # <<>>
  /\ \/ /\ Fails
        /\ errors' = IF Op = "begin" THEN errors ELSE errors + 1
        /\ IF at[Who] = Op THEN AfterError(Who)
           ELSE thread' = Tail(thread) /\ UNCHANGED <<at, lock, txTask>>
        /\ UNCHANGED file
     \/ /\ ~(Op = "begin" /\ inTx)
        /\ Effect
        /\ IF at[Who] = Op THEN Resume(Who)
           ELSE thread' = Tail(thread) /\ UNCHANGED <<at, lock, txTask>>
        /\ UNCHANGED errors
  /\ UNCHANGED <<cancels, dangling>>

\* A task that awaits is cancelled.  In the body of a transaction it rolls
\* back and fails then; anywhere else it leaves at once, its statement queued.
Cancelled(t) ==
  /\ cancels < MaxCancels /\ cancels' = cancels + 1
  /\ at[t] \notin {"idle", "done", "failed", "rollback", "cancelled"}
  /\ dangling' = (dangling \/ at[t] = "begin")
  /\ IF Owns(t) /\ at[t] # "commit"
     THEN Asks(t, "rollback") /\ UNCHANGED <<lock, txTask>>
     ELSE /\ at' = [at EXCEPT ![t] = "cancelled"]
          /\ lock' = IF lock = t THEN "free" ELSE lock
          /\ txTask' = IF Owns(t) THEN "none" ELSE txTask
          /\ UNCHANGED thread
  /\ UNCHANGED <<file, errors>>

Next ==
  \/ \E t \in Tasks : Begin(t) \/ Execute(t) \/ Commit(t) \/ Cancelled(t)
  \/ Runs

-----------------------------------------------------------------------------

\* The database as a store of whole units.
AllOrNothing ==
  INSTANCE AtomicStore WITH
    Groups <- {{Write(t, "first"), Write(t, "second")} : t \in Units}
              \union {{Write(t, "first")} : t \in Writers}

\* "nothing outside can observe or commit an intermediate state": whichever
\* task fails or is cancelled, and wherever, the file goes from whole units to
\* whole units, and never loses one.
CommitsUnits == AllOrNothing!Spec

\* A write whose commit() returned is in the file: it never joins a unit of
\* another task that is rolled back.  And a unit is refused its BEGIN only
\* where a cancelled task left one behind.
WritesStand ==
  /\ \A t \in Tasks : at[t] = "done" => Write(t, "first") \in stored
  /\ inTx => dangling \/ lock \in Units
              \/ \E i \in DOMAIN thread : thread[i].op \in {"commit", "rollback"}

=============================================================================
