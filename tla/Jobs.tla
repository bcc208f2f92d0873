-------------------------------- MODULE Jobs --------------------------------
(***************************************************************************)
(* Background jobs (src/mtrtk/jobs.py): a row in the `jobs` table, a       *)
(* result directory and a task for each, with submissions, deletions,      *)
(* shutdown and a crash interleaved at every await.                        *)
(*                                                                         *)
(* The database runs in autocommit mode with its statements serialised, so *)
(* an UPDATE takes effect at its `execute`; `_update` then reads the row   *)
(* back and publishes it in a later step.  A cancelled `execute` may or    *)
(* may not have reached the database.                                      *)
(***************************************************************************)
EXTENDS Naturals, FiniteSets

CONSTANTS
  Ids,           \* the job ids a run may hand out
  Deleters,      \* the handlers (and the retention task) that call delete()
  MaxConcurrent, \* max_concurrent: the slots of the semaphore
  MaxRestarts,   \* bound: process restarts in a run
  Faults         \* what else may happen: "mkdir_fails" (the job directory cannot
                 \* be made)

ASSUME JobsAssumption ==
  /\ MaxConcurrent \in Nat \ {0}
  /\ MaxRestarts \in Nat
  /\ Faults \subseteq {"mkdir_fails"}

VARIABLES
  phase,      \* of the process: "up", "closing" (shutdown() ran) or "down"
  restarts,   \* restarts so far
  row,        \* row[j]: status column, or "absent"
  dir,        \* the jobs whose result directory exists
  submit,     \* submit[j]: "new", "inserting", "getting", "returned" or "raised"
  task,       \* task[j]: where _run stands
  cancel,     \* the tasks with a CancelledError on its way
  reason,     \* _cancel_reason[j]: "unset", "deleted" (None) or "shutdown"
  tasks,      \* keys of _tasks
  kinds,      \* keys of _kinds
  making,     \* directories a worker thread is about to make
  del,        \* del[d]: where a delete() stands, its job, the status it read
  announced   \* announced[j]: the last thing the bus was told about j

procVars == <<phase, restarts>>
runVars == <<task, cancel, making>>
books == <<reason, tasks, kinds>>
vars == <<procVars, row, dir, submit, runVars, books, del, announced>>

Live == {"queued", "running"}
IdleDelete == [at |-> "idle", job |-> "none", seen |-> "absent"]

\* A task that has not finished; one that holds the semaphore.
Alive(j) == task[j] \notin {"none", "ended", "nodir", "unstarted"}
Holds(j) == task[j] \in {"mkdir", "starting", "started", "fn", "todone", "tofailed", "settled"}

Up == phase # "down"

Init ==
  /\ phase = "up" /\ restarts = 0
  /\ row = [j \in Ids |-> "absent"]
  /\ dir = {} /\ making = {}
  /\ submit = [j \in Ids |-> "new"]
  /\ task = [j \in Ids |-> "none"]
  /\ cancel = {}
  /\ reason = [j \in Ids |-> "unset"]
  /\ tasks = {} /\ kinds = {}
  /\ del = [d \in Deleters |-> IdleDelete]
  /\ announced = [j \in Ids |-> "nothing"]

\* Bus.publish of the row just read back; a deleted row announces nothing.
AnnounceRow(j) ==
  announced' = IF row[j] = "absent" THEN announced ELSE [announced EXCEPT ![j] = row[j]]

-----------------------------------------------------------------------------
(* submit() *)

\* The job is registered in _kinds before the first await.
SubmitStart(j) ==
  /\ phase = "up" /\ submit[j] = "new"
  /\ submit' = [submit EXCEPT ![j] = "inserting"]
  /\ kinds' = kinds \union {j}
  /\ UNCHANGED <<procVars, row, dir, runVars, reason, tasks, del, announced>>

SubmitInsert(j) ==
  /\ Up /\ submit[j] = "inserting"
  /\ \/ submit' = [submit EXCEPT ![j] = "getting"] /\ row' = [row EXCEPT ![j] = "queued"]
        /\ UNCHANGED kinds
     \/ submit' = [submit EXCEPT ![j] = "raised"] /\ kinds' = kinds \ {j}
        /\ UNCHANGED row
  /\ UNCHANGED <<procVars, dir, runVars, reason, tasks, del, announced>>

\* The row is read back (the assertion that it is there holds: see
\* DeleteStart), published and given a task.
SubmitGet(j) ==
  /\ Up /\ submit[j] = "getting"
  /\ AnnounceRow(j)
  /\ submit' = [submit EXCEPT ![j] = "returned"]
  /\ task' = [task EXCEPT ![j] = "created"]
  /\ tasks' = tasks \union {j}
  /\ UNCHANGED <<procVars, row, dir, cancel, making, reason, kinds, del>>

-----------------------------------------------------------------------------
(* The task: _run and _execute *)

\* A step of the task that is not cancelled, from one await to the next.
Advance(j, from, to) ==
  /\ Up /\ task[j] = from /\ j \notin cancel
  /\ task' = [task EXCEPT ![j] = to]

Start(j) ==
  /\ Advance(j, "created", "waiting")
  /\ UNCHANGED <<procVars, row, dir, submit, cancel, making, books, del, announced>>

\* The semaphore's slot, then the mkdir handed to a thread.
Acquire(j) ==
  /\ Advance(j, "waiting", "mkdir")
  /\ Cardinality({i \in Ids : Holds(i)}) < MaxConcurrent
  /\ making' = making \union {j}
  /\ UNCHANGED <<procVars, row, dir, submit, cancel, books, del, announced>>

\* The thread makes the directory, whether or not its task still waits.
MkdirThread(j) ==
  /\ j \in making
  /\ making' = making \ {j} /\ dir' = dir \union {j}
  /\ UNCHANGED <<procVars, row, submit, task, cancel, books, del, announced>>

MkdirDone(j) ==
  /\ j \notin making
  /\ Advance(j, "mkdir", "starting")
  /\ UNCHANGED <<procVars, row, dir, submit, cancel, making, books, del, announced>>

\* The `finally` of _run.
Forget(j) ==
  /\ tasks' = tasks \ {j}
  /\ kinds' = kinds \ {j}
  /\ reason' = [reason EXCEPT ![j] = "unset"]

\* The mkdir raises: _run logs the exception and the row is not written.
MkdirFails(j) ==
  /\ "mkdir_fails" \in Faults /\ j \in making
  /\ Advance(j, "mkdir", "nodir")
  /\ making' = making \ {j}
  /\ Forget(j)
  /\ UNCHANGED <<procVars, row, dir, submit, cancel, del, announced>>

\* The status an UPDATE of this task is about to write.
Pending(j) ==
  CASE task[j] = "starting" -> "running"
    [] task[j] = "todone" -> "done"
    [] task[j] \in {"tofailed", "marking"} -> "failed"

Writing(j) == task[j] \in {"starting", "todone", "tofailed", "marking"}

\* `UPDATE ... WHERE id = ?`: no row, no effect.
Write(j, status) == IF row[j] = "absent" THEN row ELSE [row EXCEPT ![j] = status]

\* The `execute` of _update.
Update(j) ==
  /\ Writing(j)
  /\ Advance(j, task[j], CASE task[j] = "starting" -> "started"
                           [] task[j] = "marking" -> "marked"
                           [] OTHER -> "settled")
  /\ row' = Write(j, Pending(j))
  /\ UNCHANGED <<procVars, dir, submit, cancel, making, books, del, announced>>

\* The rest of _update after status="running": the job function is called.
Started(j) ==
  /\ Advance(j, "started", "fn")
  /\ AnnounceRow(j)
  /\ UNCHANGED <<procVars, row, dir, submit, cancel, making, books, del>>

\* JobContext.progress.
Report(j) ==
  /\ Advance(j, "fn", "fn")
  /\ AnnounceRow(j)
  /\ UNCHANGED <<procVars, row, dir, submit, cancel, making, books, del>>

\* The job function returns, or raises (a result that is no dict, or does not
\* serialise, is raised too).
FnEnds(j) ==
  /\ \E to \in {"todone", "tofailed"} : Advance(j, "fn", to)
  /\ UNCHANGED <<procVars, row, dir, submit, cancel, making, books, del, announced>>

\* The rest of the last _update, and the end of _run.
Settled(j) ==
  /\ \E from \in {"settled", "marked"} : Advance(j, from, "ended")
  /\ AnnounceRow(j)
  /\ Forget(j)
  /\ UNCHANGED <<procVars, row, dir, submit, cancel, making, del>>

\* _mark_cancelled writes unless delete() asked for the cancellation.
MarksRow(j) == reason[j] # "deleted"

\* CancelledError arrives: an UPDATE in flight may have been executed.  Before
\* its first step _run has no `except` and no `finally` to enter; in
\* _mark_cancelled a second cancellation ends the task.
Cancelled(j) ==
  /\ Up /\ j \in cancel
  /\ cancel' = cancel \ {j}
  /\ row' \in {row} \union (IF Writing(j) THEN {Write(j, Pending(j))} ELSE {})
  /\ IF task[j] = "created"
     THEN task' = [task EXCEPT ![j] = "unstarted"] /\ UNCHANGED books
     ELSE IF task[j] \in {"marking", "marked"} \/ ~MarksRow(j)
     THEN task' = [task EXCEPT ![j] = "ended"] /\ Forget(j)
     ELSE task' = [task EXCEPT ![j] = "marking"] /\ UNCHANGED books
  /\ UNCHANGED <<procVars, dir, submit, making, del, announced>>

TaskStep(j) ==
  \/ Start(j) \/ Acquire(j) \/ MkdirThread(j) \/ MkdirDone(j) \/ MkdirFails(j)
  \/ Update(j) \/ Started(j) \/ FnEnds(j) \/ Settled(j) \/ Cancelled(j)

-----------------------------------------------------------------------------
(* delete() *)

Deleting(j) == {d \in Deleters : del[d].job = j}

\* delete(j) is called.  The database lock is first come, first served:
\* submit() has read its row back before a delete of an id learnt from the
\* table gets that far.
CallDelete(d, j) ==
  /\ Up /\ del[d].at = "idle" /\ submit[j] = "returned"
  /\ del' = [del EXCEPT ![d] = [at |-> "asked", job |-> j, seen |-> "absent"]]
  /\ UNCHANGED <<procVars, row, dir, submit, runVars, books, announced>>

\* The DELETE handler, for a job that exists.
DeleteStart(d, j) == row[j] # "absent" /\ CallDelete(d, j)

\* prune_exports, for an export that was finished when it listed them; a
\* finished row stays finished until it is deleted.
PruneStart(d, j) == row[j] \in {"done", "failed"} /\ CallDelete(d, j)

\* The first get().
DeleteRead(d) ==
  /\ Up /\ del[d].at = "asked"
  /\ del' = [del EXCEPT ![d] = [at |-> "read", job |-> @.job, seen |-> row[@.job]]]
  /\ UNCHANGED <<procVars, row, dir, submit, runVars, books, announced>>

\* Mutant of DeletePop: the status read first decides alone.
DeletePopTrusts(d) ==
  LET j == del[d].job IN
  /\ Up /\ del[d].at = "read"
  /\ IF del[d].seen = "running"
     THEN del' = [del EXCEPT ![d] = IdleDelete] /\ UNCHANGED tasks
     ELSE del' = [del EXCEPT ![d].at = "rmtree"] /\ tasks' = tasks \ {j}
  /\ UNCHANGED <<procVars, row, dir, submit, runVars, reason, kinds, announced>>

\* A running job is refused; else the task is taken out of _tasks.
DeletePop(d) ==
  LET j == del[d].job IN
  /\ Up /\ del[d].at = "read"
  /\ IF del[d].seen = "running"
     THEN del' = [del EXCEPT ![d] = IdleDelete] /\ UNCHANGED tasks
     ELSE /\ del' = [del EXCEPT ![d].at = IF j \in tasks THEN "holding" ELSE "rmtree"]
          /\ tasks' = tasks \ {j}
  /\ UNCHANGED <<procVars, row, dir, submit, runVars, reason, kinds, announced>>

\* The second get(), which the code after it follows without an await: a job
\* that has started is put back, another one is cancelled.  The task ran its
\* first step long before this answer (the event loop runs it next).
DeleteCheck(d) ==
  LET j == del[d].job IN
  /\ Up /\ del[d].at = "holding" /\ task[j] # "created"
  /\ IF row[j] = "running"
     THEN /\ del' = [del EXCEPT ![d] = IdleDelete]
          /\ tasks' = tasks \union {j}
          /\ UNCHANGED <<reason, cancel>>
     ELSE /\ del' = [del EXCEPT ![d].at = "gather"]
          /\ reason' = [reason EXCEPT ![j] = "deleted"]
          /\ cancel' = IF Alive(j) THEN cancel \union {j} ELSE cancel
          /\ UNCHANGED tasks
  /\ UNCHANGED <<procVars, row, dir, submit, task, making, kinds, announced>>

\* `gather` waits for the cancelled task to end.
DeleteGather(d) ==
  /\ Up /\ del[d].at = "gather" /\ ~Alive(del[d].job)
  /\ del' = [del EXCEPT ![d].at = "rmtree"]
  /\ UNCHANGED <<procVars, row, dir, submit, runVars, books, announced>>

DeleteRmtree(d) ==
  /\ Up /\ del[d].at = "rmtree"
  /\ dir' = dir \ {del[d].job}
  /\ del' = [del EXCEPT ![d].at = "row"]
  /\ UNCHANGED <<procVars, row, submit, runVars, books, announced>>

\* DELETE, COMMIT, and the announcement if a row was removed.
DeleteRow(d) ==
  LET j == del[d].job IN
  /\ Up /\ del[d].at = "row"
  /\ row' = [row EXCEPT ![j] = "absent"]
  /\ announced' = IF row[j] = "absent" THEN announced ELSE [announced EXCEPT ![j] = "deleted"]
  /\ del' = [del EXCEPT ![d] = IdleDelete]
  /\ UNCHANGED <<procVars, dir, submit, runVars, books>>

DeleteStep(d) ==
  \/ DeleteRead(d) \/ DeletePop(d) \/ DeleteCheck(d) \/ DeleteGather(d)
  \/ DeleteRmtree(d) \/ DeleteRow(d)

-----------------------------------------------------------------------------
(* The process *)

\* shutdown(): every task in _tasks is cancelled, with a reason of its own
\* unless a delete gave one.  The web server may still have handlers running.
Shutdown ==
  /\ phase = "up" /\ restarts < MaxRestarts
  /\ phase' = "closing"
  /\ reason' = [j \in Ids |-> IF j \in tasks /\ reason[j] = "unset" THEN "shutdown" ELSE reason[j]]
  /\ cancel' = cancel \union {j \in tasks : Alive(j)}
  /\ UNCHANGED <<restarts, row, dir, submit, task, making, tasks, kinds, del, announced>>

\* The grace period ends, or the process dies before: its memory is gone.
Exit ==
  /\ phase = "closing" \/ (phase = "up" /\ restarts < MaxRestarts)
  /\ phase' = "down" /\ restarts' = restarts + 1
  /\ submit' = [j \in Ids |-> IF submit[j] \in {"inserting", "getting"} THEN "raised" ELSE submit[j]]
  /\ task' = [j \in Ids |-> "none"]
  /\ cancel' = {} /\ making' = {}
  /\ reason' = [j \in Ids |-> "unset"]
  /\ tasks' = {} /\ kinds' = {}
  /\ del' = [d \in Deleters |-> IdleDelete]
  /\ UNCHANGED <<row, dir, announced>>

RestoredRunning(status) == IF status = "running" THEN "failed" ELSE status

\* restore() fails what the last process left in flight.
Restored(status) == IF status \in Live THEN "failed" ELSE status

\* The next process starts: restore() runs before anything else.
Restore ==
  /\ phase = "down"
  /\ phase' = "up"
  /\ row' = [j \in Ids |-> Restored(row[j])]
  /\ announced' = [j \in Ids |-> IF row[j] \in Live THEN row'[j] ELSE announced[j]]
  /\ UNCHANGED <<restarts, dir, submit, runVars, books, del>>

Next ==
  \/ \E j \in Ids : SubmitStart(j) \/ SubmitInsert(j) \/ SubmitGet(j) \/ TaskStep(j) \/ Report(j)
  \/ \E d \in Deleters : DeleteStep(d) \/ \E j \in Ids : DeleteStart(d, j) \/ PruneStart(d, j)
  \/ Shutdown \/ Exit \/ Restore

\* Ready tasks run; a job function ends; a stopped process is started again.
Fairness ==
  /\ \A j \in Ids : WF_vars(SubmitInsert(j)) /\ WF_vars(SubmitGet(j)) /\ WF_vars(TaskStep(j))
  /\ \A d \in Deleters : WF_vars(DeleteStep(d))
  /\ WF_vars(Restore) /\ WF_vars(phase = "closing" /\ Exit)

Spec == Init /\ [][Next]_vars

FairSpec == Spec /\ Fairness

-----------------------------------------------------------------------------
(* Properties *)

\* "A running job is refused" (delete's docstring): while the job function
\* runs its row says so and its directory is there, whatever deletes race it,
\* and cancelling it "is the one thing this method promises not to do": only
\* shutdown() does.
RunningIsNotDeleted ==
  \A j \in Ids : task[j] = "fn" =>
    /\ row[j] = "running" /\ j \in dir
    /\ j \in cancel => phase = "closing" /\ reason[j] = "shutdown"

\* "LIVE: what a crash, or a shutdown, can leave behind": in a process that
\* runs, a queued or running row belongs to a submit, a task or a delete in
\* progress.  Shutdown leaves one behind that never got its first step, and so
\* does a job whose directory cannot be made (_execute makes it outside its
\* try).
LiveRowHasOwner ==
  Up => \A j \in Ids : row[j] \in Live =>
          \/ submit[j] \in {"inserting", "getting"} \/ Alive(j)
          \/ \E d \in Deleting(j) : del[d].at \in {"gather", "rmtree", "row"}
          \/ phase = "closing" /\ task[j] = "unstarted"
          \/ task[j] = "nodir"

\* What the UI was told last stays true: a result announced as done is never
\* taken back by a later failure or a restart, and a deleted job never returns.
AnnouncedStands ==
  [][\A j \in Ids : /\ announced[j] = "done" => row'[j] \in {"done", "absent"}
                    /\ announced[j] = "deleted" => announced'[j] = "deleted" /\ row'[j] = "absent"]_vars

\* Every submitted job ends or is deleted, across restarts, unless its
\* directory cannot be made.
EveryJobSettles ==
  \A j \in Ids : row[j] \in Live ~> row[j] \notin Live \/ task[j] = "nodir"

\* A job that runs is nobody's to delete, and a live row is somebody's to
\* settle, whatever deletes, shutdowns and crashes meet (delete, _run,
\* shutdown, restore).
JobsOwned == RunningIsNotDeleted /\ LiveRowHasOwner

\* Every job settles, and what was announced of it stands.
JobsSettle == AnnouncedStands /\ EveryJobSettles

=============================================================================
