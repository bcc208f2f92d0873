---------------------------- MODULE ServiceProofs ----------------------------
(***************************************************************************)
(* Proofs about Jobs, for every set of jobs and of deleters, every number  *)
(* of slots and of restarts, and about Daemon, for every set of PUTs and   *)
(* every plan.                                                             *)
(*                                                                         *)
(* Jobs: OwnedInv is what makes LiveRowHasOwner inductive: a               *)
(* CancelledError on its way has a shutdown or a waiting delete behind it, *)
(* and a task ends with its row settled or with a delete that will remove  *)
(* it.  ClaimInv adds what makes RunningIsNotDeleted inductive while no    *)
(* two deletes of one job overlap: a delete that waits for a task, or is   *)
(* past it, is the only one that took it out of _tasks.                    *)
(*                                                                         *)
(* Daemon: DaemonInv says who holds the two locks, which of the daemon's   *)
(* names (task, url, env, rover) agree with the clients there are, and     *)
(* when they may not: only while the PUT that is changing them is at it.   *)
(***************************************************************************)
EXTENDS MC_Services, TLAPS

-----------------------------------------------------------------------------
(* Jobs *)

Phases == {"up", "closing", "down"}
Statuses == {"absent", "queued", "running", "done", "failed"}
Submits == {"new", "inserting", "getting", "returned", "raised"}
TaskStates == {"none", "created", "waiting", "mkdir", "starting", "started", "fn", "todone",
               "tofailed", "settled", "marking", "marked", "ended", "nodir", "unstarted"}
DeleteStates == {"idle", "asked", "read", "holding", "gather", "rmtree", "row"}

TypeInv ==
  /\ phase \in Phases /\ restarts \in Nat
  /\ row \in [Ids -> Statuses]
  /\ dir \subseteq Ids /\ making \subseteq Ids
  /\ submit \in [Ids -> Submits]
  /\ task \in [Ids -> TaskStates]
  /\ cancel \subseteq Ids /\ tasks \subseteq Ids /\ kinds \subseteq Ids
  /\ reason \in [Ids -> {"unset", "deleted", "shutdown"}]
  /\ del \in [Deleters -> [at : DeleteStates, job : Ids \union {"none"}, seen : Statuses]]
  /\ announced \in [Ids -> Statuses \union {"nothing", "deleted"}]

\* A delete of j stands at one of these places.
DeleteAt(j, places) == \E d \in Deleters : del[d].job = j /\ del[d].at \in places

\* Every delete in progress is of a job whose submit() has returned.
DeletesInv ==
  \A d \in Deleters :
    del[d].at # "idle" => del[d].job \in Ids /\ submit[del[d].job] = "returned"

\* A process that is down has nothing in memory.
DownInv ==
  phase = "down" =>
    /\ cancel = {} /\ making = {}
    /\ \A j \in Ids : task[j] = "none" /\ submit[j] \in {"new", "returned", "raised"}

\* Who owns the row of j.
OwnedInv(j) ==
  /\ task[j] # "none" => submit[j] = "returned"
  /\ submit[j] \in {"new", "inserting"} => row[j] = "absent"
  /\ submit[j] = "getting" => row[j] = "queued"
  /\ Up /\ row[j] \in Live => submit[j] \in {"getting", "returned"}
  /\ Up /\ row[j] \in Live /\ task[j] = "none" => submit[j] = "getting"
  /\ reason[j] = "deleted" => submit[j] = "returned"
  /\ reason[j] = "deleted" /\ Alive(j) => DeleteAt(j, {"gather"})
  /\ j \in cancel =>
       /\ Alive(j)
       /\ phase = "closing" \/ reason[j] = "deleted"
       /\ task[j] = "created" => phase = "closing"
       /\ task[j] \in {"marking", "marked"} => DeleteAt(j, {"gather"})
  /\ task[j] \in {"unstarted", "marking", "marked"} => phase = "closing"
  /\ task[j] \in {"started", "fn"} => row[j] \in {"running", "absent"}
  /\ task[j] \in {"settled", "marked"} => row[j] \notin Live
  /\ task[j] = "ended" /\ row[j] \in Live => DeleteAt(j, {"gather", "rmtree", "row"})

OwnerInv == TypeInv /\ DeletesInv /\ DownInv /\ \A j \in Ids : OwnedInv(j)

\* No two deletes of one job overlap.
OneDeletePerJob ==
  \A d, e \in Deleters :
    del[d].at # "idle" /\ del[e].at # "idle" /\ del[d].job = del[e].job => d = e

\* Who may touch the task of j.
ClaimInv(j) ==
  /\ Alive(j) => row[j] # "absent"
  /\ Alive(j) /\ j \notin tasks => DeleteAt(j, {"holding", "gather"})
  /\ DeleteAt(j, {"holding", "gather"}) => j \notin tasks
  /\ DeleteAt(j, {"holding"}) => reason[j] # "deleted"
  /\ DeleteAt(j, {"rmtree", "row"}) => ~Alive(j)
  /\ DeleteAt(j, {"gather"}) /\ Alive(j) =>
       j \in cancel /\ reason[j] = "deleted" /\ task[j] \notin {"started", "fn"}
  /\ reason[j] = "deleted" => j \notin tasks
  /\ j \in cancel /\ reason[j] # "deleted" => phase = "closing" /\ reason[j] = "shutdown"
  /\ task[j] = "mkdir" => j \in making \/ j \in dir
  /\ task[j] \in {"starting", "started", "fn"} => j \in dir
  /\ task[j] \in {"started", "fn"} => row[j] = "running"

\* What was announced of j still holds of its row.
AnnouncedInv(j) ==
  /\ announced[j] = "done" =>
       /\ row[j] \in {"done", "absent"}
       /\ submit[j] \in {"returned", "raised"}
       /\ ~Alive(j)
  /\ announced[j] = "deleted" => row[j] = "absent" /\ submit[j] \in {"returned", "raised"}

-----------------------------------------------------------------------------

\* Every step of the jobs keeps their variables well typed.
LEMMA TypeStep ==
  ASSUME TypeInv, DeletesInv, [Next]_vars
  PROVE  TypeInv'
<1> USE DEF TypeInv, Phases, Statuses, Submits, TaskStates, DeleteStates, procVars, runVars, books
<1>1. ASSUME NEW j \in Ids, SubmitStart(j) PROVE TypeInv'
  BY <1>1 DEF SubmitStart
<1>2. ASSUME NEW j \in Ids, SubmitInsert(j) PROVE TypeInv'
  BY <1>2 DEF SubmitInsert
<1>3. ASSUME NEW j \in Ids, SubmitGet(j) PROVE TypeInv'
  BY <1>3 DEF SubmitGet, AnnounceRow
<1>4. ASSUME NEW j \in Ids, Start(j) PROVE TypeInv'
  BY <1>4 DEF Start, Advance
<1>5. ASSUME NEW j \in Ids, Acquire(j) PROVE TypeInv'
  BY <1>5 DEF Acquire, Advance
<1>6. ASSUME NEW j \in Ids, MkdirThread(j) PROVE TypeInv'
  BY <1>6 DEF MkdirThread
<1>7. ASSUME NEW j \in Ids, MkdirDone(j) PROVE TypeInv'
  BY <1>7 DEF MkdirDone, Advance
<1>8. ASSUME NEW j \in Ids, MkdirFails(j) PROVE TypeInv'
  BY <1>8 DEF MkdirFails, Advance, Forget
<1>9. ASSUME NEW j \in Ids, Update(j) PROVE TypeInv'
  BY <1>9 DEF Update, Advance, Writing, Write, Pending
<1>10. ASSUME NEW j \in Ids, Started(j) PROVE TypeInv'
  BY <1>10 DEF Started, Advance, AnnounceRow
<1>11. ASSUME NEW j \in Ids, FnEnds(j) PROVE TypeInv'
  BY <1>11 DEF FnEnds, Advance
<1>12. ASSUME NEW j \in Ids, Settled(j) PROVE TypeInv'
  BY <1>12 DEF Settled, Advance, AnnounceRow, Forget
<1>13. ASSUME NEW j \in Ids, Cancelled(j) PROVE TypeInv'
  BY <1>13 DEF Cancelled, Writing, Write, Pending, Forget
<1>14. ASSUME NEW j \in Ids, Report(j) PROVE TypeInv'
  BY <1>14 DEF Report, Advance, AnnounceRow
<1>15. ASSUME NEW d \in Deleters, DeleteRead(d) PROVE TypeInv'
  <2>1. row[del[d].job] \in Statuses
    BY <1>15 DEF DeleteRead, DeletesInv
  <2>2. QED
    BY <1>15, <2>1 DEF DeleteRead
<1>16. ASSUME NEW d \in Deleters, DeletePop(d) PROVE TypeInv'
  BY <1>16 DEF DeletePop, IdleDelete
<1>17. ASSUME NEW d \in Deleters, DeleteCheck(d) PROVE TypeInv'
  BY <1>17 DEF DeleteCheck, DeletesInv, IdleDelete
<1>18. ASSUME NEW d \in Deleters, DeleteGather(d) PROVE TypeInv'
  BY <1>18 DEF DeleteGather, IdleDelete
<1>19. ASSUME NEW d \in Deleters, DeleteRmtree(d) PROVE TypeInv'
  BY <1>19 DEF DeleteRmtree, IdleDelete
<1>20. ASSUME NEW d \in Deleters, DeleteRow(d) PROVE TypeInv'
  BY <1>20 DEF DeleteRow, IdleDelete
<1>21. ASSUME NEW d \in Deleters, NEW j \in Ids, CallDelete(d, j) PROVE TypeInv'
  BY <1>21 DEF CallDelete
<1>22. CASE Shutdown
  BY <1>22 DEF Shutdown
<1>23. CASE Exit
  BY <1>23 DEF Exit, IdleDelete
<1>24. CASE Restore
  BY <1>24 DEF Restore, Restored, Live
<1>25. CASE UNCHANGED vars
  BY <1>25 DEF vars
<1>26. QED
  BY <1>1, <1>2, <1>3, <1>4, <1>5, <1>6, <1>7, <1>8, <1>9, <1>10, <1>11, <1>12, <1>13, <1>14, <1>15, <1>16, <1>17, <1>18, <1>19, <1>20, <1>21, <1>22, <1>23, <1>24, <1>25
     DEF Next, TaskStep, DeleteStep, DeleteStart, PruneStart

\* A delete is of a job whose submit() has returned, and stays so.
LEMMA DeletesStep ==
  ASSUME TypeInv, DeletesInv, [Next]_vars
  PROVE  DeletesInv'
<1> USE DEF TypeInv, DeletesInv, Submits, procVars, runVars, books
<1>1. ASSUME NEW j \in Ids, SubmitStart(j) PROVE DeletesInv'
  BY <1>1 DEF SubmitStart
<1>2. ASSUME NEW j \in Ids, SubmitInsert(j) PROVE DeletesInv'
  BY <1>2 DEF SubmitInsert
<1>3. ASSUME NEW j \in Ids, SubmitGet(j) PROVE DeletesInv'
  BY <1>3 DEF SubmitGet, AnnounceRow
<1>4. ASSUME NEW j \in Ids, Start(j) PROVE DeletesInv'
  BY <1>4 DEF Start, Advance
<1>5. ASSUME NEW j \in Ids, Acquire(j) PROVE DeletesInv'
  BY <1>5 DEF Acquire, Advance
<1>6. ASSUME NEW j \in Ids, MkdirThread(j) PROVE DeletesInv'
  BY <1>6 DEF MkdirThread
<1>7. ASSUME NEW j \in Ids, MkdirDone(j) PROVE DeletesInv'
  BY <1>7 DEF MkdirDone, Advance
<1>8. ASSUME NEW j \in Ids, MkdirFails(j) PROVE DeletesInv'
  BY <1>8 DEF MkdirFails, Advance, Forget
<1>9. ASSUME NEW j \in Ids, Update(j) PROVE DeletesInv'
  BY <1>9 DEF Update, Advance, Writing, Write, Pending
<1>10. ASSUME NEW j \in Ids, Started(j) PROVE DeletesInv'
  BY <1>10 DEF Started, Advance, AnnounceRow
<1>11. ASSUME NEW j \in Ids, FnEnds(j) PROVE DeletesInv'
  BY <1>11 DEF FnEnds, Advance
<1>12. ASSUME NEW j \in Ids, Settled(j) PROVE DeletesInv'
  BY <1>12 DEF Settled, Advance, AnnounceRow, Forget
<1>13. ASSUME NEW j \in Ids, Cancelled(j) PROVE DeletesInv'
  BY <1>13 DEF Cancelled, Writing, Write, Pending, MarksRow, Forget
<1>14. ASSUME NEW j \in Ids, Report(j) PROVE DeletesInv'
  BY <1>14 DEF Report, Advance, AnnounceRow
<1>15. ASSUME NEW d \in Deleters, DeleteRead(d) PROVE DeletesInv'
  BY <1>15 DEF DeleteRead, IdleDelete
<1>16. ASSUME NEW d \in Deleters, DeletePop(d) PROVE DeletesInv'
  BY <1>16 DEF DeletePop, IdleDelete
<1>17. ASSUME NEW d \in Deleters, DeleteCheck(d) PROVE DeletesInv'
  BY <1>17 DEF DeleteCheck, IdleDelete
<1>18. ASSUME NEW d \in Deleters, DeleteGather(d) PROVE DeletesInv'
  BY <1>18 DEF DeleteGather, IdleDelete
<1>19. ASSUME NEW d \in Deleters, DeleteRmtree(d) PROVE DeletesInv'
  BY <1>19 DEF DeleteRmtree, IdleDelete
<1>20. ASSUME NEW d \in Deleters, DeleteRow(d) PROVE DeletesInv'
  BY <1>20 DEF DeleteRow, IdleDelete
<1>21. ASSUME NEW d \in Deleters, NEW j \in Ids, CallDelete(d, j) PROVE DeletesInv'
  BY <1>21 DEF CallDelete
<1>22. CASE Shutdown
  BY <1>22 DEF Shutdown
<1>23. CASE Exit
  BY <1>23 DEF Exit, IdleDelete
<1>24. CASE Restore
  BY <1>24 DEF Restore, Restored, Live
<1>25. CASE UNCHANGED vars
  BY <1>25 DEF vars
<1>26. QED
  BY <1>1, <1>2, <1>3, <1>4, <1>5, <1>6, <1>7, <1>8, <1>9, <1>10, <1>11, <1>12, <1>13, <1>14, <1>15, <1>16, <1>17, <1>18, <1>19, <1>20, <1>21, <1>22, <1>23, <1>24, <1>25
     DEF Next, TaskStep, DeleteStep, DeleteStart, PruneStart

\* A process that went down has left no task, cancellation or thread.
LEMMA DownStep ==
  ASSUME TypeInv, DeletesInv, DownInv, [Next]_vars
  PROVE  DownInv'
<1> USE DEF TypeInv, DownInv, Submits, procVars, runVars, books, Up
<1>1. ASSUME NEW j \in Ids, SubmitStart(j) PROVE DownInv'
  BY <1>1 DEF SubmitStart
<1>2. ASSUME NEW j \in Ids, SubmitInsert(j) PROVE DownInv'
  BY <1>2 DEF SubmitInsert
<1>3. ASSUME NEW j \in Ids, SubmitGet(j) PROVE DownInv'
  BY <1>3 DEF SubmitGet, AnnounceRow
<1>4. ASSUME NEW j \in Ids, Start(j) PROVE DownInv'
  BY <1>4 DEF Start, Advance
<1>5. ASSUME NEW j \in Ids, Acquire(j) PROVE DownInv'
  BY <1>5 DEF Acquire, Advance
<1>6. ASSUME NEW j \in Ids, MkdirThread(j) PROVE DownInv'
  BY <1>6 DEF MkdirThread
<1>7. ASSUME NEW j \in Ids, MkdirDone(j) PROVE DownInv'
  BY <1>7 DEF MkdirDone, Advance
<1>8. ASSUME NEW j \in Ids, MkdirFails(j) PROVE DownInv'
  BY <1>8 DEF MkdirFails, Advance, Forget
<1>9. ASSUME NEW j \in Ids, Update(j) PROVE DownInv'
  BY <1>9 DEF Update, Advance, Writing, Write, Pending
<1>10. ASSUME NEW j \in Ids, Started(j) PROVE DownInv'
  BY <1>10 DEF Started, Advance, AnnounceRow
<1>11. ASSUME NEW j \in Ids, FnEnds(j) PROVE DownInv'
  BY <1>11 DEF FnEnds, Advance
<1>12. ASSUME NEW j \in Ids, Settled(j) PROVE DownInv'
  BY <1>12 DEF Settled, Advance, AnnounceRow, Forget
<1>13. ASSUME NEW j \in Ids, Cancelled(j) PROVE DownInv'
  BY <1>13 DEF Cancelled, Writing, Write, Pending, MarksRow, Forget
<1>14. ASSUME NEW j \in Ids, Report(j) PROVE DownInv'
  BY <1>14 DEF Report, Advance, AnnounceRow
<1>15. ASSUME NEW d \in Deleters, DeleteRead(d) PROVE DownInv'
  BY <1>15 DEF DeleteRead, IdleDelete
<1>16. ASSUME NEW d \in Deleters, DeletePop(d) PROVE DownInv'
  BY <1>16 DEF DeletePop, IdleDelete
<1>17. ASSUME NEW d \in Deleters, DeleteCheck(d) PROVE DownInv'
  BY <1>17 DEF DeleteCheck, IdleDelete, DeletesInv
<1>18. ASSUME NEW d \in Deleters, DeleteGather(d) PROVE DownInv'
  BY <1>18 DEF DeleteGather, IdleDelete
<1>19. ASSUME NEW d \in Deleters, DeleteRmtree(d) PROVE DownInv'
  BY <1>19 DEF DeleteRmtree, IdleDelete
<1>20. ASSUME NEW d \in Deleters, DeleteRow(d) PROVE DownInv'
  BY <1>20 DEF DeleteRow, IdleDelete
<1>21. ASSUME NEW d \in Deleters, NEW j \in Ids, CallDelete(d, j) PROVE DownInv'
  BY <1>21 DEF CallDelete
<1>22. CASE Shutdown
  BY <1>22 DEF Shutdown
<1>23. CASE Exit
  BY <1>23 DEF Exit, IdleDelete
<1>24. CASE Restore
  BY <1>24 DEF Restore, Restored, Live
<1>25. CASE UNCHANGED vars
  BY <1>25 DEF vars
<1>26. QED
  BY <1>1, <1>2, <1>3, <1>4, <1>5, <1>6, <1>7, <1>8, <1>9, <1>10, <1>11, <1>12, <1>13, <1>14, <1>15, <1>16, <1>17, <1>18, <1>19, <1>20, <1>21, <1>22, <1>23, <1>24, <1>25
     DEF Next, TaskStep, DeleteStep, DeleteStart, PruneStart

\* Every step leaves the row of each job with an owner.
LEMMA OwnedStep ==
  ASSUME OwnerInv, [Next]_vars, NEW k \in Ids
  PROVE  OwnedInv(k)'
<1> USE DEF OwnerInv, TypeInv, DeletesInv, DownInv, OwnedInv, DeleteAt, Alive, Up, Live,
            Statuses, Submits, TaskStates, procVars, runVars, books
<1>1. ASSUME NEW j \in Ids, SubmitStart(j) PROVE OwnedInv(k)'
  BY <1>1 DEF SubmitStart
<1>2. ASSUME NEW j \in Ids, SubmitInsert(j) PROVE OwnedInv(k)'
  BY <1>2 DEF SubmitInsert
<1>3. ASSUME NEW j \in Ids, SubmitGet(j) PROVE OwnedInv(k)'
  BY <1>3 DEF SubmitGet, AnnounceRow
<1>4. ASSUME NEW j \in Ids, Start(j) PROVE OwnedInv(k)'
  BY <1>4 DEF Start, Advance
<1>5. ASSUME NEW j \in Ids, Acquire(j) PROVE OwnedInv(k)'
  BY <1>5 DEF Acquire, Advance
<1>6. ASSUME NEW j \in Ids, MkdirThread(j) PROVE OwnedInv(k)'
  BY <1>6 DEF MkdirThread
<1>7. ASSUME NEW j \in Ids, MkdirDone(j) PROVE OwnedInv(k)'
  BY <1>7 DEF MkdirDone, Advance
<1>8. ASSUME NEW j \in Ids, MkdirFails(j) PROVE OwnedInv(k)'
  BY <1>8 DEF MkdirFails, Advance, Forget
<1>9. ASSUME NEW j \in Ids, Update(j) PROVE OwnedInv(k)'
  BY <1>9 DEF Update, Advance, Writing, Write, Pending
<1>10. ASSUME NEW j \in Ids, Started(j) PROVE OwnedInv(k)'
  BY <1>10 DEF Started, Advance, AnnounceRow
<1>11. ASSUME NEW j \in Ids, FnEnds(j) PROVE OwnedInv(k)'
  BY <1>11 DEF FnEnds, Advance
<1>12. ASSUME NEW j \in Ids, Settled(j) PROVE OwnedInv(k)'
  BY <1>12 DEF Settled, Advance, AnnounceRow, Forget
<1>13. ASSUME NEW j \in Ids, Cancelled(j) PROVE OwnedInv(k)'
  BY <1>13 DEF Cancelled, Writing, Write, Pending, MarksRow, Forget
<1>14. ASSUME NEW j \in Ids, Report(j) PROVE OwnedInv(k)'
  BY <1>14 DEF Report, Advance, AnnounceRow
<1>15. ASSUME NEW d \in Deleters, DeleteRead(d) PROVE OwnedInv(k)'
  BY <1>15 DEF DeleteRead, IdleDelete
<1>16. ASSUME NEW d \in Deleters, DeletePop(d) PROVE OwnedInv(k)'
  BY <1>16 DEF DeletePop, IdleDelete
<1>17. ASSUME NEW d \in Deleters, DeleteCheck(d) PROVE OwnedInv(k)'
  BY <1>17 DEF DeleteCheck, IdleDelete
<1>18. ASSUME NEW d \in Deleters, DeleteGather(d) PROVE OwnedInv(k)'
  BY <1>18 DEF DeleteGather, IdleDelete
<1>19. ASSUME NEW d \in Deleters, DeleteRmtree(d) PROVE OwnedInv(k)'
  BY <1>19 DEF DeleteRmtree, IdleDelete
<1>20. ASSUME NEW d \in Deleters, DeleteRow(d) PROVE OwnedInv(k)'
  BY <1>20 DEF DeleteRow, IdleDelete
<1>21. ASSUME NEW d \in Deleters, NEW j \in Ids, CallDelete(d, j) PROVE OwnedInv(k)'
  BY <1>21 DEF CallDelete
<1>22. CASE Shutdown
  BY <1>22 DEF Shutdown
<1>23. CASE Exit
  BY <1>23 DEF Exit, IdleDelete
<1>24. CASE Restore
  BY <1>24 DEF Restore, Restored, Live
<1>25. CASE UNCHANGED vars
  BY <1>25 DEF vars
<1>26. QED
  BY <1>1, <1>2, <1>3, <1>4, <1>5, <1>6, <1>7, <1>8, <1>9, <1>10, <1>11, <1>12, <1>13, <1>14, <1>15, <1>16, <1>17, <1>18, <1>19, <1>20, <1>21, <1>22, <1>23, <1>24, <1>25
     DEF Next, TaskStep, DeleteStep, DeleteStart, PruneStart

\* A delete other than d's.
OtherAt(d, j, places) == \E e \in Deleters \ {d} : del[e].job = j /\ del[e].at \in places

\* A delete of j is d's or another's.
LEMMA DeleteSplit ==
  ASSUME NEW d \in Deleters, NEW j, NEW places
  PROVE  DeleteAt(j, places) <=> (del[d].job = j /\ del[d].at \in places) \/ OtherAt(d, j, places)
BY DEF DeleteAt, OtherAt

\* A step of d's moves no other delete.
LEMMA DeleteMoved ==
  ASSUME NEW d \in Deleters, NEW j, NEW places, \A e \in Deleters \ {d} : del'[e] = del[e]
  PROVE  DeleteAt(j, places)' <=> (del'[d].job = j /\ del'[d].at \in places) \/ OtherAt(d, j, places)
BY DEF DeleteAt, OtherAt

\* While d deletes j nobody else does.
LEMMA NoOther ==
  ASSUME OneDeletePerJob, NEW d \in Deleters, del[d].at # "idle",
         NEW places, "idle" \notin places
  PROVE  ~OtherAt(d, del[d].job, places)
BY DEF OneDeletePerJob, OtherAt

\* delete() refuses, or takes the task out of _tasks: it is then its only
\* claimant, or there is no task left to claim.
LEMMA ClaimPop ==
  ASSUME OwnerInv, OneDeletePerJob, NEW k \in Ids, ClaimInv(k), NEW d \in Deleters, DeletePop(d)
  PROVE  ClaimInv(k)'
<1> DEFINE j == del[d].job
<1>1. /\ del[d].at = "read"
      /\ UNCHANGED <<phase, row, dir, submit, task, cancel, making, reason>>
  BY DEF DeletePop, procVars, runVars
<1>2. \A e \in Deleters \ {d} : del'[e] = del[e]
  BY DEF DeletePop, OwnerInv, TypeInv
<1>3. Alive(k)' = Alive(k)
  BY <1>1 DEF Alive
<1>4. CASE del[d].seen = "running"
  <2>1. tasks' = tasks /\ del'[d].at = "idle"
    BY <1>4 DEF DeletePop, IdleDelete, OwnerInv, TypeInv
  <2>2. /\ DeleteAt(k, {"holding", "gather"})' <=> DeleteAt(k, {"holding", "gather"})
        /\ DeleteAt(k, {"rmtree", "row"})' <=> DeleteAt(k, {"rmtree", "row"})
        /\ DeleteAt(k, {"gather"})' <=> DeleteAt(k, {"gather"})
        /\ DeleteAt(k, {"holding"})' <=> DeleteAt(k, {"holding"})
    BY <1>1, <1>2, <2>1, DeleteSplit, DeleteMoved
  <2>3. QED
    BY <1>1, <1>3, <2>1, <2>2 DEF ClaimInv
<1>5. CASE del[d].seen # "running"
  <2>1. /\ tasks' = tasks \ {j} /\ del'[d].job = j
        /\ del'[d].at = IF j \in tasks THEN "holding" ELSE "rmtree"
    BY <1>5 DEF DeletePop, OwnerInv, TypeInv
  <2>2. CASE k # j
    <3>1. /\ DeleteAt(k, {"holding", "gather"})' <=> DeleteAt(k, {"holding", "gather"})
          /\ DeleteAt(k, {"rmtree", "row"})' <=> DeleteAt(k, {"rmtree", "row"})
          /\ DeleteAt(k, {"gather"})' <=> DeleteAt(k, {"gather"})
          /\ DeleteAt(k, {"holding"})' <=> DeleteAt(k, {"holding"})
      BY <1>2, <2>1, <2>2, DeleteSplit, DeleteMoved
    <3>2. QED
      BY <1>1, <1>3, <2>1, <2>2, <3>1 DEF ClaimInv
  <2>3. CASE k = j
    <3>1. /\ ~OtherAt(d, k, {"holding", "gather"})
          /\ ~OtherAt(d, k, {"rmtree", "row"})
          /\ ~OtherAt(d, k, {"gather"})
          /\ ~OtherAt(d, k, {"holding"})
      BY <1>1, <2>3, NoOther
    <3>2. ~DeleteAt(k, {"holding", "gather"})
      BY <1>1, <3>1, DeleteSplit
    <3>3. /\ DeleteAt(k, {"holding", "gather"})' <=> k \in tasks
          /\ DeleteAt(k, {"rmtree", "row"})' <=> k \notin tasks
          /\ ~DeleteAt(k, {"gather"})' /\ (DeleteAt(k, {"holding"})' => k \in tasks)
      BY <1>2, <2>1, <2>3, <3>1, DeleteMoved
    <3>4. QED
      BY <1>1, <1>3, <2>1, <2>3, <3>2, <3>3 DEF ClaimInv
  <2>4. QED
    BY <2>2, <2>3
<1>6. QED
  BY <1>4, <1>5

\* delete() looks at the row again: a job that runs gets its task back, another
\* one is cancelled in the name of this delete.
LEMMA ClaimCheck ==
  ASSUME OwnerInv, OneDeletePerJob, NEW k \in Ids, ClaimInv(k), NEW d \in Deleters, DeleteCheck(d)
  PROVE  ClaimInv(k)'
<1> DEFINE j == del[d].job
<1>1. /\ del[d].at = "holding" /\ j \in Ids
      /\ UNCHANGED <<phase, row, dir, submit, task, making>>
  BY DEF DeleteCheck, OwnerInv, DeletesInv, procVars
<1>2. \A e \in Deleters \ {d} : del'[e] = del[e]
  BY DEF DeleteCheck, OwnerInv, TypeInv
<1>3. Alive(k)' = Alive(k)
  BY <1>1 DEF Alive
<1>4. k = j => /\ ~OtherAt(d, k, {"holding", "gather"})
               /\ ~OtherAt(d, k, {"rmtree", "row"})
               /\ ~OtherAt(d, k, {"gather"})
               /\ ~OtherAt(d, k, {"holding"})
  BY <1>1, NoOther
<1>5. CASE row[j] = "running"
  <2>1. /\ del'[d].at = "idle" /\ tasks' = tasks \union {j}
        /\ UNCHANGED <<reason, cancel>>
    BY <1>5 DEF DeleteCheck, IdleDelete, OwnerInv, TypeInv
  <2>2. CASE k # j
    <3>1. /\ DeleteAt(k, {"holding", "gather"})' <=> DeleteAt(k, {"holding", "gather"})
          /\ DeleteAt(k, {"rmtree", "row"})' <=> DeleteAt(k, {"rmtree", "row"})
          /\ DeleteAt(k, {"gather"})' <=> DeleteAt(k, {"gather"})
          /\ DeleteAt(k, {"holding"})' <=> DeleteAt(k, {"holding"})
      BY <1>2, <2>1, <2>2, DeleteSplit, DeleteMoved
    <3>2. QED
      BY <1>1, <1>3, <2>1, <2>2, <3>1 DEF ClaimInv
  <2>3. CASE k = j
    <3>1. /\ ~DeleteAt(k, {"holding", "gather"})'
          /\ ~DeleteAt(k, {"rmtree", "row"})'
          /\ ~DeleteAt(k, {"gather"})'
          /\ ~DeleteAt(k, {"holding"})'
      BY <1>2, <1>4, <2>1, <2>3, DeleteMoved
    <3>2. reason[k] # "deleted"
      BY <1>1, <2>3, DeleteSplit DEF ClaimInv
    <3>3. QED
      BY <1>1, <1>3, <2>1, <2>3, <3>1, <3>2 DEF ClaimInv
  <2>4. QED
    BY <2>2, <2>3
<1>6. CASE row[j] # "running"
  <2>1. /\ del'[d].at = "gather" /\ del'[d].job = j /\ tasks' = tasks
        /\ reason' = [reason EXCEPT ![j] = "deleted"]
        /\ cancel' = IF Alive(j) THEN cancel \union {j} ELSE cancel
    BY <1>6 DEF DeleteCheck, OwnerInv, TypeInv
  <2>2. CASE k # j
    <3>1. /\ DeleteAt(k, {"holding", "gather"})' <=> DeleteAt(k, {"holding", "gather"})
          /\ DeleteAt(k, {"rmtree", "row"})' <=> DeleteAt(k, {"rmtree", "row"})
          /\ DeleteAt(k, {"gather"})' <=> DeleteAt(k, {"gather"})
          /\ DeleteAt(k, {"holding"})' <=> DeleteAt(k, {"holding"})
      BY <1>2, <2>1, <2>2, DeleteSplit, DeleteMoved
    <3>2. reason'[k] = reason[k] /\ (k \in cancel' <=> k \in cancel)
      BY <2>1, <2>2 DEF OwnerInv, TypeInv
    <3>3. QED
      BY <1>1, <1>3, <2>1, <2>2, <3>1, <3>2 DEF ClaimInv
  <2>3. CASE k = j
    <3>1. /\ DeleteAt(k, {"holding", "gather"})
          /\ ~DeleteAt(k, {"rmtree", "row"})' /\ ~DeleteAt(k, {"holding"})'
      BY <1>1, <1>2, <1>4, <2>1, <2>3, DeleteSplit, DeleteMoved
    <3>2. reason'[k] = "deleted" /\ (Alive(k) => k \in cancel')
      BY <2>1, <2>3 DEF OwnerInv, TypeInv
    <3>3. DeleteAt(k, {"holding", "gather"})'
      BY <1>2, <2>1, <2>3, DeleteMoved
    <3>4. task[k] \notin {"started", "fn"}
      BY <1>6, <2>3 DEF ClaimInv
    <3>5. QED
      BY <1>1, <1>3, <2>1, <2>3, <3>1, <3>2, <3>3, <3>4 DEF ClaimInv
  <2>4. QED
    BY <2>2, <2>3
<1>7. QED
  BY <1>5, <1>6

\* While no two deletes of a job overlap, every step leaves its task with at
\* most one claimant.
LEMMA ClaimStep ==
  ASSUME OwnerInv, OneDeletePerJob, \A j \in Ids : ClaimInv(j), [Next]_vars, NEW k \in Ids
  PROVE  ClaimInv(k)'
<1> USE DEF OwnerInv, TypeInv, DeletesInv, DownInv, OwnedInv, ClaimInv, OneDeletePerJob, DeleteAt,
            Alive, Up, Live, Statuses, Submits, TaskStates, procVars, runVars, books
<1>1. ASSUME NEW j \in Ids, SubmitStart(j) PROVE ClaimInv(k)'
  BY <1>1 DEF SubmitStart
<1>2. ASSUME NEW j \in Ids, SubmitInsert(j) PROVE ClaimInv(k)'
  BY <1>2 DEF SubmitInsert
<1>3. ASSUME NEW j \in Ids, SubmitGet(j) PROVE ClaimInv(k)'
  BY <1>3 DEF SubmitGet, AnnounceRow
<1>4. ASSUME NEW j \in Ids, Start(j) PROVE ClaimInv(k)'
  BY <1>4 DEF Start, Advance
<1>5. ASSUME NEW j \in Ids, Acquire(j) PROVE ClaimInv(k)'
  BY <1>5 DEF Acquire, Advance
<1>6. ASSUME NEW j \in Ids, MkdirThread(j) PROVE ClaimInv(k)'
  BY <1>6 DEF MkdirThread
<1>7. ASSUME NEW j \in Ids, MkdirDone(j) PROVE ClaimInv(k)'
  BY <1>7 DEF MkdirDone, Advance
<1>8. ASSUME NEW j \in Ids, MkdirFails(j) PROVE ClaimInv(k)'
  BY <1>8 DEF MkdirFails, Advance, Forget
<1>9. ASSUME NEW j \in Ids, Update(j) PROVE ClaimInv(k)'
  BY <1>9 DEF Update, Advance, Writing, Write, Pending
<1>10. ASSUME NEW j \in Ids, Started(j) PROVE ClaimInv(k)'
  BY <1>10 DEF Started, Advance, AnnounceRow
<1>11. ASSUME NEW j \in Ids, FnEnds(j) PROVE ClaimInv(k)'
  BY <1>11 DEF FnEnds, Advance
<1>12. ASSUME NEW j \in Ids, Settled(j) PROVE ClaimInv(k)'
  BY <1>12 DEF Settled, Advance, AnnounceRow, Forget
<1>13. ASSUME NEW j \in Ids, Cancelled(j) PROVE ClaimInv(k)'
  BY <1>13 DEF Cancelled, Writing, Write, Pending, MarksRow, Forget
<1>14. ASSUME NEW j \in Ids, Report(j) PROVE ClaimInv(k)'
  BY <1>14 DEF Report, Advance, AnnounceRow
<1>15. ASSUME NEW d \in Deleters, DeleteRead(d) PROVE ClaimInv(k)'
  BY <1>15 DEF DeleteRead, IdleDelete
<1>16. ASSUME NEW d \in Deleters, DeletePop(d) PROVE ClaimInv(k)'
  <2>1. QED
    BY <1>16, ClaimPop
<1>17. ASSUME NEW d \in Deleters, DeleteCheck(d) PROVE ClaimInv(k)'
  <2>1. QED
    BY <1>17, ClaimCheck
<1>18. ASSUME NEW d \in Deleters, DeleteGather(d) PROVE ClaimInv(k)'
  BY <1>18 DEF DeleteGather, IdleDelete
<1>19. ASSUME NEW d \in Deleters, DeleteRmtree(d) PROVE ClaimInv(k)'
  BY <1>19 DEF DeleteRmtree, IdleDelete
<1>20. ASSUME NEW d \in Deleters, DeleteRow(d) PROVE ClaimInv(k)'
  BY <1>20 DEF DeleteRow, IdleDelete
<1>21. ASSUME NEW d \in Deleters, NEW j \in Ids, CallDelete(d, j) PROVE ClaimInv(k)'
  BY <1>21 DEF CallDelete
<1>22. CASE Shutdown
  BY <1>22 DEF Shutdown
<1>23. CASE Exit
  BY <1>23 DEF Exit, IdleDelete
<1>24. CASE Restore
  BY <1>24 DEF Restore, Restored, Live
<1>25. CASE UNCHANGED vars
  BY <1>25 DEF vars
<1>26. QED
  BY <1>1, <1>2, <1>3, <1>4, <1>5, <1>6, <1>7, <1>8, <1>9, <1>10, <1>11, <1>12, <1>13, <1>14, <1>15, <1>16, <1>17, <1>18, <1>19, <1>20, <1>21, <1>22, <1>23, <1>24, <1>25
     DEF Next, TaskStep, DeleteStep, DeleteStart, PruneStart

\* What a step may do to a job that was announced as done or deleted.
StandsFor(j) ==
  /\ announced[j] = "done" => row'[j] \in {"done", "absent"}
  /\ announced[j] = "deleted" => announced'[j] = "deleted" /\ row'[j] = "absent"

\* What was announced of a job keeps holding of its row.
LEMMA AnnouncedStep ==
  ASSUME OwnerInv, [Next]_vars, NEW k \in Ids, AnnouncedInv(k)
  PROVE  AnnouncedInv(k)' /\ StandsFor(k)
<1> USE DEF OwnerInv, TypeInv, DeletesInv, DownInv, OwnedInv, AnnouncedInv, StandsFor,
            Alive, Up, Live, Statuses, Submits, TaskStates, procVars, runVars, books
<1>1. ASSUME NEW j \in Ids, SubmitStart(j) PROVE AnnouncedInv(k)' /\ StandsFor(k)
  BY <1>1 DEF SubmitStart
<1>2. ASSUME NEW j \in Ids, SubmitInsert(j) PROVE AnnouncedInv(k)' /\ StandsFor(k)
  BY <1>2 DEF SubmitInsert
<1>3. ASSUME NEW j \in Ids, SubmitGet(j) PROVE AnnouncedInv(k)' /\ StandsFor(k)
  BY <1>3 DEF SubmitGet, AnnounceRow
<1>4. ASSUME NEW j \in Ids, Start(j) PROVE AnnouncedInv(k)' /\ StandsFor(k)
  BY <1>4 DEF Start, Advance
<1>5. ASSUME NEW j \in Ids, Acquire(j) PROVE AnnouncedInv(k)' /\ StandsFor(k)
  BY <1>5 DEF Acquire, Advance
<1>6. ASSUME NEW j \in Ids, MkdirThread(j) PROVE AnnouncedInv(k)' /\ StandsFor(k)
  BY <1>6 DEF MkdirThread
<1>7. ASSUME NEW j \in Ids, MkdirDone(j) PROVE AnnouncedInv(k)' /\ StandsFor(k)
  BY <1>7 DEF MkdirDone, Advance
<1>8. ASSUME NEW j \in Ids, MkdirFails(j) PROVE AnnouncedInv(k)' /\ StandsFor(k)
  BY <1>8 DEF MkdirFails, Advance, Forget
<1>9. ASSUME NEW j \in Ids, Update(j) PROVE AnnouncedInv(k)' /\ StandsFor(k)
  BY <1>9 DEF Update, Advance, Writing, Write, Pending
<1>10. ASSUME NEW j \in Ids, Started(j) PROVE AnnouncedInv(k)' /\ StandsFor(k)
  BY <1>10 DEF Started, Advance, AnnounceRow
<1>11. ASSUME NEW j \in Ids, FnEnds(j) PROVE AnnouncedInv(k)' /\ StandsFor(k)
  BY <1>11 DEF FnEnds, Advance
<1>12. ASSUME NEW j \in Ids, Settled(j) PROVE AnnouncedInv(k)' /\ StandsFor(k)
  BY <1>12 DEF Settled, Advance, AnnounceRow, Forget
<1>13. ASSUME NEW j \in Ids, Cancelled(j) PROVE AnnouncedInv(k)' /\ StandsFor(k)
  BY <1>13 DEF Cancelled, Writing, Write, Pending, MarksRow, Forget
<1>14. ASSUME NEW j \in Ids, Report(j) PROVE AnnouncedInv(k)' /\ StandsFor(k)
  BY <1>14 DEF Report, Advance, AnnounceRow
<1>15. ASSUME NEW d \in Deleters, DeleteRead(d) PROVE AnnouncedInv(k)' /\ StandsFor(k)
  BY <1>15 DEF DeleteRead, IdleDelete
<1>16. ASSUME NEW d \in Deleters, DeletePop(d) PROVE AnnouncedInv(k)' /\ StandsFor(k)
  BY <1>16 DEF DeletePop, IdleDelete
<1>17. ASSUME NEW d \in Deleters, DeleteCheck(d) PROVE AnnouncedInv(k)' /\ StandsFor(k)
  BY <1>17 DEF DeleteCheck, IdleDelete
<1>18. ASSUME NEW d \in Deleters, DeleteGather(d) PROVE AnnouncedInv(k)' /\ StandsFor(k)
  BY <1>18 DEF DeleteGather, IdleDelete
<1>19. ASSUME NEW d \in Deleters, DeleteRmtree(d) PROVE AnnouncedInv(k)' /\ StandsFor(k)
  BY <1>19 DEF DeleteRmtree, IdleDelete
<1>20. ASSUME NEW d \in Deleters, DeleteRow(d) PROVE AnnouncedInv(k)' /\ StandsFor(k)
  BY <1>20 DEF DeleteRow, IdleDelete
<1>21. ASSUME NEW d \in Deleters, NEW j \in Ids, CallDelete(d, j) PROVE AnnouncedInv(k)' /\ StandsFor(k)
  BY <1>21 DEF CallDelete
<1>22. CASE Shutdown
  BY <1>22 DEF Shutdown
<1>23. CASE Exit
  BY <1>23 DEF Exit, IdleDelete
<1>24. CASE Restore
  BY <1>24 DEF Restore, Restored, Live
<1>25. CASE UNCHANGED vars
  BY <1>25 DEF vars
<1>26. QED
  BY <1>1, <1>2, <1>3, <1>4, <1>5, <1>6, <1>7, <1>8, <1>9, <1>10, <1>11, <1>12, <1>13, <1>14, <1>15, <1>16, <1>17, <1>18, <1>19, <1>20, <1>21, <1>22, <1>23, <1>24, <1>25
     DEF Next, TaskStep, DeleteStep, DeleteStart, PruneStart

\* The parts of OwnerInv hold at the start and are kept by every step.
LEMMA OwnerInvariant == Spec => []OwnerInv
<1>1. Init => OwnerInv
  BY DEF Init, OwnerInv, TypeInv, DeletesInv, DownInv, OwnedInv, DeleteAt, Alive, Up, Live,
         Statuses, Submits, TaskStates, DeleteStates, Phases, IdleDelete
<1>2. OwnerInv /\ [Next]_vars => OwnerInv'
  BY TypeStep, DeletesStep, DownStep, OwnedStep DEF OwnerInv
<1>3. QED
  BY <1>1, <1>2, PTL DEF Spec

-----------------------------------------------------------------------------
(* Theorems *)

\* The variables of jobs.py's model keep their types, whatever runs.
THEOREM JobsTyped == Spec => []TypeInv
BY OwnerInvariant, PTL DEF OwnerInv

\* "LIVE: what a crash, or a shutdown, can leave behind": a queued or running
\* row always has somebody to settle it, however many deletes overlap.
THEOREM LiveRowsOwned == Spec => []LiveRowHasOwner
<1>1. OwnerInv => LiveRowHasOwner
  BY DEF OwnerInv, TypeInv, OwnedInv, LiveRowHasOwner, DeleteAt, Deleting, Alive, Live, Up,
         Statuses, Submits, TaskStates
<1>2. QED
  BY <1>1, OwnerInvariant, PTL

Claims == \A j \in Ids : ClaimInv(j)

\* A job that runs is nobody's to delete and a live row is somebody's to settle
\* (delete, _run, shutdown, restore), as long as no two deletes of one job
\* overlap: the hypothesis delete() needs and does not enforce.
THEOREM JobsOwnedAlways == Spec /\ []OneDeletePerJob => []JobsOwned
<1>1. Init => Claims
  BY DEF Init, Claims, ClaimInv, DeleteAt, Alive, IdleDelete
<1>2. OwnerInv /\ OneDeletePerJob /\ Claims /\ [Next]_vars => Claims'
  BY ClaimStep DEF Claims
<1>3. OwnerInv /\ Claims => RunningIsNotDeleted
  <2> SUFFICES ASSUME OwnerInv, NEW j \in Ids, ClaimInv(j), task[j] = "fn"
               PROVE  /\ row[j] = "running" /\ j \in dir
                      /\ j \in cancel => phase = "closing" /\ reason[j] = "shutdown"
    BY DEF Claims, RunningIsNotDeleted
  <2>1. Alive(j)
    BY DEF Alive
  <2>2. ~DeleteAt(j, {"gather"})
    BY <2>1 DEF ClaimInv
  <2>3. reason[j] # "deleted"
    BY <2>1, <2>2 DEF OwnerInv, OwnedInv
  <2>4. QED
    BY <2>3 DEF ClaimInv
<1>4. QED
  BY <1>1, <1>2, <1>3, OwnerInvariant, LiveRowsOwned, PTL DEF Spec, JobsOwned

\* With one deleter, the handler or the retention task, nothing overlaps and
\* the jobs are owned outright.
THEOREM JobsOwnedOneDeleter ==
  ASSUME \A d, e \in Deleters : d = e
  PROVE  Spec => []JobsOwned
<1>1. OneDeletePerJob
  BY DEF OneDeletePerJob
<1>2. QED
  BY <1>1, JobsOwnedAlways, PTL

\* A job announced as done stays done until it is deleted, across restarts, and
\* one announced as deleted never comes back (_update, delete, restore).
THEOREM AnnouncementsStand == Spec => AnnouncedStands
<1> DEFINE Announcements == \A j \in Ids : AnnouncedInv(j)
<1>1. Init => Announcements
  BY DEF Init, AnnouncedInv
<1>2. OwnerInv /\ Announcements /\ [Next]_vars => Announcements'
  BY AnnouncedStep
<1>3. OwnerInv /\ Announcements /\ [Next]_vars => [\A j \in Ids : StandsFor(j)]_vars
  BY AnnouncedStep
<1>4. QED
  BY <1>1, <1>2, <1>3, OwnerInvariant, PTL DEF Spec, AnnouncedStands, StandsFor

-----------------------------------------------------------------------------
(* Daemon *)

Casters == Daemon!Urls
RoverPlaces == {"off", "start", "run", "backoff", "teardown", "done"}
OtherPlaces == RoverPlaces \union {"wedged", "winding", "failing", "noting"}
PutPlaces == {"idle", "queued", "saving", "asking", "hangup", "ok", "failed"}

\* A PUT that may have to undo its change knows the caster it replaced.
PutRecords ==
  { r \in [at : PutPlaces, prev : Casters \union {"none"}, old : Casters \union {"none"}] :
      r.at \in {"asking", "hangup"} => r.prev \in Casters }

DaemonTypes ==
  /\ con \in [Daemon!Consumers -> OtherPlaces] /\ con["rover"] \in RoverPlaces
  /\ client \in [Casters -> {"none", "run", "cancelled", "ended"}]
  /\ daemonTask \in Casters \union {"none"}
  /\ put \in [Puts -> PutRecords]
  /\ putLock \in Puts \union {"free"} /\ ntripLock \in Puts \union {"free"}
  /\ url \in Casters /\ env \in Casters

\* The rover is published while _run_rover is at work and only then; it is torn
\* down on a stop only, and a PUT has found it published.
RoverInv ==
  /\ daemonPhase \in {"open", "restore"} => con["rover"] = "off"
  /\ rover <=> con["rover"] = "run"
  /\ con["rover"] \in {"teardown", "done"} => stop
  /\ con["rover"] \in {"off", "start", "backoff"} =>
       url = env /\ \A p \in Puts : put[p].at = "idle"

\* Only _ntrip_task runs, and only while the rover does.
TaskInv ==
  /\ ~rover => daemonTask = "none"
  /\ \A u \in Casters : client[u] = "run" => daemonTask = u

\* A PUT that was let in holds the lock; one that waits for a client to hang up
\* waits for _ntrip_task.
LockInv ==
  \A p \in Puts :
    /\ put[p].at \in {"saving", "asking", "hangup"} => putLock = p
    /\ put[p].at = "hangup" /\ rover => daemonTask = put[p].old

\* One that has saved its caster has named it in .env and in the settings; until
\* another does, the client follows them.
NamesInv ==
  ~stop =>
    /\ \A p \in Puts : put[p].at \in {"asking", "hangup"} => url = p /\ env = p
    /\ (\A p \in Puts : put[p].at \notin {"asking", "hangup"}) =>
         url = env /\ (daemonTask # "none" => daemonTask = url)

DaemonInv == DaemonTypes /\ RoverInv /\ TaskInv /\ LockInv /\ NamesInv


\* A step elsewhere, which leaves the rover's consumer, its client and the PUTs
\* alone, keeps the invariant.
LEMMA Elsewhere ==
  ASSUME DaemonInv,
         con' \in [Daemon!Consumers -> OtherPlaces], con'["rover"] = con["rover"],
         daemonPhase' \in {"open", "restore"} => daemonPhase \in {"open", "restore"},
         stop => stop',
         UNCHANGED <<rover, daemonTask, client, put, putLock, ntripLock, url, env>>
  PROVE  DaemonInv'
<1>1. DaemonTypes'
  BY DEF DaemonInv, DaemonTypes
<1>2. RoverInv'
  BY DEF DaemonInv, RoverInv
<1>3. TaskInv' /\ LockInv'
  BY DEF DaemonInv, TaskInv, LockInv
<1>4. NamesInv'
  BY DEF DaemonInv, NamesInv
<1>5. QED
  BY <1>1, <1>2, <1>3, <1>4 DEF DaemonInv

\* One consumer other than the rover moves on.
LEMMA OneConsumer ==
  ASSUME DaemonInv, NEW c \in Daemon!Consumers, NEW x \in OtherPlaces, c # "rover",
         con' = [con EXCEPT ![c] = x],
         daemonPhase' = daemonPhase, stop' = stop,
         UNCHANGED <<rover, daemonTask, client, put, putLock, ntripLock, url, env>>
  PROVE  DaemonInv'
<1>1. con' \in [Daemon!Consumers -> OtherPlaces] /\ con'["rover"] = con["rover"]
  BY DEF DaemonInv, DaemonTypes, Daemon!Consumers
<1>2. QED
  BY <1>1, Elsewhere

\* The steps of run() and of the operator move the phase on and set stop.
LEMMA MainStep ==
  ASSUME DaemonInv,
         \/ Daemon!OpenDatabase \/ Daemon!StartupFails \/ Daemon!ReceiverReturns \/ Daemon!Drained
         \/ Daemon!LoopsEnd \/ Daemon!ConsumersEnd \/ Daemon!JobsShutdown \/ Daemon!CloseDatabase
         \/ Daemon!StopRequested \/ Daemon!ReplayEnds \/ Daemon!AddressMoves
  PROVE  DaemonInv'
<1>1. /\ UNCHANGED <<con, rover, daemonTask, client, put, putLock, ntripLock, url, env>>
      /\ daemonPhase' \in {"open", "restore"} => daemonPhase \in {"open", "restore"}
      /\ stop => stop'
  BY DEF Daemon!OpenDatabase, Daemon!StartupFails, Daemon!ReceiverReturns, Daemon!Drained,
         Daemon!LoopsEnd, Daemon!ConsumersEnd, Daemon!JobsShutdown, Daemon!CloseDatabase,
         Daemon!StopRequested, Daemon!ReplayEnds, Daemon!AddressMoves, Daemon!ntripVars
<1>2. con \in [Daemon!Consumers -> OtherPlaces]
  BY DEF DaemonInv, DaemonTypes
<1>3. QED
  BY <1>1, <1>2, Elsewhere

\* The consumers start.
LEMMA LaunchStep ==
  ASSUME DaemonInv, Daemon!Launch
  PROVE  DaemonInv'
<1>1. /\ daemonPhase = "restore" /\ daemonPhase' = "serve" /\ con' = [c \in Daemon!Consumers |-> "start"]
      /\ UNCHANGED <<stop, rover, daemonTask, client, put, putLock, ntripLock, url, env>>
  BY DEF Daemon!Launch, Daemon!ntripVars
<1>2. con' \in [Daemon!Consumers -> OtherPlaces] /\ con'["rover"] = "start" /\ con["rover"] = "off"
  BY <1>1 DEF DaemonInv, RoverInv, OtherPlaces, RoverPlaces, Daemon!Consumers
<1>3. DaemonTypes'
  BY <1>1, <1>2 DEF DaemonInv, DaemonTypes, RoverPlaces
<1>4. RoverInv'
  BY <1>1, <1>2 DEF DaemonInv, RoverInv
<1>5. TaskInv' /\ LockInv' /\ NamesInv'
  BY <1>1 DEF DaemonInv, TaskInv, LockInv, NamesInv
<1>6. QED
  BY <1>3, <1>4, <1>5 DEF DaemonInv

\* The servers and the writer are the rover's neighbours only.
LEMMA NeighbourStep ==
  ASSUME DaemonInv,
         \/ Daemon!WriterSteps \/ Daemon!WriterDies \/ Daemon!WebSteps \/ Daemon!WatcherFails
         \/ Daemon!ServerDies
  PROVE  DaemonInv'
<1>1. /\ daemonPhase' = daemonPhase /\ stop' = stop
      /\ UNCHANGED <<rover, daemonTask, client, put, putLock, ntripLock, url, env>>
  BY DEF Daemon!WriterSteps, Daemon!WriterStarts, Daemon!WriterReturns, Daemon!WriterDies,
         Daemon!WebSteps, Daemon!WebBinds, Daemon!WatcherReturns, Daemon!ServerWound, Daemon!Moved,
         Daemon!WatcherFails, Daemon!ServerDies, Daemon!ntripVars
<1>2. \E c \in {"web", "writer"}, x \in OtherPlaces : con' = [con EXCEPT ![c] = x]
  <2>1. CASE Daemon!WriterSteps \/ Daemon!WriterDies
    BY <2>1 DEF Daemon!WriterSteps, Daemon!WriterStarts, Daemon!WriterReturns, Daemon!WriterDies,
                Daemon!Returned, Daemon!Raised, OtherPlaces, RoverPlaces
  <2>2. CASE Daemon!WebSteps
    BY <2>2 DEF Daemon!WebSteps, Daemon!WebBinds, Daemon!WatcherReturns, Daemon!ServerWound,
                Daemon!Moved, Daemon!WatcherRaises, Daemon!Returned, Daemon!Raised, OtherPlaces,
                RoverPlaces
  <2>3. CASE Daemon!WatcherFails \/ Daemon!ServerDies
    BY <2>3 DEF Daemon!WatcherFails, Daemon!ServerDies, Daemon!Raised, OtherPlaces, RoverPlaces
  <2>4. QED
    BY <2>1, <2>2, <2>3
<1>3. QED
  BY <1>1, <1>2, OneConsumer DEF Daemon!Consumers

\* The grace is over for the consumers that wedged; the rover's does not.
LEMMA GraceStep ==
  ASSUME DaemonInv, Daemon!GraceEnds
  PROVE  DaemonInv'
<1>1. /\ con' = [c \in Daemon!Consumers |-> IF con[c] = "wedged" THEN "done" ELSE con[c]]
      /\ UNCHANGED <<daemonPhase, stop, rover, daemonTask, client, put, putLock, ntripLock, url, env>>
  BY DEF Daemon!GraceEnds, Daemon!CancelledEnd, Daemon!ntripVars
<1>2. con["rover"] # "wedged" /\ con \in [Daemon!Consumers -> OtherPlaces]
  BY DEF DaemonInv, DaemonTypes, RoverPlaces
<1>3. con' \in [Daemon!Consumers -> OtherPlaces]
  BY <1>1, <1>2 DEF OtherPlaces, RoverPlaces
<1>4. con'["rover"] = con["rover"]
  BY <1>1, <1>2 DEF Daemon!Consumers
<1>5. QED
  BY <1>1, <1>3, <1>4, Elsewhere

\* A supervisor's backoff ends, or it never starts again.
LEMMA SupervisorStep ==
  ASSUME DaemonInv, NEW c \in Daemon!Consumers, Daemon!BackoffEnds(c) \/ Daemon!NeverStarts(c)
  PROVE  DaemonInv'
<1>1. /\ UNCHANGED <<daemonPhase, stop, rover, daemonTask, client, put, putLock, ntripLock, url, env>>
      /\ con[c] \in {"backoff", "start"}
      /\ \E x \in {"done", "start"} : con' = [con EXCEPT ![c] = x] /\ (x = "done" => stop)
  BY DEF Daemon!BackoffEnds, Daemon!NeverStarts, Daemon!Returned, Daemon!ntripVars
<1>2. PICK x \in {"done", "start"} : con' = [con EXCEPT ![c] = x] /\ (x = "done" => stop)
  BY <1>1
<1>3. x \in OtherPlaces /\ x \in RoverPlaces
  BY DEF OtherPlaces, RoverPlaces
<1>4. CASE c # "rover"
  BY <1>1, <1>2, <1>3, <1>4, OneConsumer
<1>5. CASE c = "rover"
  <2>1. con' \in [Daemon!Consumers -> OtherPlaces] /\ con'["rover"] = x
    BY <1>2, <1>3, <1>5 DEF DaemonInv, DaemonTypes, Daemon!Consumers
  <2>2. DaemonTypes'
    BY <1>1, <1>3, <2>1 DEF DaemonInv, DaemonTypes
  <2>3. RoverInv'
    BY <1>1, <1>2, <1>5, <2>1 DEF DaemonInv, RoverInv
  <2>4. TaskInv' /\ LockInv' /\ NamesInv'
    BY <1>1 DEF DaemonInv, TaskInv, LockInv, NamesInv
  <2>5. QED
    BY <2>2, <2>3, <2>4 DEF DaemonInv
<1>6. QED
  BY <1>4, <1>5

\* The rover starts, with a client or without, or fails to.
LEMMA RoverStartStep ==
  ASSUME DaemonInv, Daemon!RoverStarts
  PROVE  DaemonInv'
<1>1. /\ con["rover"] = "start" /\ ~stop
      /\ UNCHANGED <<daemonPhase, stop, put, putLock, ntripLock, url, env>>
  BY DEF Daemon!RoverStarts
<1>2. /\ ~rover /\ url = env /\ \A p \in Puts : put[p].at = "idle"
      /\ daemonTask = "none" /\ "none" \notin Casters
      /\ daemonPhase \notin {"open", "restore"} /\ url \in Casters
  BY <1>1, PutsAssumption
     DEF DaemonInv, DaemonTypes, RoverInv, TaskInv, Casters, Daemon!Urls, Daemon!BootUrl
<1>3. \A u \in Casters : client[u] # "run"
  BY <1>2 DEF DaemonInv, TaskInv
<1>4. \/ /\ con' = [con EXCEPT !["rover"] = "run"] /\ rover' = TRUE
         /\ \/ daemonTask' = url /\ client' = [client EXCEPT ![url] = "run"]
            \/ UNCHANGED <<daemonTask, client>>
      \/ con' = [con EXCEPT !["rover"] = "backoff"] /\ UNCHANGED <<rover, daemonTask, client>>
  BY DEF Daemon!RoverStarts, Daemon!Raised
<1>5. DaemonTypes'
  BY <1>1, <1>2, <1>4 DEF DaemonInv, DaemonTypes, OtherPlaces, RoverPlaces, Daemon!Consumers
<1>6. RoverInv'
  BY <1>1, <1>2, <1>4 DEF DaemonInv, DaemonTypes, RoverInv, Daemon!Consumers
<1>7. TaskInv'
  BY <1>2, <1>3, <1>4 DEF DaemonInv, DaemonTypes, TaskInv
<1>8. LockInv' /\ NamesInv'
  BY <1>1, <1>2, <1>4 DEF DaemonInv, LockInv, NamesInv
<1>9. QED
  BY <1>5, <1>6, <1>7, <1>8 DEF DaemonInv

\* The rover goes, and takes the client with it.
LEMMA RoverEndStep ==
  ASSUME DaemonInv, Daemon!RoverTearsDown \/ Daemon!RoverEnds
  PROVE  DaemonInv'
<1>1. CASE Daemon!RoverTearsDown
  <2>1. /\ con["rover"] = "run" /\ stop /\ rover' = FALSE /\ daemonTask' = "none"
        /\ con' = [con EXCEPT !["rover"] = "teardown"]
        /\ UNCHANGED <<daemonPhase, stop, put, putLock, ntripLock, url, env>>
    BY <1>1 DEF Daemon!RoverTearsDown
  <2>2. client' = IF daemonTask = "none" THEN client
                  ELSE [client EXCEPT ![daemonTask] = IF @ = "run" THEN "cancelled" ELSE @]
    BY <1>1 DEF Daemon!RoverTearsDown, Daemon!Cancel
  <2>3. "none" \notin Casters
    BY PutsAssumption DEF Casters, Daemon!Urls, Daemon!BootUrl
  <2>4. /\ client' \in [Casters -> {"none", "run", "cancelled", "ended"}]
        /\ \A u \in Casters : client'[u] # "run"
    BY <2>2, <2>3 DEF DaemonInv, DaemonTypes, TaskInv
  <2>5. con' \in [Daemon!Consumers -> OtherPlaces] /\ con'["rover"] = "teardown"
    BY <2>1 DEF DaemonInv, DaemonTypes, OtherPlaces, RoverPlaces, Daemon!Consumers
  <2>6. DaemonTypes'
    BY <2>1, <2>4, <2>5 DEF DaemonInv, DaemonTypes, RoverPlaces
  <2>7. RoverInv'
    BY <2>1, <2>5 DEF DaemonInv, RoverInv
  <2>8. TaskInv' /\ LockInv' /\ NamesInv'
    BY <2>1, <2>4 DEF DaemonInv, TaskInv, LockInv, NamesInv
  <2>9. QED
    BY <2>6, <2>7, <2>8 DEF DaemonInv
<1>2. CASE Daemon!RoverEnds
  <2>1. /\ con["rover"] = "teardown" /\ con' = [con EXCEPT !["rover"] = "done"]
        /\ UNCHANGED <<daemonPhase, stop, rover, daemonTask, client, put, putLock, ntripLock, url, env>>
    BY <1>2 DEF Daemon!RoverEnds, Daemon!Returned, Daemon!ntripVars
  <2>2. con' \in [Daemon!Consumers -> OtherPlaces] /\ con'["rover"] = "done"
    BY <2>1 DEF DaemonInv, DaemonTypes, OtherPlaces, RoverPlaces, Daemon!Consumers
  <2>3. DaemonTypes'
    BY <2>1, <2>2 DEF DaemonInv, DaemonTypes, RoverPlaces
  <2>4. RoverInv'
    BY <2>1, <2>2 DEF DaemonInv, RoverInv
  <2>5. TaskInv' /\ LockInv' /\ NamesInv'
    BY <2>1 DEF DaemonInv, TaskInv, LockInv, NamesInv
  <2>6. QED
    BY <2>3, <2>4, <2>5 DEF DaemonInv
<1>3. QED
  BY <1>1, <1>2

\* A client hangs up.
LEMMA ClientStep ==
  ASSUME DaemonInv, NEW u \in Casters, Daemon!ClientEnds(u)
  PROVE  DaemonInv'
<1>1. /\ client' = [client EXCEPT ![u] = "ended"]
      /\ UNCHANGED <<daemonPhase, stop, con, rover, daemonTask, put, putLock, ntripLock, url, env>>
  BY DEF Daemon!ClientEnds
<1>2. DaemonTypes' /\ TaskInv'
  BY <1>1 DEF DaemonInv, DaemonTypes, TaskInv
<1>3. RoverInv' /\ LockInv' /\ NamesInv'
  BY <1>1 DEF DaemonInv, RoverInv, LockInv, NamesInv
<1>4. QED
  BY <1>2, <1>3 DEF DaemonInv

\* A PUT that is past its queue found the rover, which goes on a stop only; no
\* other PUT is let in with it.
LEMMA PutAlone ==
  ASSUME DaemonInv, NEW p \in Puts, put[p].at \in {"saving", "asking", "hangup"}
  PROVE  /\ con["rover"] \notin {"off", "start", "backoff"}
         /\ ~stop => rover
         /\ \A q \in Puts : q # p => put[q].at \notin {"saving", "asking", "hangup"}
<1>1. con["rover"] \notin {"off", "start", "backoff"}
  BY DEF DaemonInv, RoverInv
<1>2. ~stop => rover
  BY <1>1 DEF DaemonInv, DaemonTypes, RoverInv, RoverPlaces
<1>3. \A q \in Puts : q # p => put[q].at \notin {"saving", "asking", "hangup"}
  BY DEF DaemonInv, LockInv
<1>4. QED
  BY <1>1, <1>2, <1>3

\* A request queues and takes the lock.
LEMMA PutEntersStep ==
  ASSUME DaemonInv, NEW p \in Puts, Daemon!PutArrives(p) \/ Daemon!PutSaves(p)
  PROVE  DaemonInv'
<1>1. /\ con["rover"] \notin {"off", "start", "backoff"}
      /\ UNCHANGED <<daemonPhase, stop, con, rover, daemonTask, client, ntripLock, url, env>>
      /\ put[p].at \in {"idle", "queued"}
      /\ \E x \in {"queued", "saving"} :
           /\ put' = [put EXCEPT ![p].at = x]
           /\ x = "queued" => putLock' = putLock
           /\ x = "saving" => putLock = "free" /\ putLock' = p
  <2>1. CASE Daemon!PutArrives(p)
    BY <2>1 DEF Daemon!PutArrives, Daemon!Put, DaemonInv, RoverInv
  <2>2. CASE Daemon!PutSaves(p)
    BY <2>2 DEF Daemon!PutSaves, Daemon!TakesPutLock, Daemon!Put, DaemonInv, RoverInv
  <2>3. QED
    BY <2>1, <2>2
<1>2. PICK x \in {"queued", "saving"} :
           /\ put' = [put EXCEPT ![p].at = x]
           /\ x = "queued" => putLock' = putLock
           /\ x = "saving" => putLock = "free" /\ putLock' = p
  BY <1>1
<1>3. /\ put' \in [Puts -> PutRecords]
      /\ put'[p].at = x /\ \A q \in Puts : q # p => put'[q] = put[q]
  BY <1>2 DEF DaemonInv, DaemonTypes, PutRecords, PutPlaces
<1>4. putLock' \in Puts \union {"free"}
  BY <1>2 DEF DaemonInv, DaemonTypes
<1>5. DaemonTypes'
  BY <1>1, <1>3, <1>4 DEF DaemonInv, DaemonTypes
<1>6. RoverInv' /\ TaskInv'
  BY <1>1 DEF DaemonInv, RoverInv, TaskInv
<1>7. LockInv'
  BY <1>1, <1>2, <1>3, PutsAssumption DEF DaemonInv, LockInv
<1>8. NamesInv'
  <2>1. \A q \in Puts : put'[q].at \in {"asking", "hangup"} <=> put[q].at \in {"asking", "hangup"}
    BY <1>1, <1>3
  <2>2. QED
    BY <1>1, <2>1 DEF DaemonInv, NamesInv
<1>9. QED
  BY <1>5, <1>6, <1>7, <1>8 DEF DaemonInv

\* .env and the settings name the new caster, or the write is refused.
LEMMA PutSavedStep ==
  ASSUME DaemonInv, NEW p \in Puts, Daemon!PutSaved(p) \/ Daemon!PutRefused(p)
  PROVE  DaemonInv'
<1>1. /\ put[p].at = "saving"
      /\ UNCHANGED <<daemonPhase, stop, con, rover, daemonTask, client, ntripLock>>
  BY DEF Daemon!PutSaved, Daemon!PutRefused
<1>2. /\ con["rover"] \notin {"off", "start", "backoff"}
      /\ \A q \in Puts : q # p => put[q].at \notin {"saving", "asking", "hangup"}
  BY <1>1, PutAlone
<1>3. CASE Daemon!PutSaved(p)
  <2>1. /\ env' = p /\ url' = p /\ putLock' = putLock
        /\ put' = [put EXCEPT ![p] = [at |-> "asking", prev |-> url, old |-> "none"]]
    BY <1>3 DEF Daemon!PutSaved
  <2>2. /\ put' \in [Puts -> PutRecords]
        /\ put'[p].at = "asking" /\ \A q \in Puts : q # p => put'[q] = put[q]
    BY <2>1 DEF DaemonInv, DaemonTypes, PutRecords, PutPlaces
  <2>3. p \in Casters
    BY DEF Casters, Daemon!Urls
  <2>4. DaemonTypes'
    BY <1>1, <2>1, <2>2, <2>3 DEF DaemonInv, DaemonTypes
  <2>5. RoverInv' /\ TaskInv'
    BY <1>1, <1>2, <2>1 DEF DaemonInv, RoverInv, TaskInv
  <2>6. LockInv'
    BY <1>1, <2>1, <2>2 DEF DaemonInv, LockInv
  <2>7. NamesInv'
    BY <1>2, <2>1, <2>2 DEF NamesInv
  <2>8. QED
    BY <2>4, <2>5, <2>6, <2>7 DEF DaemonInv
<1>4. CASE Daemon!PutRefused(p)
  <2>1. /\ putLock' = "free" /\ put' = [put EXCEPT ![p].at = "failed"] /\ UNCHANGED <<url, env>>
    BY <1>4 DEF Daemon!PutRefused, Daemon!Put
  <2>2. /\ put' \in [Puts -> PutRecords]
        /\ put'[p].at = "failed" /\ \A q \in Puts : q # p => put'[q] = put[q]
    BY <2>1 DEF DaemonInv, DaemonTypes, PutRecords, PutPlaces
  <2>3. DaemonTypes'
    BY <1>1, <2>1, <2>2 DEF DaemonInv, DaemonTypes
  <2>4. RoverInv' /\ TaskInv'
    BY <1>1, <1>2, <2>1 DEF DaemonInv, RoverInv, TaskInv
  <2>5. LockInv'
    BY <1>2, <2>2 DEF LockInv
  <2>6. NamesInv'
    BY <1>1, <1>2, <2>1, <2>2 DEF DaemonInv, NamesInv
  <2>7. QED
    BY <2>3, <2>4, <2>5, <2>6 DEF DaemonInv
<1>5. QED
  BY <1>3, <1>4

\* A PUT is over: its lock is free, and if the daemon still runs, the client is on
\* the caster of .env and of the settings.
LEMMA PutOver ==
  ASSUME DaemonInv, NEW p \in Puts, put[p].at \in {"asking", "hangup"},
         NEW x \in {"ok", "failed"}, put' = [put EXCEPT ![p].at = x], putLock' = "free",
         ntripLock' \in Puts \union {"free"},
         UNCHANGED <<daemonPhase, stop, con, rover, env>>,
         client' \in [Casters -> {"none", "run", "cancelled", "ended"}],
         daemonTask' \in Casters \union {"none"}, url' \in Casters,
         TaskInv', ~stop => url' = env /\ daemonTask' = url'
  PROVE  DaemonInv'
<1>1. /\ con["rover"] \notin {"off", "start", "backoff"}
      /\ \A q \in Puts : q # p => put[q].at \notin {"saving", "asking", "hangup"}
  BY PutAlone
<1>2. /\ put' \in [Puts -> PutRecords]
      /\ put'[p].at = x /\ \A q \in Puts : q # p => put'[q] = put[q]
  BY DEF DaemonInv, DaemonTypes, PutRecords, PutPlaces
<1>3. DaemonTypes'
  BY <1>2 DEF DaemonInv, DaemonTypes
<1>4. RoverInv'
  BY <1>1 DEF DaemonInv, RoverInv
<1>5. LockInv' /\ NamesInv'
  BY <1>1, <1>2 DEF LockInv, NamesInv
<1>6. QED
  BY <1>3, <1>4, <1>5 DEF DaemonInv

\* `_restart_ntrip` up to its await.
LEMMA RestartsStep ==
  ASSUME DaemonInv, NEW p \in Puts, Daemon!Restarts(p)
  PROVE  DaemonInv'
<1>1. /\ put[p].at = "asking" /\ ntripLock = "free" /\ p \in Casters /\ "none" \notin Casters
      /\ UNCHANGED <<daemonPhase, stop, con, rover, env>>
  BY PutsAssumption DEF Daemon!Restarts, Casters, Daemon!Urls, Daemon!BootUrl
<1>2. /\ con["rover"] \notin {"off", "start", "backoff"}
      /\ ~stop => rover
      /\ \A q \in Puts : q # p => put[q].at \notin {"saving", "asking", "hangup"}
  BY <1>1, PutAlone
<1>3. ~stop => url = p /\ env = p
  BY <1>1 DEF DaemonInv, NamesInv
<1>t. DaemonTypes /\ TaskInv
  BY DEF DaemonInv
<1>4. CASE ~rover
  <2>1. /\ put' = [put EXCEPT ![p].at = "failed"] /\ url' = put[p].prev /\ putLock' = "free"
        /\ UNCHANGED <<daemonTask, client, ntripLock>>
    BY <1>4 DEF Daemon!Restarts, Daemon!Put
  <2>2. url' \in Casters
    BY <1>1, <1>t, <2>1 DEF DaemonTypes, PutRecords
  <2>3. TaskInv'
    BY <1>1, <1>t, <2>1 DEF TaskInv
  <2>4. stop
    BY <1>2, <1>4
  <2>5. QED
    BY <1>1, <1>t, <2>1, <2>2, <2>3, <2>4, PutOver DEF DaemonTypes
<1>5. CASE rover /\ daemonTask = "none"
  <2>1. /\ daemonTask' = p /\ client' = [client EXCEPT ![p] = "run"]
        /\ put' = [put EXCEPT ![p].at = "ok"] /\ putLock' = "free"
        /\ UNCHANGED <<url, ntripLock>>
    BY <1>5 DEF Daemon!Restarts, Daemon!Put
  <2>2. TaskInv'
    BY <1>1, <1>5, <1>t, <2>1 DEF TaskInv, DaemonTypes
  <2>3. client' \in [Casters -> {"none", "run", "cancelled", "ended"}]
    BY <1>t, <2>1 DEF DaemonTypes
  <2>4. QED
    BY <1>1, <1>3, <1>t, <2>1, <2>2, <2>3, PutOver DEF DaemonTypes
<1>6. CASE rover /\ daemonTask # "none"
  <2>1. /\ client' = [client EXCEPT ![daemonTask] = IF @ = "run" THEN "cancelled" ELSE @]
        /\ put' = [put EXCEPT ![p].at = "hangup", ![p].old = daemonTask]
        /\ ntripLock' = p /\ UNCHANGED <<daemonTask, url, putLock>>
    BY <1>6 DEF Daemon!Restarts, Daemon!Cancel
  <2>2. /\ put' \in [Puts -> PutRecords]
        /\ put'[p].at = "hangup" /\ put'[p].old = daemonTask
        /\ \A q \in Puts : q # p => put'[q] = put[q]
    BY <1>1, <1>t, <2>1 DEF DaemonTypes, PutRecords, PutPlaces
  <2>3. client' \in [Casters -> {"none", "run", "cancelled", "ended"}]
    BY <1>6, <1>t, <2>1 DEF DaemonTypes
  <2>4. DaemonTypes'
    BY <1>1, <1>t, <2>1, <2>2, <2>3 DEF DaemonTypes
  <2>5. RoverInv'
    BY <1>1, <1>2, <2>1 DEF DaemonInv, RoverInv
  <2>6. TaskInv'
    BY <1>1, <1>6, <1>t, <2>1 DEF TaskInv, DaemonTypes
  <2>7. LockInv'
    BY <1>1, <1>2, <2>1, <2>2 DEF DaemonInv, LockInv
  <2>8. NamesInv'
    BY <1>1, <1>2, <1>3, <2>1, <2>2 DEF NamesInv
  <2>9. QED
    BY <2>4, <2>5, <2>6, <2>7, <2>8 DEF DaemonInv
<1>7. QED
  BY <1>4, <1>5, <1>6

\* The old client is gone: the new one starts, unless the rover is gone too.
LEMMA RestartedStep ==
  ASSUME DaemonInv, NEW p \in Puts, Daemon!Restarted(p)
  PROVE  DaemonInv'
<1>1. /\ put[p].at = "hangup" /\ client[put[p].old] = "ended" /\ p \in Casters
      /\ "none" \notin Casters /\ ntripLock' = "free" /\ putLock' = "free"
      /\ UNCHANGED <<daemonPhase, stop, con, rover, env>>
  BY PutsAssumption DEF Daemon!Restarted, Casters, Daemon!Urls, Daemon!BootUrl
<1>2. ~stop => rover
  BY <1>1, PutAlone
<1>3. ~stop => url = p /\ env = p
  BY <1>1 DEF DaemonInv, NamesInv
<1>t. DaemonTypes /\ TaskInv
  BY DEF DaemonInv
<1>4. CASE rover
  <2>1. /\ daemonTask' = p /\ client' = [client EXCEPT ![p] = "run"]
        /\ put' = [put EXCEPT ![p].at = "ok"] /\ url' = url
    BY <1>4 DEF Daemon!Restarted, Daemon!StillThere, Daemon!Put
  <2>2. daemonTask = put[p].old
    BY <1>1, <1>4 DEF DaemonInv, LockInv
  <2>3. \A u \in Casters : client[u] # "run"
    BY <1>1, <1>t, <2>2 DEF TaskInv
  <2>4. TaskInv'
    BY <1>1, <1>4, <1>t, <2>1, <2>3 DEF TaskInv, DaemonTypes
  <2>5. client' \in [Casters -> {"none", "run", "cancelled", "ended"}]
    BY <1>t, <2>1 DEF DaemonTypes
  <2>6. QED
    BY <1>1, <1>3, <1>t, <2>1, <2>4, <2>5, PutOver DEF DaemonTypes
<1>5. CASE ~rover
  <2>1. /\ daemonTask' = (IF daemonTask = put[p].old THEN "none" ELSE daemonTask)
        /\ client' = client /\ put' = [put EXCEPT ![p].at = "failed"] /\ url' = put[p].prev
    BY <1>5 DEF Daemon!Restarted, Daemon!StillThere, Daemon!Put
  <2>2. url' \in Casters /\ stop
    BY <1>1, <1>2, <1>5, <1>t, <2>1 DEF DaemonTypes, PutRecords
  <2>3. daemonTask = "none" /\ daemonTask' = "none"
    BY <1>5, <1>t, <2>1 DEF TaskInv
  <2>4. TaskInv'
    BY <1>1, <1>t, <2>1, <2>3 DEF TaskInv
  <2>5. QED
    BY <1>1, <1>t, <2>1, <2>2, <2>3, <2>4, PutOver DEF DaemonTypes
<1>6. QED
  BY <1>4, <1>5

\* The client that runs is the daemon's own, on the caster that .env and the
\* settings name (set_ntrip_url, _restart_ntrip and the rover's teardown), for
\* every number of requests that overlap each other and the teardown.
THEOREM ClientAlwaysOwned ==
  Daemon!Init /\ [][Daemon!Next]_(Daemon!vars) => []ClientOwned
<1>1. Daemon!Init => DaemonInv
  <2> SUFFICES ASSUME Daemon!Init PROVE DaemonInv
    OBVIOUS
  <2>1. /\ daemonPhase = "open" /\ ~stop /\ con = [c \in Daemon!Consumers |-> "off"]
        /\ rover = FALSE /\ daemonTask = "none" /\ client = [u \in Casters |-> "none"]
        /\ put = [p \in Puts |-> [at |-> "idle", prev |-> "none", old |-> "none"]]
        /\ putLock = "free" /\ ntripLock = "free" /\ url = "boot" /\ env = "boot"
    BY DEF Daemon!Init, Daemon!Idle, Daemon!BootUrl, Casters
  <2>2. DaemonTypes
    BY <2>1 DEF DaemonTypes, OtherPlaces, RoverPlaces, PutRecords, PutPlaces, Daemon!Consumers, Casters,
                Daemon!Urls, Daemon!BootUrl
  <2>3. RoverInv
    BY <2>1 DEF RoverInv, Daemon!Consumers
  <2>4. TaskInv /\ LockInv /\ NamesInv
    BY <2>1 DEF TaskInv, LockInv, NamesInv
  <2>5. QED
    BY <2>2, <2>3, <2>4 DEF DaemonInv
<1>2. DaemonInv /\ [Daemon!Next]_(Daemon!vars) => DaemonInv'
  <2> SUFFICES ASSUME DaemonInv, [Daemon!Next]_(Daemon!vars) PROVE DaemonInv'
    OBVIOUS
  <2>1. CASE \/ Daemon!OpenDatabase \/ Daemon!StartupFails \/ Daemon!ReceiverReturns \/ Daemon!Drained
             \/ Daemon!LoopsEnd \/ Daemon!ConsumersEnd \/ Daemon!JobsShutdown \/ Daemon!CloseDatabase
             \/ Daemon!StopRequested \/ Daemon!ReplayEnds \/ Daemon!AddressMoves
    BY <2>1, MainStep
  <2>2. CASE Daemon!Launch
    BY <2>2, LaunchStep
  <2>3. CASE Daemon!GraceEnds
    BY <2>3, GraceStep
  <2>4. CASE \/ Daemon!WriterSteps \/ Daemon!WriterDies \/ Daemon!WebSteps \/ Daemon!WatcherFails
             \/ Daemon!ServerDies
    BY <2>4, NeighbourStep
  <2>5. CASE \E c \in Daemon!Consumers : Daemon!BackoffEnds(c) \/ Daemon!NeverStarts(c)
    BY <2>5, SupervisorStep
  <2>6. CASE Daemon!RoverSteps
    BY <2>6, RoverStartStep, RoverEndStep DEF Daemon!RoverSteps
  <2>7. CASE \E u \in Casters : Daemon!ClientEnds(u)
    BY <2>7, ClientStep
  <2>8. ASSUME NEW p \in Puts, Daemon!PutArrives(p) \/ Daemon!PutSteps(p) \/ Daemon!PutRefused(p)
        PROVE  DaemonInv'
    BY <2>8, PutEntersStep, PutSavedStep, RestartsStep, RestartedStep DEF Daemon!PutSteps
  <2>9. CASE UNCHANGED Daemon!vars
    <3>1. UNCHANGED <<daemonPhase, stop, con, rover, daemonTask, client, put, putLock, ntripLock,
                      url, env>>
      BY <2>9 DEF Daemon!vars, Daemon!state, Daemon!ntripVars
    <3>2. QED
      BY <3>1, Elsewhere DEF DaemonInv, DaemonTypes
  <2>10. QED
    BY <2>1, <2>2, <2>3, <2>4, <2>5, <2>6, <2>7, <2>8, <2>9 DEF Daemon!Next, Daemon!Main, Casters
<1>3. DaemonInv => ClientOwned
  <2> SUFFICES ASSUME DaemonInv PROVE Daemon!NoOrphanClient /\ Daemon!CasterAgrees
    BY DEF ClientOwned, Daemon!ClientOwned
  <2>1. Daemon!NoOrphanClient
    BY PutsAssumption DEF Daemon!NoOrphanClient, DaemonInv, TaskInv, RoverInv, Casters,
       Daemon!Urls, Daemon!BootUrl
  <2>2. Daemon!CasterAgrees
    BY DEF Daemon!CasterAgrees, DaemonInv, NamesInv
  <2>3. QED
    BY <2>1, <2>2
<1>4. QED
  BY <1>1, <1>2, <1>3, PTL

=============================================================================
