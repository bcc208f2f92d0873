------------------------------- MODULE Export -------------------------------
(***************************************************************************)
(* RINEX exports (rinex/export.py, splice.py, convbin.py and               *)
(* web/api/export.py): a job, a synchronous download and `mtrtk export`    *)
(* take one lock, splice the raw hours of a window, convert and compress   *)
(* them in a private staging directory, and move the result into place,    *)
(* the manifest last, taking the moves back when one fails.  Retention may *)
(* prune an hour meanwhile, any step may fail, the taking back too, a      *)
(* caller may be cancelled, and its moves go on in their thread, past the  *)
(* drain limit perhaps, and a process may die.                             *)
(***************************************************************************)
EXTENDS Naturals, Sequences, FiniteSets

CONSTANTS
  Plans,      \* sets of the callers that export in a behaviour:
              \* [kind: "job" | "sync" | "cli", overwrite, run], run its version
  Hours,      \* raw hours of the window
  MaxFaults,  \* steps that fail
  MaxDeaths   \* processes that die in an export

VARIABLES
  raw,        \* hours on disk
  flock,      \* run that holds DATA_DIR/.export.lock, 0 when free
  syncFlag,   \* a synchronous export has the slot
  at,         \* caller -> its step
  outcome,    \* caller -> "none", "done", "failed", "cancelled"
  cancel,     \* callers asked to stop
  todo,       \* caller -> hours still to splice, in order
  spliced,    \* caller -> hours in its spliced file
  names,      \* caller -> names its export ships, in order
  stage,      \* caller -> names in its staging directory
  aside,      \* caller -> name -> the version set aside, 0 none
  placed,      \* caller -> names its publish has put in place
  overrun,    \* caller -> where the thread of its publish is when the caller has
              \* gone on without it, or "no"
  dir,        \* directory -> name -> version there, 0 none
  before,     \* caller -> its directory when it began
  listed,     \* version -> names its manifest lists
  spoiled,    \* history: directories where a move could not be taken back, a
              \* caller went on without its thread, or a process died in its moves
  faults, deaths

exportVars == <<raw, flock, syncFlag, at, outcome, cancel, todo, spliced, names, stage, aside, dir,
                placed, overrun, before, listed, spoiled, faults, deaths>>

Names == {"obs", "nav", "manifest"}
Nothing == [n \in Names |-> 0]
Callers == UNION Plans
Runs == {c.run : c \in Callers}
Kinds == {c.kind : c \in Callers}
Dir(c) == c.kind

Init ==
  /\ raw = {Hours[i] : i \in 1..Len(Hours)} /\ flock = 0 /\ syncFlag = FALSE
  /\ \E who \in Plans : at = [c \in Callers |-> IF c \in who THEN "idle" ELSE "ended"]
  /\ outcome = [c \in Callers |-> "none"] /\ cancel = {}
  /\ todo = [c \in Callers |-> <<>>] /\ spliced = [c \in Callers |-> <<>>]
  /\ names = [c \in Callers |-> <<>>] /\ stage = [c \in Callers |-> {}]
  /\ aside = [c \in Callers |-> Nothing] /\ dir = [k \in Kinds |-> Nothing]
  /\ placed = [c \in Callers |-> {}] /\ overrun = [c \in Callers |-> "no"] /\ spoiled = {}
  /\ before = [c \in Callers |-> Nothing] /\ listed = [r \in Runs |-> {}]
  /\ faults = 0 /\ deaths = 0

Go(c, step) == at' = [at EXCEPT ![c] = step]
Ended(c, how) == outcome' = [outcome EXCEPT ![c] = how]

excess == <<overrun, spoiled>>
work == <<todo, spliced, names, stage, aside, placed, listed>>
disk == <<raw, dir, excess>>

\* POST /api/export and GET /api/export/rinex: the slot is checked and taken
\* with no await between.  `mtrtk export` only meets the lock.
JobActive == \E d \in Callers : d.kind = "job" /\ at[d] \notin {"idle", "ended"}

Begin(c) ==
  /\ at[c] = "idle"
  /\ \A d \in Callers : Dir(d) = Dir(c) /\ d.run < c.run => at[d] = "ended"
  /\ IF (c.kind # "cli" /\ syncFlag) \/ (c.kind = "sync" /\ JobActive)
     THEN Go(c, "ended") /\ Ended(c, "failed") /\ UNCHANGED syncFlag
     ELSE Go(c, "lock") /\ UNCHANGED outcome /\ syncFlag' = (syncFlag \/ c.kind = "sync")
  /\ before' = [before EXCEPT ![c] = dir[Dir(c)]]
  /\ UNCHANGED <<flock, cancel, work, disk, faults, deaths>>

\* _take_lock: not waited for.
TakeLock(c) ==
  /\ at[c] = "lock"
  /\ IF flock = 0 THEN flock' = c.run /\ Go(c, "refuse") /\ UNCHANGED outcome
     ELSE Go(c, "clean") /\ Ended(c, "failed") /\ UNCHANGED flock
  /\ UNCHANGED <<syncFlag, cancel, work, disk, before, faults, deaths>>

Taken(c, ns) == ~c.overwrite /\ \E n \in ns : dir[Dir(c)][n] # 0

\* _refuse_existing, and the check of the free space.
Refuse(c) ==
  /\ at[c] = "refuse"
  /\ IF Taken(c, Names) THEN Go(c, "clean") /\ Ended(c, "failed")
     ELSE Go(c, "list") /\ UNCHANGED outcome
  /\ UNCHANGED <<flock, syncFlag, cancel, work, disk, before, faults, deaths>>

\* splice_window: the hours are listed first and copied one after another; an
\* hour that has gone by then is an error, as is a window without hours.
Found == SelectSeq(Hours, LAMBDA h : h \in raw)

List(c) ==
  /\ at[c] = "list"
  /\ IF Found = <<>> THEN Go(c, "clean") /\ Ended(c, "failed") /\ UNCHANGED todo
     ELSE Go(c, "splice") /\ todo' = [todo EXCEPT ![c] = Found] /\ UNCHANGED outcome
  /\ UNCHANGED <<flock, syncFlag, cancel, spliced, names, stage, aside, placed, listed, disk,
                 before, faults, deaths>>

Splice(c) ==
  /\ at[c] = "splice"
  /\ IF todo[c] = <<>> THEN Go(c, "convert") /\ UNCHANGED <<todo, spliced, outcome>>
     ELSE IF Head(todo[c]) \in raw
     THEN /\ todo' = [todo EXCEPT ![c] = Tail(@)]
          /\ spliced' = [spliced EXCEPT ![c] = Append(@, Head(todo[c]))]
          /\ UNCHANGED <<at, outcome>>
     ELSE Go(c, "clean") /\ Ended(c, "failed") /\ UNCHANGED <<todo, spliced>>
  /\ UNCHANGED <<flock, syncFlag, cancel, names, stage, aside, placed, listed, disk, before,
                 faults, deaths>>

\* run_convbin and _package: observations, and a navigation file when the
\* window carried ephemerides; then the manifest of what there is.
Shipped(nav) == IF nav THEN <<"obs", "nav", "manifest">> ELSE <<"obs", "manifest">>

Convert(c) ==
  /\ at[c] = "convert"
  /\ \E nav \in BOOLEAN :
       LET all == {Shipped(nav)[i] : i \in 1..Len(Shipped(nav))}
       IN  /\ names' = [names EXCEPT ![c] = Shipped(nav)]
           /\ stage' = [stage EXCEPT ![c] = all]
           /\ listed' = [listed EXCEPT ![c.run] = all]
  /\ Go(c, "publish")
  /\ UNCHANGED <<flock, syncFlag, outcome, cancel, todo, spliced, aside, placed, disk, before,
                 faults, deaths>>

\* _publish: the names are checked again, and what is there is set aside.
Publish(c) ==
  /\ at[c] = "publish"
  /\ IF Taken(c, listed[c.run]) THEN Go(c, "clean") /\ Ended(c, "failed")
     ELSE Go(c, IF c.overwrite THEN "aside" ELSE "move") /\ UNCHANGED outcome
  /\ UNCHANGED <<flock, syncFlag, cancel, work, disk, before, faults, deaths>>

\* n is the first of the names `left` to be handled, in order.
Left(c, left, n) ==
  \E i \in 1..Len(names[c]) :
    n = names[c][i] /\ n \in left /\ \A j \in 1..(i - 1) : names[c][j] \notin left

Named(c) == {names[c][i] : i \in 1..Len(names[c])}
SetAsideOf(c) == {n \in Names : aside[c][n] # 0}
ToSetAside(c) == {n \in Named(c) : dir[Dir(c)][n] \notin {0, c.run} /\ aside[c][n] = 0}
ToMove(c) == Named(c) \ placed[c]

\* Where the thread that publishes is, and where it goes; once it is over, its
\* caller cleans up, unless it has gone on already.
Place(c) == IF overrun[c] = "no" THEN at[c] ELSE overrun[c]

ThreadGoes(c, step) ==
  IF overrun[c] = "no" THEN Go(c, step) /\ UNCHANGED overrun
  ELSE overrun' = [overrun EXCEPT ![c] = step] /\ UNCHANGED at

ThreadEnds(c, how) ==
  IF overrun[c] = "no"
  THEN Go(c, "clean") /\ Ended(c, IF c \in cancel THEN "cancelled" ELSE how) /\ UNCHANGED overrun
  ELSE overrun' = [overrun EXCEPT ![c] = "no"] /\ UNCHANGED <<at, outcome>>

SetAside(c) ==
  /\ Place(c) = "aside"
  /\ IF ToSetAside(c) = {} THEN ThreadGoes(c, "move") /\ UNCHANGED <<aside, dir>>
     ELSE /\ at[c] = "ended" => SetAsideOf(c) # {}
          /\ \E n \in ToSetAside(c) :
               /\ Left(c, ToSetAside(c), n)
               /\ aside' = [aside EXCEPT ![c][n] = dir[Dir(c)][n]]
               /\ dir' = [dir EXCEPT ![Dir(c)][n] = 0]
          /\ UNCHANGED <<at, overrun>>
  /\ UNCHANGED <<raw, flock, syncFlag, outcome, cancel, todo, spliced, names, stage, placed, listed,
                 spoiled, before, faults, deaths>>

\* The moves; the worker thread is not stopped by a cancellation.
Move(c) ==
  /\ Place(c) = "move"
  /\ IF ToMove(c) = {} THEN ThreadEnds(c, "done") /\ UNCHANGED <<stage, placed, dir>>
     ELSE /\ \E n \in ToMove(c) \intersect stage[c] :
               /\ Left(c, ToMove(c), n)
               /\ dir' = [dir EXCEPT ![Dir(c)][n] = c.run]
               /\ stage' = [stage EXCEPT ![c] = @ \ {n}]
               /\ placed' = [placed EXCEPT ![c] = @ \union {n}]
          /\ UNCHANGED <<at, outcome, overrun>>
  /\ UNCHANGED <<raw, flock, syncFlag, cancel, todo, spliced, names, aside, listed, spoiled, before,
                 faults, deaths>>

\* A move that fails: the ones already made are taken back, but for `kept`, and
\* what was set aside is put back, but for `lost`.
TakeBackNot(c, kept, lost) == dir[Dir(c)]
TakeBack(c, kept, lost) ==
  [n \in Names |-> IF aside[c][n] # 0 /\ n \notin lost THEN aside[c][n]
                   ELSE IF n \in placed[c] \ kept THEN 0 ELSE dir[Dir(c)][n]]

\* A file that cannot be unlinked ends the taking back, with nothing put back;
\* one that cannot be put back is passed over.  A move fails without a fault
\* when the staging directory is gone.
MoveFails(c) ==
  /\ Place(c) = "aside" \/ (Place(c) = "move" /\ ToMove(c) # {})
  /\ \E i \in 1..(Len(names[c]) + 1), lost \in SUBSET SetAsideOf(c) :
       LET kept == {names[c][j] : j \in i..Len(names[c])} \intersect placed[c]
       IN /\ kept # {} => lost = SetAsideOf(c)
          /\ dir' = [dir EXCEPT ![Dir(c)] = TakeBack(c, kept, lost)]
          /\ aside' = [aside EXCEPT ![c] = [n \in Names |-> IF n \in lost THEN aside[c][n] ELSE 0]]
          /\ spoiled' = IF kept \union lost = {} THEN spoiled ELSE spoiled \union {Dir(c)}
          /\ IF at[c] = "ended" /\ kept \union lost = {} THEN UNCHANGED faults
             ELSE faults < MaxFaults /\ faults' = faults + 1
  /\ ThreadEnds(c, "failed")
  /\ UNCHANGED <<raw, flock, syncFlag, cancel, todo, spliced, names, stage, placed, listed, before,
                 deaths>>

\* _in_thread: a cancelled caller waits THREAD_DRAIN_S for its thread, and goes on.
Drain(c) ==
  /\ at[c] \in {"aside", "move"} /\ c \in cancel
  /\ overrun' = [overrun EXCEPT ![c] = at[c]] /\ spoiled' = spoiled \union {Dir(c)}
  /\ Go(c, "clean") /\ Ended(c, "cancelled")
  /\ UNCHANGED <<raw, flock, syncFlag, cancel, work, dir, before, faults, deaths>>

Working == {"lock", "refuse", "list", "splice", "convert", "publish"}

\* Any earlier step may fail: the card is full, convbin exits or times out.
StepFails(c) ==
  /\ at[c] \in Working /\ faults < MaxFaults /\ faults' = faults + 1
  /\ Go(c, "clean") /\ Ended(c, "failed")
  /\ UNCHANGED <<flock, syncFlag, cancel, work, disk, before, deaths>>

\* The job is cancelled, the client hangs up, or Ctrl-C; late perhaps, when all
\* is in place.
Cancel(c) ==
  /\ c \notin cancel /\ cancel' = cancel \union {c}
  /\ \/ at[c] \in Working /\ Go(c, "clean") /\ Ended(c, "cancelled")
     \/ at[c] \in {"aside", "move"} /\ UNCHANGED <<at, outcome>>
     \/ at[c] = "clean" /\ outcome[c] = "done" /\ Ended(c, "cancelled") /\ UNCHANGED at
  /\ UNCHANGED <<flock, syncFlag, work, disk, before, faults, deaths>>

\* The staging directory goes, then the lock and the slot.  `left` is what a
\* thread still at work sets aside behind the listing of rmtree.
Clean(c) ==
  /\ at[c] = "clean"
  /\ stage' = [stage EXCEPT ![c] = {}]
  /\ \E left \in SUBSET Names :
       /\ overrun[c] = "no" => left = {}
       /\ aside' = [aside EXCEPT ![c] = [n \in Names |-> IF n \in left THEN aside[c][n] ELSE 0]]
  /\ flock' = IF flock = c.run THEN 0 ELSE flock
  /\ syncFlag' = (syncFlag /\ c.kind # "sync")
  /\ Go(c, "ended")
  /\ UNCHANGED <<outcome, cancel, todo, spliced, names, placed, listed, disk, before, faults, deaths>>

\* `mtrtk export` is killed: the lock goes with it, the staging directory stays.
Die(c) ==
  /\ c.kind = "cli" /\ (at[c] \notin {"idle", "ended"} \/ overrun[c] # "no")
  /\ deaths < MaxDeaths /\ deaths' = deaths + 1
  /\ flock' = IF flock = c.run THEN 0 ELSE flock
  /\ spoiled' = IF Place(c) \in {"aside", "move"} THEN spoiled \union {Dir(c)} ELSE spoiled
  /\ Go(c, "ended") /\ Ended(c, "died") /\ overrun' = [overrun EXCEPT ![c] = "no"]
  /\ UNCHANGED <<raw, syncFlag, cancel, work, dir, before, faults>>

\* Retention prunes the oldest hour.
Prune ==
  /\ raw # {}
  /\ LET i == CHOOSE i \in 1..Len(Hours) : Hours[i] \in raw /\ \A j \in 1..(i - 1) : Hours[j] \notin raw
     IN  raw' = raw \ {Hours[i]}
  /\ UNCHANGED <<flock, syncFlag, at, outcome, cancel, work, dir, excess, before, faults, deaths>>

Step(c) ==
  \/ Begin(c) \/ TakeLock(c) \/ Refuse(c) \/ List(c) \/ Splice(c) \/ Convert(c) \/ Publish(c)
  \/ SetAside(c) \/ Move(c) \/ MoveFails(c) \/ Drain(c) \/ StepFails(c) \/ Cancel(c) \/ Clean(c)
  \/ Die(c)

Next == Prune \/ \E c \in Callers : Step(c)

Spec == Init /\ [][Next]_exportVars

TypeOK ==
  /\ flock \in Runs \union {0} /\ syncFlag \in BOOLEAN
  /\ outcome \in [Callers -> {"none", "done", "failed", "cancelled", "died"}]
  /\ dir \in [Kinds -> [Names -> Runs \union {0}]]

Describes(k) == dir[k]["manifest"] # 0 => \A n \in listed[dir[k]["manifest"]] : dir[k][n] = dir[k]["manifest"]

Publishing(k) == \E c \in Callers : Dir(c) = k /\ at[c] \in {"aside", "move"}

\* A directory holds a whole export or what it held before: an export that
\* failed left it untouched, one that was cancelled left it untouched or, when
\* its moves had begun or were done, whole (_publish goes on in its thread and
\* is not taken back, although export_to_dir says "cancellation included"), and
\* a manifest describes the files beside it, of its own run, in every directory
\* no publish is at work in: against failing moves, cancellation, pruning and
\* each other.  Where a move could not be taken back, the drain limit passed
\* with the thread at work or a process died in its moves (`spoiled`), only this
\* is promised: an export that failed leaves no manifest of its own, which is
\* the last it moves.
WholeOrUntouched ==
  /\ \A c \in Callers :
       at[c] = "clean" /\ Dir(c) \notin spoiled =>
         \/ outcome[c] \in {"failed", "cancelled"} /\ dir[Dir(c)] = before[c]
         \/ outcome[c] \in {"done", "cancelled"} /\ dir[Dir(c)]["manifest"] = c.run
  /\ \A k \in Kinds \ spoiled : ~Publishing(k) => Describes(k)
  /\ \A c \in Callers : outcome[c] = "failed" => dir[Dir(c)]["manifest"] # c.run

=============================================================================
