------------------------------- MODULE Stores -------------------------------
(***************************************************************************)
(* What the daemon keeps on disk besides the raw log: the database, the    *)
(* history it holds, the survey points, the backups, RINEX exports and PPK *)
(* runs, side by side under names of their own.  They share no variable.   *)
(***************************************************************************)
EXTENDS Integers, Sequences, FiniteSets

CONSTANTS
  Units, Writers, MaxCancels, MaxErrors,                        \* of Database
  MaxTs, Minute, Keep1s, Keep1m, MaxBacks, MaxFails, MaxStarts, \* of Sampler
  Collects, SkipFactor, QueueSize, MaxEpochs, MaxSessions, MaxTime, MaxFaults, \* of Points
  MaxRows, MaxRestores, MaxDeaths,                              \* of Backup
  Exports, Window, MaxStepFaults, MaxKills,                     \* of Export
  PpkPlans, LoggedAt, Sites, MaxRunFaults                       \* of Ppk

VARIABLES
  databaseAt, lock, txTask, thread, inTx, open, stored, cancels, errors, dangling,
  sampler, epochTs, samplerCurrent, samples1s, samples1m, failing, reports, backs,
  diskFails, starts, lost,
  call, read, state, cur, owner, taken, skipped, saving, row, cancelled, points, alive,
  sessions, clock, queue, published, pointsFaults,
  dbFile, walRows, daemonOn, written, archive, backup, restore, force, staged, copies,
  due, restores, backupDeaths,
  raw, flock, syncFlag, exportAt, exportOutcome, cancel, todo, spliced, names, stage,
  aside, placed, overrun, dir, before, listed, spoiled, exportFaults, exportDeaths,
  ppkPlan, req, run, ppkAt, ppkOutcome, out, given, used, seen, logged, remoteSite,
  place, hours, sites, active, ppkFaults

databaseVars == <<databaseAt, lock, txTask, thread, inTx, open, stored, cancels, errors,
                  dangling>>
samplerVars == <<sampler, epochTs, samplerCurrent, samples1s, samples1m, failing,
                 reports, backs, diskFails, starts, lost>>
pointsVars == <<call, read, state, cur, owner, taken, skipped, saving, row, cancelled, points,
                alive, sessions, clock, queue, published, pointsFaults>>
backupVars == <<dbFile, walRows, daemonOn, written, archive, backup, restore, force,
                staged, copies, due, restores, backupDeaths>>
exportVars == <<raw, flock, syncFlag, exportAt, exportOutcome, cancel, todo, spliced,
                names, stage, aside, dir, placed, overrun, before, listed, spoiled,
                exportFaults, exportDeaths>>
ppkVars == <<ppkPlan, req, run, ppkAt, ppkOutcome, out, given, used, seen, logged,
             remoteSite, place, hours, sites, active, ppkFaults>>

Database == INSTANCE Database WITH at <- databaseAt
Sampler == INSTANCE Sampler WITH current <- samplerCurrent
Points == INSTANCE Points WITH Requests <- Collects, faults <- pointsFaults
Backup == INSTANCE Backup WITH deaths <- backupDeaths
Export == INSTANCE Export WITH
  Plans <- Exports, Hours <- Window, MaxFaults <- MaxStepFaults, MaxDeaths <- MaxKills,
  at <- exportAt, outcome <- exportOutcome, faults <- exportFaults, deaths <- exportDeaths
Ppk == INSTANCE Ppk WITH
  Plans <- PpkPlans, MaxFaults <- MaxRunFaults,
  plan <- ppkPlan, at <- ppkAt, outcome <- ppkOutcome, faults <- ppkFaults

\* Tasks are of one kind each, and none is called like a free lock.
ASSUME TasksAssumption ==
  /\ Units \intersect Writers = {}
  /\ "free" \notin Units \union Writers /\ "none" \notin Units \union Writers

\* A minute has seconds, and its aggregate outlives the last of its rows: the
\* daemon keeps rows for 24 h (keep_1s_h) and aggregates for 90 d (keep_1m_d).
ASSUME RetentionAssumption ==
  /\ MaxTs \in Nat /\ Minute \in Nat \ {0} /\ Keep1s \in Nat /\ Keep1m \in Nat
  /\ Keep1s + Minute - 1 <= Keep1m

\* A request asks for at least one epoch; the collector's subscription holds
\* at least one.
ASSUME CollectsAssumption ==
  /\ Collects \subseteq [id : Nat \ {0}, epochs : Nat \ {0}, fixedOnly : BOOLEAN]
  /\ QueueSize \in Nat \ {0}

\* An export has a number of its own, which is the version of what it writes.
ASSUME ExportsAssumption ==
  /\ Exports \subseteq
       SUBSET [kind : {"job", "sync", "cli"}, overwrite : BOOLEAN, run : Nat \ {0}]
  /\ \A c, d \in UNION Exports : c.run = d.run => c = d

\* A request names files and, perhaps, a site or a position, and has a navigation
\* file only beside a RINEX base (_base_side refuses it otherwise).  The hours
\* of the base are finitely many, and no site is called like what is not one.
PpkFiles == [kind : {"upload", "local", "remote"}, fmt : {"raw", "obs"},
             at : Ppk!Names \union {"else"}]
PpkRequests ==
  {r \in [rover : PpkFiles, base : PpkFiles, nav : Ppk!Names \union {"none", "else"},
          site : Sites \union {"none", "xyz"}] :
     /\ r.nav # "none" => r.base.fmt = "obs"
     /\ \A f \in {r.rover, r.base} : f.kind # "upload" => f.fmt = "raw" /\ f.at = "else"}
ASSUME PpkAssumption ==
  /\ PpkPlans \subseteq Seq(PpkRequests)
  /\ IsFiniteSet(DOMAIN LoggedAt)
  /\ {"none", "xyz", "header"} \intersect Sites = {}

-----------------------------------------------------------------------------

\* Database: "nothing outside can observe or commit an intermediate state": whichever
\* task fails or is cancelled, and wherever, the file goes from whole units to whole
\* units, and never loses one.
CommitsUnits == Database!CommitsUnits

\* Database: a write whose commit() returned is in the file: it never joins a unit of
\* another task that is rolled back.
WritesStand == Database!WritesStand

\* Sampler: the minute series has no hole: a minute that was left, or in progress when
\* the daemon stopped, has an aggregate that counts every row it still has, through
\* restarts, stepping clocks and retention.
NoHole == Sampler!NoHole

\* Points: a point is what was asked for: a request stores at most one, of exactly the
\* epochs asked for, in their order, none twice and none worse than it says, and none
\* once it was told it is cancelled.
PointIsAsAsked == Points!PointIsAsAsked

\* Backup: a restore keeps what it replaces and brings back what was archived.
RestoreKeeps == Backup!RestoreKeeps

\* Export: a directory holds a whole export or what it held before: an export that
\* failed left it untouched, one that was cancelled left it untouched or whole, and a
\* manifest describes the files beside it, of its own run, in every directory no
\* publish is at work in, but where the taking back failed, a caller went on without
\* its thread or a process died in its moves.  Even there, one that failed leaves no
\* manifest.
WholeOrUntouched == Export!WholeOrUntouched

\* Ppk: what a directory shows is one run's: inputs are never altered, once it is clear
\* nothing of an earlier run is left but inputs used in place, and a summary stands
\* only over the solution and the track of its own run, also when that run failed.
TrackIsItsOwn == Ppk!TrackIsItsOwn

=============================================================================
