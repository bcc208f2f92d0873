------------------------------- MODULE Backup -------------------------------
(***************************************************************************)
(* Backup and restore (src/mtrtk/backup.py): an archive taken next to a    *)
(* running daemon, a restore that replaces the database, and either of     *)
(* them, or the daemon, dying between two steps.                           *)
(*                                                                         *)
(* The database is mtrtk.db, the rows its file holds, and mtrtk.db-wal,    *)
(* the rows only the WAL holds; SQLite replays a WAL it finds beside a     *)
(* file when it opens it, whosever it was.                                 *)
(***************************************************************************)
EXTENDS Naturals, Sequences

CONSTANTS
  MaxRows,     \* bound: rows the daemon writes
  MaxRestores, \* bound: restores
  MaxDeaths    \* bound: processes that die, files that go bad

NoFile == [sound |-> FALSE, rows |-> {}, there |-> FALSE]
File(rows) == [sound |-> TRUE, rows |-> rows, there |-> TRUE]
Spoilt(f) == [f EXCEPT !.sound = FALSE]

VARIABLES
  dbFile,    \* mtrtk.db
  walRows,   \* rows in mtrtk.db-wal, or {} when there is none
  daemonOn,  \* a daemon has the database open
  written,   \* rows written so far
  archive,   \* the archive: the database in it
  backup,    \* create_backup: "idle", or the snapshot in its temporary directory
  restore,   \* where restore_backup stands
  force,     \* --force
  staged,    \* the database staged in DATA_DIR
  copies,    \* mtrtk.db.pre-restore-*, by their stamps
  due,       \* history: rows of the database a restore unlinked last
  restores, deaths

files == <<dbFile, walRows, daemonOn, written>>
archived == <<archive, backup>>
restoring == <<restore, force, staged, due>>
state == <<files, archived, restoring, copies, restores, deaths>>

Init ==
  /\ dbFile = NoFile /\ walRows = {} /\ daemonOn = FALSE /\ written = 0
  /\ archive = NoFile /\ backup = NoFile
  /\ restore = "idle" /\ force = FALSE /\ staged = NoFile /\ copies = <<>>
  /\ due = {} /\ restores = 0 /\ deaths = 0

\* What a connection reads: the file with the WAL replayed.
Rows == dbFile.rows \union walRows

-----------------------------------------------------------------------------
(* The daemon, external to backup.py *)

DaemonStarts ==
  /\ ~daemonOn /\ (dbFile.sound \/ ~dbFile.there)
  /\ daemonOn' = TRUE
  /\ IF dbFile.there THEN UNCHANGED <<dbFile, walRows>> ELSE dbFile' = File({}) /\ walRows' = {}
  /\ UNCHANGED <<written, archived, restoring, copies, restores, deaths>>

DaemonWrites ==
  /\ daemonOn /\ written < MaxRows /\ restore = "idle"
  /\ written' = written + 1 /\ walRows' = walRows \union {written'}
  /\ UNCHANGED <<dbFile, daemonOn, archived, restoring, copies, restores, deaths>>

\* A clean stop folds the WAL into the file; a crash leaves it.
DaemonStops ==
  /\ daemonOn /\ daemonOn' = FALSE
  /\ \/ /\ dbFile.there /\ dbFile' = File(Rows) /\ walRows' = {} /\ UNCHANGED deaths
     \/ deaths < MaxDeaths /\ deaths' = deaths + 1 /\ UNCHANGED <<dbFile, walRows>>
  /\ UNCHANGED <<written, archived, restoring, copies, restores>>

\* A bad sector, a truncated copy.
GoesBad ==
  /\ deaths < MaxDeaths /\ deaths' = deaths + 1 /\ ~daemonOn /\ restore = "idle"
  /\ \/ dbFile.there /\ dbFile' = Spoilt(dbFile) /\ UNCHANGED archive
     \/ archive.there /\ archive' = Spoilt(archive) /\ UNCHANGED dbFile
  /\ UNCHANGED <<walRows, daemonOn, written, backup, restoring, copies, restores>>

-----------------------------------------------------------------------------
(* create_backup *)

\* `_snapshot`: SQLite's online backup, WAL included.  Without a database (and
\* with no .env) there is nothing to back up.
Snapshot ==
  /\ ~backup.there /\ dbFile.there /\ dbFile.sound
  /\ backup' = File(Rows)
  /\ UNCHANGED <<files, archive, restoring, copies, restores, deaths>>

\* The finished archive replaces the one at --out.
ArchiveDone ==
  /\ backup.there
  /\ archive' = backup /\ backup' = NoFile
  /\ UNCHANGED <<files, restoring, copies, restores, deaths>>

BackupDies ==
  /\ backup.there /\ deaths < MaxDeaths /\ deaths' = deaths + 1
  /\ backup' = NoFile
  /\ UNCHANGED <<files, archive, restoring, copies, restores>>

-----------------------------------------------------------------------------
(* restore_backup *)

Refused == restore' = "idle" /\ force' = FALSE /\ staged' = NoFile /\ UNCHANGED due

\* The archive is read and its database staged and checked, before anything in
\* DATA_DIR changes.
Stage(f) ==
  /\ restore = "idle" /\ restores < MaxRestores /\ restores' = restores + 1
  /\ archive.there
  /\ IF archive.sound
     THEN restore' = "check" /\ force' = f /\ staged' = archive /\ UNCHANGED due
     ELSE Refused
  /\ UNCHANGED <<files, archived, copies, deaths>>

\* A database that exists needs --force and no other process: taking it out of
\* WAL mode is the test, and folds its WAL in.  A damaged one is let through.
EnsureNotInUse ==
  /\ restore = "check"
  /\ \/ /\ dbFile.there /\ (~force \/ (dbFile.sound /\ daemonOn))
        /\ Refused /\ UNCHANGED <<dbFile, walRows>>
     \/ /\ dbFile.there /\ force /\ dbFile.sound /\ ~daemonOn
        /\ dbFile' = File(Rows) /\ walRows' = {}
        /\ restore' = "keep" /\ UNCHANGED <<force, staged, due>>
     \/ /\ dbFile.there /\ force /\ ~dbFile.sound
        /\ restore' = "keep" /\ UNCHANGED <<force, staged, due, dbFile, walRows>>
     \/ /\ ~dbFile.there
        /\ restore' = "unlink" /\ UNCHANGED <<force, staged, due, dbFile, walRows>>
  /\ UNCHANGED <<daemonOn, written, archived, copies, restores, deaths>>

\* A copy under a new stamp, or over the one an earlier restore made in the
\* same second.
KeepAs(rows) ==
  \/ copies' = Append(copies, rows)
  \/ copies # <<>> /\ copies' = [copies EXCEPT ![Len(copies)] = rows]

\* Mutant of KeepPrevious: only the file's bytes are copied, never its WAL.
KeepPreviousFile == KeepAs(dbFile.rows)

\* `_keep_previous`: a snapshot, or the bytes of the file and of its WAL.
KeepPrevious == KeepAs(Rows)

Keeps ==
  /\ restore = "keep" /\ restore' = "unlink"
  /\ KeepPrevious /\ due' = {}
  /\ UNCHANGED <<files, archived, force, staged, restores, deaths>>

UnlinkDatabase ==
  /\ restore = "unlink" /\ restore' = "unlink_wal"
  /\ dbFile' = NoFile /\ due' = IF dbFile.there THEN Rows ELSE due
  /\ UNCHANGED <<walRows, daemonOn, written, archived, force, staged, copies, restores,
                 deaths>>

UnlinkWal == walRows' = {}

UnlinkRest ==
  /\ restore = "unlink_wal" /\ restore' = "replace"
  /\ UnlinkWal
  /\ UNCHANGED <<dbFile, daemonOn, written, archived, force, staged, due, copies,
                 restores, deaths>>

ReplaceDatabase ==
  /\ restore = "replace" /\ restore' = "reference"
  /\ dbFile' = staged
  /\ UNCHANGED <<walRows, daemonOn, written, archived, force, staged, due, copies,
                 restores, deaths>>

\* restored-sites.json and restored.env are written for reference, an earlier
\* one kept beside it.
WriteReference ==
  /\ restore = "reference" /\ restore' = "idle"
  /\ force' = FALSE /\ staged' = NoFile
  /\ UNCHANGED <<files, archived, due, copies, restores, deaths>>

RestoreDies ==
  /\ restore # "idle" /\ deaths < MaxDeaths /\ deaths' = deaths + 1
  /\ Refused
  /\ UNCHANGED <<files, archived, copies, restores>>

Next ==
  \/ DaemonStarts \/ DaemonWrites \/ DaemonStops \/ GoesBad
  \/ Snapshot \/ ArchiveDone \/ BackupDies
  \/ \E f \in BOOLEAN : Stage(f)
  \/ EnsureNotInUse \/ Keeps \/ UnlinkDatabase \/ UnlinkRest \/ ReplaceDatabase
  \/ WriteReference \/ RestoreDies

-----------------------------------------------------------------------------

\* "the database being replaced is first copied": every row of the database a
\* forced restore took away is in a pre-restore copy, whichever step dies and
\* even where that database was damaged and left a WAL.
ReplacedIsKept == due = {} \/ \E i \in DOMAIN copies : copies[i] = due

\* A restored database is the archived one: no row of another database comes
\* back out of a WAL left beside it.
RestoredIsArchive == restore = "reference" /\ ~daemonOn => Rows = staged.rows

\* A restore keeps what it replaces and brings back what was archived.
RestoreKeeps == ReplacedIsKept /\ RestoredIsArchive

=============================================================================
