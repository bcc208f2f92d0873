------------------------------- MODULE RawLog -------------------------------
(***************************************************************************)
(* The hourly raw log (src/mtrtk/rawlog/): the writer that names files by  *)
(* the receiver's clock, the JSON sidecar beside every file, recovery      *)
(* after a crash, the operator's `keep` mark and retention.                *)
(*                                                                         *)
(* Time is counted in slots, SlotsPerHour to an hour; a frame is its       *)
(* number; a file is the sequence of its frames and the SHA-256 of some    *)
(* bytes is those frames themselves.                                       *)
(***************************************************************************)
EXTENDS Integers, Sequences, FiniteSets, SequencesExt

CONSTANTS
  SlotsPerHour,  \* granularity of the receiver clock
  LastHour,      \* bound: hours 0 .. LastHour
  PendingCap,    \* PENDING_CAP_BYTES, in frames
  Plans          \* the situations to check: how many frames to log, clock readings,
                 \* stops, PATCHes and retention passes one may have, and its
                 \* faults (FaultKinds)

\* "power_cut"; "kill_in_rotate", "kill_in_delete": the process dies inside
\* `_rotate` or `_delete`.
FaultKinds == {"power_cut", "kill_in_rotate", "kill_in_delete"}

ASSUME RawLogAssumption ==
  /\ SlotsPerHour \in Nat \ {0} /\ LastHour \in Nat /\ PendingCap \in Nat
  /\ Plans \subseteq [frames : Nat, readings : Nat, stops : Nat, patches : Nat, prunes : Nat,
                      faults : SUBSET FaultKinds]

Hours == 0 .. LastHour
Slots == 0 .. (LastHour + 1) * SlotsPerHour - 1
HourOf(slot) == slot \div SlotsPerHour

NoTime == -1   \* None, for a clock reading
NoHour == -1   \* None, for an hour

\* A sidecar: its msg_counts (summed), its hash, its flags.
NoSide == [counts |-> -1, sha |-> <<>>, complete |-> FALSE, keep |-> FALSE]
FreshSide == [counts |-> 0, sha |-> <<>>, complete |-> FALSE, keep |-> FALSE]

VARIABLES
  plan,        \* the situation of this run; never changes
  up,          \* the writer runs
  utc,         \* _utc
  age,         \* slots since _utc_mono
  closedHour,  \* _closed_hour
  frozen,      \* _frozen_utc
  pending,     \* _pending
  current,     \* _current.hour, or NoHour
  mem,         \* _current.sidecar
  hasher,      \* what _current.hasher has been fed
  buf,         \* written to _current.fh and not flushed
  unlinked,    \* the open file was deleted under the writer
  files,       \* the hours that have a .ubx file
  disk,        \* disk[h]: its contents
  synced,      \* synced[h]: how much of it is fsynced
  sides,       \* sides[h]: the sidecar on disk, or NoSide
  patch,       \* the PATCH in progress: its hour, value and step, what it loaded,
               \* and (history) whether the writer had the hour open
  victims,     \* hours the retention pass in progress still has to delete
  deleting,    \* the DELETE in progress: its hour and step, and of its listing the
               \* mark of the hour and whether it was the newest (and not forced)
  n, readings, stops, patches, prunes,  \* counters
  reading,     \* history: the last reading of the receiver (or the host)
  moved,       \* history: it differed from the one before, no tick closed since
  ticked,      \* history: hours the ticker closed since the reading changed
  gone,        \* history: frames given up by a stop, a crash or retention
  crashed,     \* history: hours open at a crash
  torn,        \* history: hours a kill inside _rotate left half written
  overtaken,   \* history: hours whose sidecar changed between the load and the
               \* dump of a PATCH, or that were deleted there
  emptied,     \* history: hours a power cut left with an empty file
  marked       \* history: hours whose last PATCH was keep=true and succeeded, while
               \* no listing that had them unmarked was at work

clockVars == <<utc, age, closedHour, frozen>>
logVars == <<current, mem, hasher, buf, unlinked>>
diskVars == <<files, disk, synced, sides>>
bounds == <<n, readings, stops, patches, prunes>>
hist == <<reading, moved, ticked, gone, crashed, torn, overtaken, emptied, marked>>
vars == <<plan, up, clockVars, pending, logVars, diskVars, patch, victims, deleting, bounds, hist>>

IdlePatch == [at |-> "idle", hour |-> NoHour, keep |-> FALSE, loaded |-> NoSide, told |-> FALSE]
NoDelete == [at |-> "idle", hour |-> NoHour, keep |-> FALSE, unsure |-> FALSE]

\* A writer as `RawLogWriter.__init__` leaves it.
FreshWriter ==
  /\ utc' = NoTime /\ age' = 0 /\ closedHour' = NoHour /\ frozen' = NoTime
  /\ pending' = <<>>
  /\ current' = NoHour /\ mem' = NoSide /\ hasher' = <<>> /\ buf' = <<>> /\ unlinked' = FALSE

Init ==
  /\ plan \in Plans
  /\ up = TRUE
  /\ utc = NoTime /\ age = 0 /\ closedHour = NoHour /\ frozen = NoTime
  /\ pending = <<>>
  /\ current = NoHour /\ mem = NoSide /\ hasher = <<>> /\ buf = <<>> /\ unlinked = FALSE
  /\ files = {} /\ disk = [h \in Hours |-> <<>>] /\ synced = [h \in Hours |-> 0]
  /\ sides = [h \in Hours |-> NoSide]
  /\ patch = IdlePatch /\ victims = {} /\ deleting = NoDelete
  /\ n = 0 /\ readings = 0 /\ stops = 0 /\ patches = 0 /\ prunes = 0
  /\ reading = NoTime /\ moved = FALSE /\ ticked = {} /\ gone = {} /\ crashed = {} /\ torn = {}
  /\ overtaken = {} /\ emptied = {} /\ marked = {}

-----------------------------------------------------------------------------
(* The receiver's clock *)

\* A reading that is not the frozen one lifts the guard on the closed hour.
Lifts(t) == frozen # NoTime /\ t # frozen

\* `note_utc`, from a NAV-PVT with valid date and time.
NoteUtc(t) ==
  /\ up /\ readings < plan.readings
  /\ readings' = readings + 1
  /\ utc' = t /\ age' = 0
  /\ IF Lifts(t) THEN frozen' = NoTime /\ closedHour' = NoHour
     ELSE UNCHANGED <<frozen, closedHour>>
  /\ reading' = t
  /\ IF t = reading THEN UNCHANGED <<moved, ticked>> ELSE moved' = TRUE /\ ticked' = {}
  /\ UNCHANGED <<up, pending, logVars, diskVars, patch, victims, deleting, n, stops, patches, prunes,
                 gone, crashed, marked, torn, overtaken, emptied>>

\* Time passes without a reading.
Pass ==
  /\ up /\ utc # NoTime /\ utc + age + 1 \in Slots
  /\ age' = age + 1
  /\ UNCHANGED <<up, utc, closedHour, frozen, pending, logVars, diskVars, patch, victims, deleting,
                 bounds, hist>>

-----------------------------------------------------------------------------
(* Files.  A file system is a record, so that closing one file and opening *)
(* the next is one step, as it is on the event loop.                       *)

FS == [files |-> files, disk |-> disk, synced |-> synced, sides |-> sides]

\* A file after `fh.flush`.
Flushed(h) == disk[h] \o buf

\* `_OpenLog.close`: fsync, then the final sidecar.  A file unlinked while it
\* was open takes its contents with it, but its sidecar is written.
Closed ==
  IF current = NoHour THEN FS ELSE
  LET side == [mem EXCEPT !.sha = hasher, !.complete = TRUE]
      all == Flushed(current)
  IN IF unlinked THEN [FS EXCEPT !.sides[current] = side]
     ELSE [FS EXCEPT !.disk[current] = all, !.synced[current] = Len(all), !.sides[current] = side]

\* `_carry_over`: what a file that is appended to brings from its sidecar.
Resumed(fs, h) ==
  IF fs.disk[h] = <<>> \/ fs.sides[h] = NoSide THEN FreshSide
  ELSE [FreshSide EXCEPT !.counts = fs.sides[h].counts, !.keep = fs.sides[h].keep]

\* Mutant of Rehashed: only what is appended is hashed.
RehashedNot(fs, h) == <<>>

\* The hasher of a file that is opened is fed what the file holds.
Rehashed(fs, h) == fs.disk[h]

\* `_rotate` to hour h, with the frames that waited for a clock, then a frame
\* written to it; h may be the hour that is open.
WriteIn(h, extra) ==
  IF current = h
  THEN /\ buf' = buf \o extra
       /\ hasher' = hasher \o extra
       /\ mem' = [mem EXCEPT !.counts = @ + Len(extra)]
       /\ UNCHANGED <<current, unlinked, diskVars, pending, gone>>
  ELSE LET fs == Closed
           bulk == [Resumed(fs, h) EXCEPT !.counts = @ + Len(pending)]
       IN /\ current' = h /\ unlinked' = FALSE
          /\ buf' = pending \o extra
          /\ hasher' = Rehashed(fs, h) \o pending \o extra
          /\ mem' = [bulk EXCEPT !.counts = @ + Len(extra)]
          /\ files' = fs.files \union {h} /\ disk' = fs.disk /\ synced' = fs.synced
          /\ sides' = [fs.sides EXCEPT ![h] = bulk]
          /\ pending' = <<>>
          /\ gone' = IF unlinked THEN gone \union ToSet(buf) ELSE gone

\* Mutant of NamedHour: the hour the ticker closed is opened again.
NamedHourStale == HourOf(utc)

\* The hour `handle` files a frame under.
NamedHour ==
  IF closedHour # NoHour /\ HourOf(utc) <= closedHour THEN closedHour + 1 ELSE HourOf(utc)

\* `handle` of a frame to log, with a clock.
Handle ==
  /\ up /\ n < plan.frames /\ utc # NoTime
  /\ n' = n + 1
  /\ WriteIn(NamedHour, <<n + 1>>)
  /\ UNCHANGED <<up, clockVars, patch, victims, deleting, readings, stops, patches, prunes,
                 reading, moved, ticked, crashed, marked, torn, overtaken, emptied>>

\* `_buffer_pending`: no clock yet; over the cap the host's clock names the file.
BufferPending ==
  /\ up /\ n < plan.frames /\ utc = NoTime /\ Len(pending) < PendingCap
  /\ n' = n + 1
  /\ pending' = Append(pending, n + 1)
  /\ UNCHANGED <<up, clockVars, logVars, diskVars, patch, victims, deleting, readings, stops, patches,
                 prunes, hist>>

HostClock(t) ==
  /\ up /\ n < plan.frames /\ utc = NoTime /\ Len(pending) = PendingCap
  /\ n' = n + 1
  /\ utc' = t /\ age' = 0
  /\ WriteIn(HourOf(t), <<n + 1>>)
  /\ reading' = t /\ moved' = TRUE /\ ticked' = {}
  /\ UNCHANGED <<up, closedHour, frozen, patch, victims, deleting, readings, stops, patches, prunes,
                 crashed, marked, torn, overtaken, emptied>>

-----------------------------------------------------------------------------
(* The ticker *)

Elapsed == age > 0 /\ utc + age >= (current + 1) * SlotsPerHour

ApplyFS(fs) == files' = fs.files /\ disk' = fs.disk /\ synced' = fs.synced /\ sides' = fs.sides

\* The last real reading, kept across later closes.
Freezes == IF frozen = NoTime THEN utc ELSE frozen

\* `_close_elapsed_hour`: the projected clock has left the open hour.
TickCloses ==
  /\ up /\ current # NoHour /\ utc # NoTime /\ Elapsed
  /\ ApplyFS(Closed)
  /\ current' = NoHour /\ mem' = NoSide /\ hasher' = <<>> /\ buf' = <<>> /\ unlinked' = FALSE
  /\ frozen' = Freezes
  /\ utc' = utc + age /\ age' = 0
  /\ closedHour' = current
  /\ moved' = FALSE /\ ticked' = ticked \union {current}
  /\ gone' = IF unlinked THEN gone \union ToSet(hasher) ELSE gone
  /\ UNCHANGED <<up, pending, patch, victims, deleting, bounds, reading, crashed, marked, torn, overtaken, emptied>>

\* The rest of `tick`: flush, and once a minute the sidecar.
TickFlushes ==
  /\ up /\ current # NoHour /\ ~Elapsed
  /\ buf' = <<>>
  /\ IF unlinked THEN UNCHANGED disk ELSE disk' = [disk EXCEPT ![current] = Flushed(current)]
  /\ sides' \in {sides, [sides EXCEPT ![current] = mem]}
  /\ gone' = IF unlinked THEN gone \union ToSet(buf) ELSE gone
  /\ UNCHANGED <<up, clockVars, pending, current, mem, hasher, unlinked, files, synced, patch,
                 victims, deleting, bounds, reading, moved, ticked, crashed, marked, torn, overtaken, emptied>>

\* `_maybe_fsync`, in its worker thread.
Fsync ==
  /\ up /\ current # NoHour /\ ~unlinked /\ synced[current] < Len(disk[current])
  /\ synced' = [synced EXCEPT ![current] = Len(disk[current])]
  /\ UNCHANGED <<up, clockVars, pending, logVars, files, disk, sides, patch, victims, deleting, bounds, hist>>

-----------------------------------------------------------------------------
(* Stop, crash and recovery *)

\* The end of `run`: the open hour is closed; what waits for a clock is not
\* written anywhere.
StopWriter ==
  /\ up /\ stops < plan.stops
  /\ stops' = stops + 1
  /\ up' = FALSE
  /\ ApplyFS(Closed)
  /\ FreshWriter
  /\ patch' = IdlePatch /\ victims' = {} /\ deleting' = NoDelete
  /\ gone' = gone \union ToSet(pending) \union (IF unlinked THEN ToSet(buf) ELSE {})
  /\ UNCHANGED <<n, readings, patches, prunes, reading, moved, ticked, crashed, marked, torn, overtaken, emptied>>

\* Power is cut: the open file keeps its fsynced part and perhaps more.
PowerCut ==
  /\ "power_cut" \in plan.faults
  /\ up /\ stops < plan.stops
  /\ stops' = stops + 1
  /\ up' = FALSE
  /\ FreshWriter
  /\ patch' = IdlePatch /\ victims' = {} /\ deleting' = NoDelete
  /\ IF current = NoHour \/ unlinked
     THEN /\ gone' = gone \union ToSet(pending) \union ToSet(buf)
          /\ UNCHANGED <<disk, synced, crashed, emptied>>
     ELSE \E k \in synced[current] .. Len(disk[current]) + Len(buf) :
            LET kept == SubSeq(disk[current] \o buf, 1, k)
            IN /\ disk' = [disk EXCEPT ![current] = kept]
               /\ synced' = [synced EXCEPT ![current] = k]
               /\ crashed' = crashed \union {current}
               /\ emptied' = IF kept = <<>> THEN emptied \union {current} ELSE emptied
               /\ gone' = gone \union (ToSet(pending \o disk[current] \o buf) \ ToSet(kept))
  /\ UNCHANGED <<files, sides, n, readings, patches, prunes, reading, moved, ticked, torn, overtaken, marked>>

\* The process is killed in `_rotate`, between `write_bulk` and the sidecar.
KillInRotate ==
  /\ "kill_in_rotate" \in plan.faults
  /\ up /\ stops < plan.stops /\ utc # NoTime /\ current = NoHour /\ pending # <<>>
  /\ stops' = stops + 1
  /\ up' = FALSE
  /\ files' = files \union {NamedHour}
  /\ disk' = [disk EXCEPT ![NamedHour] = @ \o pending]
  /\ synced' = [synced EXCEPT ![NamedHour] = Len(disk'[NamedHour])]
  /\ crashed' = crashed \union {NamedHour} /\ torn' = torn \union {NamedHour}
  /\ FreshWriter
  /\ patch' = IdlePatch /\ victims' = {} /\ deleting' = NoDelete
  /\ UNCHANGED <<sides, n, readings, patches, prunes, reading, moved, ticked, gone, overtaken, emptied, marked>>

\* An incomplete sidecar is finished from the file.
Recovered(h) == [sides[h] EXCEPT !.complete = TRUE, !.sha = disk[h]]

\* `recover_incomplete`, then a new writer.
Recover ==
  /\ ~up /\ up' = TRUE
  /\ sides' = [h \in Hours |->
       IF sides[h] = NoSide \/ sides[h].complete THEN sides[h]
       ELSE IF h \in files THEN Recovered(h) ELSE NoSide]
  /\ reading' = NoTime /\ moved' = FALSE /\ ticked' = {}
  /\ UNCHANGED <<clockVars, pending, logVars, files, disk, synced, patch, victims, deleting, bounds,
                 gone, crashed, marked, torn, overtaken, emptied>>

-----------------------------------------------------------------------------
(* The keep mark: PATCH /api/logs/{name} *)

\* The mark of a sidecar is set; a file without one gets one.
Marked(side, keep) == [(IF side = NoSide THEN FreshSide ELSE side) EXCEPT !.keep = keep]

\* `RawLogWriter.set_keep`, when the hour is the open one.
WriterMarks(h, keep) ==
  IF current = h
  THEN mem' = [mem EXCEPT !.keep = keep] /\ sides' = [sides EXCEPT ![h] = mem']
  ELSE UNCHANGED <<mem, sides>>

\* The handler up to its first thread.
Patch(h, keep) ==
  /\ up /\ patches < plan.patches /\ patch.at = "idle" /\ h \in files
  /\ patches' = patches + 1
  /\ WriterMarks(h, keep)
  /\ patch' = [at |-> "load", hour |-> h, keep |-> keep, loaded |-> NoSide, told |-> current = h]
  /\ marked' = IF keep THEN marked ELSE marked \ {h}
  /\ UNCHANGED <<up, clockVars, pending, current, hasher, buf, unlinked, files, disk, synced,
                 victims, deleting, n, readings, stops, prunes, reading, moved, ticked, gone, crashed, torn, overtaken, emptied>>

\* `_write_keep` in a thread: load ...
PatchLoad ==
  /\ patch.at = "load"
  /\ patch' = [patch EXCEPT !.at = "dump", !.loaded = sides[patch.hour]]
  /\ UNCHANGED <<up, clockVars, pending, logVars, diskVars, victims, deleting, bounds, hist>>

\* The hours a listing had unmarked, and that may go although they are marked now.
Listed ==
  victims \union (IF deleting.at # "idle" /\ ~deleting.keep THEN {deleting.hour} ELSE {})

\* The file was deleted, its sidecar was dumped after the load, or the writer
\* opened it after it was told of the mark.
Overtook ==
  \/ patch.hour \notin files
  \/ sides[patch.hour] # patch.loaded
  \/ current = patch.hour /\ ~patch.told

\* ... and dump.
PatchDump ==
  /\ patch.at = "dump"
  /\ sides' = [sides EXCEPT ![patch.hour] = Marked(patch.loaded, patch.keep)]
  /\ marked' = IF patch.keep THEN marked \union ({patch.hour} \ Listed) ELSE marked
  /\ patch' = IdlePatch
  /\ overtaken' = IF Overtook THEN overtaken \union {patch.hour} ELSE overtaken
  /\ UNCHANGED <<up, clockVars, pending, logVars, files, disk, synced, victims, deleting, bounds,
                 reading, moved, ticked, gone, crashed, torn, emptied>>

-----------------------------------------------------------------------------
(* Retention, and DELETE /api/logs/{name}.  Both list the hours in one     *)
(* thread and unlink in another.                                           *)

\* `Path.unlink` of the file and of its sidecar.
Unlink(h) ==
  /\ files' = files \ {h}
  /\ disk' = [disk EXCEPT ![h] = <<>>]
  /\ synced' = [synced EXCEPT ![h] = 0]
  /\ sides' = [sides EXCEPT ![h] = NoSide]
  /\ unlinked' = (unlinked \/ h = current)
  /\ gone' = gone \union ToSet(disk[h])
  /\ overtaken' = overtaken \union ({h} \intersect {patch.hour})

\* `_prunable`: every hour but the newest and the marked ones.
Prunable ==
  {h \in files : (\E g \in files : g > h) /\ ~sides[h].keep}

\* The disk is low: the listing of one pass.
PruneList ==
  /\ up /\ prunes < plan.prunes /\ victims = {} /\ Prunable # {}
  /\ prunes' = prunes + 1
  /\ victims' = Prunable
  /\ UNCHANGED <<up, clockVars, pending, logVars, diskVars, patch, deleting, n, readings, stops,
                 patches, hist>>

Oldest == CHOOSE v \in victims : \A g \in victims : v <= g

\* `_delete` of the oldest victim, after `reclaim`.
PruneDelete ==
  /\ up /\ victims # {}
  /\ victims' = victims \ {Oldest}
  /\ Unlink(Oldest)
  /\ UNCHANGED <<up, clockVars, pending, current, mem, hasher, buf, patch, deleting, bounds,
                 reading, moved, ticked, crashed, marked, torn, emptied>>

\* The space is back above the floor.
PruneEnough ==
  /\ victims # {}
  /\ victims' = {}
  /\ UNCHANGED <<up, clockVars, pending, logVars, diskVars, patch, deleting, bounds, hist>>

\* `_resolve` of a DELETE, in a thread.
DeleteList(h, forced) ==
  /\ up /\ patches < plan.patches /\ deleting.at = "idle" /\ h \in files
  /\ patches' = patches + 1
  /\ deleting' = [at |-> "listed", hour |-> h, keep |-> sides[h].keep,
                  unsure |-> IF forced \/ \E g \in files : g > h THEN FALSE ELSE TRUE]
  /\ UNCHANGED <<up, clockVars, pending, logVars, diskVars, patch, victims, n, readings, stops,
                 prunes, hist>>

\* The open hour, the newest when none is open, and an hour that was marked.
Refused ==
  \/ deleting.hour = current
  \/ deleting.unsure /\ current = NoHour
  \/ deleting.keep

\* Back on the event loop: 409, or the thread that unlinks is started.
DeleteCheck ==
  /\ deleting.at = "listed"
  /\ deleting' = IF Refused THEN NoDelete ELSE [deleting EXCEPT !.at = "unlink"]
  /\ UNCHANGED <<up, clockVars, pending, logVars, diskVars, patch, victims, bounds, hist>>

\* `_unlink`; by now the writer may have the hour open.
DeleteUnlink ==
  /\ deleting.at = "unlink"
  /\ deleting' = NoDelete
  /\ Unlink(deleting.hour)
  /\ UNCHANGED <<up, clockVars, pending, current, mem, hasher, buf, patch, victims, bounds,
                 reading, moved, ticked, crashed, marked, torn, emptied>>

\* The process is killed in `_delete` or `_unlink`, between the two unlinks.
KillInDelete ==
  /\ "kill_in_delete" \in plan.faults
  /\ up /\ stops < plan.stops /\ current = NoHour
  /\ stops' = stops + 1
  /\ up' = FALSE
  /\ \E h \in Hours :
       /\ \/ victims # {} /\ h = Oldest
          \/ deleting.at = "unlink" /\ h = deleting.hour
       /\ files' = files \ {h}
       /\ disk' = [disk EXCEPT ![h] = <<>>]
       /\ synced' = [synced EXCEPT ![h] = 0]
       /\ gone' = gone \union ToSet(disk[h]) \union ToSet(pending)
       /\ overtaken' = overtaken \union ({h} \intersect {patch.hour})
  /\ FreshWriter
  /\ patch' = IdlePatch /\ victims' = {} /\ deleting' = NoDelete
  /\ UNCHANGED <<sides, n, readings, patches, prunes, reading, moved, ticked, crashed, marked, torn,
                 emptied>>

Next ==
  /\ \/ \E t \in Slots : NoteUtc(t) \/ HostClock(t)
     \/ Pass \/ Handle \/ BufferPending \/ TickCloses \/ TickFlushes \/ Fsync
     \/ StopWriter \/ PowerCut \/ KillInRotate \/ Recover
     \/ \E h \in Hours, yes \in BOOLEAN : DeleteList(h, yes) \/ Patch(h, yes)
     \/ DeleteCheck \/ DeleteUnlink
     \/ PatchLoad \/ PatchDump
     \/ PruneList \/ PruneDelete \/ PruneEnough \/ KillInDelete
  /\ UNCHANGED plan

Spec == Init /\ [][Next]_vars

-----------------------------------------------------------------------------
(* Properties *)

\* "The finished sidecar describes the whole file": a complete sidecar never
\* stands beside an open file, and its hash and message counts are those of
\* the file, through rotation, resumption after a restart, crashes and
\* recovery.  Only a kill in `_rotate`, between the frames and the sidecar, or
\* a sidecar that changed between the load and the dump of a PATCH can make it
\* untrue; a crash that cost part of the file makes the counts untrue.
CompleteMatchesFile ==
  \A h \in {g \in files \ overtaken : sides[g].complete} :
    /\ h \notin torn => h # current /\ sides[h].sha = disk[h]
    /\ h \notin crashed => sides[h].counts = Len(disk[h])

\* No frame is lost or written twice: a frame handled is in one file, in the
\* buffer of the open file or waiting for a clock, unless a stop without a
\* clock, a crash or retention gave it up.
EveryFrameOnce ==
  \A f \in 1 .. n :
    LET places == {h \in files : f \in ToSet(disk[h])}
    IN IF f \in gone THEN places = {}
       ELSE Cardinality(places) + (IF f \in ToSet(buf) THEN 1 ELSE 0)
                                + (IF f \in ToSet(pending) THEN 1 ELSE 0) = 1

\* The operator's mark survives dumps, rotation, resumption and crashes, and
\* the hour it protects is neither pruned nor deleted, unless the sidecar
\* changed under the PATCH.  The promise begins with the PATCH's dump, and
\* does not begin when it falls between the listing of a retention pass or of
\* a DELETE, which still had the hour unmarked, and the end of either (`marked`):
\* both unlink what they listed.  A power cut that leaves an empty file loses
\* the mark, since `_carry_over` is not called then.
KeepIsHonoured ==
  \A h \in marked \ (emptied \union overtaken) :
    h \in files /\ sides[h].keep /\ (current = h => mem.keep)

\* Every frame is in one hour, every finished hour is described by its
\* sidecar, and a marked hour stays (LogWriter, the PATCH of a sidecar and
\* retention, with each other, with restarts and with crashes).
HoursWhole == CompleteMatchesFile /\ EveryFrameOnce /\ KeepIsHonoured

\* Files follow the receiver's clock.  "Reopening the file would read it back,
\* re-hash it and close it again on every tick": an hour the ticker closed is
\* not opened again while the receiver goes on repeating one reading, or none.
\* "A clock that moves again names the hour it says": after a reading that
\* differs from the last one, frames go to the hour of that reading.
HoursFollowClock ==
  [][/\ current' \notin ticked'
     /\ n' > n /\ moved => current' = HourOf(reading)]_vars

=============================================================================
