----------------------------- MODULE RawCapture -----------------------------
(***************************************************************************)
(* The hourly capture of an INS's raw stream (rover/drivers/ins_common.py, *)
(* RawCapture): frames are filed under the hour of the unit's own clock,   *)
(* which may be missing, jump or step back; the sidecar of an hour counts  *)
(* its bytes and frames, through rotations, restarts and crashes.  A frame *)
(* is one byte and is known by its number.                                 *)
(***************************************************************************)
EXTENDS Integers, FiniteSets

CONSTANTS
  MaxFrames, MaxTime, MaxCrashes,
  Hour,          \* length of an hour
  PendingCap,    \* PENDING_CAP_BYTES
  BackstepHold,  \* BACKSTEP_HOLD_S
  SidecarEvery   \* SIDECAR_EVERY_S

VARIABLES
  now,        \* the monotonic clock; the host's time of day agrees with it
  next,       \* number of the next frame
  utc, utcMono, backSince,   \* _utc, _utc_mono, _back_since; None when not set
  source,     \* _time_source
  hour,       \* _hour, None when no file is open
  pending,    \* frames waiting for a clock
  buffered,   \* frames written to the open file and not flushed
  counts,     \* _side: [bytes, frames] of the open hour
  dumped,     \* _side_dumped
  disk,       \* hour -> frames in its file
  side,       \* hour -> the sidecar on disk, None before the first
  lost,       \* frames that were never written out
  torn,       \* hours a crash left behind, and whether they were opened since
  crashes

captureVars == <<now, next, utc, utcMono, backSince, source, hour, pending, buffered, counts, dumped,
                 disk, side, lost, torn, crashes>>

None == -1
Hours == 0..(MaxTime \div Hour + 1)
FloorHour(t) == t \div Hour
NoCounts == [bytes |-> 0, frames |-> 0]

Init ==
  /\ now = 1 /\ next = 1 /\ utc = None /\ utcMono = None /\ backSince = None
  /\ source = "receiver" /\ hour = None /\ pending = {} /\ buffered = {} /\ counts = NoCounts
  /\ dumped = 0 /\ disk = [h \in Hours |-> {}] /\ side = [h \in Hours |-> NoCounts]
  /\ lost = {} /\ torn = {} /\ crashes = 0

\* close(): the file, then its sidecar.
Closed ==
  IF hour = None THEN [disk |-> disk, side |-> side]
  ELSE [disk |-> [disk EXCEPT ![hour] = @ \union buffered], side |-> [side EXCEPT ![hour] = counts]]

\* Resuming an hour: its frames from the sidecar, its bytes from the file.
ResumedFresh(c, h) == NoCounts
Resumed(c, h) == [bytes |-> Cardinality(c.disk[h]), frames |-> c.side[h].frames]

\* _rotate: the sidecar is written before the frames that waited are.
Rotate(h, waiting) ==
  LET c == Closed
      r == Resumed(c, h)
  IN  /\ hour' = h
      /\ disk' = c.disk
      /\ side' = [c.side EXCEPT ![h] = r]
      /\ buffered' = waiting /\ pending' = {}
      /\ counts' = [bytes |-> r.bytes + Cardinality(waiting),
                    frames |-> r.frames + Cardinality(waiting)]
      /\ dumped' = now
      /\ torn' = {x \in torn : x.hour # h} \union {[x EXCEPT !.open = TRUE] : x \in {y \in torn : y.hour = h}}

SameFile == UNCHANGED <<hour, disk, side, buffered, pending, counts, dumped, torn>>

\* note_utc: a step back across the hour is followed once it has held.
NoteUtc(u) ==
  LET back == hour # None /\ FloorHour(u) < hour
      since == IF backSince = None THEN u ELSE backSince
      held == back /\ u < since + BackstepHold
  IN  /\ IF held
         THEN backSince' = since /\ UNCHANGED <<utc, utcMono, source>> /\ SameFile
         ELSE /\ backSince' = None /\ utc' = u /\ utcMono' = now /\ source' = "receiver"
              /\ IF hour = None \/ hour # FloorHour(u) THEN Rotate(FloorHour(u), pending) ELSE SameFile
      /\ UNCHANGED <<now, next, lost, crashes>>

\* write() without a clock: the frame waits, and past the cap the host's clock
\* names the file.
WriteWaits ==
  /\ hour = None /\ next <= MaxFrames
  /\ next' = next + 1
  /\ IF Cardinality(pending) + 1 > PendingCap
     THEN /\ utc' = now /\ utcMono' = now /\ source' = "host"
          /\ Rotate(FloorHour(now), pending \union {next})
     ELSE /\ pending' = pending \union {next}
          /\ UNCHANGED <<utc, utcMono, source, hour, disk, side, buffered, counts, dumped, torn>>
  /\ UNCHANGED <<now, backSince, lost, crashes>>

\* The clock as it would read now.
Projected == IF source = "host" THEN now ELSE utc + (now - utcMono)

Counted == [bytes |-> counts.bytes + 1, frames |-> counts.frames + 1]

\* _advance_hour: an hour that is over is closed though no reading says so.
Advances == FloorHour(Projected) > hour

\* write() into the open hour, or into the next.
Write ==
  /\ hour # None /\ next <= MaxFrames
  /\ next' = next + 1
  /\ IF Advances
     THEN utc' = Projected /\ utcMono' = now /\ Rotate(FloorHour(Projected), {next})
     ELSE /\ counts' = Counted
          /\ IF now - dumped >= SidecarEvery
             THEN /\ disk' = [disk EXCEPT ![hour] = @ \union buffered \union {next}]
                  /\ buffered' = {} /\ side' = [side EXCEPT ![hour] = Counted] /\ dumped' = now
             ELSE buffered' = buffered \union {next} /\ UNCHANGED <<disk, side, dumped>>
          /\ UNCHANGED <<utc, utcMono, hour, pending, torn>>
  /\ UNCHANGED <<now, source, backSince, lost, crashes>>

Tick ==
  /\ now < MaxTime /\ now' = now + 1
  /\ UNCHANGED <<next, utc, utcMono, backSince, source, hour, pending, buffered, counts, dumped,
                 disk, side, lost, torn, crashes>>

\* A new RawCapture after the process ended: by close(), which leaves frames
\* without a clock behind, or in a crash, which loses what was not flushed.
Fresh ==
  /\ utc' = None /\ utcMono' = None /\ backSince' = None /\ source' = "receiver"
  /\ hour' = None /\ pending' = {} /\ buffered' = {} /\ counts' = NoCounts /\ dumped' = 0

Stop ==
  /\ hour # None \/ pending # {}
  /\ disk' = Closed.disk /\ side' = Closed.side /\ lost' = lost \union pending
  /\ Fresh
  /\ UNCHANGED <<now, next, torn, crashes>>

Crash ==
  /\ hour # None /\ crashes < MaxCrashes /\ crashes' = crashes + 1
  /\ \E kept \in SUBSET buffered :
       /\ disk' = [disk EXCEPT ![hour] = @ \union kept]
       /\ lost' = lost \union (buffered \ kept)
  /\ torn' = {x \in torn : x.hour # hour} \union {[hour |-> hour, open |-> FALSE]}
  /\ Fresh
  /\ UNCHANGED <<now, next, side>>

\* The unit's clock is right, or a second off either way.
Next ==
  \/ \E u \in {now - 1, now, now + 1} : NoteUtc(u)
  \/ WriteWaits \/ Write \/ Tick \/ Stop \/ Crash

Spec == Init /\ [][Next]_captureVars

TypeOK ==
  /\ now \in 0..MaxTime /\ hour \in Hours \union {None} /\ next \in 1..(MaxFrames + 1)
  /\ source \in {"receiver", "host"} /\ disk \in [Hours -> SUBSET (1..MaxFrames)]

\* A frame is filed once or known to be lost, and the sidecar of an hour that
\* is not open counts what its file holds: bytes and frames, or the bytes
\* alone where a crash cut the hour and a later run took it up again
\* (RawCapture.write, _rotate, flush and close).
CaptureCounts ==
  /\ \A f \in 1..(next - 1) :
       Cardinality({h \in Hours : f \in disk[h]}) +
       Cardinality({s \in {1, 2, 3} : f \in (<<pending, buffered, lost>>)[s]}) = 1
  /\ \A h \in Hours \ {hour} :
       LET n == Cardinality(disk[h])
       IN  \/ \E x \in torn : x.hour = h /\ ~x.open
           \/ (\E x \in torn : x.hour = h) /\ side[h].bytes = n
           \/ side[h] = [bytes |-> n, frames |-> n]

=============================================================================
