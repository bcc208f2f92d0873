---------------------------- MODULE RawLogProofs ----------------------------
(***************************************************************************)
(* Proofs about RawLog, for every clock, any number of hours, frames,      *)
(* stops, crashes, PATCHes and retention passes.                           *)
(***************************************************************************)
EXTENDS RawLog, SequenceTheorems, FiniteSetTheorems, WellFoundedInduction, TLAPS

Sides == [counts : Int, sha : Seq(Nat), complete : BOOLEAN, keep : BOOLEAN]
Patches == [at : {"idle", "load", "dump"}, hour : Hours \cup {NoHour}, keep : BOOLEAN,
            loaded : Sides, told : BOOLEAN]

-----------------------------------------------------------------------------
(* The clock *)

ClockTypes ==
  /\ n \in Nat
  /\ utc \in Slots \cup {NoTime} /\ age \in Nat /\ (utc # NoTime => utc + age \in Slots)
  /\ frozen \in Slots \cup {NoTime} /\ reading \in Slots \cup {NoTime}
  /\ closedHour \in Int /\ -1 <= closedHour /\ closedHour < LastHour
  /\ current \in Hours \cup {NoHour} /\ ticked \subseteq Hours

\* A writer without a clock has named no file, closed no hour and frozen
\* nothing; one that does not run has no clock.
NoClock ==
  /\ ~up => utc = NoTime
  /\ utc = NoTime => closedHour = NoHour /\ frozen = NoTime /\ current = NoHour

\* What the clock was last read as is the time the writer goes by, until the
\* ticker closes an hour: then it is the frozen reading.
ReadingKept ==
  up => /\ frozen = NoTime => utc = reading /\ closedHour = NoHour
        /\ frozen # NoTime => frozen = reading
        /\ moved => frozen = NoTime /\ reading # NoTime

\* The hours the ticker closed are over, and the open one is not.
ClosedAreOver ==
  /\ current # NoHour => current > closedHour
  /\ up => \A h \in ticked : h <= closedHour

ClockInv == ClockTypes /\ NoClock /\ ReadingKept /\ ClosedAreOver

-----------------------------------------------------------------------------
(* The files *)

FileTypes ==
  /\ n \in Nat /\ current \in Hours \cup {NoHour}
  /\ files \in SUBSET Hours /\ disk \in [Hours -> Seq(Nat)] /\ synced \in [Hours -> Nat]
  /\ sides \in [Hours -> Sides] /\ mem \in Sides
  /\ hasher \in Seq(Nat) /\ buf \in Seq(Nat) /\ pending \in Seq(Nat)
  /\ unlinked \in BOOLEAN /\ patch \in Patches /\ victims \in SUBSET Hours

\* What a writer with no file open holds, and what one with a file open has
\* hashed: all of the file, flushed or not, or, once the file is unlinked,
\* frames that are given up.
Hashed ==
  /\ current = NoHour => buf = <<>> /\ ~unlinked
  /\ current # NoHour /\ ~unlinked =>
       current \in files /\ hasher = disk[current] \o buf /\ hasher # <<>>
  /\ unlinked => /\ current \notin files
                 /\ ToSet(buf) \subseteq ToSet(hasher) /\ ToSet(hasher) \subseteq gone \cup ToSet(buf)

\* A file that does not exist holds nothing; one that does holds something,
\* unless a power cut emptied it or it is open.
Contents ==
  /\ \A h \in Hours \ files : disk[h] = <<>>
  /\ \A h \in files \ emptied : h # current => disk[h] # <<>>

\* Each of the first N frames is in exactly one place: in the file of an hour
\* (D), in the buffer (B), waiting for a clock (P) or given up (G).
Placement(N, D, B, P, G) ==
  /\ B \subseteq 1 .. N /\ P \subseteq 1 .. N /\ G \subseteq 1 .. N
  /\ \A h \in Hours : D[h] \subseteq 1 .. N
  /\ \A f \in 1 .. N : f \in G \/ f \in B \/ f \in P \/ \E h \in Hours : f \in D[h]
  /\ \A f \in 1 .. N : ~(f \in G /\ f \in B) /\ ~(f \in G /\ f \in P) /\ ~(f \in B /\ f \in P)
  /\ \A h \in Hours : \A f \in D[h] : f \notin G /\ f \notin B /\ f \notin P
  /\ \A g, h \in Hours : \A f \in D[g] : f \in D[h] => g = h

OnDisk == [h \in Hours |-> ToSet(disk[h])]

Placed == Placement(n, OnDisk, ToSet(buf), ToSet(pending), gone)

\* The sidecar of the open file is not complete, in memory or on disk.
OpenIncomplete ==
  current # NoHour =>
    ~mem.complete /\ (current \notin overtaken /\ ~unlinked => ~sides[current].complete)

\* The sidecar of a file that is not open describes it.
ClosedDescribed ==
  \A h \in files \ overtaken : h # current =>
    /\ h \notin torn /\ sides[h].complete => sides[h].sha = disk[h]
    /\ h \notin crashed => sides[h].counts = Len(disk[h])

\* The messages of the open file are counted.
OpenCounted ==
  current # NoHour /\ ~unlinked /\ current \notin overtaken \cup crashed => mem.counts = Len(hasher)

\* The mark of an hour is in its sidecar, and in the writer's when it is open.
Kept(h) == h \in files /\ sides[h].keep /\ (current = h => mem.keep)

\* A mark, once made or, when the writer was told of it, in the making, is
\* kept; a PATCH that takes a mark away has taken it already.
MarksKept ==
  /\ \A h \in marked \ (emptied \cup overtaken) : h \in Hours /\ Kept(h)
  /\ patch.at # "idle" /\ patch.keep /\ patch.told /\ patch.hour \notin emptied \cup overtaken => Kept(patch.hour)
  /\ patch.at # "idle" /\ ~patch.keep => patch.hour \notin marked
  /\ patch.at # "idle" => patch.hour \in Hours

FilesInv ==
  /\ FileTypes /\ Hashed /\ Contents /\ Placed
  /\ OpenIncomplete /\ ClosedDescribed /\ OpenCounted /\ MarksKept

Deletes ==
  [at : {"idle", "listed", "unlink"}, hour : Hours \cup {NoHour}, keep : BOOLEAN, unsure : BOOLEAN]

\* A listing in use had none of the marked hours unmarked, and what a DELETE
\* unlinks is of such a listing.
ListedInv ==
  /\ deleting \in Deletes
  /\ deleting.at # "idle" => deleting.hour \in Hours
  /\ deleting.at = "unlink" => ~deleting.keep
  /\ Listed \cap marked \subseteq emptied \cup overtaken

LogInv == ClockInv /\ FilesInv /\ ListedInv

-----------------------------------------------------------------------------
(* Lemmas about the clock *)

\* A slot is in an hour, and the slot that ends an hour is in a later one.
LEMMA HourFacts ==
  /\ \A t \in Slots : HourOf(t) \in Hours
  /\ \A h \in Hours, t \in Slots : t >= (h + 1) * SlotsPerHour => h < LastHour
<1>1. SlotsPerHour \in Nat \ {0} /\ LastHour \in Nat
  BY RawLogAssumption
<1>2. ASSUME NEW t \in Slots PROVE HourOf(t) \in Hours
  <2>1. t \in Nat /\ t < (LastHour + 1) * SlotsPerHour
    BY <1>1, <1>2 DEF Slots
  <2>2. PICK q \in Nat : q = t \div SlotsPerHour /\ q * SlotsPerHour <= t
    BY <1>1, <2>1
  <2>3. q <= LastHour
    <3>1. ASSUME q >= LastHour + 1 PROVE FALSE
      <4>1. q * SlotsPerHour >= (LastHour + 1) * SlotsPerHour
        BY <1>1, <2>2, <3>1
      <4>2. QED
        BY <1>1, <2>1, <2>2, <4>1
    <3>2. QED
      BY <1>1, <2>2, <3>1
  <2>4. QED
    BY <1>1, <2>2, <2>3 DEF HourOf, Hours
<1>3. ASSUME NEW h \in Hours, NEW t \in Slots, t >= (h + 1) * SlotsPerHour PROVE h < LastHour
  <2>1. t \in Nat /\ t < (LastHour + 1) * SlotsPerHour /\ h \in Nat
    BY <1>1, <1>3 DEF Slots, Hours
  <2>2. ASSUME h >= LastHour PROVE FALSE
    <3>1. (h + 1) * SlotsPerHour >= (LastHour + 1) * SlotsPerHour
      BY <1>1, <2>1, <2>2
    <3>2. QED
      BY <1>1, <1>3, <2>1, <3>1
  <2>3. QED
    BY <1>1, <2>1, <2>2
<1>4. QED
  BY <1>2, <1>3

\* What is not there is none of what may be.
LEMMA NoneFacts == NoTime \notin Slots /\ NoHour \notin Hours /\ NoHour = -1 /\ NoTime = -1
                   /\ (\A h \in Hours : h \in Nat) /\ (\A t \in Slots : t \in Nat /\ t + 0 = t)
                   /\ LastHour \in Nat /\ -1 < LastHour
<1>1. LastHour \in Nat /\ SlotsPerHour \in Nat
  BY RawLogAssumption
<1>2. QED
  BY <1>1 DEF NoTime, NoHour, Slots, Hours

\* The hour a frame is filed under is later than the one the ticker closed.
LEMMA NamedFacts ==
  ASSUME ClockInv, utc # NoTime
  PROVE  NamedHour \in Hours /\ NamedHour > closedHour
<1>1. HourOf(utc) \in Hours /\ closedHour \in Int /\ -1 <= closedHour /\ closedHour < LastHour /\ LastHour \in Nat
  BY HourFacts, RawLogAssumption DEF ClockInv, ClockTypes
<1>2. QED
  BY <1>1 DEF NamedHour, Hours, NoHour

-----------------------------------------------------------------------------
(* The clock's invariant *)

clock == <<up, utc, age, closedHour, frozen, reading, moved, ticked>>

LEMMA ClockStill ==
  ASSUME ClockInv, UNCHANGED clock, current' = current, n' \in Nat
  PROVE  ClockInv'
BY DEF clock, ClockInv, ClockTypes, NoClock, ReadingKept, ClosedAreOver

\* The writer ends, in order or not: nothing is known of any clock.
LEMMA ClockFresh ==
  ASSUME ClockInv, up' = FALSE, FreshWriter, UNCHANGED <<n, reading, moved, ticked>>
  PROVE  ClockInv'
<1>1. /\ utc' = NoTime /\ age' = 0 /\ closedHour' = NoHour /\ frozen' = NoTime /\ current' = NoHour
      /\ ClockTypes
  BY DEF FreshWriter, ClockInv
<1>2. ClockTypes'
  BY <1>1, NoneFacts DEF ClockTypes
<1>3. NoClock' /\ ReadingKept' /\ ClosedAreOver'
  BY <1>1 DEF NoClock, ReadingKept, ClosedAreOver
<1>4. QED
  BY <1>2, <1>3 DEF ClockInv

LEMMA ClockStep ==
  ASSUME ClockInv, Next
  PROVE  /\ ClockInv'
         /\ current' \notin ticked'
         /\ n' > n /\ moved => current' = HourOf(reading)
<1> USE DEF clockVars, hist, bounds, logVars
<1>1. ClockTypes /\ NoClock /\ ReadingKept /\ ClosedAreOver /\ n \in Nat
  BY DEF ClockInv, ClockTypes
<1>2. ASSUME ClockInv' PROVE current' \notin ticked'
  <2>1. CASE up'
    BY <1>2, <2>1, NoneFacts DEF ClockInv, ClockTypes, ClosedAreOver
  <2>2. CASE ~up'
    BY <1>2, <2>2, NoneFacts DEF ClockInv, ClockTypes, NoClock
  <2>3. QED
    BY <1>2, <2>1, <2>2 DEF ClockInv, ClockTypes
<1>3. ASSUME NEW t \in Slots, NoteUtc(t) PROVE ClockInv' /\ n' = n
  <2>1. /\ up /\ UNCHANGED <<up, n, current>> /\ utc' = t /\ age' = 0 /\ reading' = t
        /\ IF t = reading THEN UNCHANGED <<moved, ticked>> ELSE moved' = TRUE /\ ticked' = {}
        /\ IF Lifts(t) THEN frozen' = NoTime /\ closedHour' = NoHour ELSE UNCHANGED <<frozen, closedHour>>
    BY <1>3 DEF NoteUtc
  <2>2. ClockTypes'
    <3>1. /\ ticked' \subseteq Hours /\ frozen' \in Slots \cup {NoTime}
          /\ closedHour' \in Int /\ -1 <= closedHour' /\ closedHour' < LastHour
      BY <1>1, <2>1, NoneFacts DEF ClockTypes
    <3>2. utc' + age' \in Slots
      BY <2>1, NoneFacts
    <3>3. QED
      BY <1>1, <2>1, <3>1, <3>2 DEF ClockTypes
  <2>3. NoClock'
    BY <1>1, <2>1, NoneFacts DEF NoClock
  <2>4. ReadingKept'
    BY <1>1, <2>1, NoneFacts DEF ReadingKept, Lifts, ClockTypes
  <2>5. ClosedAreOver'
    <3>1. CASE t = reading
      <4>1. UNCHANGED <<closedHour, ticked>>
        BY <1>1, <2>1, <3>1 DEF ReadingKept, Lifts
      <4>2. QED
        BY <1>1, <2>1, <4>1 DEF ClosedAreOver
    <3>2. CASE t # reading
      <4>1. ticked' = {} /\ (closedHour' = closedHour \/ closedHour' = -1)
        BY <2>1, <3>2, NoneFacts
      <4>2. current # NoHour => current > -1
        BY <1>1, NoneFacts DEF ClockTypes
      <4>3. QED
        BY <1>1, <2>1, <4>1, <4>2 DEF ClosedAreOver
    <3>3. QED
      BY <3>1, <3>2
  <2>6. QED
    BY <2>1, <2>2, <2>3, <2>4, <2>5 DEF ClockInv
<1>4. ASSUME NEW t \in Slots, HostClock(t) PROVE ClockInv' /\ ~moved
  <2>1. /\ up /\ utc = NoTime /\ n' = n + 1 /\ utc' = t /\ age' = 0 /\ reading' = t
        /\ moved' = TRUE /\ ticked' = {} /\ UNCHANGED <<up, frozen, closedHour>>
        /\ WriteIn(HourOf(t), <<n + 1>>)
    BY <1>4 DEF HostClock
  <2>2. current' = HourOf(t) /\ HourOf(t) \in Hours
    BY <2>1, HourFacts DEF WriteIn
  <2>3. ClockTypes' /\ NoClock'
    BY <1>1, <2>1, <2>2, NoneFacts DEF ClockTypes, NoClock
  <2>4. frozen = NoTime /\ closedHour = -1 /\ reading = NoTime
    BY <1>1, <2>1, NoneFacts DEF NoClock, ReadingKept
  <2>5. ReadingKept'
    BY <2>1, <2>4, NoneFacts DEF ReadingKept
  <2>6. ClosedAreOver'
    BY <2>1, <2>2, <2>4, NoneFacts DEF ClosedAreOver
  <2>7. QED
    BY <1>1, <2>1, <2>3, <2>4, <2>5, <2>6 DEF ClockInv, ReadingKept
<1>5. ASSUME Handle PROVE ClockInv' /\ (moved => current' = HourOf(reading))
  <2>1. up /\ utc # NoTime /\ n' = n + 1 /\ UNCHANGED clock /\ WriteIn(NamedHour, <<n + 1>>)
    BY <1>5 DEF Handle, clock
  <2>2. current' = NamedHour /\ NamedHour \in Hours /\ NamedHour > closedHour
    BY <2>1, NamedFacts DEF WriteIn
  <2>3. ClockInv'
    BY <1>1, <2>1, <2>2 DEF clock, ClockInv, ClockTypes, NoClock, ReadingKept, ClosedAreOver
  <2>4. QED
    BY <1>1, <2>1, <2>2, <2>3 DEF NamedHour, ReadingKept
<1>6. ASSUME BufferPending PROVE ClockInv' /\ ~moved
  <2>1. up /\ utc = NoTime /\ n' = n + 1 /\ UNCHANGED clock /\ current' = current
    BY <1>6 DEF BufferPending, clock
  <2>2. QED
    BY <1>1, <2>1, ClockStill DEF NoClock, ReadingKept
<1>7. ASSUME Pass PROVE ClockInv' /\ n' = n
  <2>1. utc # NoTime /\ utc + age + 1 \in Slots /\ age' = age + 1
        /\ UNCHANGED <<up, n, utc, closedHour, frozen, reading, moved, ticked, current>>
    BY <1>7 DEF Pass
  <2>2. utc \in Nat /\ age \in Nat /\ utc + (age + 1) \in Slots
    BY <1>1, <2>1, NoneFacts DEF ClockTypes
  <2>3. QED
    BY <1>1, <2>1, <2>2 DEF ClockInv, ClockTypes, NoClock, ReadingKept, ClosedAreOver
<1>8. ASSUME TickCloses PROVE ClockInv' /\ n' = n
  <2>1. /\ up /\ current # NoHour /\ utc # NoTime /\ utc + age >= (current + 1) * SlotsPerHour
        /\ current' = NoHour /\ frozen' = Freezes /\ utc' = utc + age /\ age' = 0 /\ closedHour' = current
        /\ moved' = FALSE /\ ticked' = ticked \cup {current} /\ UNCHANGED <<up, n, reading>>
    BY <1>8 DEF TickCloses, Elapsed
  <2>2. current \in Hours /\ utc + age \in Slots /\ current < LastHour /\ current > closedHour
    BY <1>1, <2>1, HourFacts DEF ClockTypes, ClosedAreOver
  <2>3. Freezes # NoTime /\ Freezes = reading /\ Freezes \in Slots
    BY <1>1, <2>1 DEF Freezes, ReadingKept, ClockTypes
  <2>4. utc' \in Slots /\ utc' + age' \in Slots
    <3>1. PICK u \in Slots : u = utc + age
      BY <2>2
    <3>2. QED
      BY <2>1, <3>1, NoneFacts
  <2>5. ClockTypes'
    BY <1>1, <2>1, <2>2, <2>3, <2>4, NoneFacts DEF ClockTypes
  <2>6. NoClock' /\ ReadingKept'
    BY <1>1, <2>1, <2>2, <2>3, NoneFacts DEF NoClock, ReadingKept
  <2>7. ClosedAreOver'
    BY <1>1, <2>1, <2>2, NoneFacts DEF ClosedAreOver, ClockTypes
  <2>8. QED
    BY <2>1, <2>5, <2>6, <2>7 DEF ClockInv
<1>9. ASSUME StopWriter \/ PowerCut \/ KillInRotate \/ KillInDelete PROVE ClockInv' /\ n' = n
  <2>1. up' = FALSE /\ FreshWriter /\ UNCHANGED <<n, reading, moved, ticked>>
    BY <1>9 DEF StopWriter, PowerCut, KillInRotate, KillInDelete
  <2>2. QED
    BY <2>1, ClockFresh
<1>10. ASSUME Recover PROVE ClockInv' /\ n' = n
  <2>1. /\ ~up /\ up' = TRUE /\ reading' = NoTime /\ moved' = FALSE /\ ticked' = {}
        /\ UNCHANGED <<n, utc, age, closedHour, frozen, current>>
    BY <1>10 DEF Recover
  <2>2. QED
    BY <1>1, <2>1 DEF ClockInv, ClockTypes, NoClock, ReadingKept, ClosedAreOver
<1>11. ASSUME \/ TickFlushes \/ Fsync \/ PatchLoad \/ PatchDump \/ PruneList \/ PruneDelete \/ PruneEnough
              \/ DeleteCheck \/ DeleteUnlink
              \/ \E h \in Hours, yes \in BOOLEAN : DeleteList(h, yes) \/ Patch(h, yes)
       PROVE  ClockInv' /\ n' = n
  <2>1. UNCHANGED clock /\ UNCHANGED <<n, current>>
    BY <1>11 DEF TickFlushes, Fsync, PatchLoad, PatchDump, PruneList, PruneDelete, PruneEnough, DeleteCheck,
                 DeleteUnlink, DeleteList, Unlink, Patch, clock
  <2>2. QED
    BY <1>1, <2>1, ClockStill
<1>12. QED
  BY <1>1, <1>2, <1>3, <1>4, <1>5, <1>6, <1>7, <1>8, <1>9, <1>10, <1>11 DEF Next

LEMMA ClockInit == Init => ClockInv
<1> SUFFICES ASSUME Init PROVE ClockInv
  OBVIOUS
<1>1. ClockTypes
  BY NoneFacts DEF Init, ClockTypes
<1>2. NoClock /\ ReadingKept /\ ClosedAreOver
  BY DEF Init, NoClock, ReadingKept, ClosedAreOver
<1>3. QED
  BY <1>1, <1>2 DEF ClockInv

\* Files follow the receiver's clock: an hour the ticker closed is not opened
\* again while the receiver repeats one reading or gives none, and after a
\* reading that differs frames go to the hour of that reading (note_utc,
\* handle, _close_elapsed_hour), for every clock and every length of an hour.
THEOREM HoursAlwaysFollowClock == Spec => HoursFollowClock
<1> DEFINE A == current' \notin ticked' /\ (n' > n /\ moved => current' = HourOf(reading))
<1>1. ClockInv /\ [Next]_vars => ClockInv' /\ [A]_vars
  <2>1. ASSUME ClockInv, Next PROVE ClockInv' /\ A
    BY <2>1, ClockStep
  <2>2. ASSUME ClockInv, UNCHANGED vars PROVE ClockInv'
    <3>1. UNCHANGED clock /\ UNCHANGED <<n, current>> /\ n \in Nat
      BY <2>2 DEF vars, clock, clockVars, logVars, bounds, hist, ClockInv, ClockTypes
    <3>2. QED
      BY <2>2, <3>1, ClockStill
  <2>3. QED
    BY <2>1, <2>2
<1>2. QED
  BY <1>1, ClockInit, PTL DEF Spec, HoursFollowClock

-----------------------------------------------------------------------------
(* Lemmas about frames *)

LEMMA SeqSets ==
  /\ ToSet(<<>>) = {} /\ \A x : ToSet(<<x>>) = {x}
  /\ \A s \in Seq(Nat) : ToSet(s) \subseteq Nat
  /\ \A s, t \in Seq(Nat) : ToSet(s \o t) = ToSet(s) \cup ToSet(t)
  /\ \A s \in Seq(Nat), k \in Nat : k <= Len(s) => ToSet(SubSeq(s, 1, k)) \subseteq ToSet(s)
<1>1. ToSet(<<>>) = {} /\ \A x : ToSet(<<x>>) = {x}
  BY DEF ToSet
<1>2. \A s \in Seq(Nat) : ToSet(s) \subseteq Nat
  BY DEF ToSet
<1>3. ASSUME NEW s \in Seq(Nat), NEW t \in Seq(Nat) PROVE ToSet(s \o t) = ToSet(s) \cup ToSet(t)
  <2>1. /\ DOMAIN (s \o t) = 1 .. Len(s) + Len(t) /\ DOMAIN s = 1 .. Len(s) /\ DOMAIN t = 1 .. Len(t)
        /\ \A i \in 1 .. Len(s) : (s \o t)[i] = s[i]
        /\ \A i \in 1 .. Len(t) : (s \o t)[Len(s) + i] = t[i]
    BY <1>3
  <2>2. \A i \in 1 .. Len(s) + Len(t) : i \in 1 .. Len(s) \/ (i - Len(s) \in 1 .. Len(t) /\ i = Len(s) + (i - Len(s)))
    BY <1>3
  <2>3. \A i \in 1 .. Len(s) : i \in 1 .. Len(s) + Len(t)
    BY <1>3
  <2>4. \A i \in 1 .. Len(t) : Len(s) + i \in 1 .. Len(s) + Len(t)
    BY <1>3
  <2>5. ToSet(s \o t) \subseteq ToSet(s) \cup ToSet(t)
    BY <2>1, <2>2 DEF ToSet
  <2>6. ToSet(s) \subseteq ToSet(s \o t) /\ ToSet(t) \subseteq ToSet(s \o t)
    BY <2>1, <2>3, <2>4 DEF ToSet
  <2>7. QED
    BY <2>5, <2>6
<1>4. ASSUME NEW s \in Seq(Nat), NEW k \in Nat, k <= Len(s) PROVE ToSet(SubSeq(s, 1, k)) \subseteq ToSet(s)
  <2>1. DOMAIN SubSeq(s, 1, k) = 1 .. k /\ \A i \in 1 .. k : SubSeq(s, 1, k)[i] = s[i] /\ i \in DOMAIN s
    BY <1>4
  <2>2. QED
    BY <2>1 DEF ToSet
<1>5. QED
  BY <1>1, <1>2, <1>3, <1>4

LEMMA SeqTypes ==
  /\ \A s, t \in Seq(Nat) : s \o t \in Seq(Nat)
  /\ \A f \in Nat : <<f>> \in Seq(Nat)
  /\ \A s \in Seq(Nat), f \in Nat : Append(s, f) = s \o <<f>>
  /\ <<>> \in Seq(Nat)
BY AppendIsConcat

LEMMA SeqLens ==
  /\ \A s, t \in Seq(Nat) : Len(s \o t) = Len(s) + Len(t)
  /\ \A f \in Nat : Len(<<f>>) = 1
  /\ \A s \in Seq(Nat) : Len(s) \in Nat /\ (Len(s) = 0 <=> s = <<>>)
BY EmptySeq, LenProperties

LEMMA SeqLaws ==
  /\ \A s, t, u \in Seq(Nat) : (s \o t) \o u = s \o (t \o u)
  /\ \A s \in Seq(Nat) : s \o <<>> = s /\ <<>> \o s = s
BY ConcatAssociative, ConcatEmptySeq

\* What may be done with frames: a new one is buffered or waits; the buffer
\* goes to a file or is given up; those that wait are buffered, filed or given
\* up; a file is cut, or deleted.
LEMMA Moves ==
  ASSUME NEW N \in Nat, NEW D \in [Hours -> SUBSET Nat], NEW B \in SUBSET Nat, NEW P \in SUBSET Nat,
         NEW G \in SUBSET Nat, Placement(N, D, B, P, G)
  PROVE  /\ Placement(N + 1, D, B \cup {N + 1}, P, G)
         /\ Placement(N + 1, D, B, P \cup {N + 1}, G)
         /\ \A c \in Hours : Placement(N, [D EXCEPT ![c] = D[c] \cup B], {}, P, G)
         /\ Placement(N, D, {}, P, G \cup B)
         /\ Placement(N, D, B, {}, G \cup P)
         /\ B = {} => Placement(N, D, P, {}, G)
         /\ \A c \in Hours : Placement(N, [D EXCEPT ![c] = D[c] \cup P], B, {}, G)
         /\ \A c \in Hours : \A K \in SUBSET D[c] :
              Placement(N, [D EXCEPT ![c] = K], B, P, G \cup (D[c] \ K))
<1>1. /\ 1 .. N \subseteq 1 .. N + 1 /\ N + 1 \notin 1 .. N /\ N + 1 \in 1 .. N + 1
      /\ \A f \in 1 .. N + 1 : f \in 1 .. N \/ f = N + 1
  OBVIOUS
<1>2. Placement(N + 1, D, B \cup {N + 1}, P, G)
  BY <1>1 DEF Placement
<1>3. Placement(N + 1, D, B, P \cup {N + 1}, G)
  BY <1>1 DEF Placement
<1>4. ASSUME NEW c \in Hours PROVE Placement(N, [D EXCEPT ![c] = D[c] \cup B], {}, P, G)
  <2> DEFINE E == [D EXCEPT ![c] = D[c] \cup B]
  <2>1. E[c] = D[c] \cup B /\ \A h \in Hours : h # c => E[h] = D[h]
    OBVIOUS
  <2> HIDE DEF E
  <2>2. Placement(N, E, {}, P, G)
    BY <2>1 DEF Placement
  <2>3. QED
    BY <2>2 DEF E
<1>5. Placement(N, D, {}, P, G \cup B)
  BY DEF Placement
<1>6. Placement(N, D, B, {}, G \cup P)
  BY DEF Placement
<1>7. B = {} => Placement(N, D, P, {}, G)
  BY DEF Placement
<1>8. ASSUME NEW c \in Hours PROVE Placement(N, [D EXCEPT ![c] = D[c] \cup P], B, {}, G)
  <2> DEFINE E == [D EXCEPT ![c] = D[c] \cup P]
  <2>1. E[c] = D[c] \cup P /\ \A h \in Hours : h # c => E[h] = D[h]
    OBVIOUS
  <2> HIDE DEF E
  <2>2. Placement(N, E, B, {}, G)
    BY <2>1 DEF Placement
  <2>3. QED
    BY <2>2 DEF E
<1>9. ASSUME NEW c \in Hours, NEW K \in SUBSET D[c]
      PROVE  Placement(N, [D EXCEPT ![c] = K], B, P, G \cup (D[c] \ K))
  BY DEF Placement
<1>10. QED
  BY <1>2, <1>3, <1>4, <1>5, <1>6, <1>7, <1>8, <1>9

-----------------------------------------------------------------------------
(* Lemmas about files *)

LEMMA SideFacts ==
  /\ NoSide \in Sides /\ NoSide.counts = -1 /\ NoSide.keep = FALSE /\ NoSide.complete = FALSE
  /\ FreshSide \in Sides /\ FreshSide.counts = 0 /\ FreshSide.keep = FALSE /\ FreshSide.complete = FALSE
  /\ \A c \in Int, s \in Seq(Nat), d \in BOOLEAN, k \in BOOLEAN :
       LET r == [counts |-> c, sha |-> s, complete |-> d, keep |-> k]
       IN  r \in Sides /\ r.counts = c /\ r.sha = s /\ r.complete = d /\ r.keep = k
BY DEF NoSide, FreshSide, Sides

\* What closing the open file writes.
LEMMA ClosedFacts ==
  ASSUME FileTypes
  PROVE  /\ Closed.files = files
         /\ Closed.disk \in [Hours -> Seq(Nat)] /\ Closed.synced \in [Hours -> Nat]
         /\ Closed.sides \in [Hours -> Sides]
         /\ \A h \in Hours : h # current => Closed.disk[h] = disk[h] /\ Closed.sides[h] = sides[h]
         /\ current # NoHour =>
              /\ Closed.disk[current] = (IF unlinked THEN disk[current] ELSE disk[current] \o buf)
              /\ Closed.sides[current].counts = mem.counts /\ Closed.sides[current].sha = hasher
              /\ Closed.sides[current].keep = mem.keep
<1>1. CASE current = NoHour
  BY <1>1, NoneFacts DEF FileTypes, Closed, FS
<1>2. CASE current # NoHour
  <2> DEFINE side == [mem EXCEPT !.sha = hasher, !.complete = TRUE]
             all == disk[current] \o buf
  <2>1. current \in Hours
    BY <1>2 DEF FileTypes
  <2>2. side \in Sides /\ side.counts = mem.counts /\ side.sha = hasher /\ side.keep = mem.keep
    BY DEF FileTypes, Sides
  <2>3. all \in Seq(Nat) /\ Len(all) \in Nat
    BY <2>1 DEF FileTypes
  <2>4. CASE unlinked
    <3>1. Closed = [FS EXCEPT !.sides[current] = side]
      BY <1>2, <2>4 DEF Closed
    <3> HIDE DEF side
    <3>2. /\ Closed.files = files /\ Closed.disk = disk /\ Closed.synced = synced
          /\ Closed.sides = [sides EXCEPT ![current] = side]
      BY <3>1 DEF FS
    <3>3. QED
      BY <1>2, <2>1, <2>2, <2>4, <3>2 DEF FileTypes
  <2>5. CASE ~unlinked
    <3>1. Closed = [FS EXCEPT !.disk[current] = all, !.synced[current] = Len(all), !.sides[current] = side]
      BY <1>2, <2>5 DEF Closed, Flushed
    <3> HIDE DEF side, all
    <3>2. /\ Closed.files = files /\ Closed.disk = [disk EXCEPT ![current] = all]
          /\ Closed.synced = [synced EXCEPT ![current] = Len(all)]
          /\ Closed.sides = [sides EXCEPT ![current] = side]
      BY <3>1 DEF FS
    <3>3. all = disk[current] \o buf
      BY DEF all
    <3>4. QED
      BY <1>2, <2>1, <2>2, <2>3, <2>5, <3>2, <3>3 DEF FileTypes
  <2>6. QED
    BY <2>4, <2>5
<1>3. QED
  BY <1>1, <1>2

\* Files and sidecars as they are when none is open.
AsClosed(dk, sd) ==
  /\ dk \in [Hours -> Seq(Nat)] /\ sd \in [Hours -> Sides]
  /\ \A h \in Hours \ files : dk[h] = <<>>
  /\ \A h \in files \ emptied : dk[h] # <<>>
  /\ \A h \in files \ overtaken :
       /\ h \notin torn /\ sd[h].complete => sd[h].sha = dk[h]
       /\ h \notin crashed => sd[h].counts = Len(dk[h])
  /\ \A h \in marked \ (emptied \cup overtaken) : h \in files /\ sd[h].keep
  /\ patch.at # "idle" /\ patch.keep /\ patch.told /\ patch.hour \notin emptied \cup overtaken
       => patch.hour \in files /\ sd[patch.hour].keep

\* Closing the open file leaves them so.
LEMMA ClosedInOrder ==
  ASSUME FilesInv
  PROVE  AsClosed(Closed.disk, Closed.sides)
<1> DEFINE dk == Closed.disk  sd == Closed.sides
<1>1. FileTypes /\ Hashed /\ Contents /\ ClosedDescribed /\ OpenCounted /\ MarksKept
  BY DEF FilesInv
<1>2. /\ dk \in [Hours -> Seq(Nat)] /\ sd \in [Hours -> Sides]
      /\ \A h \in Hours : h # current => dk[h] = disk[h] /\ sd[h] = sides[h]
      /\ current # NoHour =>
           /\ dk[current] = (IF unlinked THEN disk[current] ELSE disk[current] \o buf)
           /\ sd[current].counts = mem.counts /\ sd[current].sha = hasher /\ sd[current].keep = mem.keep
  BY <1>1, ClosedFacts
<1> HIDE DEF dk, sd
<1>3. files \subseteq Hours /\ current \in Hours \cup {NoHour} /\ NoHour \notin Hours
  BY <1>1, NoneFacts DEF FileTypes
<1>4. \A h \in Hours \ files : dk[h] = <<>>
  BY <1>1, <1>2, <1>3 DEF Hashed, Contents
<1>5. \A h \in files : h = current => ~unlinked /\ dk[h] = hasher /\ dk[h] # <<>>
  BY <1>1, <1>2, <1>3 DEF Hashed
<1>6. \A h \in files \ emptied : dk[h] # <<>>
  BY <1>1, <1>2, <1>3, <1>5 DEF Contents
<1>7. ASSUME NEW h \in files \ overtaken
      PROVE  /\ h \notin torn /\ sd[h].complete => sd[h].sha = dk[h]
             /\ h \notin crashed => sd[h].counts = Len(dk[h])
  <2>1. CASE h = current
    BY <1>1, <1>2, <1>3, <1>5, <2>1 DEF OpenCounted
  <2>2. CASE h # current
    BY <1>1, <1>2, <1>3, <2>2 DEF ClosedDescribed
  <2>3. QED
    BY <2>1, <2>2
<1>8. \A h \in Hours : Kept(h) => h \in files /\ sd[h].keep
  BY <1>2, <1>3 DEF Kept
<1>9. AsClosed(dk, sd)
  BY <1>1, <1>2, <1>4, <1>6, <1>7, <1>8 DEF AsClosed, MarksKept
<1>10. QED
  BY <1>9 DEF dk, sd

LEMMA ClosedPlaced ==
  ASSUME FilesInv
  PROVE  Placement(n, [h \in Hours |-> ToSet(Closed.disk[h])], {}, ToSet(pending),
                   IF unlinked THEN gone \cup ToSet(buf) ELSE gone)
<1> DEFINE D == [h \in Hours |-> ToSet(Closed.disk[h])]
<1>1. FileTypes /\ Hashed /\ Placed
  BY DEF FilesInv
<1>2. /\ n \in Nat /\ OnDisk \in [Hours -> SUBSET Nat] /\ ToSet(buf) \in SUBSET Nat /\ ToSet(pending) \in SUBSET Nat
      /\ gone \in SUBSET Nat
  BY <1>1, SeqSets DEF FileTypes, OnDisk, Placed, Placement
<1>3. CASE current = NoHour
  <2>1. D = OnDisk /\ ToSet(buf) = {} /\ ~unlinked
    BY <1>1, <1>3, SeqSets DEF OnDisk, Closed, FS, Hashed
  <2>2. QED
    BY <1>1, <2>1 DEF Placed
<1>4. CASE current # NoHour /\ unlinked
  <2>1. \A h \in Hours : Closed.disk[h] = disk[h]
    BY <1>1, <1>4, ClosedFacts
  <2>2. D = OnDisk
    BY <2>1 DEF OnDisk
  <2>3. Placement(n, OnDisk, {}, ToSet(pending), gone \cup ToSet(buf))
    BY <1>1, <1>2, Moves DEF Placed
  <2>4. QED
    BY <1>4, <2>2, <2>3
<1>5. CASE current # NoHour /\ ~unlinked
  <2>1. current \in Hours /\ Closed.disk[current] = disk[current] \o buf
        /\ \A h \in Hours : h # current => Closed.disk[h] = disk[h]
    BY <1>1, <1>5, ClosedFacts DEF FileTypes
  <2>2. ToSet(disk[current] \o buf) = ToSet(disk[current]) \cup ToSet(buf)
    BY <1>1, <2>1, SeqSets DEF FileTypes
  <2>3. D = [OnDisk EXCEPT ![current] = OnDisk[current] \cup ToSet(buf)]
    BY <2>1, <2>2 DEF OnDisk
  <2>4. Placement(n, [OnDisk EXCEPT ![current] = OnDisk[current] \cup ToSet(buf)], {}, ToSet(pending), gone)
    BY <1>1, <1>2, <2>1, Moves DEF Placed
  <2>5. QED
    BY <1>5, <2>3, <2>4
<1>6. QED
  BY <1>3, <1>4, <1>5

\* The open file is closed and no other is opened.
LEMMA FilesClose ==
  ASSUME FilesInv, ApplyFS(Closed), current' = NoHour, mem' = NoSide, hasher' = <<>>, buf' = <<>>,
         unlinked' = FALSE, UNCHANGED <<n, overtaken, torn, crashed, emptied, marked>>,
         \/ UNCHANGED <<pending, patch, victims>> /\ gone' = (IF unlinked THEN gone \cup ToSet(buf) ELSE gone)
         \/ /\ pending' = <<>> /\ patch' = IdlePatch /\ victims' = {}
            /\ gone' = (IF unlinked THEN gone \cup ToSet(buf) ELSE gone) \cup ToSet(pending)
  PROVE  FilesInv'
<1>1. FileTypes /\ Hashed /\ MarksKept /\ AsClosed(Closed.disk, Closed.sides)
  BY ClosedInOrder DEF FilesInv
<1>2. files' = files /\ disk' = Closed.disk /\ synced' = Closed.synced /\ sides' = Closed.sides
  BY <1>1, ClosedFacts DEF ApplyFS
<1>3. IdlePatch \in Patches /\ IdlePatch.at = "idle"
  BY SideFacts DEF IdlePatch, Patches
<1>4. FileTypes'
  <2>1. disk' \in [Hours -> Seq(Nat)] /\ synced' \in [Hours -> Nat] /\ sides' \in [Hours -> Sides]
    BY <1>1, <1>2, ClosedFacts
  <2>2. patch' \in Patches /\ victims' \in SUBSET Hours
    BY <1>1, <1>3 DEF FileTypes
  <2>3. <<>> \in Seq(Nat) /\ NoSide \in Sides /\ pending' \in Seq(Nat)
    <3>1. pending \in Seq(Nat) /\ (pending' = pending \/ pending' = <<>>)
      BY <1>1 DEF FileTypes
    <3>2. QED
      BY <3>1, SideFacts, SeqTypes
  <2>4. QED
    BY <1>1, <1>2, <2>1, <2>2, <2>3 DEF FileTypes
<1>5. Hashed' /\ OpenIncomplete' /\ OpenCounted'
  BY DEF Hashed, OpenIncomplete, OpenCounted
<1>6. Contents' /\ ClosedDescribed'
  BY <1>1, <1>2 DEF AsClosed, Contents, ClosedDescribed
<1>7. MarksKept'
  <2>1. \A h \in marked' \ (emptied' \cup overtaken') : h \in Hours /\ Kept(h)'
    BY <1>1, <1>2, NoneFacts DEF AsClosed, Kept, FileTypes
  <2>2. CASE patch' = patch
    BY <1>1, <1>2, <2>1, <2>2, NoneFacts DEF AsClosed, MarksKept, Kept, FileTypes
  <2>3. CASE patch' = IdlePatch
    BY <1>3, <2>1, <2>3 DEF MarksKept
  <2>4. QED
    BY <2>1, <2>2, <2>3
<1>8. Placed'
  <2> DEFINE D == [h \in Hours |-> ToSet(Closed.disk[h])]
             G == IF unlinked THEN gone \cup ToSet(buf) ELSE gone
  <2>1. Placement(n, D, {}, ToSet(pending), G)
    BY ClosedPlaced
  <2>2. OnDisk' = D /\ ToSet(buf') = {} /\ ToSet(<<>>) = {}
    BY <1>2, SeqSets DEF OnDisk
  <2>3. n \in Nat /\ D \in [Hours -> SUBSET Nat] /\ ToSet(pending) \in SUBSET Nat /\ G \in SUBSET Nat
    <3>1. \A h \in Hours : Closed.disk[h] \in Seq(Nat)
      BY <1>1 DEF AsClosed
    <3>2. QED
      BY <1>1, <2>1, <3>1, SeqSets DEF FileTypes, Placement
  <2> HIDE DEF D, G
  <2>4. Placement(n, D, {}, {}, G \cup ToSet(pending))
    BY <2>1, <2>3, Moves
  <2>5. CASE pending' = pending /\ gone' = G
    BY <2>1, <2>2, <2>5 DEF Placed
  <2>6. CASE pending' = <<>> /\ gone' = G \cup ToSet(pending)
    BY <2>2, <2>4, <2>6 DEF Placed
  <2>7. QED
    BY <2>5, <2>6 DEF G
<1>9. QED
  BY <1>4, <1>5, <1>6, <1>7, <1>8 DEF FilesInv

-----------------------------------------------------------------------------
(* The files' invariant, step by step *)

\* What the placement of frames needs to know of the files.
LEMMA PlacedTypes ==
  ASSUME FilesInv
  PROVE  /\ n \in Nat /\ OnDisk \in [Hours -> SUBSET Nat] /\ gone \in SUBSET Nat
         /\ ToSet(buf) \in SUBSET Nat /\ ToSet(pending) \in SUBSET Nat
         /\ Placement(n, OnDisk, ToSet(buf), ToSet(pending), gone)
<1>1. FileTypes /\ Placed
  BY DEF FilesInv
<1>2. QED
  BY <1>1, SeqSets DEF FileTypes, OnDisk, Placed, Placement

inHand == <<current, mem, hasher, buf, unlinked>>

\* The clock, the threads of a PATCH and retention's listings leave the files
\* as they are.
LEMMA FilesStill ==
  ASSUME FilesInv,
         UNCHANGED <<n, inHand, pending, files, disk, sides, gone, overtaken, torn, crashed, emptied, marked>>,
         synced' \in [Hours -> Nat], patch' \in Patches, victims' \in SUBSET Hours,
         patch'.at # "idle" => patch.at # "idle",
         patch'.keep = patch.keep, patch'.told = patch.told, patch'.hour = patch.hour
  PROVE  FilesInv'
<1> USE DEF inHand
<1>1. FileTypes' /\ Hashed' /\ Contents' /\ OpenIncomplete' /\ ClosedDescribed' /\ OpenCounted'
  BY DEF FilesInv, FileTypes, Hashed, Contents, OpenIncomplete, ClosedDescribed, OpenCounted
<1>2. Placed'
  BY DEF FilesInv, Placed, OnDisk
<1>3. MarksKept'
  <2>1. MarksKept /\ \A h : Kept(h)' = Kept(h)
    BY DEF FilesInv, Kept
  <2>2. QED
    BY <2>1 DEF MarksKept
<1>4. QED
  BY <1>1, <1>2, <1>3 DEF FilesInv

\* A frame waits for a clock.
LEMMA FilesWait ==
  ASSUME FilesInv, n' = n + 1, pending' = Append(pending, n + 1),
         UNCHANGED <<inHand, files, disk, synced, sides, patch, victims, gone, overtaken, torn, crashed,
                     emptied, marked>>
  PROVE  FilesInv'
<1> USE DEF inHand
<1>1. FileTypes /\ n + 1 \in Nat /\ n' \in Nat /\ pending' = pending \o <<n + 1>> /\ pending' \in Seq(Nat)
  BY SeqTypes, SeqLens DEF FilesInv, FileTypes
<1>2. FileTypes'
  BY <1>1 DEF FileTypes
<1>3. Hashed' /\ Contents' /\ OpenIncomplete' /\ ClosedDescribed' /\ OpenCounted'
  BY DEF FilesInv, Hashed, Contents, OpenIncomplete, ClosedDescribed, OpenCounted
<1>4. MarksKept'
  BY DEF FilesInv, MarksKept, Kept
<1>5. Placed'
  <2>1. ToSet(pending \o <<n + 1>>) = ToSet(pending) \cup {n + 1}
    <3>1. pending \in Seq(Nat) /\ <<n + 1>> \in Seq(Nat)
      BY <1>1, SeqTypes, SeqLens DEF FileTypes
    <3>2. ToSet(pending \o <<n + 1>>) = ToSet(pending) \cup ToSet(<<n + 1>>)
      BY <3>1, SeqSets
    <3>3. QED
      BY <3>2, SeqSets
  <2>2. Placement(n + 1, OnDisk, ToSet(buf), ToSet(pending) \cup {n + 1}, gone)
    BY PlacedTypes, Moves
  <2>3. OnDisk' = OnDisk /\ buf' = buf /\ gone' = gone /\ ToSet(pending') = ToSet(pending) \cup {n + 1}
    BY <1>1, <2>1 DEF OnDisk
  <2>4. QED
    BY <2>2, <2>3 DEF Placed
<1>6. QED
  BY <1>2, <1>3, <1>4, <1>5 DEF FilesInv

\* A frame is written to the open file.
LEMMA FilesAppend ==
  ASSUME FilesInv, n' = n + 1, current # NoHour, WriteIn(current, <<n + 1>>),
         UNCHANGED <<patch, victims, overtaken, torn, crashed, emptied, marked>>
  PROVE  FilesInv'
<1> DEFINE x == <<n + 1>>
<1>1. /\ FileTypes /\ Hashed /\ Contents /\ OpenIncomplete /\ ClosedDescribed /\ OpenCounted /\ MarksKept
      /\ n' \in Nat /\ x \in Seq(Nat) /\ Len(x) = 1 /\ ToSet(x) = {n + 1} /\ current \in Hours
  BY SeqTypes, SeqLens, SeqSets DEF FilesInv, FileTypes
<1>2. /\ buf' = buf \o x /\ hasher' = hasher \o x /\ mem' = [mem EXCEPT !.counts = @ + 1]
      /\ UNCHANGED <<current, unlinked, files, disk, synced, sides, pending, gone>>
  BY <1>1 DEF WriteIn, diskVars
<1> HIDE DEF x
<1>3. /\ buf' \in Seq(Nat) /\ hasher' \in Seq(Nat) /\ Len(hasher') = Len(hasher) + 1 /\ Len(hasher) \in Nat
      /\ hasher' # <<>> /\ ToSet(buf') = ToSet(buf) \cup {n + 1} /\ ToSet(hasher') = ToSet(hasher) \cup {n + 1}
      /\ (disk[current] \o buf) \o x = disk[current] \o buf'
  <2>1. buf \in Seq(Nat) /\ hasher \in Seq(Nat) /\ disk[current] \in Seq(Nat) /\ x \in Seq(Nat) /\ Len(x) = 1
        /\ buf' = buf \o x /\ hasher' = hasher \o x
    BY <1>1, <1>2 DEF FileTypes
  <2>2. buf' \in Seq(Nat) /\ hasher' \in Seq(Nat)
    BY <2>1
  <2>3. Len(hasher') = Len(hasher) + 1 /\ Len(hasher) \in Nat
    <3>1. Len(hasher \o x) = Len(hasher) + Len(x) /\ Len(hasher) \in Nat
      BY <2>1, SeqLens
    <3>2. QED
      BY <2>1, <3>1
  <2>4. hasher' # <<>>
    BY <2>2, <2>3
  <2>5. ToSet(buf') = ToSet(buf) \cup {n + 1} /\ ToSet(hasher') = ToSet(hasher) \cup {n + 1}
    BY <1>1, <1>2, <2>1, SeqSets
  <2>6. (disk[current] \o buf) \o x = disk[current] \o buf'
    BY <2>1, SeqLaws
  <2>7. QED
    BY <2>2, <2>3, <2>4, <2>5, <2>6
<1>4. mem' \in Sides /\ mem'.counts = mem.counts + 1 /\ mem'.complete = mem.complete /\ mem'.keep = mem.keep
  <2>1. mem \in Sides /\ mem.counts + 1 \in Int /\ mem' = [mem EXCEPT !.counts = mem.counts + 1]
    BY <1>1, <1>2 DEF FileTypes, Sides
  <2>2. QED
    BY <2>1 DEF Sides
<1>5. FileTypes'
  BY <1>1, <1>2, <1>3, <1>4 DEF FileTypes
<1>6. Hashed' /\ Contents'
  BY <1>1, <1>2, <1>3 DEF Hashed, Contents
<1>7. OpenIncomplete' /\ ClosedDescribed' /\ OpenCounted'
  BY <1>1, <1>2, <1>3, <1>4 DEF OpenIncomplete, ClosedDescribed, OpenCounted
<1>8. MarksKept'
  BY <1>1, <1>2, <1>4 DEF MarksKept, Kept
<1>9. Placed'
  <2>1. Placement(n + 1, OnDisk, ToSet(buf) \cup {n + 1}, ToSet(pending), gone)
    BY PlacedTypes, Moves
  <2>2. OnDisk' = OnDisk
    BY <1>2 DEF OnDisk
  <2>3. QED
    BY <1>2, <1>3, <2>1, <2>2 DEF Placed
<1>10. QED
  BY <1>5, <1>6, <1>7, <1>8, <1>9 DEF FilesInv

\* Another hour is opened, with the frames that waited for a clock.
LEMMA FilesRotate ==
  ASSUME FilesInv, n' = n + 1, NEW h \in Hours, h # current, WriteIn(h, <<n + 1>>),
         UNCHANGED <<patch, victims, overtaken, torn, crashed, emptied, marked>>
  PROVE  FilesInv'
<1> DEFINE x == <<n + 1>>
           dk == Closed.disk
           sd == Closed.sides
           bulk == [Resumed(Closed, h) EXCEPT !.counts = @ + Len(pending)]
           G == IF unlinked THEN gone \cup ToSet(buf) ELSE gone
<1>1. FileTypes /\ MarksKept /\ AsClosed(dk, sd) /\ h # NoHour
  BY ClosedInOrder, NoneFacts DEF FilesInv
<1>2. /\ current' = h /\ unlinked' = FALSE /\ buf' = pending \o x /\ hasher' = dk[h] \o pending \o x
      /\ mem' = [bulk EXCEPT !.counts = @ + Len(x)]
      /\ files' = files \cup {h} /\ disk' = dk /\ synced' = Closed.synced /\ sides' = [sd EXCEPT ![h] = bulk]
      /\ pending' = <<>> /\ gone' = G
  BY <1>1, ClosedFacts DEF WriteIn, Rehashed
<1>3. /\ n \in Nat /\ n' \in Nat /\ x \in Seq(Nat) /\ Len(x) = 1 /\ ToSet(x) = {n + 1}
      /\ pending \in Seq(Nat) /\ Len(pending) \in Nat /\ dk[h] \in Seq(Nat) /\ Len(dk[h]) \in Nat
  <2>1. n \in Nat /\ n' \in Nat /\ pending \in Seq(Nat) /\ dk[h] \in Seq(Nat)
    BY <1>1 DEF FileTypes, AsClosed
  <2>2. x \in Seq(Nat) /\ Len(x) = 1 /\ ToSet(x) = {n + 1}
    BY <2>1, SeqTypes, SeqLens, SeqSets
  <2>3. Len(pending) \in Nat /\ Len(dk[h]) \in Nat
    BY <2>1, SeqLens
  <2>4. QED
    BY <2>1, <2>2, <2>3
<1>4. Closed.synced \in [Hours -> Nat]
  BY <1>1, ClosedFacts
<1>5. /\ Resumed(Closed, h) \in Sides /\ ~Resumed(Closed, h).complete
      /\ dk[h] # <<>> /\ sd[h] # NoSide =>
           Resumed(Closed, h).counts = sd[h].counts /\ Resumed(Closed, h).keep = sd[h].keep
      /\ dk[h] = <<>> => Resumed(Closed, h).counts = 0
  <2>1. sd[h] \in Sides
    BY <1>1 DEF AsClosed
  <2>2. CASE dk[h] = <<>> \/ sd[h] = NoSide
    <3>1. Resumed(Closed, h) = FreshSide
      BY <2>2 DEF Resumed
    <3>2. QED
      BY <2>2, <3>1, SideFacts
  <2>3. CASE ~(dk[h] = <<>> \/ sd[h] = NoSide)
    <3>1. Resumed(Closed, h) = [FreshSide EXCEPT !.counts = sd[h].counts, !.keep = sd[h].keep]
      BY <2>3 DEF Resumed
    <3> HIDE DEF sd, dk
    <3>2. sd[h].counts \in Int /\ sd[h].keep \in BOOLEAN
      BY <2>1 DEF Sides
    <3>3. Resumed(Closed, h) = [counts |-> sd[h].counts, sha |-> <<>>, complete |-> FALSE, keep |-> sd[h].keep]
      BY <3>1 DEF FreshSide
    <3>4. /\ Resumed(Closed, h) \in Sides /\ Resumed(Closed, h).counts = sd[h].counts
          /\ Resumed(Closed, h).complete = FALSE /\ Resumed(Closed, h).keep = sd[h].keep
      BY <3>2, <3>3 DEF Sides
    <3>5. QED
      BY <2>3, <3>4
  <2>4. QED
    BY <2>2, <2>3
<1>6. bulk \in Sides /\ bulk.counts = Resumed(Closed, h).counts + Len(pending)
      /\ bulk.complete = Resumed(Closed, h).complete /\ bulk.keep = Resumed(Closed, h).keep
  <2>1. PICK r \in Sides : r = Resumed(Closed, h)
    BY <1>5
  <2>2. bulk = [r EXCEPT !.counts = r.counts + Len(pending)]
    BY <2>1
  <2>3. r.counts + Len(pending) \in Int
    BY <1>3, <2>1 DEF Sides
  <2> HIDE DEF bulk
  <2>4. /\ bulk \in Sides /\ bulk.counts = r.counts + Len(pending)
        /\ bulk.complete = r.complete /\ bulk.keep = r.keep
    BY <2>1, <2>2, <2>3 DEF Sides
  <2>5. QED
    BY <2>1, <2>4
<1> HIDE DEF bulk
<1>7. mem' \in Sides /\ mem'.counts = bulk.counts + 1 /\ mem'.complete = bulk.complete /\ mem'.keep = bulk.keep
  <2>1. bulk \in Sides /\ bulk.counts + 1 \in Int /\ mem' = [bulk EXCEPT !.counts = bulk.counts + 1]
    BY <1>2, <1>3, <1>6 DEF Sides
  <2>2. QED
    BY <2>1 DEF Sides
<1> HIDE DEF x, dk, sd, G
<1>8. /\ buf' \in Seq(Nat) /\ hasher' \in Seq(Nat) /\ hasher' # <<>> /\ hasher' = dk[h] \o buf'
      /\ Len(hasher') = Len(dk[h]) + Len(pending) + 1
      /\ ToSet(buf') = ToSet(pending) \cup {n + 1}
  <2>1. x \in Seq(Nat) /\ pending \in Seq(Nat) /\ dk[h] \in Seq(Nat) /\ Len(x) = 1
        /\ buf' = pending \o x /\ hasher' = (dk[h] \o pending) \o x /\ ToSet(x) = {n + 1}
    BY <1>2, <1>3
  <2>2. buf' \in Seq(Nat) /\ hasher' \in Seq(Nat) /\ dk[h] \o pending \in Seq(Nat)
    BY <2>1
  <2>3. hasher' = dk[h] \o buf'
    BY <2>1, SeqLaws
  <2>4. Len(hasher') = Len(dk[h] \o pending) + 1 /\ Len(dk[h] \o pending) = Len(dk[h]) + Len(pending)
    <3>1. PICK a \in Seq(Nat) : a = dk[h] \o pending
      BY <2>2
    <3>2. hasher' = a \o x /\ Len(a \o x) = Len(a) + Len(x)
      BY <2>1, <3>1, SeqLens
    <3>3. Len(dk[h] \o pending) = Len(dk[h]) + Len(pending)
      BY <2>1, SeqLens
    <3>4. QED
      BY <2>1, <3>1, <3>2, <3>3
  <2>5. Len(dk[h]) \in Nat /\ Len(pending) \in Nat /\ Len(<<>>) = 0
    BY <1>3
  <2>6. ToSet(buf') = ToSet(pending) \cup {n + 1}
    BY <2>1, SeqSets
  <2>7. QED
    BY <2>2, <2>3, <2>4, <2>5, <2>6
<1>9. FileTypes'
  <2>1. dk \in [Hours -> Seq(Nat)] /\ sd \in [Hours -> Sides]
    BY <1>1 DEF AsClosed
  <2>2. sides' \in [Hours -> Sides] /\ <<>> \in Seq(Nat)
    BY <1>2, <1>6, <2>1
  <2>3. QED
    BY <1>1, <1>2, <1>3, <1>4, <1>7, <1>8, <2>1, <2>2 DEF FileTypes
<1>10. sides'[h] = bulk /\ \A g \in Hours : g # h => sides'[g] = sd[g]
  BY <1>1, <1>2 DEF AsClosed
<1>11. Hashed' /\ Contents'
  BY <1>1, <1>2, <1>8 DEF Hashed, Contents, AsClosed, FileTypes
<1>12. OpenIncomplete'
  BY <1>2, <1>5, <1>6, <1>7, <1>10 DEF OpenIncomplete
<1>13. ClosedDescribed'
  BY <1>1, <1>2, <1>10 DEF ClosedDescribed, AsClosed, FileTypes
<1>14. h \notin overtaken \cup crashed => Resumed(Closed, h).counts = Len(dk[h])
  <2>1. CASE dk[h] = <<>>
    BY <1>5, <2>1
  <2>2. CASE dk[h] # <<>>
    BY <1>1, <1>3, <1>5, <2>2, SideFacts DEF AsClosed
  <2>3. QED
    BY <2>1, <2>2
<1>15. OpenCounted'
  BY <1>2, <1>3, <1>6, <1>7, <1>8, <1>14 DEF OpenCounted
<1>16. h \in files \ emptied /\ sd[h].keep => bulk.keep
  BY <1>1, <1>5, <1>6, SideFacts DEF AsClosed
<1>17. MarksKept'
  <2>1. ASSUME NEW g \in files \ emptied, sd[g].keep PROVE Kept(g)'
    BY <1>1, <1>2, <1>7, <1>10, <1>16, <2>1 DEF Kept, FileTypes
  <2>2. \A g \in marked' \ (emptied' \cup overtaken') : g \in Hours /\ Kept(g)'
    BY <1>1, <2>1 DEF AsClosed, FileTypes
  <2>3. patch'.at # "idle" /\ patch'.keep /\ patch'.told /\ patch'.hour \notin emptied' \cup overtaken'
          => Kept(patch.hour)'
    BY <1>1, <2>1 DEF AsClosed
  <2>4. QED
    BY <1>1, <2>2, <2>3 DEF MarksKept
<1>18. Placed'
  <2> DEFINE D == [g \in Hours |-> ToSet(Closed.disk[g])]
  <2>1. Placement(n, D, {}, ToSet(pending), G)
    BY ClosedPlaced DEF G
  <2>2. D \in [Hours -> SUBSET Nat] /\ ToSet(pending) \in SUBSET Nat /\ G \in SUBSET Nat
    <3>1. \A g \in Hours : Closed.disk[g] \in Seq(Nat)
      BY <1>1 DEF AsClosed, dk
    <3>2. QED
      BY <1>3, <2>1, <3>1, SeqSets DEF Placement
  <2>3. OnDisk' = D
    BY <1>2 DEF OnDisk, dk
  <2> HIDE DEF D
  <2>4. Placement(n, D, ToSet(pending), {}, G)
    BY <1>3, <2>1, <2>2, Moves
  <2>5. Placement(n + 1, D, ToSet(pending) \cup {n + 1}, {}, G)
    BY <1>3, <2>2, <2>4, Moves
  <2>6. ToSet(pending') = {}
    BY <1>2, SeqSets
  <2>7. QED
    BY <1>2, <1>8, <2>3, <2>5, <2>6 DEF Placed
<1>19. QED
  BY <1>9, <1>11, <1>12, <1>13, <1>15, <1>17, <1>18 DEF FilesInv

\* The ticker flushes the open file and, once a minute, writes its sidecar.
LEMMA FilesFlush ==
  ASSUME FilesInv, TickFlushes
  PROVE  FilesInv'
<1> USE DEF clockVars, bounds
<1>1. /\ FileTypes /\ Hashed /\ Contents /\ OpenIncomplete /\ ClosedDescribed /\ OpenCounted /\ MarksKept
      /\ current \in Hours /\ disk[current] \in Seq(Nat) /\ buf \in Seq(Nat) /\ disk[current] \o buf \in Seq(Nat)
  BY DEF FilesInv, FileTypes, TickFlushes
<1>2. /\ buf' = <<>> /\ sides' \in {sides, [sides EXCEPT ![current] = mem]}
      /\ disk' = (IF unlinked THEN disk ELSE [disk EXCEPT ![current] = disk[current] \o buf])
      /\ gone' = IF unlinked THEN gone \cup ToSet(buf) ELSE gone
      /\ UNCHANGED <<n, pending, current, mem, hasher, unlinked, files, synced, patch, victims, crashed, marked,
                     torn, overtaken, emptied>>
  BY DEF TickFlushes, Flushed
<1>3. sides' \in [Hours -> Sides] /\ disk' \in [Hours -> Seq(Nat)] /\ <<>> \in Seq(Nat)
  <2>1. sides \in [Hours -> Sides] /\ mem \in Sides /\ disk \in [Hours -> Seq(Nat)]
    BY <1>1 DEF FileTypes
  <2>2. sides' \in [Hours -> Sides]
    BY <1>2, <2>1
  <2>3. disk' \in [Hours -> Seq(Nat)]
    BY <1>1, <1>2, <2>1
  <2>4. QED
    BY <2>2, <2>3, SeqTypes
<1>4. FileTypes'
  BY <1>1, <1>2, <1>3 DEF FileTypes
<1>5. /\ \A g \in Hours : g # current => sides'[g] = sides[g] /\ disk'[g] = disk[g]
      /\ sides'[current] = sides[current] \/ sides'[current] = mem
      /\ disk'[current] = IF unlinked THEN disk[current] ELSE disk[current] \o buf
  BY <1>1, <1>2 DEF FileTypes
<1>6. Hashed'
  <2>1. ~unlinked => disk'[current] \o <<>> = disk[current] \o buf
    BY <1>1, <1>5, SeqLaws
  <2>2. ToSet(buf') = {}
    BY <1>2, SeqSets
  <2>3. QED
    BY <1>1, <1>2, <2>1, <2>2 DEF Hashed
<1>7. Contents'
  BY <1>1, <1>2, <1>5 DEF Contents, Hashed, FileTypes
<1>8. OpenIncomplete' /\ OpenCounted'
  BY <1>1, <1>2, <1>5 DEF OpenIncomplete, OpenCounted
<1>9. ClosedDescribed'
  BY <1>1, <1>2, <1>5 DEF ClosedDescribed, FileTypes
<1>10. MarksKept'
  <2>1. \A g \in Hours : Kept(g) => Kept(g)'
    BY <1>2, <1>5 DEF Kept
  <2>2. QED
    BY <1>1, <1>2, <2>1 DEF MarksKept
<1>11. Placed'
  <2>1. ToSet(buf') = {}
    BY <1>2, SeqSets
  <2>2. CASE unlinked
    <3>1. OnDisk' = OnDisk
      BY <1>2, <2>2 DEF OnDisk
    <3>2. Placement(n, OnDisk, {}, ToSet(pending), gone \cup ToSet(buf))
      BY PlacedTypes, Moves
    <3>3. QED
      BY <1>2, <2>1, <2>2, <3>1, <3>2 DEF Placed
  <2>3. CASE ~unlinked
    <3>1. ToSet(disk[current] \o buf) = ToSet(disk[current]) \cup ToSet(buf)
      BY <1>1, SeqSets
    <3>2. OnDisk' = [OnDisk EXCEPT ![current] = OnDisk[current] \cup ToSet(buf)]
      BY <1>1, <1>5, <2>3, <3>1 DEF OnDisk
    <3>3. Placement(n, [OnDisk EXCEPT ![current] = OnDisk[current] \cup ToSet(buf)], {}, ToSet(pending), gone)
      BY <1>1, PlacedTypes, Moves
    <3>4. QED
      BY <1>2, <2>1, <2>3, <3>2, <3>3 DEF Placed
  <2>4. QED
    BY <2>2, <2>3
<1>12. QED
  BY <1>4, <1>6, <1>7, <1>8, <1>9, <1>10, <1>11 DEF FilesInv

\* Types of a writer that has just been made, and the parts of the invariant
\* that only say something of an open file.
LEMMA FreshFacts ==
  ASSUME FileTypes, FreshWriter, patch' = IdlePatch, victims' = {}, n' = n,
         files' \in SUBSET Hours, disk' \in [Hours -> Seq(Nat)], synced' \in [Hours -> Nat], sides' = sides
  PROVE  FileTypes' /\ Hashed' /\ OpenIncomplete' /\ OpenCounted' /\ patch'.at = "idle"
         /\ current' = NoHour /\ ToSet(buf') = {} /\ ToSet(pending') = {}
<1>1. IdlePatch \in Patches /\ IdlePatch.at = "idle"
  BY SideFacts DEF IdlePatch, Patches
<1>2. FileTypes'
  BY <1>1, SideFacts, SeqTypes DEF FileTypes, FreshWriter
<1>3. Hashed' /\ OpenIncomplete' /\ OpenCounted'
  BY DEF FreshWriter, Hashed, OpenIncomplete, OpenCounted
<1>4. QED
  BY <1>1, <1>2, <1>3, SeqSets DEF FreshWriter

\* A marked hour stays marked when the writer ends, if its file and sidecar do.
LEMMA FreshMarks ==
  ASSUME FileTypes, MarksKept, patch'.at = "idle", current' = NoHour, sides' = sides, marked' = marked,
         emptied \subseteq emptied', overtaken \subseteq overtaken',
         \A h \in marked \ (emptied' \cup overtaken') : h \in files => h \in files'
  PROVE  MarksKept'
<1>1. ASSUME NEW h \in marked \ (emptied' \cup overtaken') PROVE h \in Hours /\ Kept(h)'
  BY <1>1, NoneFacts DEF MarksKept, Kept
<1>2. QED
  BY <1>1 DEF MarksKept

\* Power is cut: a prefix of the open file is left.
LEMMA FilesCut ==
  ASSUME FilesInv, PowerCut
  PROVE  FilesInv'
<1>1. /\ FileTypes /\ Hashed /\ Contents /\ OpenIncomplete /\ ClosedDescribed /\ OpenCounted /\ MarksKept
  BY DEF FilesInv
<1>2. /\ FreshWriter /\ patch' = IdlePatch /\ victims' = {}
      /\ UNCHANGED <<n, files, sides, torn, overtaken, marked>>
  BY DEF PowerCut
<1>3. CASE current = NoHour \/ unlinked
  <2>1. gone' = gone \cup ToSet(pending) \cup ToSet(buf) /\ UNCHANGED <<disk, synced, crashed, emptied>>
    BY <1>3 DEF PowerCut
  <2>2. /\ FileTypes' /\ Hashed' /\ OpenIncomplete' /\ OpenCounted' /\ patch'.at = "idle" /\ current' = NoHour
        /\ ToSet(buf') = {} /\ ToSet(pending') = {}
    <3>1. files' \in SUBSET Hours /\ disk' \in [Hours -> Seq(Nat)] /\ synced' \in [Hours -> Nat]
      BY <1>1, <1>2, <2>1 DEF FileTypes
    <3>2. QED
      BY <1>1, <1>2, <3>1, FreshFacts
  <2>3. current \notin files
    BY <1>1, <1>3, NoneFacts DEF Hashed, FileTypes
  <2>4. Contents' /\ ClosedDescribed'
    BY <1>1, <1>2, <2>1, <2>3 DEF Contents, ClosedDescribed
  <2>5. MarksKept'
    BY <1>1, <1>2, <2>1, <2>2, FreshMarks
  <2>6. Placed'
    <3>1. Placement(n, OnDisk, {}, ToSet(pending), gone \cup ToSet(buf))
      BY PlacedTypes, Moves
    <3>2. gone \cup ToSet(buf) \in SUBSET Nat
      BY PlacedTypes
    <3>3. Placement(n, OnDisk, {}, {}, (gone \cup ToSet(buf)) \cup ToSet(pending))
      <4>1. PICK G \in SUBSET Nat : G = gone \cup ToSet(buf)
        BY <3>2
      <4>2. Placement(n, OnDisk, {}, {}, G \cup ToSet(pending))
        BY <3>1, <4>1, PlacedTypes, Moves
      <4>3. QED
        BY <4>1, <4>2
    <3>4. gone' = (gone \cup ToSet(buf)) \cup ToSet(pending) /\ OnDisk' = OnDisk
      BY <2>1 DEF OnDisk
    <3>5. QED
      BY <1>2, <2>2, <3>3, <3>4 DEF Placed
  <2>7. QED
    BY <2>2, <2>4, <2>5, <2>6 DEF FilesInv
<1>4. CASE ~(current = NoHour \/ unlinked)
  <2> DEFINE all == disk[current] \o buf
  <2>1. PICK k \in synced[current] .. Len(disk[current]) + Len(buf) :
          /\ disk' = [disk EXCEPT ![current] = SubSeq(all, 1, k)] /\ synced' = [synced EXCEPT ![current] = k]
          /\ crashed' = crashed \cup {current}
          /\ emptied' = IF SubSeq(all, 1, k) = <<>> THEN emptied \cup {current} ELSE emptied
          /\ gone' = gone \cup (ToSet(pending \o disk[current] \o buf) \ ToSet(SubSeq(all, 1, k)))
    BY <1>4 DEF PowerCut
  <2>2. /\ current \in Hours /\ current \in files /\ disk[current] \in Seq(Nat) /\ buf \in Seq(Nat)
        /\ pending \in Seq(Nat) /\ synced[current] \in Nat
    BY <1>1, <1>4 DEF FileTypes, Hashed
  <2>3. k \in Nat /\ k <= Len(all) /\ all \in Seq(Nat)
    BY <2>1, <2>2
  <2>4. SubSeq(all, 1, k) \in Seq(Nat) /\ ToSet(SubSeq(all, 1, k)) \subseteq ToSet(all)
    <3> HIDE DEF all
    <3>1. SubSeq(all, 1, k) \in Seq(Nat)
      BY <2>3
    <3>2. QED
      BY <2>3, <3>1, SeqSets
  <2>5. ToSet(pending \o disk[current] \o buf) = ToSet(pending) \cup ToSet(all)
    <3>1. (pending \o disk[current]) \o buf = pending \o all
      BY <2>2, SeqLaws
    <3> HIDE DEF all
    <3>2. ToSet(pending \o all) = ToSet(pending) \cup ToSet(all)
      BY <2>2, <2>3, SeqSets
    <3>3. QED
      BY <3>1, <3>2
  <2>6. ToSet(all) = ToSet(disk[current]) \cup ToSet(buf)
    BY <2>2, SeqSets
  <2> HIDE DEF all
  <2>7. PICK kept \in Seq(Nat) : kept = SubSeq(all, 1, k)
    BY <2>4
  <2>8. /\ disk' = [disk EXCEPT ![current] = kept] /\ synced' = [synced EXCEPT ![current] = k]
        /\ crashed' = crashed \cup {current}
        /\ emptied' = IF kept = <<>> THEN emptied \cup {current} ELSE emptied
        /\ gone' = gone \cup ((ToSet(pending) \cup ToSet(all)) \ ToSet(kept))
        /\ ToSet(kept) \subseteq ToSet(all)
    BY <2>1, <2>4, <2>5, <2>7
  <2>9. /\ FileTypes' /\ Hashed' /\ OpenIncomplete' /\ OpenCounted' /\ patch'.at = "idle" /\ current' = NoHour
        /\ ToSet(buf') = {} /\ ToSet(pending') = {}
    <3>1. files' \in SUBSET Hours /\ disk' \in [Hours -> Seq(Nat)] /\ synced' \in [Hours -> Nat]
      BY <1>1, <1>2, <2>3, <2>7, <2>8 DEF FileTypes
    <3>2. QED
      BY <1>1, <1>2, <3>1, FreshFacts
  <2>10. disk'[current] = kept /\ \A h \in Hours : h # current => disk'[h] = disk[h]
    BY <1>1, <2>2, <2>8 DEF FileTypes
  <2>11. Contents'
    BY <1>1, <1>2, <2>2, <2>8, <2>10 DEF Contents, FileTypes
  <2>12. ClosedDescribed'
    BY <1>1, <1>2, <1>4, <2>2, <2>8, <2>10 DEF ClosedDescribed, OpenIncomplete, FileTypes
  <2>13. MarksKept'
    BY <1>1, <1>2, <2>8, <2>9, FreshMarks
  <2>14. Placed'
    <3> DEFINE D == [OnDisk EXCEPT ![current] = OnDisk[current] \cup ToSet(buf)]
               G == gone \cup ToSet(pending)
               K == ToSet(kept)
    <3>1. Placement(n, D, {}, ToSet(pending), gone)
      BY <2>2, PlacedTypes, Moves
    <3>2. D \in [Hours -> SUBSET Nat] /\ D[current] = ToSet(all) /\ G \in SUBSET Nat
      BY <2>2, <2>6, PlacedTypes DEF OnDisk
    <3>3. n \in Nat /\ {} \in SUBSET Nat /\ ToSet(pending) \in SUBSET Nat /\ gone \in SUBSET Nat
      BY PlacedTypes
    <3>4. OnDisk' = [D EXCEPT ![current] = K]
      BY <2>2, <2>10 DEF OnDisk
    <3>5. gone' = G \cup (D[current] \ K)
      <4>1. \A f \in ToSet(pending) : f \notin D[current]
        BY <2>2, <3>1 DEF Placement
      <4>2. QED
        BY <2>8, <3>2, <4>1
    <3> HIDE DEF D, G, K
    <3>6. Placement(n, D, {}, {}, G)
      BY <3>1, <3>2, <3>3, Moves DEF G
    <3>7. K \in SUBSET D[current]
      BY <2>8, <3>2 DEF K
    <3>8. Placement(n, [D EXCEPT ![current] = K], {}, {}, G \cup (D[current] \ K))
      BY <2>2, <3>2, <3>3, <3>6, <3>7, Moves
    <3>9. QED
      BY <1>2, <2>9, <3>4, <3>5, <3>8 DEF Placed
  <2>15. QED
    BY <2>9, <2>11, <2>12, <2>13, <2>14 DEF FilesInv
<1>5. QED
  BY <1>3, <1>4

\* The process is killed in `_rotate`: the frames are in the file, the sidecar
\* is not.
LEMMA FilesKilled ==
  ASSUME FilesInv, ClockInv, KillInRotate
  PROVE  FilesInv'
<1>1. /\ FileTypes /\ Hashed /\ Contents /\ ClosedDescribed /\ MarksKept
  BY DEF FilesInv
<1>2. PICK h \in Hours : h = NamedHour
  BY NamedFacts DEF KillInRotate
<1>3. /\ FreshWriter /\ patch' = IdlePatch /\ victims' = {} /\ current = NoHour /\ pending # <<>>
      /\ files' = files \cup {h} /\ disk' = [disk EXCEPT ![h] = disk[h] \o pending]
      /\ synced' = [synced EXCEPT ![h] = Len(disk'[h])]
      /\ crashed' = crashed \cup {h} /\ torn' = torn \cup {h}
      /\ UNCHANGED <<n, sides, gone, overtaken, emptied, marked>>
  BY <1>2 DEF KillInRotate
<1>4. disk[h] \in Seq(Nat) /\ pending \in Seq(Nat) /\ buf = <<>>
  BY <1>1, <1>3 DEF FileTypes, Hashed
<1>5. disk[h] \o pending \in Seq(Nat) /\ disk[h] \o pending # <<>>
  BY <1>3, <1>4, ConcatEqualIffEmpty
<1>6. disk' \in [Hours -> Seq(Nat)] /\ disk'[h] = disk[h] \o pending /\ \A g \in Hours : g # h => disk'[g] = disk[g]
  BY <1>1, <1>3, <1>5 DEF FileTypes
<1>7. /\ FileTypes' /\ Hashed' /\ OpenIncomplete' /\ OpenCounted' /\ patch'.at = "idle" /\ current' = NoHour
      /\ ToSet(buf') = {} /\ ToSet(pending') = {}
  <2>1. Len(disk'[h]) \in Nat
    BY <1>5, <1>6
  <2>2. files' \in SUBSET Hours /\ synced' \in [Hours -> Nat]
    BY <1>1, <1>3, <2>1 DEF FileTypes
  <2>3. QED
    BY <1>1, <1>3, <1>6, <2>2, FreshFacts
<1>8. Contents'
  BY <1>1, <1>3, <1>5, <1>6, NoneFacts DEF Contents, FileTypes
<1>9. ClosedDescribed'
  BY <1>1, <1>3, <1>6, NoneFacts DEF ClosedDescribed, FileTypes
<1>10. MarksKept'
  BY <1>1, <1>3, <1>7, FreshMarks
<1>11. Placed'
  <2>1. ToSet(disk[h] \o pending) = ToSet(disk[h]) \cup ToSet(pending) /\ ToSet(buf) = {}
    BY <1>4, SeqSets
  <2>2. OnDisk' = [OnDisk EXCEPT ![h] = OnDisk[h] \cup ToSet(pending)]
    BY <1>6, <2>1 DEF OnDisk
  <2>3. Placement(n, [OnDisk EXCEPT ![h] = OnDisk[h] \cup ToSet(pending)], ToSet(buf), {}, gone)
    BY PlacedTypes, Moves
  <2>4. QED
    BY <1>3, <1>7, <2>1, <2>2, <2>3 DEF Placed
<1>12. QED
  BY <1>7, <1>8, <1>9, <1>10, <1>11 DEF FilesInv

\* Recovery finishes the sidecars that are not complete.
LEMMA FilesRecover ==
  ASSUME FilesInv, ClockInv, Recover
  PROVE  FilesInv'
<1> USE DEF logVars, bounds
<1>1. /\ FileTypes /\ Hashed /\ Contents /\ Placed /\ ClosedDescribed /\ MarksKept
  BY DEF FilesInv
<1>2. /\ current = NoHour
      /\ UNCHANGED <<n, current, mem, hasher, buf, unlinked, pending, files, disk, synced, patch, victims, gone,
                     crashed, marked, torn, overtaken, emptied>>
      /\ sides' = [h \in Hours |-> IF sides[h] = NoSide \/ sides[h].complete THEN sides[h]
                                  ELSE IF h \in files THEN Recovered(h) ELSE NoSide]
  BY DEF Recover, ClockInv, NoClock
<1>3. ASSUME NEW h \in Hours
      PROVE  /\ sides'[h] \in Sides
             /\ h \in files => sides'[h] \in {sides[h], Recovered(h)}
  <2>1. sides[h] \in Sides /\ disk[h] \in Seq(Nat)
    BY <1>1 DEF FileTypes
  <2>2. Recovered(h) \in Sides
    BY <2>1 DEF Recovered, Sides
  <2>3. QED
    BY <1>2, <2>1, <2>2, SideFacts
<1>4. \A h \in Hours : /\ Recovered(h).counts = sides[h].counts /\ Recovered(h).sha = disk[h]
                       /\ sides[h].keep => Recovered(h).keep
  <2>1. ASSUME NEW h \in Hours PROVE sides[h] \in Sides
    BY <1>1 DEF FileTypes
  <2>2. QED
    BY <2>1 DEF Recovered, Sides
<1>5. FileTypes'
  <2>1. sides' \in [Hours -> Sides]
    BY <1>2, <1>3
  <2>2. QED
    BY <1>1, <1>2, <2>1 DEF FileTypes
<1>6. Hashed' /\ Contents' /\ OpenIncomplete' /\ OpenCounted'
  BY <1>1, <1>2 DEF Hashed, Contents, OpenIncomplete, OpenCounted
<1>7. Placed'
  BY <1>1, <1>2 DEF Placed, OnDisk
<1>8. UNCHANGED <<current, files, disk, torn, crashed, overtaken, emptied, marked, patch>> /\ current = NoHour
  BY <1>2
<1>9. ClosedDescribed'
  <2>1. ASSUME NEW h \in files \ overtaken, h # current
        PROVE  /\ h \notin torn /\ sides'[h].complete => sides'[h].sha = disk[h]
               /\ h \notin crashed => sides'[h].counts = Len(disk[h])
    <3>1. h \in Hours /\ ClosedDescribed
      BY <1>1 DEF FileTypes
    <3>2. sides'[h] = sides[h] \/ (sides'[h].counts = sides[h].counts /\ sides'[h].sha = disk[h])
      BY <1>3, <1>4, <2>1, <3>1
    <3>3. /\ h \notin torn /\ sides[h].complete => sides[h].sha = disk[h]
          /\ h \notin crashed => sides[h].counts = Len(disk[h])
      BY <2>1, <3>1 DEF ClosedDescribed
    <3>4. QED
      BY <3>2, <3>3
  <2>2. QED
    BY <1>8, <2>1 DEF ClosedDescribed
<1>10. MarksKept'
  <2>1. ASSUME NEW h \in Hours, Kept(h) PROVE Kept(h)'
    <3>1. h \in files /\ sides[h].keep /\ current # h
      BY <1>8, <2>1, NoneFacts DEF Kept
    <3>2. sides'[h].keep
      BY <1>3, <1>4, <3>1
    <3>3. QED
      BY <1>8, <3>1, <3>2 DEF Kept
  <2>2. QED
    BY <1>1, <1>8, <2>1 DEF MarksKept
<1>11. QED
  BY <1>5, <1>6, <1>7, <1>9, <1>10 DEF FilesInv

\* A PATCH tells the writer, when the hour is the open one.
LEMMA FilesPatch ==
  ASSUME FilesInv, NEW h \in Hours, NEW keep \in BOOLEAN, Patch(h, keep)
  PROVE  FilesInv'
<1> USE DEF clockVars
<1>1. /\ FileTypes /\ Hashed /\ Contents /\ Placed /\ OpenIncomplete /\ ClosedDescribed /\ OpenCounted /\ MarksKept
      /\ h # NoHour
  BY NoneFacts DEF FilesInv
<1>2. /\ h \in files /\ WriterMarks(h, keep) /\ marked' = (IF keep THEN marked ELSE marked \ {h})
      /\ patch' = [at |-> "load", hour |-> h, keep |-> keep, loaded |-> NoSide, told |-> current = h]
      /\ UNCHANGED <<n, pending, current, hasher, buf, unlinked, files, disk, synced, victims, gone, crashed, torn,
                     overtaken, emptied>>
  BY DEF Patch
<1>3. patch' \in Patches /\ patch'.hour = h /\ patch'.keep = keep /\ patch'.told = (current = h)
  BY <1>2, SideFacts DEF Patches
<1>4. /\ mem' \in Sides /\ mem'.counts = mem.counts /\ mem'.complete = mem.complete
      /\ current = h => mem'.keep = keep /\ sides'[h] = mem'
      /\ current # h => mem' = mem /\ sides'[h] = sides[h]
      /\ \A g \in Hours : g # h => sides'[g] = sides[g]
      /\ sides' \in [Hours -> Sides]
  <2>1. mem \in Sides /\ sides \in [Hours -> Sides]
    BY <1>1 DEF FileTypes
  <2>2. CASE current = h
    <3>1. mem' = [mem EXCEPT !.keep = keep] /\ sides' = [sides EXCEPT ![h] = mem']
      BY <1>2, <2>2 DEF WriterMarks
    <3>2. mem' \in Sides /\ mem'.counts = mem.counts /\ mem'.complete = mem.complete /\ mem'.keep = keep
      BY <2>1, <3>1 DEF Sides
    <3>3. QED
      BY <2>1, <2>2, <3>1, <3>2
  <2>3. CASE current # h
    BY <1>2, <2>1, <2>3 DEF WriterMarks
  <2>4. QED
    BY <2>2, <2>3
<1>5. FileTypes'
  BY <1>1, <1>2, <1>3, <1>4 DEF FileTypes
<1>6. Hashed' /\ Contents'
  BY <1>1, <1>2 DEF Hashed, Contents
<1>7. Placed'
  BY <1>1, <1>2 DEF Placed, OnDisk
<1>8. OpenIncomplete' /\ OpenCounted'
  BY <1>1, <1>2, <1>4 DEF OpenIncomplete, OpenCounted, FileTypes
<1>9. ClosedDescribed'
  BY <1>1, <1>2, <1>4 DEF ClosedDescribed, FileTypes
<1>10. MarksKept'
  <2>1. \A g \in Hours \ {h} : Kept(g) => Kept(g)'
    BY <1>2, <1>4 DEF Kept
  <2>2. current = h /\ keep => Kept(h)'
    BY <1>2, <1>4 DEF Kept
  <2>3. current # h /\ Kept(h) => Kept(h)'
    BY <1>2, <1>4 DEF Kept
  <2>4. \A g \in marked' \ (emptied' \cup overtaken') : g \in Hours /\ Kept(g)'
    BY <1>1, <1>2, <2>1, <2>2, <2>3 DEF MarksKept
  <2>5. QED
    BY <1>2, <1>3, <2>2, <2>4 DEF MarksKept
<1>11. QED
  BY <1>5, <1>6, <1>7, <1>8, <1>9, <1>10 DEF FilesInv

\* A retention pass deletes the oldest of its victims.
LEMMA VictimFacts ==
  ASSUME FileTypes, victims # {}
  PROVE  Oldest \in victims
<1>1. victims \subseteq Nat
  BY NoneFacts DEF FileTypes
<1>2. PICK v \in victims : \A g \in victims : ~(<<g, v>> \in OpToRel(<, Nat))
  BY <1>1, NatLessThanWellFounded, WFMin
<1>3. ASSUME NEW g \in victims PROVE v <= g
  <2>1. g \in Nat /\ v \in Nat
    BY <1>1, <1>2, <1>3
  <2>2. ~(g < v)
    BY <1>2, <1>3, <2>1 DEF OpToRel
  <2>3. QED
    BY <2>1, <2>2
<1>4. \E w \in victims : \A g \in victims : w <= g
  BY <1>2, <1>3
<1>5. QED
  BY <1>4 DEF Oldest

\* The frames of a file that is deleted are given up.
LEMMA Deleted ==
  ASSUME FilesInv, NEW h \in Hours, disk' = [disk EXCEPT ![h] = <<>>], n' = n
  PROVE  /\ disk' \in [Hours -> Seq(Nat)] /\ disk'[h] = <<>> /\ \A g \in Hours : g # h => disk'[g] = disk[g]
         /\ OnDisk' \in [Hours -> SUBSET Nat] /\ gone \cup ToSet(disk[h]) \in SUBSET Nat
         /\ Placement(n, OnDisk', ToSet(buf), ToSet(pending), gone \cup ToSet(disk[h]))
<1>1. disk \in [Hours -> Seq(Nat)]
  BY DEF FilesInv, FileTypes
<1>2. /\ disk' \in [Hours -> Seq(Nat)] /\ disk'[h] = <<>> /\ \A g \in Hours : g # h => disk'[g] = disk[g]
  BY <1>1, SeqTypes
<1>3. OnDisk' = [OnDisk EXCEPT ![h] = {}] /\ OnDisk[h] = ToSet(disk[h])
  BY <1>2, SeqSets DEF OnDisk
<1>4. {} \in SUBSET OnDisk[h] /\ OnDisk[h] \ {} = ToSet(disk[h])
  BY <1>3
<1>5. Placement(n, [OnDisk EXCEPT ![h] = {}], ToSet(buf), ToSet(pending), gone \cup (OnDisk[h] \ {}))
  BY <1>4, PlacedTypes, Moves
<1>6. OnDisk' \in [Hours -> SUBSET Nat] /\ gone \cup ToSet(disk[h]) \in SUBSET Nat
  BY <1>3, PlacedTypes
<1>7. QED
  BY <1>2, <1>3, <1>4, <1>5, <1>6

\* An hour of a listing is unlinked, open or not.
LEMMA FilesUnlink ==
  ASSUME FilesInv, ListedInv, NEW h \in Listed, h \in Hours, Unlink(h), victims' \in SUBSET Hours,
         UNCHANGED <<n, pending, current, mem, hasher, buf, patch, crashed, marked, torn, emptied>>
  PROVE  FilesInv'
<1>1. /\ FileTypes /\ Hashed /\ Contents /\ OpenIncomplete /\ ClosedDescribed /\ OpenCounted /\ MarksKept
  BY DEF FilesInv
<1>2. h \notin marked \/ h \in emptied \cup overtaken
  BY DEF ListedInv
<1>3. /\ files' = files \ {h}
      /\ disk' = [disk EXCEPT ![h] = <<>>] /\ synced' = [synced EXCEPT ![h] = 0]
      /\ sides' = [sides EXCEPT ![h] = NoSide] /\ unlinked' = (unlinked \/ h = current)
      /\ gone' = gone \cup ToSet(disk[h])
      /\ overtaken' = overtaken \cup ({h} \cap {patch.hour})
      /\ UNCHANGED <<n, pending, current, mem, hasher, buf, patch, crashed, marked, torn, emptied>>
  BY DEF Unlink
<1>4. h \in Hours /\ h # NoHour
  BY NoneFacts
<1>5. /\ disk' \in [Hours -> Seq(Nat)] /\ disk'[h] = <<>> /\ \A g \in Hours : g # h => disk'[g] = disk[g]
      /\ Placement(n, OnDisk', ToSet(buf), ToSet(pending), gone \cup ToSet(disk[h]))
  BY <1>3, <1>4, Deleted
<1>6. sides' \in [Hours -> Sides] /\ \A g \in Hours : g # h => sides'[g] = sides[g]
  <2>1. sides \in [Hours -> Sides] /\ NoSide \in Sides
    BY <1>1, SideFacts DEF FileTypes
  <2>2. QED
    BY <1>3, <1>4, <2>1
<1>7. FileTypes'
  BY <1>1, <1>3, <1>5, <1>6 DEF FileTypes
<1>8. Hashed'
  <2>1. CASE h = current /\ ~unlinked
    <3>1. ToSet(hasher) = ToSet(disk[h]) \cup ToSet(buf)
      <4>1. hasher = disk[h] \o buf
        BY <1>1, <1>4, <2>1 DEF Hashed
      <4>2. disk[h] \in Seq(Nat) /\ buf \in Seq(Nat)
        BY <1>1, <1>4 DEF FileTypes
      <4>3. QED
        BY <4>1, <4>2, SeqSets
    <3>2. QED
      BY <1>3, <1>4, <2>1, <3>1 DEF Hashed
  <2>2. CASE h = current /\ unlinked
    BY <1>1, <1>3, <1>4, <2>2 DEF Hashed
  <2>3. CASE h # current
    BY <1>1, <1>3, <1>4, <1>5, <2>3 DEF Hashed, FileTypes
  <2>4. QED
    BY <2>1, <2>2, <2>3
<1>9. Contents'
  BY <1>1, <1>3, <1>4, <1>5 DEF Contents, FileTypes
<1>10. OpenIncomplete' /\ OpenCounted'
  BY <1>1, <1>3, <1>6 DEF OpenIncomplete, OpenCounted, FileTypes
<1>11. ClosedDescribed'
  BY <1>1, <1>3, <1>5, <1>6 DEF ClosedDescribed, FileTypes
<1>12. MarksKept'
  <2>1. \A g \in Hours \ {h} : Kept(g) => Kept(g)'
    BY <1>3, <1>6 DEF Kept
  <2>2. h \in marked \/ h = patch.hour => h \in emptied' \cup overtaken'
    BY <1>2, <1>3
  <2>3. \A g \in marked' \ (emptied' \cup overtaken') : g \in Hours /\ Kept(g)'
    BY <1>1, <1>3, <2>1, <2>2 DEF MarksKept
  <2>4. patch'.at # "idle" /\ patch'.keep /\ patch'.told /\ patch'.hour \notin emptied' \cup overtaken'
          => Kept(patch.hour)'
    BY <1>1, <1>3, <2>1, <2>2 DEF MarksKept
  <2>5. QED
    BY <1>1, <1>3, <2>3, <2>4 DEF MarksKept
<1>13. Placed'
  BY <1>3, <1>5 DEF Placed
<1>14. QED
  BY <1>7, <1>8, <1>9, <1>10, <1>11, <1>12, <1>13 DEF FilesInv

\* Retention deletes the oldest of its victims, a DELETE the hour it listed.
LEMMA FilesDeleted ==
  ASSUME FilesInv, ListedInv, PruneDelete \/ DeleteUnlink
  PROVE  FilesInv'
<1> USE DEF clockVars, bounds
<1>1. FileTypes /\ victims \in SUBSET Hours
  BY DEF FilesInv, FileTypes
<1>2. CASE PruneDelete
  <2>1. Oldest \in victims
    BY <1>1, <1>2, VictimFacts DEF PruneDelete
  <2>2. Oldest \in Listed /\ Oldest \in Hours
    BY <1>1, <2>1 DEF Listed
  <2>3. /\ Unlink(Oldest) /\ victims' \in SUBSET Hours
        /\ UNCHANGED <<n, pending, current, mem, hasher, buf, patch, crashed, marked, torn, emptied>>
    BY <1>1, <1>2 DEF PruneDelete
  <2>4. QED
    BY <2>2, <2>3, FilesUnlink
<1>3. CASE DeleteUnlink
  <2>1. deleting.at = "unlink" /\ ~deleting.keep /\ deleting.hour \in Hours
    BY <1>3 DEF DeleteUnlink, ListedInv
  <2>2. deleting.hour \in Listed
    BY <2>1 DEF Listed
  <2>3. /\ Unlink(deleting.hour) /\ victims' \in SUBSET Hours
        /\ UNCHANGED <<n, pending, current, mem, hasher, buf, patch, crashed, marked, torn, emptied>>
    BY <1>1, <1>3 DEF DeleteUnlink
  <2>4. QED
    BY <2>1, <2>2, <2>3, FilesUnlink
<1>4. QED
  BY <1>2, <1>3

\* The process is killed between the two unlinks: the sidecar is left.
LEMMA FilesKilledInDelete ==
  ASSUME FilesInv, ListedInv, KillInDelete
  PROVE  FilesInv'
<1>1. /\ FileTypes /\ Hashed /\ Contents /\ ClosedDescribed /\ MarksKept
  BY DEF FilesInv
<1>2. /\ current = NoHour /\ FreshWriter /\ patch' = IdlePatch /\ victims' = {}
      /\ UNCHANGED <<n, sides, crashed, marked, torn, emptied>>
  BY DEF KillInDelete
<1>3. PICK h \in Hours :
      /\ (victims # {} /\ h = Oldest) \/ (deleting.at = "unlink" /\ h = deleting.hour)
      /\ files' = files \ {h} /\ disk' = [disk EXCEPT ![h] = <<>>] /\ synced' = [synced EXCEPT ![h] = 0]
      /\ gone' = gone \cup ToSet(disk[h]) \cup ToSet(pending)
      /\ overtaken' = overtaken \cup ({h} \cap {patch.hour})
  BY DEF KillInDelete
<1>4. h \in Hours /\ (h \notin marked \/ h \in emptied \cup overtaken)
  <2>1. h \in Listed
    BY <1>1, <1>3, VictimFacts DEF Listed, ListedInv
  <2>2. QED
    BY <2>1 DEF ListedInv
<1>5. /\ disk' \in [Hours -> Seq(Nat)] /\ disk'[h] = <<>> /\ \A g \in Hours : g # h => disk'[g] = disk[g]
      /\ OnDisk' \in [Hours -> SUBSET Nat] /\ gone \cup ToSet(disk[h]) \in SUBSET Nat
      /\ Placement(n, OnDisk', ToSet(buf), ToSet(pending), gone \cup ToSet(disk[h]))
  BY <1>2, <1>3, <1>4, Deleted
<1>6. /\ FileTypes' /\ Hashed' /\ OpenIncomplete' /\ OpenCounted' /\ patch'.at = "idle" /\ current' = NoHour
      /\ ToSet(buf') = {} /\ ToSet(pending') = {}
  <2>1. files' \in SUBSET Hours /\ synced' \in [Hours -> Nat]
    BY <1>1, <1>3 DEF FileTypes
  <2>2. QED
    BY <1>1, <1>2, <1>5, <2>1, FreshFacts
<1>7. Contents' /\ ClosedDescribed'
  BY <1>1, <1>2, <1>3, <1>5, NoneFacts DEF Contents, ClosedDescribed, FileTypes
<1>8. MarksKept'
  BY <1>1, <1>2, <1>3, <1>4, <1>6, FreshMarks
<1>9. Placed'
  <2>1. ToSet(buf) = {}
    BY <1>1, <1>2, SeqSets DEF Hashed
  <2>2. PICK G \in SUBSET Nat : G = gone \cup ToSet(disk[h])
    BY <1>5
  <2>3. PICK D \in [Hours -> SUBSET Nat] : D = OnDisk'
    BY <1>5
  <2>4. Placement(n, D, {}, ToSet(pending), G)
    BY <1>5, <2>1, <2>2, <2>3
  <2>5. n \in Nat /\ {} \in SUBSET Nat /\ ToSet(pending) \in SUBSET Nat
    BY PlacedTypes
  <2>6. Placement(n, D, {}, {}, G \cup ToSet(pending))
    BY <2>2, <2>3, <2>4, <2>5, Moves
  <2>7. QED
    BY <1>2, <1>3, <1>6, <2>2, <2>3, <2>6 DEF Placed
<1>10. QED
  BY <1>6, <1>7, <1>8, <1>9 DEF FilesInv

\* A PATCH dumps the sidecar it loaded, with the mark set or cleared.
LEMMA FilesDump ==
  ASSUME FilesInv, PatchDump
  PROVE  FilesInv'
<1> USE DEF clockVars, logVars, bounds
<1> DEFINE h == patch.hour
           side == Marked(patch.loaded, patch.keep)
<1>1. /\ FileTypes /\ Hashed /\ Contents /\ Placed /\ OpenIncomplete /\ ClosedDescribed /\ OpenCounted /\ MarksKept
  BY DEF FilesInv
<1>2. /\ patch.at = "dump" /\ sides' = [sides EXCEPT ![h] = side] /\ patch' = IdlePatch
      /\ marked \subseteq marked' /\ marked' \subseteq marked \cup {h} /\ (~patch.keep => marked' = marked)
      /\ overtaken' = (IF Overtook THEN overtaken \cup {h} ELSE overtaken)
      /\ UNCHANGED <<n, current, mem, hasher, buf, unlinked, pending, files, disk, synced, victims, gone, crashed,
                     torn, emptied>>
  BY DEF PatchDump
<1>3. h \in Hours
  BY <1>1, <1>2 DEF MarksKept
<1>4. patch.loaded \in Sides /\ patch.keep \in BOOLEAN
  BY <1>1 DEF FileTypes, Patches
<1>5. PICK m \in Sides : m = IF patch.loaded = NoSide THEN FreshSide ELSE patch.loaded
  BY <1>4, SideFacts
<1>6. side = [m EXCEPT !.keep = patch.keep]
  BY <1>5 DEF Marked
<1>7. side \in Sides /\ side.counts = m.counts /\ side.sha = m.sha
  BY <1>4, <1>5, <1>6 DEF Sides
<1>8. patch.keep => side.keep
  BY <1>4, <1>5, <1>6 DEF Sides
<1>9. side.complete => m.complete
  BY <1>4, <1>5, <1>6 DEF Sides
<1>10. side.complete => patch.loaded # NoSide /\ patch.loaded.complete
  BY <1>5, <1>9, SideFacts
<1>11. patch.loaded # NoSide => m = patch.loaded
  BY <1>5
<1> HIDE DEF h, side
<1>12. sides' \in [Hours -> Sides] /\ sides'[h] = side /\ \A g \in Hours : g # h => sides'[g] = sides[g]
  <2>1. sides \in [Hours -> Sides]
    BY <1>1 DEF FileTypes
  <2>2. side \in Sides
    BY <1>7
  <2>3. QED
    BY <1>2, <1>3, <2>1, <2>2
<1>13. h \notin overtaken' => h \in files /\ sides[h] = patch.loaded /\ (current = h => patch.told)
  BY <1>2 DEF Overtook, h
<1>14. overtaken \subseteq overtaken'
  BY <1>2
<1>15. FileTypes'
  <2>1. IdlePatch \in Patches
    BY SideFacts DEF IdlePatch, Patches
  <2>2. QED
    BY <1>1, <1>2, <1>12, <2>1 DEF FileTypes
<1>16. Hashed' /\ Contents' /\ OpenCounted'
  BY <1>1, <1>2, <1>14 DEF Hashed, Contents, OpenCounted
<1>17. Placed'
  BY <1>1, <1>2 DEF Placed, OnDisk
<1>18. OpenIncomplete'
  <2>1. ASSUME current # NoHour, current \notin overtaken', ~unlinked PROVE ~sides'[current].complete
    <3>1. CASE current = h
      BY <1>1, <1>10, <1>12, <1>13, <1>14, <2>1, <3>1 DEF OpenIncomplete
    <3>2. CASE current # h
      <4>1. current \in Hours
        BY <1>1, <2>1 DEF FileTypes
      <4>2. QED
        BY <1>1, <1>12, <1>14, <2>1, <3>2, <4>1 DEF OpenIncomplete
    <3>3. QED
      BY <3>1, <3>2
  <2>2. QED
    BY <1>1, <1>2, <2>1 DEF OpenIncomplete
<1>19. ClosedDescribed'
  <2>1. ASSUME NEW g \in files \ overtaken', g # current
        PROVE  /\ g \notin torn /\ sides'[g].complete => sides'[g].sha = disk[g]
               /\ g \notin crashed => sides'[g].counts = Len(disk[g])
    <3>1. /\ g \notin torn /\ sides[g].complete => sides[g].sha = disk[g]
          /\ g \notin crashed => sides[g].counts = Len(disk[g])
      BY <1>1, <1>14, <2>1 DEF ClosedDescribed
    <3>2. g \in Hours
      BY <1>1, <2>1 DEF FileTypes
    <3>3. CASE g # h
      BY <1>12, <3>1, <3>2, <3>3
    <3>4. CASE g = h /\ patch.loaded # NoSide
      <4>1. sides[h] = patch.loaded /\ sides'[h] = side /\ m = patch.loaded
        BY <1>11, <1>12, <1>13, <2>1, <3>4
      <4>2. /\ h \notin torn /\ sides[h].complete => sides[h].sha = disk[h]
            /\ h \notin crashed => sides[h].counts = Len(disk[h])
        BY <3>1, <3>4
      <4>3. side.counts = sides[h].counts /\ side.sha = sides[h].sha
        BY <1>7, <4>1
      <4>4. h \notin crashed => side.counts = Len(disk[h])
        BY <4>2, <4>3
      <4>5. h \notin torn /\ side.complete => side.sha = disk[h]
        BY <1>10, <4>1, <4>2, <4>3
      <4>6. QED
        BY <3>4, <4>1, <4>4, <4>5
    <3>5. CASE g = h /\ patch.loaded = NoSide
      <4>1. disk[g] \in Seq(Nat)
        BY <1>1, <3>2 DEF FileTypes
      <4>2. Len(disk[g]) # -1
        BY <4>1, SeqLens
      <4>3. QED
        BY <1>10, <1>12, <1>13, <2>1, <3>1, <3>5, <4>2, SideFacts
    <3>6. QED
      BY <3>3, <3>4, <3>5
  <2>2. QED
    BY <1>2, <2>1 DEF ClosedDescribed
<1>20. MarksKept'
  <2>1. ASSUME NEW g \in marked' \ (emptied' \cup overtaken') PROVE g \in Hours /\ Kept(g)'
    <3>1. CASE g = h
      <4>1. patch.keep
        BY <1>1, <1>2, <2>1, <3>1 DEF MarksKept, h
      <4>2. current = h => mem.keep
        BY <1>1, <1>2, <1>13, <1>14, <2>1, <3>1, <4>1 DEF MarksKept, Kept, h
      <4>3. QED
        BY <1>2, <1>3, <1>8, <1>12, <1>13, <2>1, <3>1, <4>1, <4>2 DEF Kept
    <3>2. CASE g # h
      <4>1. g \in Hours /\ Kept(g)
        BY <1>1, <1>2, <1>14, <2>1, <3>2 DEF MarksKept
      <4>2. QED
        BY <1>2, <1>12, <3>2, <4>1 DEF Kept
    <3>3. QED
      BY <3>1, <3>2
  <2>2. patch'.at = "idle"
    BY <1>2 DEF IdlePatch
  <2>3. QED
    BY <2>1, <2>2 DEF MarksKept
<1>21. QED
  BY <1>15, <1>16, <1>17, <1>18, <1>19, <1>20 DEF FilesInv

LEMMA FilesInit == Init => FilesInv
<1> SUFFICES ASSUME Init PROVE FilesInv
  OBVIOUS
<1>1. FileTypes
  <2>1. IdlePatch \in Patches
    BY SideFacts DEF IdlePatch, Patches
  <2>2. QED
    BY <2>1, SideFacts, SeqTypes DEF Init, FileTypes
<1>2. Hashed /\ Contents /\ OpenIncomplete /\ ClosedDescribed /\ OpenCounted
  BY DEF Init, Hashed, Contents, OpenIncomplete, ClosedDescribed, OpenCounted
<1>3. MarksKept
  BY DEF Init, MarksKept, IdlePatch
<1>4. Placed
  <2>1. n = 0 /\ ToSet(buf) = {} /\ ToSet(pending) = {} /\ gone = {} /\ \A h \in Hours : OnDisk[h] = {}
    BY SeqSets DEF Init, OnDisk
  <2>2. QED
    BY <2>1 DEF Placed, Placement
<1>5. QED
  BY <1>1, <1>2, <1>3, <1>4 DEF FilesInv

LEMMA FilesStep ==
  ASSUME ClockInv, FilesInv, ListedInv, Next
  PROVE  FilesInv'
<1> USE DEF clockVars, logVars, diskVars, bounds, hist
<1>1. FileTypes /\ Hashed /\ MarksKept /\ current \in Hours \cup {NoHour} /\ NoHour \notin Hours
  BY NoneFacts DEF FilesInv, FileTypes
<1>2. synced \in [Hours -> Nat] /\ patch \in Patches /\ victims \in SUBSET Hours
  BY <1>1 DEF FileTypes
<1>3. ASSUME NEW t \in Slots, NoteUtc(t) PROVE FilesInv'
  <2>1. UNCHANGED <<n, inHand, pending, files, disk, synced, sides, patch, victims, gone, overtaken, torn, crashed,
                    emptied, marked>>
    BY <1>3 DEF NoteUtc, inHand
  <2>2. QED
    BY <1>2, <2>1, FilesStill
<1>4. ASSUME Pass \/ PruneList \/ PruneEnough \/ DeleteCheck
             \/ \E h \in Hours, forced \in BOOLEAN : DeleteList(h, forced)
      PROVE  FilesInv'
  <2>1. /\ UNCHANGED <<n, inHand, pending, files, disk, synced, sides, patch, gone, overtaken, torn, crashed,
                       emptied, marked>>
        /\ victims' \in SUBSET Hours
    BY <1>1, <1>2, <1>4 DEF Pass, PruneList, PruneEnough, DeleteCheck, DeleteList, Prunable,
       inHand, FileTypes
  <2>2. QED
    BY <1>2, <2>1, FilesStill
<1>5. ASSUME Fsync PROVE FilesInv'
  <2>1. /\ UNCHANGED <<n, inHand, pending, files, disk, sides, patch, victims, gone, overtaken, torn, crashed,
                       emptied, marked>>
        /\ current # NoHour /\ synced' = [synced EXCEPT ![current] = Len(disk[current])]
    BY <1>5 DEF Fsync, inHand
  <2>2. Len(disk[current]) \in Nat
    BY <1>1, <2>1 DEF FileTypes
  <2>3. synced' \in [Hours -> Nat]
    BY <1>2, <2>1, <2>2
  <2>4. QED
    BY <1>2, <2>1, <2>3, FilesStill
<1>6. ASSUME PatchLoad PROVE FilesInv'
  <2>1. /\ UNCHANGED <<n, inHand, pending, files, disk, synced, sides, victims, gone, overtaken, torn, crashed,
                       emptied, marked>>
        /\ patch.at = "load" /\ patch' = [patch EXCEPT !.at = "dump", !.loaded = sides[patch.hour]]
    BY <1>6 DEF PatchLoad, inHand
  <2>2. sides[patch.hour] \in Sides
    BY <1>1, <2>1 DEF FileTypes, MarksKept
  <2>3. patch' \in Patches /\ patch'.keep = patch.keep /\ patch'.told = patch.told /\ patch'.hour = patch.hour
    BY <1>2, <2>1, <2>2 DEF Patches
  <2>4. QED
    BY <1>2, <2>1, <2>3, FilesStill
<1>7. ASSUME NEW h \in Hours, n' = n + 1, WriteIn(h, <<n + 1>>),
             UNCHANGED <<patch, victims, overtaken, torn, crashed, emptied, marked>>
      PROVE  FilesInv'
  <2>1. CASE h = current
    <3>1. current # NoHour /\ WriteIn(current, <<n + 1>>)
      BY <1>1, <1>7, <2>1
    <3>2. QED
      BY <1>7, <3>1, FilesAppend
  <2>2. CASE h # current
    BY <1>7, <2>2, FilesRotate
  <2>3. QED
    BY <2>1, <2>2
<1>8. ASSUME NEW t \in Slots, HostClock(t) PROVE FilesInv'
  <2>1. PICK h \in Hours : h = HourOf(t)
    BY <1>8, HourFacts
  <2>2. n' = n + 1 /\ WriteIn(h, <<n + 1>>) /\ UNCHANGED <<patch, victims, overtaken, torn, crashed, emptied, marked>>
    BY <1>8, <2>1 DEF HostClock
  <2>3. QED
    BY <1>7, <2>1, <2>2
<1>9. ASSUME Handle PROVE FilesInv'
  <2>1. PICK h \in Hours : h = NamedHour
    BY <1>9, NamedFacts DEF Handle
  <2>2. n' = n + 1 /\ WriteIn(h, <<n + 1>>) /\ UNCHANGED <<patch, victims, overtaken, torn, crashed, emptied, marked>>
    BY <1>9, <2>1 DEF Handle
  <2>3. QED
    BY <1>7, <2>1, <2>2
<1>10. ASSUME BufferPending PROVE FilesInv'
  <2>1. /\ n' = n + 1 /\ pending' = Append(pending, n + 1)
        /\ UNCHANGED <<inHand, files, disk, synced, sides, patch, victims, gone, overtaken, torn, crashed,
                       emptied, marked>>
    BY <1>10 DEF BufferPending, inHand
  <2>2. QED
    BY <2>1, FilesWait
<1>11. ASSUME TickCloses PROVE FilesInv'
  <2>1. /\ ApplyFS(Closed) /\ current' = NoHour /\ mem' = NoSide /\ hasher' = <<>> /\ buf' = <<>> /\ unlinked' = FALSE
        /\ UNCHANGED <<n, overtaken, torn, crashed, emptied, marked, pending, patch, victims>>
        /\ gone' = (IF unlinked THEN gone \cup ToSet(hasher) ELSE gone)
    BY <1>11 DEF TickCloses
  <2>2. unlinked => gone \cup ToSet(hasher) = gone \cup ToSet(buf)
    BY <1>1 DEF Hashed
  <2>3. gone' = (IF unlinked THEN gone \cup ToSet(buf) ELSE gone)
    BY <2>1, <2>2
  <2>4. QED
    BY <2>1, <2>3, FilesClose
<1>12. ASSUME StopWriter PROVE FilesInv'
  <2>1. /\ ApplyFS(Closed) /\ current' = NoHour /\ mem' = NoSide /\ hasher' = <<>> /\ buf' = <<>> /\ unlinked' = FALSE
        /\ UNCHANGED <<n, overtaken, torn, crashed, emptied, marked>>
        /\ pending' = <<>> /\ patch' = IdlePatch /\ victims' = {}
        /\ gone' = gone \cup ToSet(pending) \cup (IF unlinked THEN ToSet(buf) ELSE {})
    BY <1>12 DEF StopWriter, FreshWriter
  <2>2. gone' = (IF unlinked THEN gone \cup ToSet(buf) ELSE gone) \cup ToSet(pending)
    BY <2>1
  <2>3. QED
    BY <2>1, <2>2, FilesClose
<1>13. ASSUME NEW h \in Hours, NEW keep \in BOOLEAN, Patch(h, keep) PROVE FilesInv'
  BY <1>13, FilesPatch
<1>14. QED
  BY <1>3, <1>4, <1>5, <1>6, <1>8, <1>9, <1>10, <1>11, <1>12, <1>13, FilesFlush, FilesCut, FilesKilled, FilesRecover,
     FilesDump, FilesDeleted, FilesKilledInDelete DEF Next

\* A listing is of what is marked when it is made, and a mark that comes while
\* it is in use is not one that is promised to stay.
LEMMA ListedStep ==
  ASSUME FilesInv, ListedInv, Next
  PROVE  ListedInv'
<1> USE DEF clockVars, logVars, diskVars, bounds, hist
<1>1. /\ MarksKept /\ deleting \in Deletes /\ Listed \cap marked \subseteq emptied \cup overtaken
      /\ deleting.at # "idle" => deleting.hour \in Hours
      /\ deleting.at = "unlink" => ~deleting.keep
  BY DEF FilesInv, ListedInv
<1>2. NoDelete \in Deletes /\ NoDelete.at = "idle"
  BY NoneFacts DEF NoDelete, Deletes
<1>3. ASSUME UNCHANGED <<victims, deleting>>, marked' \subseteq marked,
             emptied \subseteq emptied', overtaken \subseteq overtaken'
      PROVE  ListedInv'
  <2>1. Listed' = Listed
    BY <1>3 DEF Listed
  <2>2. QED
    BY <1>1, <1>3, <2>1 DEF ListedInv
<1>4. ASSUME \/ \E t \in Slots : NoteUtc(t) \/ HostClock(t)
             \/ Pass \/ Handle \/ BufferPending \/ TickCloses \/ TickFlushes \/ Fsync \/ Recover \/ PatchLoad
             \/ \E h \in Hours, keep \in BOOLEAN : Patch(h, keep)
      PROVE  ListedInv'
  <2>1. UNCHANGED <<victims, deleting, emptied, overtaken>> /\ marked' \subseteq marked
    BY <1>4 DEF NoteUtc, HostClock, Pass, Handle, BufferPending, TickCloses, TickFlushes, Fsync, Recover,
       PatchLoad, Patch
  <2>2. QED
    BY <1>3, <2>1
<1>5. ASSUME StopWriter \/ PowerCut \/ KillInRotate \/ KillInDelete PROVE ListedInv'
  <2>1. victims' = {} /\ deleting' = NoDelete
    BY <1>5 DEF StopWriter, PowerCut, KillInRotate, KillInDelete
  <2>2. Listed' = {}
    BY <1>2, <2>1 DEF Listed
  <2>3. QED
    BY <1>2, <2>1, <2>2 DEF ListedInv
<1>6. ASSUME PatchDump PROVE ListedInv'
  <2>1. /\ UNCHANGED <<victims, deleting, emptied>> /\ overtaken \subseteq overtaken'
        /\ marked' \subseteq marked \cup ({patch.hour} \ Listed)
    BY <1>6 DEF PatchDump
  <2>2. Listed' = Listed
    BY <2>1 DEF Listed
  <2>3. QED
    BY <1>1, <2>1, <2>2 DEF ListedInv
<1>7. \A h \in files : ~sides[h].keep => h \notin marked \/ h \in emptied \cup overtaken
  BY <1>1 DEF MarksKept, Kept
<1>8. ASSUME PruneList PROVE ListedInv'
  <2>1. victims' = Prunable /\ UNCHANGED <<deleting, marked, emptied, overtaken>>
    BY <1>8 DEF PruneList
  <2>2. Listed' \subseteq Prunable \cup Listed
    BY <2>1 DEF Listed
  <2>3. \A h \in Prunable : h \notin marked \/ h \in emptied \cup overtaken
    BY <1>7 DEF Prunable
  <2>4. QED
    BY <1>1, <2>1, <2>2, <2>3 DEF ListedInv
<1>9. ASSUME PruneDelete \/ PruneEnough PROVE ListedInv'
  <2>1. /\ victims' \subseteq victims /\ UNCHANGED <<deleting, marked, emptied>>
        /\ overtaken \subseteq overtaken'
    BY <1>9 DEF PruneDelete, PruneEnough, Unlink
  <2>2. Listed' \subseteq Listed
    BY <2>1 DEF Listed
  <2>3. QED
    BY <1>1, <2>1, <2>2 DEF ListedInv
<1>10. ASSUME NEW h \in Hours, NEW forced \in BOOLEAN, DeleteList(h, forced) PROVE ListedInv'
  <2>1. PICK b \in BOOLEAN :
          deleting' = [at |-> "listed", hour |-> h, keep |-> sides[h].keep, unsure |-> b]
    <3>1. CASE forced \/ \E g \in files : g > h
      BY <1>10, <3>1 DEF DeleteList
    <3>2. CASE ~(forced \/ \E g \in files : g > h)
      BY <1>10, <3>2 DEF DeleteList
    <3>3. QED
      BY <3>1, <3>2
  <2>2. h \in files /\ UNCHANGED <<victims, marked, emptied, overtaken>>
    BY <1>10 DEF DeleteList
  <2>3. sides[h] \in Sides
    BY DEF FilesInv, FileTypes
  <2>4. sides[h].keep \in BOOLEAN
    BY <2>3 DEF Sides
  <2>5. deleting' \in Deletes
    BY <2>1, <2>4 DEF Deletes
  <2>6. deleting'.at = "listed" /\ deleting'.hour = h /\ deleting'.keep = sides[h].keep
    BY <2>1
  <2>7. Listed' \subseteq Listed \cup (IF sides[h].keep THEN {} ELSE {h})
    BY <2>2, <2>4, <2>6 DEF Listed
  <2>8. Listed' \cap marked' \subseteq emptied' \cup overtaken'
    BY <1>1, <1>7, <2>2, <2>4, <2>7
  <2>9. QED
    BY <2>5, <2>6, <2>8 DEF ListedInv
<1>11. ASSUME DeleteCheck \/ DeleteUnlink PROVE ListedInv'
  <2>1. /\ UNCHANGED <<victims, marked, emptied>> /\ overtaken \subseteq overtaken'
        /\ \/ deleting' = NoDelete
           \/ deleting.at = "listed" /\ ~deleting.keep /\ deleting' = [deleting EXCEPT !.at = "unlink"]
    BY <1>11 DEF DeleteCheck, DeleteUnlink, Unlink, Refused
  <2>2. CASE deleting' = NoDelete
    <3>1. Listed' \subseteq Listed
      BY <1>2, <2>1, <2>2 DEF Listed
    <3>2. QED
      BY <1>1, <1>2, <2>1, <2>2, <3>1 DEF ListedInv
  <2>3. CASE deleting.at = "listed" /\ ~deleting.keep /\ deleting' = [deleting EXCEPT !.at = "unlink"]
    <3>1. /\ deleting' \in Deletes /\ deleting'.at = "unlink"
          /\ deleting'.hour = deleting.hour /\ deleting'.keep = deleting.keep
      BY <1>1, <2>3 DEF Deletes
    <3>2. Listed' = Listed
      BY <2>1, <2>3, <3>1 DEF Listed
    <3>3. QED
      BY <1>1, <2>1, <2>3, <3>1, <3>2 DEF ListedInv
  <2>4. QED
    BY <2>1, <2>2, <2>3
<1>12. QED
  BY <1>4, <1>5, <1>6, <1>8, <1>9, <1>10, <1>11 DEF Next

-----------------------------------------------------------------------------
(* Every hour is whole *)

\* The inductive invariant: the clock, and for every file what is on disk, in
\* the buffer, in the hasher and in the sidecars (handle, _rotate, tick, run's
\* end, recover_incomplete, the PATCH and retention).
THEOREM LogInvariant == Spec => []LogInv
<1>1. Init => LogInv
  <2>1. Init => ListedInv
    BY NoneFacts DEF Init, ListedInv, Deletes, NoDelete, Listed
  <2>2. QED
    BY <2>1, ClockInit, FilesInit DEF LogInv
<1>2. LogInv /\ [Next]_vars => LogInv'
  <2>1. ASSUME LogInv, Next PROVE LogInv'
    BY <2>1, ClockStep, FilesStep, ListedStep DEF LogInv
  <2>2. ASSUME LogInv, UNCHANGED vars PROVE LogInv'
    <3>1. /\ UNCHANGED clock /\ UNCHANGED <<n, current>> /\ n \in Nat
          /\ UNCHANGED <<n, inHand, pending, files, disk, sides, gone, overtaken, torn, crashed, emptied, marked>>
          /\ UNCHANGED <<synced, patch, victims, deleting>>
      BY <2>2 DEF vars, clock, inHand, clockVars, logVars, diskVars, bounds, hist, LogInv, ClockInv, ClockTypes
    <3>2. synced \in [Hours -> Nat] /\ patch \in Patches /\ victims \in SUBSET Hours
      BY <2>2 DEF LogInv, FilesInv, FileTypes
    <3>3. ListedInv'
      BY <2>2, <3>1 DEF LogInv, ListedInv, Listed
    <3>4. QED
      BY <2>2, <3>1, <3>2, <3>3, ClockStill, FilesStill DEF LogInv
  <2>3. QED
    BY <2>1, <2>2
<1>3. QED
  BY <1>1, <1>2, PTL DEF Spec

LEMMA CompleteFollows == FilesInv => CompleteMatchesFile
<1> SUFFICES ASSUME FilesInv PROVE CompleteMatchesFile
  OBVIOUS
<1>1. FileTypes /\ Hashed /\ OpenIncomplete /\ ClosedDescribed /\ NoHour \notin Hours
  BY NoneFacts DEF FilesInv
<1>2. ASSUME NEW h \in files \ overtaken, sides[h].complete
      PROVE  (h \notin torn => h # current /\ sides[h].sha = disk[h]) /\ (h \notin crashed => sides[h].counts = Len(disk[h]))
  <2>1. h # current
    BY <1>1, <1>2 DEF Hashed, OpenIncomplete, FileTypes
  <2>2. QED
    BY <1>1, <1>2, <2>1 DEF ClosedDescribed
<1>3. QED
  BY <1>2 DEF CompleteMatchesFile

LEMMA OnceFollows == FilesInv => EveryFrameOnce
<1> SUFFICES ASSUME FilesInv, NEW f \in 1 .. n
             PROVE  LET places == {h \in files : f \in ToSet(disk[h])}
                    IN IF f \in gone THEN places = {}
                       ELSE Cardinality(places) + (IF f \in ToSet(buf) THEN 1 ELSE 0)
                                                + (IF f \in ToSet(pending) THEN 1 ELSE 0) = 1
  BY DEF EveryFrameOnce
<1> DEFINE places == {h \in files : f \in ToSet(disk[h])}
<1>1. FileTypes /\ Contents /\ Placement(n, OnDisk, ToSet(buf), ToSet(pending), gone)
  BY DEF FilesInv, Placed
<1>2. files \subseteq Hours /\ \A h \in Hours : OnDisk[h] = ToSet(disk[h])
  BY <1>1 DEF FileTypes, OnDisk
<1>3. \A h \in Hours : f \in ToSet(disk[h]) => h \in files
  <2>1. \A h \in Hours \ files : ToSet(disk[h]) = {}
    BY <1>1, SeqSets DEF Contents
  <2>2. QED
    BY <2>1
<1>4. Cardinality({}) = 0 /\ \A h : Cardinality({h}) = 1
  BY FS_EmptySet, FS_Singleton
<1>5. CASE f \in gone \/ f \in ToSet(buf) \/ f \in ToSet(pending)
  <2>1. places = {}
    BY <1>1, <1>2, <1>5 DEF Placement
  <2>2. /\ f \in gone => f \notin ToSet(buf) /\ f \notin ToSet(pending)
        /\ f \in ToSet(buf) => f \notin ToSet(pending)
    BY <1>1 DEF Placement
  <2>3. QED
    BY <1>4, <1>5, <2>1, <2>2
<1>6. CASE ~(f \in gone \/ f \in ToSet(buf) \/ f \in ToSet(pending))
  <2>1. PICK h \in Hours : f \in ToSet(disk[h])
    BY <1>1, <1>2, <1>6 DEF Placement
  <2>2. \A g \in Hours : f \in ToSet(disk[g]) => g = h
    BY <1>1, <1>2, <2>1 DEF Placement
  <2>3. places = {h}
    BY <1>2, <1>3, <2>1, <2>2
  <2>4. Cardinality(places) = 1
    BY <1>4, <2>3
  <2> HIDE DEF places
  <2>5. f \notin gone /\ f \notin ToSet(buf) /\ f \notin ToSet(pending)
    BY <1>6
  <2>6. Cardinality(places) + (IF f \in ToSet(buf) THEN 1 ELSE 0) + (IF f \in ToSet(pending) THEN 1 ELSE 0) = 1
    BY <2>4, <2>5
  <2>7. QED
    BY <2>5, <2>6 DEF places
<1>7. QED
  BY <1>5, <1>6

LEMMA KeepFollows == FilesInv => KeepIsHonoured
BY DEF FilesInv, MarksKept, Kept, KeepIsHonoured

\* Every frame is in one hour and every finished hour is described by its
\* sidecar, and an hour marked stays, unless the PATCH ended while a listing of
\* retention or of a DELETE that had the hour unmarked was in use, its sidecar
\* changed under it, or a power cut emptied it (RawLogWriter, `_carry_over`,
\* recover_incomplete, set_keep, delete_file and retention), for any number of
\* frames, hours, restarts, crashes, PATCHes, DELETEs and retention passes.
THEOREM HoursAlwaysWhole == Spec => []HoursWhole
<1>1. LogInv => HoursWhole
  BY CompleteFollows, OnceFollows, KeepFollows DEF LogInv, HoursWhole
<1>2. QED
  BY <1>1, LogInvariant, PTL

=============================================================================
