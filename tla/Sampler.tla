------------------------------- MODULE Sampler -------------------------------
(***************************************************************************)
(* The history writer (src/mtrtk/store/sampler.py): one row per receiver   *)
(* second, an aggregate when a minute is left, retention, and a daemon     *)
(* that stops or dies at any point.                                        *)
(***************************************************************************)
EXTENDS Naturals, FiniteSets

CONSTANTS
  MaxTs,     \* bound: the last receiver second
  Minute,    \* seconds in a minute
  Keep1s,    \* keep_1s_s
  Keep1m,    \* keep_1m_s
  MaxBacks,  \* bound: times the receiver's clock steps back
  MaxFails,  \* bound: statements that fail (a full disk)
  MaxStarts  \* bound: starts of the daemon

NoMinute == MaxTs + 1   \* _current_minute is None
Minutes == 0..(MaxTs \div Minute)
MinuteOf(ts) == ts \div Minute

VARIABLES
  sampler,    \* where `run` stands: "off", "loop", "rollup", "prune"
  epochTs,    \* the receiver's second
  current,    \* _current_minute
  samples1s,  \* samples_1s: the seconds that have a row
  samples1m,  \* samples_1m: n of each minute's aggregate, 0 for none
  failing,    \* _failing
  reports,    \* what was published last: "none", "error", "recovered"
  backs, diskFails, starts,
  lost        \* history: minutes whose rollup failed or that a crash cut short

rows == <<samples1s, samples1m>>
signal == <<failing, reports>>
limits == <<backs, diskFails, starts>>
state == <<sampler, epochTs, current, rows, signal, limits, lost>>

Init ==
  /\ sampler = "off" /\ epochTs = 0 /\ current = NoMinute
  /\ samples1s = {} /\ samples1m = [m \in Minutes |-> 0]
  /\ failing = FALSE /\ reports = "none"
  /\ backs = 0 /\ diskFails = 0 /\ starts = 0 /\ lost = {}

RowsOf(m) == {ts \in samples1s : MinuteOf(ts) = m}

\* A new daemon, a new Sampler: what is in memory starts over.
Start ==
  /\ sampler = "off" /\ starts < MaxStarts
  /\ sampler' = "loop" /\ starts' = starts + 1
  /\ current' = NoMinute /\ failing' = FALSE /\ reports' = "none"
  /\ UNCHANGED <<epochTs, rows, backs, diskFails, lost>>

\* `_failed`: the first of an outage is published, the rest are counted.
Failed ==
  /\ diskFails < MaxFails /\ diskFails' = diskFails + 1
  /\ failing' = TRUE
  /\ reports' = IF failing THEN reports ELSE "error"
  /\ sampler' = "loop"
  /\ UNCHANGED <<backs, starts>>

Recovered ==
  /\ failing' = FALSE
  /\ reports' = IF failing THEN "recovered" ELSE reports

\* `_on_epoch` up to the insert: an epoch of this second, of a later one or of
\* an earlier one.  Two epochs of one second share a row.  The minute it leaves
\* is rolled up next.
Insert(ts) ==
  /\ sampler = "loop"
  /\ \/ ts >= epochTs /\ UNCHANGED backs
     \/ ts < epochTs /\ backs < MaxBacks /\ backs' = backs + 1
  /\ epochTs' = ts
  /\ samples1s' = samples1s \union {ts}
  /\ sampler' = IF current \notin {NoMinute, MinuteOf(ts)} THEN "rollup" ELSE "prune"
  /\ current' = IF current \notin {NoMinute, MinuteOf(ts)} THEN current ELSE MinuteOf(ts)
  /\ UNCHANGED <<samples1m, signal, diskFails, starts, lost>>

\* The insert fails: the epoch's minute is never looked at.
InsertFails(ts) ==
  /\ sampler = "loop" /\ ts >= epochTs /\ epochTs' = ts
  /\ Failed
  /\ UNCHANGED <<current, rows, lost>>

\* `rollup_minute` of m: a minute without rows keeps the aggregate it has.
Aggregate(m) ==
  samples1m' = IF RowsOf(m) = {} THEN samples1m
               ELSE [samples1m EXCEPT ![m] = Cardinality(RowsOf(m))]

\* The rollup of the minute left.
Rollup ==
  /\ sampler = "rollup"
  /\ Aggregate(current)
  /\ current' = MinuteOf(epochTs) /\ sampler' = "prune"
  /\ lost' = lost \ {current}
  /\ UNCHANGED <<epochTs, samples1s, signal, limits>>

\* It fails: `_current_minute` moves on all the same.
RollupFails ==
  /\ sampler = "rollup"
  /\ current' = MinuteOf(epochTs) /\ lost' = lost \union {current}
  /\ Failed
  /\ UNCHANGED <<epochTs, rows>>

\* `prune` at the receiver's time, in one transaction, when an hour has passed;
\* either way the epoch ends with `_recovered`.
Prune ==
  /\ sampler = "prune" /\ sampler' = "loop"
  /\ \/ /\ samples1s' = {ts \in samples1s : ts + Keep1s >= epochTs}
        /\ samples1m' = [m \in Minutes |-> IF m * Minute + Keep1m >= epochTs THEN samples1m[m] ELSE 0]
     \/ UNCHANGED rows
  /\ Recovered
  /\ UNCHANGED <<epochTs, current, limits, lost>>

PruneFails ==
  /\ sampler = "prune"
  /\ Failed
  /\ UNCHANGED <<epochTs, current, rows, lost>>

\* Mutant of FinalRollup: a stop leaves the minute in progress as it is.
FinalRollupNot == UNCHANGED <<samples1m, lost, diskFails>>

\* `_final_rollup`: the minute in progress, or its failure.
FinalRollup ==
  \/ current = NoMinute /\ UNCHANGED <<samples1m, lost, diskFails>>
  \/ current # NoMinute /\ Aggregate(current) /\ lost' = lost \ {current} /\ UNCHANGED diskFails
  \/ /\ current # NoMinute /\ diskFails < MaxFails /\ diskFails' = diskFails + 1
     /\ lost' = lost \union {current} /\ UNCHANGED samples1m

\* The stop event closes the subscription; the loop drains it and ends.
Stop ==
  /\ sampler = "loop" /\ sampler' = "off"
  /\ FinalRollup /\ current' = NoMinute
  /\ UNCHANGED <<epochTs, samples1s, signal, backs, starts>>

\* The process dies.
Crash ==
  /\ sampler # "off" /\ sampler' = "off"
  /\ lost' = lost \union ({current, MinuteOf(epochTs)} \ {NoMinute})
  /\ current' = NoMinute
  /\ UNCHANGED <<epochTs, rows, signal, limits>>

Next ==
  \/ Start \/ Rollup \/ RollupFails \/ Prune \/ PruneFails \/ Stop \/ Crash
  \/ \E ts \in 0..MaxTs : Insert(ts) \/ InsertFails(ts)

-----------------------------------------------------------------------------

\* The minute series has no hole: a minute that was left, or in progress when
\* the daemon stopped, has an aggregate that counts every row it still has,
\* through restarts, stepping clocks and retention; the exceptions are the
\* minutes whose rollup failed and the one a crash cut short.
NoHole ==
  \A m \in Minutes \ lost :
    (m # current /\ RowsOf(m) # {} /\ ~(sampler = "rollup" /\ m = MinuteOf(epochTs)))
      => samples1m[m] >= Cardinality(RowsOf(m))

=============================================================================
