------------------------------ MODULE MC_Live -------------------------------
(***************************************************************************)
(* The streams of a base station, from the bus to its consumers and from   *)
(* the caster to the rovers, checked in one run. They share no variable:   *)
(* `part` chooses which of them a behaviour is about, and the other rests. *)
(***************************************************************************)
EXTENDS Bus

CONSTANTS
  Rovers, V2, QMax, Grace, Plans  \* of NtripCaster

\* A rover's queue has room for a frame.
ASSUME CasterAssumption == QMax \in Nat \ {0}

VARIABLES
  part,       \* what the behaviour is about; never changes
  plan, feed, last, conns, at, casterQueue, casterDropped, stop_reason, slow, gga,
  reason, peer, row, log_row, stopping, stopper, waited, wire, casterOffered, joined

casterVars == <<plan, feed, last, conns, at, casterQueue, casterDropped, stop_reason,
                slow, gga, reason, peer, row, log_row, stopping, stopper, waited, wire,
                casterOffered, joined>>
hostVars == <<published, status, queue, dropped, highWaterHits, offered, got, ended>>
allVars == <<part, hostVars, casterVars>>

CasterPlan(rovers, max, frames, faults) ==
  [rovers |-> rovers, max |-> max, frames |-> frames, faults |-> faults]

\* One v2 rover and a feed, two rovers for one place, two rovers and a database
\* that fails or hangs.
CasterPlans ==
  { CasterPlan({"r1"}, 1, 3, {}), CasterPlan({"r1", "r2"}, 1, 0, {}),
    CasterPlan({"r1", "r2"}, 2, 0, {"db_hangs"}),
    CasterPlan({"r1", "r2"}, 2, 0, {"db_hangs", "db_fails"}) }

NtripCaster == INSTANCE NtripCaster WITH
  queue <- casterQueue, dropped <- casterDropped, offered <- casterOffered

\* The raw logger and one live consumer.
BusMatches == [s \in Subs |-> IF s = "state" THEN {"raw", "fix"} ELSE {"raw"}]

Parts == {"bus", "caster"}

\* The parts a behaviour is not about stand still in one of their states.
MCInit ==
  /\ part \in Parts
  /\ Init
  /\ IF part = "caster" THEN TRUE ELSE plan = CasterPlan({"r1"}, 1, 3, {})
  /\ NtripCaster!Init

MCNext ==
  /\ UNCHANGED part
  /\ \/ /\ part = "bus" /\ Next
        /\ UNCHANGED <<casterVars>>
     \/ /\ part = "caster" /\ NtripCaster!Next
        /\ UNCHANGED <<hostVars>>

MCSpec == MCInit /\ [][MCNext]_allVars /\ Fairness /\ NtripCaster!Fairness

\* NtripCaster: a rover's stream starts with the base's position and misses only what
\* was counted, and a rover that is gone has left nothing behind.
RoversServed == NtripCaster!RoversServed

\* NtripCaster: a stream that is asked to end does, and stop() returns.
StreamsEnd == NtripCaster!StreamsEnd

=============================================================================
