---------------------------- MODULE OutletProofs ----------------------------
(***************************************************************************)
(* Proofs about Receiver, for every plan, any number of outages, requests  *)
(* and faults, and any length of the backoff ladder; about Outputs, for    *)
(* every set of sinks and of clients; and about WsHub, for every set of    *)
(* sockets and every size of the queues.                                   *)
(*                                                                         *)
(* Receiver: ReceiverInv says what has been said of an outage, who has the *)
(* configure lock and what is in RAM and in flash.  Outputs: what a client *)
(* has still to read follows what it has read, up to the epoch to come.    *)
(* WsHub: what the subscription ends in is the present state (BacklogInv), *)
(* which is what a snapshot taken behind it will be brought up to.         *)
(***************************************************************************)
EXTENDS MC_Receiver, FiniteSetTheorems, WellFoundedInduction, TLAPS

-----------------------------------------------------------------------------
(* Receiver *)

Places == {"open", "configuring", "configured", "watching", "backoff", "ended", "failed"} \cup Leaving
InSession == {"configuring", "configured", "watching"} \cup Leaving
Stages == {"idle", "wait", "apply", "verify"}
Ops == [at : Stages, first : BOOLEAN, gen : Nat, kind : {"none", "hot", "factory"}]

TypeInv ==
  /\ plan \in Plans
  /\ plugged \in BOOLEAN /\ ram \in BOOLEAN /\ flash \in BOOLEAN /\ wire \in BOOLEAN
  /\ at \in Places /\ stop \in BOOLEAN
  /\ link \in {"none", "live", "stopped"} /\ gen \in Nat
  /\ first \in BOOLEAN /\ once \in BOOLEAN /\ reported \in BOOLEAN /\ swapped \in BOOLEAN
  /\ op \in [Users -> Ops]

\* The ladder counts the waits since a session was last configured.
Ladder == fails \in 0 .. MaxBackoff + 1 /\ backoff = Min2(fails, MaxBackoff)

\* What has been said of the outage follows the flag, between sessions; in a
\* session nothing has been said yet.
Reports ==
  /\ at \in InSession => said = 0
  /\ at = "open" => said = (IF reported THEN 1 ELSE 0) /\ (failures # {} => reported)
  /\ at = "backoff" => said = 1 /\ reported
  /\ said \in {0, 1}

\* A session that configures or watches has a link.
SessionLinked == at \in {"configuring", "configured", "watching"} => link = "live"

\* The session uses the lock while it configures, and only then.
SessionAsks == at = "configuring" <=> op["session"].at # "idle"

\* A reset that does not wait behind a configure is the holder of the lock,
\* and no session opens or configures before it has run.
ResetFirst ==
  op["reset"].at # "idle" /\ "reset_queued" \notin plan.kinds =>
    /\ queue \in Seq(Users) /\ queue # <<>> /\ Head(queue) = "reset"
    /\ op["reset"].at = "wait" /\ at \in {"watching"} \cup Leaving /\ link = "live"

\* `_first_apply`, and the copy of it a configure works with, stay up until
\* flash has the profile; RAM never has it alone.
FlashFirst ==
  ~swapped /\ "reset_queued" \notin plan.kinds =>
    /\ ram => flash
    /\ ~first => flash
    /\ at = "configured" => flash
    /\ op["session"].at # "idle" /\ ~op["session"].first => flash

\* reapply() writes every layer, and only a reset that waits wipes the device.
ReapplyWrites ==
  /\ op["reapply"].at # "idle" => op["reapply"].first
  /\ op["reset"].at = "idle" => op["reset"].kind = "none"

ReceiverInv ==
  TypeInv /\ Ladder /\ Reports /\ SessionLinked /\ SessionAsks /\ ResetFirst /\ FlashFirst
  /\ ReapplyWrites

-----------------------------------------------------------------------------
(* Lemmas *)

\* The fields of a user of the lock, at rest or not.
LEMMA OpFacts ==
  /\ Idle \in Ops /\ Idle.at = "idle" /\ Idle.kind = "none"
  /\ \A x \in Stages, f \in BOOLEAN, g \in Nat, k \in {"none", "hot", "factory"} :
       LET o == [at |-> x, first |-> f, gen |-> g, kind |-> k]
       IN  o \in Ops /\ o.at = x /\ o.first = f /\ o.gen = g /\ o.kind = k
BY DEF Idle, Ops, Stages

\* A step that leaves the waits alone leaves the ladder alone.
LEMMA LadderStill ==
  ASSUME Ladder, UNCHANGED <<backoff, fails>>
  PROVE  Ladder'
BY DEF Ladder, Min2

\* A step that touches neither the device's memory nor the lock, and moves
\* run() only within a session or out of one.
LEMMA LocksStill ==
  ASSUME ReceiverInv, UNCHANGED <<plan, ram, flash, op, queue, first, swapped>>,
         at' = at \/ {at, at'} \cap {"configuring", "configured"} = {},
         op["reset"].at # "idle" /\ "reset_queued" \notin plan.kinds
           => at' \in {"watching"} \cup Leaving /\ link' = "live"
  PROVE  SessionAsks' /\ ResetFirst' /\ FlashFirst' /\ ReapplyWrites'
<1>1. SessionAsks' /\ FlashFirst' /\ ReapplyWrites'
  BY DEF ReceiverInv, SessionAsks, FlashFirst, ReapplyWrites
<1>2. ResetFirst'
  BY DEF ReceiverInv, ResetFirst
<1>3. QED
  BY <1>1, <1>2

\* A user of the lock other than the one named is left alone.
LEMMA Asked ==
  ASSUME ReceiverInv, NEW a \in Users, NEW o \in Ops, Ask(a, o)
  PROVE  /\ op' \in [Users -> Ops] /\ op'[a] = o /\ \A b \in Users : b # a => op'[b] = op[b]
         /\ queue \in Seq(Users) => queue' \in Seq(Users) /\ queue' # <<>>
         /\ queue \in Seq(Users) /\ queue # <<>> => Head(queue') = Head(queue)
         /\ queue = <<>> => queue' = <<a>>
<1>1. op \in [Users -> Ops]
  BY DEF ReceiverInv, TypeInv
<1>2. op' \in [Users -> Ops] /\ op'[a] = o /\ \A b \in Users : b # a => op'[b] = op[b]
  BY <1>1 DEF Ask
<1>3. queue \in Seq(Users) => queue' \in Seq(Users) /\ queue' # <<>>
  BY DEF Ask
<1>4. queue \in Seq(Users) /\ queue # <<>> => Head(queue') = Head(queue)
  BY DEF Ask
<1>5. queue = <<>> => queue' = <<a>>
  BY DEF Ask
<1>6. QED
  BY <1>2, <1>3, <1>4, <1>5

\* A waiting reset is ahead of any configure, so a configure that gives the
\* lock back, or goes on with it, leaves no reset waiting.
LEMMA NoResetBehind ==
  ASSUME ReceiverInv, NEW a \in Users, Held(a), a # "reset", "reset_queued" \notin plan.kinds
  PROVE  op["reset"].at = "idle"
BY DEF ReceiverInv, ResetFirst, Held

-----------------------------------------------------------------------------
(* Steps *)

\* run() between sessions, and the ends of a session.
LEMMA StepRun ==
  ASSUME ReceiverInv, UNCHANGED plan,
         \/ \E r \in Reasons : OpenFails(r)
         \/ StoppedBetween \/ WatchdogFires \/ WatchdogStops \/ SourceEnds
         \/ LinkStops \/ SessionEnds \/ StopRequested \/ UNCHANGED vars
  PROVE  ReceiverInv'
<1> USE DEF device, flags, locks, history, Leaving
<1>1. UNCHANGED <<plan, plugged, ram, flash, wire, gen, first, once, backoff, op, queue, fails, swapped>>
  BY DEF OpenFails, StoppedBetween, WatchdogFires, WatchdogStops, SourceEnds, LinkStops,
         SessionEnds, StopRequested, vars
<1>2. TypeInv'
  <2>1. at' \in Places /\ stop' \in BOOLEAN /\ link' \in {"none", "live", "stopped"} /\ reported' \in BOOLEAN
    BY DEF ReceiverInv, TypeInv, Places, OpenFails, ReportOpenFailure, StoppedBetween, WatchdogFires,
           WatchdogStops, SourceEnds, LinkStops, SessionEnds, StopRequested, vars
  <2>2. QED
    BY <1>1, <2>1 DEF ReceiverInv, TypeInv
<1>3. Ladder'
  BY <1>1, LadderStill DEF ReceiverInv
<1>4. Reports'
  BY DEF ReceiverInv, TypeInv, Reports, InSession, OpenFails, ReportOpenFailure, StoppedBetween,
         WatchdogFires, WatchdogStops, SourceEnds, LinkStops, SessionEnds, StopRequested, vars
<1>5. SessionLinked'
  BY DEF ReceiverInv, SessionLinked, OpenFails, StoppedBetween, WatchdogFires,
         WatchdogStops, SourceEnds, LinkStops, SessionEnds, StopRequested, vars
<1>6. at' = at \/ {at, at'} \cap {"configuring", "configured"} = {}
  BY DEF OpenFails, StoppedBetween, WatchdogFires, WatchdogStops, SourceEnds, LinkStops, SessionEnds,
         StopRequested, vars
<1>7. op["reset"].at # "idle" /\ "reset_queued" \notin plan.kinds
        => at' \in {"watching"} \cup Leaving /\ link' = "live"
  BY DEF ReceiverInv, ResetFirst, Settled, OpenFails, StoppedBetween, WatchdogFires, WatchdogStops,
         SourceEnds, LinkStops, SessionEnds, StopRequested, vars
<1>8. QED
  BY <1>1, <1>2, <1>3, <1>4, <1>5, <1>6, <1>7, LocksStill DEF ReceiverInv

\* A wait ends, or a session has its profile.
LEMMA StepLadder ==
  ASSUME ReceiverInv, UNCHANGED plan, BackoffEnds \/ SessionConfigured
  PROVE  ReceiverInv'
<1> USE DEF device, flags, locks, history
<1>1. UNCHANGED <<plan, plugged, ram, flash, wire, stop, link, gen, op, queue, swapped, reported, failures, said>>
  BY DEF BackoffEnds, SessionConfigured
<1>2. TypeInv'
  <2>1. at' \in Places /\ first' \in BOOLEAN /\ once' \in BOOLEAN
    BY DEF ReceiverInv, TypeInv, Places, BackoffEnds, SessionConfigured
  <2>2. QED
    BY <1>1, <2>1 DEF ReceiverInv, TypeInv
<1>3. Ladder'
  <2>1. MaxBackoff \in Nat
    BY ReceiverAssumption
  <2>2. QED
    BY <2>1 DEF ReceiverInv, Ladder, Min2, BackoffEnds, SessionConfigured
<1>4. Reports' /\ SessionLinked'
  BY <1>1 DEF ReceiverInv, Reports, SessionLinked, InSession, Leaving, BackoffEnds, SessionConfigured
<1>5. SessionAsks' /\ ReapplyWrites'
  BY <1>1 DEF ReceiverInv, SessionAsks, ReapplyWrites, BackoffEnds, SessionConfigured
<1>6. ResetFirst'
  BY <1>1 DEF ReceiverInv, ResetFirst, Leaving, BackoffEnds, SessionConfigured
<1>7. FlashFirst'
  BY <1>1 DEF ReceiverInv, FlashFirst, BackoffEnds, SessionConfigured
<1>8. QED
  BY <1>2, <1>3, <1>4, <1>5, <1>6, <1>7 DEF ReceiverInv

\* A session opens; one that is not passive asks for the lock.
LEMMA StepOpen ==
  ASSUME ReceiverInv, UNCHANGED plan, OpenSucceeds
  PROVE  ReceiverInv'
<1> USE DEF device, flags, locks, history
<1>1. /\ UNCHANGED <<plan, plugged, ram, flash, stop, first, once, reported, failures, swapped>>
      /\ at = "open" /\ link' = "live" /\ gen' = gen + 1 /\ wire' = TRUE /\ said' = 0
  BY DEF OpenSucceeds
<1>2. op["reset"].at # "idle" => "reset_queued" \in plan.kinds
  BY <1>1 DEF ReceiverInv, ResetFirst, Leaving
<1>3. op["session"].at = "idle"
  BY <1>1 DEF ReceiverInv, SessionAsks
<1>4. CASE plan.passive
  <2>1. at' = "watching" /\ backoff' = 0 /\ fails' = 0 /\ UNCHANGED <<op, queue>>
    BY <1>4 DEF OpenSucceeds
  <2>2. TypeInv'
    BY <1>1, <2>1 DEF ReceiverInv, TypeInv, Places
  <2>3. Ladder'
    BY <2>1, ReceiverAssumption DEF Ladder, Min2
  <2>4. Reports' /\ SessionLinked'
    BY <1>1, <2>1 DEF Reports, SessionLinked, InSession
  <2>5. SessionAsks' /\ ReapplyWrites' /\ FlashFirst'
    BY <1>1, <1>3, <2>1 DEF ReceiverInv, SessionAsks, ReapplyWrites, FlashFirst
  <2>6. ResetFirst'
    BY <1>1, <1>2, <2>1 DEF ResetFirst
  <2>7. QED
    BY <2>2, <2>3, <2>4, <2>5, <2>6 DEF ReceiverInv
<1>5. CASE ~plan.passive
  <2> DEFINE o == [at |-> "wait", first |-> first, gen |-> gen + 1, kind |-> "none"]
  <2>1. at' = "configuring" /\ UNCHANGED <<backoff, fails>> /\ Ask("session", o)
    BY <1>5 DEF OpenSucceeds
  <2>2. o \in Ops /\ o.at = "wait" /\ o.first = first
    BY DEF ReceiverInv, TypeInv, Ops, Stages
  <2> HIDE DEF o
  <2>3. "session" \in Users /\ {"reset", "reapply"} \subseteq Users
    BY DEF Users
  <2>4. op' \in [Users -> Ops] /\ op'["session"] = o /\ \A b \in Users : b # "session" => op'[b] = op[b]
    BY <2>1, <2>2, <2>3, Asked
  <2>5. TypeInv'
    BY <1>1, <2>1, <2>4 DEF ReceiverInv, TypeInv, Places
  <2>6. Ladder'
    BY <2>1, LadderStill DEF ReceiverInv
  <2>7. Reports' /\ SessionLinked'
    BY <1>1, <2>1 DEF Reports, SessionLinked, InSession
  <2>8. SessionAsks' /\ ReapplyWrites'
    BY <2>1, <2>2, <2>3, <2>4 DEF ReceiverInv, SessionAsks, ReapplyWrites
  <2>9. FlashFirst'
    BY <1>1, <2>1, <2>2, <2>4 DEF ReceiverInv, FlashFirst
  <2>10. ResetFirst'
    BY <1>1, <1>2, <2>3, <2>4 DEF ResetFirst
  <2>11. QED
    BY <2>5, <2>6, <2>7, <2>8, <2>9, <2>10 DEF ReceiverInv
<1>6. QED
  BY <1>4, <1>5

\* The API asks for the lock.
LEMMA StepAsks ==
  ASSUME ReceiverInv, UNCHANGED plan, AskReapply \/ \E kind \in {"hot", "factory"} : AskReset(kind)
  PROVE  ReceiverInv'
<1> USE DEF device, flags, locks, history
<1>1. UNCHANGED <<plan, plugged, ram, flash, wire, at, stop, link, gen, first, once, reported, failures,
                  backoff, said, fails, swapped>>
  BY DEF AskReapply, AskReset
<1>2. "session" \in Users /\ "reset" \in Users /\ "reapply" \in Users
  BY DEF Users
<1>3. PICK a \in {"reapply", "reset"}, k \in {"none", "hot", "factory"} :
        /\ Ask(a, [at |-> "wait", first |-> (a = "reapply"), gen |-> 0, kind |-> k])
        /\ a = "reset" => (queue = <<>> /\ at = "watching") \/ "reset_queued" \in plan.kinds
  BY DEF AskReapply, AskReset
<1> DEFINE o == [at |-> "wait", first |-> (a = "reapply"), gen |-> 0, kind |-> k]
<1>4. o \in Ops /\ o.at = "wait" /\ o.first = (a = "reapply")
  BY DEF Ops, Stages
<1>5. Ask(a, o)
  BY <1>3
<1> HIDE DEF o
<1>6. /\ op' \in [Users -> Ops] /\ op'[a] = o /\ \A b \in Users : b # a => op'[b] = op[b]
      /\ queue \in Seq(Users) => queue' \in Seq(Users) /\ queue' # <<>>
      /\ queue \in Seq(Users) /\ queue # <<>> => Head(queue') = Head(queue)
      /\ queue = <<>> => queue' = <<a>>
  BY <1>2, <1>4, <1>5, Asked
<1>7. TypeInv'
  BY <1>1, <1>6 DEF ReceiverInv, TypeInv
<1>8. Ladder' /\ Reports' /\ SessionLinked'
  BY <1>1, LadderStill DEF ReceiverInv, Reports, SessionLinked
<1>9. SessionAsks' /\ FlashFirst'
  BY <1>1, <1>2, <1>6 DEF ReceiverInv, SessionAsks, FlashFirst
<1>10. ReapplyWrites'
  BY <1>2, <1>4, <1>6 DEF ReceiverInv, ReapplyWrites
<1>11. ResetFirst'
  <2>1. CASE a = "reapply"
    BY <1>1, <1>2, <1>6, <2>1 DEF ReceiverInv, ResetFirst
  <2>2. CASE a = "reset" /\ "reset_queued" \in plan.kinds
    BY <1>1, <2>2 DEF ResetFirst
  <2>3. CASE a = "reset" /\ queue = <<>> /\ at = "watching"
    <3>1. queue' = <<"reset">> /\ <<"reset">> \in Seq(Users) /\ Head(<<"reset">>) = "reset" /\ <<"reset">> # <<>>
      BY <1>2, <1>6, <2>3
    <3>2. link' = "live" /\ at' = "watching"
      BY <1>1, <2>3 DEF ReceiverInv, SessionLinked
    <3>3. QED
      BY <1>4, <1>6, <2>3, <3>1, <3>2 DEF ResetFirst
  <2>4. QED
    BY <1>3, <2>1, <2>2, <2>3
<1>12. QED
  BY <1>7, <1>8, <1>9, <1>10, <1>11 DEF ReceiverInv

\* The device goes away, or comes back from its flash.
LEMMA StepDevice ==
  ASSUME ReceiverInv, UNCHANGED plan, Unplug \/ Plug
  PROVE  ReceiverInv'
<1> USE DEF device, flags, locks, history
<1>1. UNCHANGED <<plan, at, stop, link, gen, first, once, reported, failures, backoff, op, queue, said, fails>>
  BY DEF Unplug, Plug
<1>2. TypeInv'
  <2>1. plugged' \in BOOLEAN /\ ram' \in BOOLEAN /\ flash' \in BOOLEAN /\ wire' \in BOOLEAN /\ swapped' \in BOOLEAN
    BY DEF ReceiverInv, TypeInv, Unplug, Plug
  <2>2. QED
    BY <1>1, <2>1 DEF ReceiverInv, TypeInv
<1>3. Ladder' /\ Reports' /\ SessionLinked'
  BY <1>1, LadderStill DEF ReceiverInv, Reports, SessionLinked
<1>4. SessionAsks' /\ ReapplyWrites' /\ ResetFirst'
  BY <1>1 DEF ReceiverInv, SessionAsks, ReapplyWrites, ResetFirst
<1>5. FlashFirst'
  <2>1. swapped' \/ (UNCHANGED <<flash, swapped>> /\ (ram' => flash'))
    BY DEF Unplug, Plug, ReceiverInv, TypeInv
  <2>2. QED
    BY <1>1, <2>1 DEF ReceiverInv, FlashFirst
<1>6. QED
  BY <1>2, <1>3, <1>4, <1>5 DEF ReceiverInv

\* The holder gives the lock back.
LEMMA Released ==
  ASSUME ReceiverInv, NEW a \in Users, Release(a)
  PROVE  op' \in [Users -> Ops] /\ op'[a] = Idle /\ \A b \in Users : b # a => op'[b] = op[b]
BY OpFacts DEF Release, ReceiverInv, TypeInv

\* A configure takes a step of its own, or gives the lock back where it
\* leaves run() in its session.
LEMMA ConfigureGoes ==
  ASSUME ReceiverInv, UNCHANGED plan, NEW a \in {"session", "reapply"}, Held(a),
         op' \in [Users -> Ops], \A b \in Users : b # a => op'[b] = op[b],
         UNCHANGED <<plugged, wire, stop, link, gen, once, reported, failures, backoff, said, fails, swapped>>,
         ram' \in BOOLEAN, flash' \in BOOLEAN, first' \in BOOLEAN,
         op'[a].at # "idle" => op[a].at # "idle" /\ op'[a].first = op[a].first /\ at' = at,
         op'[a].at = "idle" /\ a = "session" => at = "configuring" /\ at' \in {"configured"} \cup Leaving,
         a = "reapply" => at' = at,
         flash => flash',
         ~swapped /\ "reset_queued" \notin plan.kinds =>
           /\ ram' => flash'
           /\ ~first' => flash'
           /\ at' = "configured" => flash'
  PROVE  ReceiverInv'
<1> USE DEF Leaving
<1>1. a \in Users /\ "session" \in Users /\ "reset" \in Users /\ "reapply" \in Users /\ a # "reset"
  BY DEF Users
<1>2. op[a].at # "idle" \/ op'[a].at = "idle"
  OBVIOUS
<1>3. at' = at \/ (at = "configuring" /\ at' \in {"configured"} \cup Leaving)
  BY <1>1
<1>4. TypeInv'
  BY <1>3 DEF ReceiverInv, TypeInv, Places
<1>5. Ladder' /\ Reports' /\ SessionLinked'
  <2>1. SessionLinked'
    BY <1>3 DEF ReceiverInv, SessionLinked
  <2>2. Reports'
    BY <1>3 DEF ReceiverInv, Reports, InSession
  <2>3. QED
    BY <2>1, <2>2, LadderStill DEF ReceiverInv
<1>6. SessionAsks'
  <2>1. CASE a = "session"
    BY <1>1, <1>3, <2>1 DEF ReceiverInv, SessionAsks
  <2>2. CASE a = "reapply"
    BY <1>1, <2>2 DEF ReceiverInv, SessionAsks
  <2>3. QED
    BY <2>1, <2>2
<1>7. ReapplyWrites'
  BY <1>1 DEF ReceiverInv, ReapplyWrites
<1>8. ResetFirst'
  <2>1. "reset_queued" \notin plan.kinds => op["reset"].at = "idle"
    BY <1>1, NoResetBehind
  <2>2. op'["reset"] = op["reset"]
    BY <1>1
  <2>3. QED
    BY <2>1, <2>2 DEF ResetFirst
<1>9. FlashFirst'
  <2>1. ~swapped /\ "reset_queued" \notin plan.kinds /\ op'["session"].at # "idle" /\ ~op'["session"].first
          => flash
    BY <1>1 DEF ReceiverInv, FlashFirst
  <2>2. QED
    BY <2>1 DEF FlashFirst
<1>10. QED
  BY <1>4, <1>5, <1>6, <1>7, <1>8, <1>9 DEF ReceiverInv

LEMMA StepConfigure ==
  ASSUME ReceiverInv, UNCHANGED plan, NEW a \in {"session", "reapply"},
         ConfigureStarts(a) \/ ConfigureApplies(a) \/ ConfigureVerified(a) \/ ConfigureFails(a)
  PROVE  ReceiverInv'
<1> USE DEF device, flags, history
<1>1. /\ Held(a) /\ a \in Users /\ op \in [Users -> Ops] /\ op[a] \in Ops /\ gen \in Nat
      /\ ram \in BOOLEAN /\ flash \in BOOLEAN /\ first \in BOOLEAN
      /\ op[a].at # "idle"
      /\ a = "session" => at = "configuring"
  BY DEF ConfigureStarts, ConfigureApplies, ConfigureVerified, ConfigureFails, ReceiverInv, TypeInv,
         Users, SessionAsks
<1>2. ~swapped /\ "reset_queued" \notin plan.kinds =>
        /\ ram => flash
        /\ ~first => flash
        /\ at = "configured" => flash
        /\ ~op[a].first => flash
  BY <1>1 DEF ReceiverInv, FlashFirst, ReapplyWrites
<1>3. CASE ConfigureStarts(a)
  <2>1. CASE a = "reapply" /\ link = "none"
    <3>1. Release(a) /\ UNCHANGED <<plugged, ram, flash, wire, at, stop, link, gen, first, once, reported,
                                    failures, backoff, said, fails, swapped>>
      BY <1>3, <2>1 DEF ConfigureStarts
    <3>2. op' \in [Users -> Ops] /\ op'[a].at = "idle" /\ \A b \in Users : b # a => op'[b] = op[b]
      BY <1>1, <3>1, Released, OpFacts
    <3>3. QED
      BY <1>1, <1>2, <2>1, <3>1, <3>2, ConfigureGoes
  <2>2. CASE ~(a = "reapply" /\ link = "none")
    <3>1. /\ UNCHANGED <<plugged, ram, flash, wire, at, stop, link, gen, first, once, reported,
                         failures, backoff, said, fails, swapped, queue>>
          /\ op' = [op EXCEPT ![a].at = "apply", ![a].gen = IF a = "reapply" THEN gen ELSE @]
      BY <1>3, <2>2 DEF ConfigureStarts
    <3>2. op' \in [Users -> Ops] /\ op'[a].at = "apply" /\ op'[a].first = op[a].first
          /\ \A b \in Users : b # a => op'[b] = op[b]
      BY <1>1, <3>1 DEF Ops, Stages
    <3>3. QED
      BY <1>1, <1>2, <3>1, <3>2, ConfigureGoes
  <2>3. QED
    BY <2>1, <2>2
<1>4. CASE ConfigureApplies(a)
  <2>1. /\ UNCHANGED <<plugged, wire, at, stop, link, gen, first, once, reported,
                       failures, backoff, said, fails, swapped, queue>>
        /\ op' = [op EXCEPT ![a].at = "verify"] /\ ram' = TRUE
        /\ flash' = (flash \/ (~ram /\ op[a].first))
    BY <1>4 DEF ConfigureApplies
  <2>2. op' \in [Users -> Ops] /\ op'[a].at = "verify" /\ op'[a].first = op[a].first
        /\ \A b \in Users : b # a => op'[b] = op[b]
    BY <1>1, <2>1 DEF Ops, Stages
  <2>3. flash' \in BOOLEAN /\ (flash => flash') /\ (~ram /\ op[a].first => flash')
    BY <1>1, <2>1
  <2>4. ~swapped /\ "reset_queued" \notin plan.kinds => flash'
    BY <1>2, <2>3
  <2>5. QED
    BY <1>1, <1>2, <2>1, <2>2, <2>3, <2>4, ConfigureGoes
<1>5. CASE ConfigureVerified(a)
  <2>1. /\ UNCHANGED <<plugged, ram, flash, wire, stop, link, gen, once, reported,
                       failures, backoff, said, fails, swapped>>
        /\ Release(a) /\ ram
        /\ IF a = "session" THEN at' = "configured" /\ first' = first ELSE first' = FALSE /\ at' = at
    BY <1>5 DEF ConfigureVerified
  <2>2. op' \in [Users -> Ops] /\ op'[a].at = "idle" /\ \A b \in Users : b # a => op'[b] = op[b]
    BY <1>1, <2>1, Released, OpFacts
  <2>3. QED
    BY <1>1, <1>2, <2>1, <2>2, ConfigureGoes
<1>6. CASE ConfigureFails(a)
  <2>1. /\ UNCHANGED <<plugged, ram, flash, wire, stop, link, gen, first, once, reported,
                       failures, backoff, said, fails, swapped>>
        /\ Release(a)
        /\ IF a # "session" THEN at' = at ELSE at' \in {"failed_session", "refused_session"}
    BY <1>6 DEF ConfigureFails
  <2>2. op' \in [Users -> Ops] /\ op'[a].at = "idle" /\ \A b \in Users : b # a => op'[b] = op[b]
    BY <1>1, <2>1, Released, OpFacts
  <2>3. QED
    BY <1>1, <1>2, <2>1, <2>2, ConfigureGoes DEF Leaving
<1>7. QED
  BY <1>3, <1>4, <1>5, <1>6

\* A stop cancels the configure of the session.
LEMMA StepStopConfiguring ==
  ASSUME ReceiverInv, UNCHANGED plan, StopWhileConfiguring
  PROVE  ReceiverInv'
<1> USE DEF device, flags, history, Leaving
<1>1. /\ UNCHANGED <<plan, plugged, ram, flash, wire, stop, link, gen, first, once, reported, failures,
                     backoff, said, fails, swapped>>
      /\ at = "configuring" /\ at' = "leaving"
  BY DEF StopWhileConfiguring
<1>2. "session" \in Users /\ "reset" \in Users /\ "reapply" \in Users
  BY DEF Users
<1>3. op' \in [Users -> Ops] /\ op'["session"].at = "idle" /\ \A b \in Users : b # "session" => op'[b] = op[b]
  BY <1>2, OpFacts DEF ReceiverInv, TypeInv, StopWhileConfiguring
<1>4. TypeInv'
  BY <1>1, <1>3 DEF ReceiverInv, TypeInv, Places
<1>5. Ladder'
  BY <1>1, LadderStill DEF ReceiverInv
<1>6. Reports' /\ SessionLinked'
  BY <1>1 DEF ReceiverInv, Reports, InSession, SessionLinked
<1>7. SessionAsks' /\ ReapplyWrites'
  BY <1>1, <1>2, <1>3 DEF ReceiverInv, SessionAsks, ReapplyWrites
<1>8. ResetFirst'
  BY <1>1, <1>2, <1>3 DEF ReceiverInv, ResetFirst
<1>9. FlashFirst'
  BY <1>1, <1>3 DEF ReceiverInv, FlashFirst
<1>10. QED
  BY <1>4, <1>5, <1>6, <1>7, <1>8, <1>9 DEF ReceiverInv

\* The reset has the lock.
LEMMA StepReset ==
  ASSUME ReceiverInv, UNCHANGED plan, ResetRuns
  PROVE  ReceiverInv'
<1> USE DEF device, flags, history
<1>1. UNCHANGED <<plan, at, stop, link, gen, once, reported, failures, backoff, said, fails, swapped>>
      /\ Release("reset")
  BY DEF ResetRuns
<1>2. "session" \in Users /\ "reset" \in Users /\ "reapply" \in Users
  BY DEF Users
<1>3. op' \in [Users -> Ops] /\ op'["reset"] = Idle /\ \A b \in Users : b # "reset" => op'[b] = op[b]
  BY <1>1, <1>2, Released
<1>4. TypeInv'
  <2>1. plugged' \in BOOLEAN /\ ram' \in BOOLEAN /\ flash' \in BOOLEAN /\ wire' \in BOOLEAN /\ first' \in BOOLEAN
    BY DEF ReceiverInv, TypeInv, ResetRuns
  <2>2. QED
    BY <1>1, <1>3, <2>1 DEF ReceiverInv, TypeInv
<1>5. Ladder' /\ Reports' /\ SessionLinked'
  BY <1>1, LadderStill DEF ReceiverInv, Reports, SessionLinked
<1>6. SessionAsks' /\ ReapplyWrites' /\ ResetFirst'
  BY <1>1, <1>2, <1>3, OpFacts DEF ReceiverInv, SessionAsks, ReapplyWrites, ResetFirst
<1>7. FlashFirst'
  <2> SUFFICES ASSUME ~swapped, "reset_queued" \notin plan.kinds PROVE FlashFirst'
    BY <1>1 DEF FlashFirst
  <2>1. CASE UNCHANGED <<ram, flash, first>>
    BY <1>1, <1>2, <1>3, <2>1 DEF ReceiverInv, FlashFirst
  <2>2. CASE ram' = FALSE /\ flash' = flash /\ (~first' => ~first)
    BY <1>1, <1>2, <1>3, <2>2 DEF ReceiverInv, FlashFirst
  <2>3. CASE op["reset"].kind = "factory" /\ ram' = FALSE /\ first' = TRUE
    <3>1. at \in {"watching"} \cup Leaving /\ op["session"].at = "idle"
      BY <2>3 DEF ReceiverInv, ReapplyWrites, ResetFirst, SessionAsks, Leaving
    <3>2. QED
      BY <1>1, <1>2, <1>3, <2>3, <3>1 DEF FlashFirst, Leaving
  <2>4. QED
    BY <2>1, <2>2, <2>3 DEF ResetRuns, ReceiverInv, TypeInv
<1>8. QED
  BY <1>4, <1>5, <1>6, <1>7 DEF ReceiverInv

-----------------------------------------------------------------------------
(* Theorems *)

LEMMA ReceiverInit == Init => ReceiverInv
<1> SUFFICES ASSUME Init PROVE ReceiverInv
  OBVIOUS
<1>1. op \in [Users -> Ops] /\ \A a \in Users : op[a] = Idle
  BY OpFacts DEF Init
<1>2. {"session", "reset", "reapply"} \subseteq Users
  BY DEF Users
<1>3. TypeInv
  BY <1>1 DEF Init, TypeInv, Places
<1>4. Ladder
  BY ReceiverAssumption DEF Init, Ladder, Min2
<1>5. Reports /\ SessionLinked
  BY DEF Init, Reports, SessionLinked, InSession, Leaving
<1>6. SessionAsks /\ ResetFirst /\ ReapplyWrites /\ FlashFirst
  BY <1>1, <1>2, OpFacts DEF Init, SessionAsks, ResetFirst, ReapplyWrites, FlashFirst
<1>7. QED
  BY <1>3, <1>4, <1>5, <1>6 DEF ReceiverInv

LEMMA ReceiverStep == ReceiverInv /\ [Next]_vars => ReceiverInv'
<1> SUFFICES ASSUME ReceiverInv, [Next]_vars PROVE ReceiverInv'
  OBVIOUS
<1>1. UNCHANGED plan
  BY DEF Next, vars
<1>2. CASE UNCHANGED vars \/ Finished
  BY <1>1, <1>2, StepRun DEF Finished
<1>3. CASE \/ \E r \in Reasons : OpenFails(r)
           \/ StoppedBetween \/ WatchdogFires \/ WatchdogStops \/ SourceEnds
           \/ LinkStops \/ SessionEnds \/ StopRequested
  BY <1>1, <1>3, StepRun
<1>4. CASE OpenSucceeds
  BY <1>1, <1>4, StepOpen
<1>5. CASE BackoffEnds \/ SessionConfigured
  BY <1>1, <1>5, StepLadder
<1>6. CASE StopWhileConfiguring
  BY <1>1, <1>6, StepStopConfiguring
<1>7. CASE \E a \in {"session", "reapply"} :
             ConfigureStarts(a) \/ ConfigureApplies(a) \/ ConfigureVerified(a) \/ ConfigureFails(a)
  BY <1>1, <1>7, StepConfigure
<1>8. CASE AskReapply \/ \E kind \in {"hot", "factory"} : AskReset(kind)
  BY <1>1, <1>8, StepAsks
<1>9. CASE ResetRuns
  BY <1>1, <1>9, StepReset
<1>10. CASE Unplug \/ Plug
  BY <1>1, <1>10, StepDevice
<1>11. QED
  BY <1>2, <1>3, <1>4, <1>5, <1>6, <1>7, <1>8, <1>9, <1>10 DEF Next

\* The invariant of the supervisor: the types, the ladder, what has been said
\* of an outage, who has the configure lock and what has been written where.
THEOREM ReceiverInvariant == Spec => []ReceiverInv
<1>1. QED
  BY ReceiverInit, ReceiverStep, PTL DEF Spec

\* Over any sequence of outages, refusals, resets and reapplies there is one
\* report an outage and the ladder's wait before each attempt, and where the
\* profile is in RAM it is in flash (run, _session, _configure_or_stop, reset).
THEOREM SessionsAlwaysAccounted == Spec => []SessionsAccounted
<1>1. ReceiverInv => SessionsAccounted
  <2> SUFFICES ASSUME ReceiverInv PROVE SessionsAccounted
    OBVIOUS
  <2>1. BackoffIsLadder
    BY DEF ReceiverInv, Ladder, BackoffIsLadder
  <2>2. OneReportPerOutage
    BY DEF ReceiverInv, Reports, OneReportPerOutage
  <2>3. ProfileInFlash
    BY DEF ReceiverInv, FlashFirst, ProfileInFlash, ProfileKept
  <2>4. QED
    BY <2>1, <2>2, <2>3 DEF SessionsAccounted
<1>2. QED
  BY <1>1, ReceiverInvariant, PTL

-----------------------------------------------------------------------------
(* Outputs *)

In(c) == conn[c] = "in"
Joined == {c \in TcpClients : In(c)}

\* The epoch that follows e.
After1(e) == (e + 1) % Outputs!EpochCycle

OutTypes ==
  /\ loop \in {"off", "starting", "run", "ending", "ended"}
  /\ toStart \subseteq Sinks /\ works \subseteq Sinks /\ active \subseteq Sinks
  /\ due \in [Sinks -> Int] /\ \A s \in Sinks : due[s] >= Outputs!NotFailed
  /\ conn \in [TcpClients -> {"out", "in", "gone"}]
  /\ buffer \in [TcpClients -> Seq(Int)]
  /\ got \in [TcpClients -> Int]
  /\ epoch \in Int

\* The open sinks are those written to, and only while the publisher is at work.
OpenInv == isOpen = active /\ (loop \in {"off", "ended"} => isOpen = {})

\* A sink that has been started is written to or waits for its next attempt; one
\* that has still to be does neither.
DueInv ==
  loop \in {"starting", "run"} =>
    \A s \in Sinks :
      IF loop = "starting" /\ s \in toStart
      THEN s \notin active /\ due[s] = Outputs!NotFailed
      ELSE (s \in active) # (due[s] # Outputs!NotFailed)

\* TcpClients come in through the open TCP sink, as many as it takes.
JoinedInv == (Joined # {} => "tcp" \in isOpen) /\ Cardinality(Joined) <= MaxTcp

\* What a client has still to read follows what it has read, epoch by epoch, up to
\* the next one.
Follows(b, g, e) ==
  /\ \A i \in 1 .. Len(b) - 1 : b[i + 1] = After1(b[i])
  /\ b # <<>> => e = After1(b[Len(b)])
  /\ g # Outputs!None => (IF b = <<>> THEN e ELSE b[1]) = After1(g)

NoGapInv == gap = {} /\ \A c \in Joined : Follows(buffer[c], got[c], epoch)

OutInv == OutTypes /\ OpenInv /\ DueInv /\ JoinedInv /\ NoGapInv

-----------------------------------------------------------------------------

LEMMA SameCardinality == \A S : Outputs!Cardinality(S) = Cardinality(S)
BY DEF Outputs!Cardinality, Cardinality

LEMMA EpochFollows == \A e \in Int : After1(e) \in Int
BY SinksAssumption DEF After1, Outputs!EpochCycle

\* A client that has just come has missed nothing.
LEMMA NothingMissed ==
  ASSUME NEW e \in Int
  PROVE  Follows(<<>>, Outputs!None, e)
BY DEF Follows

\* Writing the epoch to a client's buffer keeps it without a gap.
LEMMA WrittenFollows ==
  ASSUME NEW b \in Seq(Int), NEW g \in Int, NEW e \in Int, Follows(b, g, e)
  PROVE  Follows(Append(b, e), g, After1(e))
<1> DEFINE c == Append(b, e)
<1>1. c \in Seq(Int) /\ Len(c) = Len(b) + 1 /\ c # <<>> /\ c[Len(c)] = e
  OBVIOUS
<1>2. \A i \in 1 .. Len(b) : c[i] = b[i]
  OBVIOUS
<1>3. Len(b) \in Nat /\ (b # <<>> => Len(b) > 0)
  OBVIOUS
<1> HIDE DEF c
<1>4. ASSUME NEW i \in 1 .. Len(c) - 1
      PROVE  c[i + 1] = After1(c[i])
  <2>1. CASE i = Len(b)
    BY <1>1, <1>2, <1>3, <2>1 DEF Follows
  <2>2. CASE i < Len(b)
    <3>1. i \in 1 .. Len(b) - 1 /\ i \in 1 .. Len(b) /\ i + 1 \in 1 .. Len(b)
      BY <1>1, <1>3, <2>2
    <3>2. c[i] = b[i] /\ c[i + 1] = b[i + 1]
      BY <1>2, <3>1
    <3>3. QED
      BY <3>1, <3>2 DEF Follows
  <2>3. QED
    BY <1>1, <1>3, <2>1, <2>2
<1>5. ASSUME g # Outputs!None
      PROVE  c[1] = After1(g)
  <2>1. CASE b = <<>>
    BY <1>1, <1>5, <2>1 DEF Follows
  <2>2. CASE b # <<>>
    BY <1>2, <1>3, <1>5, <2>2 DEF Follows
  <2>3. QED
    BY <2>1, <2>2
<1>6. QED
  BY <1>1, <1>4, <1>5 DEF Follows, c

\* Reading the first epoch of the buffer leaves the rest to follow it.
LEMMA ReadFollows ==
  ASSUME NEW b \in Seq(Int), NEW g \in Int, NEW e \in Int, Follows(b, g, e), b # <<>>
  PROVE  /\ Follows(Tail(b), Head(b), e)
         /\ g = Outputs!None \/ Head(b) = After1(g)
<1> DEFINE c == Tail(b)
<1>1. c \in Seq(Int) /\ Len(c) = Len(b) - 1 /\ Len(b) \in Nat /\ Len(b) > 0 /\ Head(b) = b[1]
  OBVIOUS
<1>2. \A i \in 1 .. Len(c) : c[i] = b[i + 1]
  OBVIOUS
<1> HIDE DEF c
<1>3. c = <<>> <=> Len(b) = 1
  <2>1. \A q \in Seq(Int) : q = <<>> <=> Len(q) = 0
    OBVIOUS
  <2>2. c = <<>> <=> Len(c) = 0
    BY <1>1, <2>1
  <2>3. QED
    BY <1>1, <2>2
<1>4. ASSUME NEW i \in 1 .. Len(c) - 1
      PROVE  c[i + 1] = After1(c[i])
  <2>1. i \in 1 .. Len(c) /\ i + 1 \in 1 .. Len(c) /\ i + 1 \in 1 .. Len(b) - 1
    BY <1>1
  <2>2. c[i] = b[i + 1] /\ c[i + 1] = b[(i + 1) + 1]
    BY <1>2, <2>1
  <2>3. QED
    BY <2>1, <2>2 DEF Follows
<1>5. ASSUME c # <<>>
      PROVE  e = After1(c[Len(c)])
  <2>1. Len(c) \in 1 .. Len(c) /\ Len(c) + 1 = Len(b)
    BY <1>1, <1>3, <1>5
  <2>2. c[Len(c)] = b[Len(b)]
    BY <1>2, <2>1
  <2>3. QED
    BY <2>2 DEF Follows
<1>6. (IF c = <<>> THEN e ELSE c[1]) = After1(b[1])
  <2>1. CASE c = <<>>
    BY <1>1, <1>3, <2>1 DEF Follows
  <2>2. CASE c # <<>>
    <3>1. Len(b) > 1 /\ c[1] = b[2]
      BY <1>1, <1>2, <1>3, <2>2
    <3>2. QED
      BY <1>1, <2>2, <3>1 DEF Follows
  <2>3. QED
    BY <2>1, <2>2
<1>7. g = Outputs!None \/ b[1] = After1(g)
  BY <1>1 DEF Follows
<1>8. QED
  BY <1>1, <1>4, <1>5, <1>6, <1>7 DEF Follows, c

\* A step that leaves the clients alone and closes no sink keeps their part.
LEMMA ClientsAside ==
  ASSUME OutInv, UNCHANGED <<conn, buffer, got, gap, epoch>>, isOpen \subseteq isOpen'
  PROVE  JoinedInv' /\ NoGapInv'
BY DEF OutInv, JoinedInv, NoGapInv, Joined, In

\* A step that leaves the publisher and its sinks alone keeps theirs.
LEMMA SinksAside ==
  ASSUME OutInv, UNCHANGED <<loop, toStart, isOpen, active, due>>
  PROVE  OpenInv' /\ DueInv'
BY DEF OutInv, OpenInv, DueInv

LEMMA OutputsInit == Outputs!Init => OutInv
<1> SUFFICES ASSUME Outputs!Init PROVE OutInv
  OBVIOUS
<1> USE DEF Outputs!Init
<1>1. OutTypes
  BY DEF OutTypes, Outputs!NotFailed, Outputs!None
<1>2. OpenInv /\ DueInv
  BY DEF OpenInv, DueInv
<1>3. Joined = {}
  BY DEF Joined, In
<1>4. JoinedInv
  BY <1>3, FS_EmptySet, SinksAssumption DEF JoinedInv
<1>5. NoGapInv
  BY <1>3 DEF NoGapInv
<1>6. QED
  BY <1>1, <1>2, <1>4, <1>5 DEF OutInv

\* The publisher's own steps between two epochs.
LEMMA StepLoop ==
  ASSUME OutInv,
         \/ Outputs!Begin \/ Outputs!StartSink \/ Outputs!AllStarted \/ Outputs!RetryFailed
         \/ Outputs!Tick \/ Outputs!Stop \/ Outputs!Fails \/ Outputs!Stops
  PROVE  OutInv'
<1> USE SinksAssumption DEF Outputs!world, Outputs!tcp
<1>t. OutTypes /\ OpenInv /\ DueInv
  BY DEF OutInv
<1>1. CASE Outputs!Begin
  <2>1. OutTypes'
    BY <1>t, <1>1 DEF OutTypes, Outputs!Begin, Outputs!NotFailed
  <2>2. OpenInv' /\ DueInv'
    BY <1>t, <1>1 DEF OpenInv, DueInv, OutTypes, Outputs!Begin
  <2>3. JoinedInv' /\ NoGapInv'
    BY <1>1, ClientsAside DEF Outputs!Begin
  <2>4. QED
    BY <2>1, <2>2, <2>3 DEF OutInv
<1>2. CASE Outputs!StartSink \/ Outputs!RetryFailed
  <2>1. PICK s \in Sinks :
          /\ \/ loop = "starting" /\ s \in toStart /\ toStart' = toStart \ {s}
             \/ loop = "run" /\ toStart' = toStart /\ due[s] = 0
          /\ Outputs!Started(s)
          /\ UNCHANGED <<loop, works, faults, conn, buffer, got, gap, joins, epoch, outStop>>
    BY <1>t, <1>2 DEF OutTypes, Outputs!StartSink, Outputs!RetryFailed
  <2>2. /\ due' \in [Sinks -> Int] /\ due'[s] >= Outputs!NotFailed
        /\ \A r \in Sinks \ {s} : due'[r] = due[r]
        /\ \/ s \in active' /\ due'[s] = Outputs!NotFailed
              /\ active' = active \union {s} /\ isOpen' = isOpen \union {s}
           \/ due'[s] # Outputs!NotFailed /\ s \notin works /\ active' = active /\ isOpen' = isOpen
    BY <1>t, <2>1 DEF OutTypes, Outputs!Started, Outputs!SetAside, Outputs!NotFailed
  <2>3. QED
    <3>1. OutTypes'
      BY <1>t, <2>1, <2>2 DEF OutTypes
    <3>2. OpenInv'
      BY <1>t, <2>1, <2>2 DEF OpenInv
    <3>3. JoinedInv' /\ NoGapInv'
      BY <2>1, <2>2, ClientsAside
    <3>4. s \notin active
      BY <1>t, <2>1 DEF DueInv, Outputs!NotFailed
    <3>5. DueInv'
      <4>1. ASSUME NEW r \in Sinks
            PROVE  IF loop = "starting" /\ r \in toStart'
                   THEN r \notin active' /\ due'[r] = Outputs!NotFailed
                   ELSE (r \in active') # (due'[r] # Outputs!NotFailed)
        <5>1. CASE r = s
          BY <1>t, <2>1, <2>2, <3>4, <5>1 DEF DueInv
        <5>2. CASE r # s
          <6>1. (r \in active' <=> r \in active) /\ due'[r] = due[r]
                /\ (loop = "starting" => (r \in toStart' <=> r \in toStart))
            BY <2>1, <2>2, <5>2
          <6>2. QED
            BY <1>t, <2>1, <6>1 DEF DueInv
        <5>3. QED
          BY <5>1, <5>2
      <4>2. QED
        BY <2>1, <4>1 DEF DueInv
    <3>6. QED
      BY <3>1, <3>2, <3>3, <3>5 DEF OutInv
<1>3. CASE Outputs!AllStarted \/ Outputs!Fails \/ Outputs!Stops \/ Outputs!Stop
  <2>1. UNCHANGED <<toStart, works, isOpen, active, due, conn, buffer, got, gap, epoch>>
        /\ (loop' = loop \/ loop' = "ending" \/ (loop' = "run" /\ loop = "starting" /\ toStart = {}))
    BY <1>3 DEF Outputs!AllStarted, Outputs!Fails, Outputs!Stops, Outputs!Stop
  <2>2. OutTypes'
    BY <1>t, <2>1 DEF OutTypes
  <2>3. OpenInv' /\ DueInv'
    BY <1>t, <2>1 DEF OpenInv, DueInv
  <2>4. JoinedInv' /\ NoGapInv'
    BY <2>1, ClientsAside
  <2>5. QED
    BY <2>2, <2>3, <2>4 DEF OutInv
<1>4. CASE Outputs!Tick
  <2>1. /\ due' \in [Sinks -> Int]
        /\ \A s \in Sinks : due'[s] >= Outputs!NotFailed
                            /\ (due'[s] = Outputs!NotFailed <=> due[s] = Outputs!NotFailed)
    BY <1>t, <1>4 DEF Outputs!Tick, OutTypes, Outputs!NotFailed
  <2>2. UNCHANGED <<loop, toStart, works, isOpen, active, conn, buffer, got, gap, epoch>>
    BY <1>4 DEF Outputs!Tick
  <2>3. OutTypes'
    BY <1>t, <2>1, <2>2 DEF OutTypes
  <2>4. OpenInv' /\ DueInv'
    BY <1>t, <2>1, <2>2 DEF OpenInv, DueInv
  <2>5. JoinedInv' /\ NoGapInv'
    BY <2>2, ClientsAside
  <2>6. QED
    BY <2>3, <2>4, <2>5 DEF OutInv
<1>5. QED
  BY <1>1, <1>2, <1>3, <1>4

\* Fewer clients stay: they are as few as before.
LEMMA FewerJoined ==
  ASSUME JoinedInv, Joined' \subseteq Joined
  PROVE  Cardinality(Joined') <= MaxTcp
<1>1. Joined \subseteq TcpClients
  BY DEF Joined
<1>2. IsFiniteSet(Joined)
  BY <1>1, FS_Subset, SinksAssumption
<1>3. /\ Cardinality(Joined') <= Cardinality(Joined)
      /\ Cardinality(Joined') \in Nat /\ Cardinality(Joined) \in Nat
  BY <1>2, FS_Subset, FS_CardinalityType
<1>4. QED
  BY <1>3, SinksAssumption DEF JoinedInv

LEMMA StepPublish ==
  ASSUME OutInv, Outputs!Publish
  PROVE  OutInv'
<1>t. OutTypes /\ OpenInv /\ DueInv /\ JoinedInv /\ NoGapInv
  BY DEF OutInv
<1>e. epoch' = After1(epoch) /\ epoch' \in Int
  BY <1>t, EpochFollows DEF OutTypes, Outputs!Publish, After1
<1>1. PICK bad \in SUBSET (active \intersect {"serial"}) :
        /\ active' = active \ bad /\ isOpen' = isOpen \ bad
        /\ due' = [s \in Sinks |-> IF s \in bad THEN Retry ELSE due[s]]
  BY <1>t DEF OutTypes, Outputs!Publish, Outputs!Raises
<1>2. UNCHANGED <<loop, toStart, works, got, gap>> /\ loop = "run"
  BY DEF Outputs!Publish, Outputs!world
<1>3. /\ conn' \in [TcpClients -> {"out", "in", "gone"}] /\ buffer' \in [TcpClients -> Seq(Int)]
      /\ Joined' \subseteq Joined
      /\ \A c \in Joined' : buffer'[c] = Append(buffer[c], epoch)
  <2>1. CASE "tcp" \in active
    <3>1. /\ conn' = [c \in TcpClients |-> IF c \in Outputs!Behind THEN "gone" ELSE conn[c]]
          /\ buffer' = [c \in TcpClients |->
               IF conn'[c] = "in" THEN Append(buffer[c], epoch)
               ELSE IF c \in Outputs!Behind THEN <<>> ELSE buffer[c]]
      BY <2>1 DEF Outputs!Publish, Outputs!TcpWrite
    <3>2. conn' \in [TcpClients -> {"out", "in", "gone"}]
      BY <1>t, <3>1 DEF OutTypes
    <3>3. buffer' \in [TcpClients -> Seq(Int)]
      <4>1. \A c \in TcpClients : Append(buffer[c], epoch) \in Seq(Int) /\ <<>> \in Seq(Int)
                               /\ buffer[c] \in Seq(Int)
        BY <1>t DEF OutTypes
      <4>2. QED
        BY <3>1, <4>1
    <3>4. Joined' \subseteq Joined
      BY <3>1 DEF Joined, In
    <3>5. \A c \in Joined' : buffer'[c] = Append(buffer[c], epoch)
      BY <3>1 DEF Joined, In
    <3>6. QED
      BY <3>2, <3>3, <3>4, <3>5
  <2>2. CASE "tcp" \notin active
    <3>1. UNCHANGED <<conn, buffer>>
      BY <2>2 DEF Outputs!Publish
    <3>2. Joined = {}
      BY <1>t, <2>2 DEF JoinedInv, OpenInv
    <3>3. Joined' = Joined
      BY <3>1 DEF Joined, In
    <3>4. QED
      BY <1>t, <3>1, <3>2, <3>3 DEF OutTypes
  <2>3. QED
    BY <2>1, <2>2
<1>4. OutTypes'
  BY <1>t, <1>e, <1>1, <1>2, <1>3, SinksAssumption DEF OutTypes, Outputs!NotFailed
<1>5. OpenInv' /\ DueInv'
  <2>1. OpenInv'
    BY <1>t, <1>1, <1>2 DEF OpenInv
  <2>2. ASSUME NEW s \in Sinks
        PROVE  (s \in active') # (due'[s] # Outputs!NotFailed)
    <3>1. CASE s \in bad
      BY <1>1, <3>1, SinksAssumption DEF Outputs!NotFailed
    <3>2. CASE s \notin bad
      BY <1>t, <1>1, <1>2, <3>2 DEF DueInv
    <3>3. QED
      BY <3>1, <3>2
  <2>3. QED
    BY <1>2, <2>1, <2>2 DEF DueInv
<1>6. JoinedInv'
  BY <1>t, <1>1, <1>3, FewerJoined DEF JoinedInv
<1>7. NoGapInv'
  <2>1. ASSUME NEW c \in Joined'
        PROVE  Follows(buffer'[c], got'[c], epoch')
    <3>1. c \in Joined /\ c \in TcpClients
      BY <1>3 DEF Joined
    <3>2. PICK b \in Seq(Int), g \in Int, e \in Int : b = buffer[c] /\ g = got[c] /\ e = epoch
      BY <1>t, <3>1 DEF OutTypes
    <3>3. Follows(b, g, e)
      BY <1>t, <3>1, <3>2 DEF NoGapInv
    <3>4. Follows(Append(b, e), g, After1(e))
      BY <3>3, WrittenFollows
    <3>5. QED
      BY <1>e, <1>2, <1>3, <3>2, <3>4
  <2>2. QED
    BY <1>t, <1>2, <2>1 DEF NoGapInv
<1>8. QED
  BY <1>4, <1>5, <1>6, <1>7 DEF OutInv

\* A client leaves, or all do when the publisher ends.
LEMMA StepLeaves ==
  ASSUME OutInv, Outputs!End \/ \E c \in TcpClients : Outputs!ClientLeaves(c)
  PROVE  OutInv'
<1>t. OutTypes /\ OpenInv /\ DueInv /\ JoinedInv /\ NoGapInv
  BY DEF OutInv
<1>1. CASE Outputs!End
  <2>1. /\ conn' \in [TcpClients -> {"out", "in", "gone"}] /\ Joined' = {}
        /\ buffer' = [c \in TcpClients |-> <<>>]
    BY <1>t, <1>1 DEF Outputs!End, Outputs!TcpClose, OutTypes, Joined, In
  <2>2. isOpen' = {} /\ active' = {} /\ loop' \in {"ended", "off"}
        /\ UNCHANGED <<toStart, works, due, got, gap, epoch>>
    BY <1>t, <1>1 DEF Outputs!End, OpenInv, Outputs!world
  <2>3. OutTypes'
    BY <1>t, <2>1, <2>2 DEF OutTypes
  <2>4. OpenInv' /\ DueInv' /\ NoGapInv'
    BY <1>t, <2>1, <2>2 DEF OpenInv, DueInv, NoGapInv
  <2>5. JoinedInv'
    BY <1>t, <2>1, FewerJoined DEF JoinedInv
  <2>6. QED
    BY <2>3, <2>4, <2>5 DEF OutInv
<1>2. ASSUME NEW c \in TcpClients, Outputs!ClientLeaves(c)
      PROVE  OutInv'
  <2>1. /\ conn' = [conn EXCEPT ![c] = "gone"] /\ buffer' = [buffer EXCEPT ![c] = <<>>]
        /\ UNCHANGED <<loop, toStart, works, isOpen, active, due, got, gap, epoch>>
    BY <1>2 DEF Outputs!ClientLeaves, Outputs!world
  <2>2. OutTypes'
    BY <1>t, <2>1 DEF OutTypes
  <2>3. OpenInv' /\ DueInv'
    BY <2>1, SinksAside
  <2>4. Joined' \subseteq Joined \ {c}
    BY <1>t, <2>1 DEF OutTypes, Joined, In
  <2>5. JoinedInv'
    BY <1>t, <2>1, <2>4, FewerJoined DEF JoinedInv
  <2>6. NoGapInv'
    <3>1. \A d \in Joined' : d \in Joined /\ buffer'[d] = buffer[d]
      BY <1>t, <2>1, <2>4 DEF OutTypes, Joined
    <3>2. QED
      BY <1>t, <2>1, <3>1 DEF NoGapInv
  <2>7. QED
    BY <2>2, <2>3, <2>5, <2>6 DEF OutInv
<1>3. QED
  BY <1>1, <1>2

LEMMA StepJoin ==
  ASSUME OutInv, NEW c \in TcpClients, Outputs!Join(c)
  PROVE  OutInv'
<1>t. OutTypes /\ OpenInv /\ DueInv /\ JoinedInv /\ NoGapInv
  BY DEF OutInv
<1>j. Joined = {d \in TcpClients : conn[d] = "in"}
  BY DEF Joined, In
<1>1. /\ "tcp" \in isOpen /\ c \notin Joined
      /\ conn' = [conn EXCEPT ![c] = IF Cardinality(Joined) >= MaxTcp THEN "gone" ELSE "in"]
      /\ buffer' = [buffer EXCEPT ![c] = <<>>] /\ got' = [got EXCEPT ![c] = Outputs!None]
      /\ UNCHANGED <<loop, toStart, works, isOpen, active, due, gap, epoch>>
  BY <1>j, SameCardinality DEF Outputs!Join, Outputs!Listening, Outputs!world
<1>2. OutTypes'
  BY <1>t, <1>1 DEF OutTypes, Outputs!None
<1>3. OpenInv' /\ DueInv'
  BY <1>1, SinksAside
<1>4. \/ Joined' \subseteq Joined
      \/ Joined' = Joined \union {c} /\ ~(Cardinality(Joined) >= MaxTcp)
  BY <1>t, <1>1 DEF OutTypes, Joined, In
<1>5. JoinedInv'
  <2>1. CASE Joined' \subseteq Joined
    BY <1>t, <1>1, <2>1, FewerJoined DEF JoinedInv
  <2>2. CASE Joined' = Joined \union {c} /\ ~(Cardinality(Joined) >= MaxTcp)
    <3>1. IsFiniteSet(Joined)
      BY FS_Subset, SinksAssumption DEF Joined
    <3>2. Cardinality(Joined) \in Nat /\ Cardinality(Joined \union {c}) = Cardinality(Joined) + 1
      BY <1>1, <3>1, FS_AddElement, FS_CardinalityType
    <3>3. QED
      BY <1>1, <2>2, <3>2, SinksAssumption DEF JoinedInv
  <2>3. QED
    BY <1>4, <2>1, <2>2
<1>6. NoGapInv'
  <2>1. ASSUME NEW d \in Joined'
        PROVE  Follows(buffer'[d], got'[d], epoch')
    <3>1. CASE d = c
      <4>1. buffer'[d] = <<>> /\ got'[d] = Outputs!None /\ epoch' \in Int
        BY <1>t, <1>1, <3>1 DEF OutTypes
      <4>2. PICK e \in Int : e = epoch'
        BY <4>1
      <4>3. QED
        BY <4>1, <4>2, NothingMissed
    <3>2. CASE d # c
      <4>1. d \in Joined /\ buffer'[d] = buffer[d] /\ got'[d] = got[d]
        BY <1>t, <1>1, <1>4, <3>2 DEF OutTypes, Joined
      <4>2. QED
        BY <1>t, <1>1, <4>1 DEF NoGapInv
    <3>3. QED
      BY <3>1, <3>2
  <2>2. QED
    BY <1>t, <1>1, <2>1 DEF NoGapInv
<1>7. QED
  BY <1>2, <1>3, <1>5, <1>6 DEF OutInv

LEMMA StepReads ==
  ASSUME OutInv, NEW c \in TcpClients, Outputs!ClientReads(c)
  PROVE  OutInv'
<1>t. OutTypes /\ OpenInv /\ DueInv /\ JoinedInv /\ NoGapInv
  BY DEF OutInv
<1>1. /\ c \in Joined /\ buffer[c] # <<>>
      /\ got' = [got EXCEPT ![c] = Head(buffer[c])]
      /\ buffer' = [buffer EXCEPT ![c] = Tail(buffer[c])]
      /\ gap' = IF got[c] = Outputs!None \/ Head(buffer[c]) = After1(got[c])
                THEN gap ELSE gap \union {c}
      /\ UNCHANGED <<loop, toStart, works, isOpen, active, due, conn, epoch>>
  BY DEF Outputs!ClientReads, Outputs!world, Joined, In, After1
<1>2. PICK b \in Seq(Int), g \in Int, e \in Int : b = buffer[c] /\ g = got[c] /\ e = epoch
  BY <1>t DEF OutTypes
<1>3. /\ Follows(Tail(b), Head(b), e)
      /\ g = Outputs!None \/ Head(b) = After1(g)
  <2>1. Follows(b, g, e) /\ b # <<>>
    BY <1>t, <1>1, <1>2 DEF NoGapInv
  <2>2. QED
    BY <2>1, ReadFollows
<1>4. OutTypes'
  <2>1. Head(b) \in Int /\ Tail(b) \in Seq(Int)
    BY <1>1, <1>2
  <2>2. QED
    BY <1>t, <1>1, <1>2, <2>1 DEF OutTypes
<1>5. OpenInv' /\ DueInv'
  BY <1>1, SinksAside
<1>6. Joined' = Joined
  BY <1>1 DEF Joined, In
<1>7. JoinedInv'
  BY <1>t, <1>1, <1>6 DEF JoinedInv
<1>8. NoGapInv'
  <2>1. ASSUME NEW d \in Joined
        PROVE  Follows(buffer'[d], got'[d], epoch')
    <3>1. CASE d = c
      BY <1>t, <1>1, <1>2, <1>3, <3>1 DEF OutTypes
    <3>2. CASE d # c
      <4>1. buffer'[d] = buffer[d] /\ got'[d] = got[d]
        BY <1>t, <1>1, <3>2 DEF OutTypes, Joined
      <4>2. QED
        BY <1>t, <1>1, <4>1 DEF NoGapInv
    <3>3. QED
      BY <3>1, <3>2
  <2>2. QED
    BY <1>t, <1>1, <1>2, <1>3, <1>6, <2>1 DEF NoGapInv
<1>9. QED
  BY <1>4, <1>5, <1>7, <1>8 DEF OutInv

LEMMA StepSinkDevice ==
  ASSUME OutInv, NEW s \in Sinks, Outputs!DeviceGoes(s) \/ Outputs!DeviceBack(s)
  PROVE  OutInv'
<1>1. /\ UNCHANGED <<loop, toStart, isOpen, active, due, conn, buffer, got, gap, epoch>>
      /\ works' \subseteq works \union {s}
  BY DEF Outputs!DeviceGoes, Outputs!DeviceBack, Outputs!tcp
<1>2. OutTypes'
  BY <1>1 DEF OutInv, OutTypes
<1>3. QED
  BY <1>1, <1>2, SinksAside, ClientsAside DEF OutInv

LEMMA OutputsStep == OutInv /\ [Outputs!Next]_(Outputs!outVars) => OutInv'
<1> SUFFICES ASSUME OutInv, [Outputs!Next]_(Outputs!outVars) PROVE OutInv'
  OBVIOUS
<1>1. CASE Outputs!Begin \/ Outputs!StartSink \/ Outputs!AllStarted \/ Outputs!RetryFailed
           \/ Outputs!Tick \/ Outputs!Stop \/ Outputs!Fails \/ Outputs!Stops
  BY <1>1, StepLoop
<1>2. CASE Outputs!Publish
  BY <1>2, StepPublish
<1>3. CASE Outputs!End \/ \E c \in TcpClients : Outputs!ClientLeaves(c)
  BY <1>3, StepLeaves
<1>4. CASE \E c \in TcpClients : Outputs!Join(c)
  BY <1>4, StepJoin
<1>5. CASE \E c \in TcpClients : Outputs!ClientReads(c)
  BY <1>5, StepReads
<1>6. CASE \E s \in Sinks : Outputs!DeviceGoes(s) \/ Outputs!DeviceBack(s)
  BY <1>6, StepSinkDevice
<1>7. CASE UNCHANGED Outputs!outVars
  <2>1. UNCHANGED <<loop, toStart, works, isOpen, active, due, conn, buffer, got, gap, epoch>>
    BY <1>7 DEF Outputs!outVars
  <2>2. OutTypes'
    BY <2>1 DEF OutInv, OutTypes
  <2>3. QED
    BY <2>1, <2>2, SinksAside, ClientsAside DEF OutInv
<1>8. QED
  BY <1>1, <1>2, <1>3, <1>4, <1>5, <1>6, <1>7 DEF Outputs!Next

\* SinksOwned holds in every state: whichever devices go and come back, clients
\* stall, join and leave, and however often the publisher fails, stops or starts
\* again, for every set of sinks and of clients and every bound.
THEOREM SinksAlwaysOwned ==
  Outputs!Init /\ [][Outputs!Next]_(Outputs!outVars) => []SinksOwned
<1>1. OutInv => SinksOwned
  <2> SUFFICES ASSUME OutInv PROVE SinksOwned
    OBVIOUS
  <2>1. {c \in TcpClients : conn[c] = "in"} = Joined
    BY DEF Joined, In
  <2>2. QED
    <3>1. isOpen = active /\ (loop \in {"off", "ended"} => isOpen = {}) /\ gap = {}
      BY DEF OutInv, OpenInv, NoGapInv
    <3>2. loop = "run" => \A s \in Sinks : (s \in active) # (due[s] # Outputs!NotFailed)
      BY DEF OutInv, DueInv
    <3>3. Cardinality({c \in TcpClients : conn[c] = "in"}) <= MaxTcp
      BY <2>1 DEF OutInv, JoinedInv
    <3>4. QED
      BY <3>1, <3>2, <3>3, SameCardinality DEF SinksOwned, Outputs!SinksOwned
<1>2. QED
  BY <1>1, OutputsInit, OutputsStep, PTL

-----------------------------------------------------------------------------
(* WsHub *)

\* What a message may be: versions of some topics.
Messages == UNION {[about -> Nat] : about \in SUBSET WsHub!Topics}

\* The version of a topic shown after one message.
Shown(message, topic, version) ==
  IF topic \in DOMAIN message THEN message[topic] ELSE version

ClientFields ==
  {"at", "topics", "outbox", "sending", "shown", "overflowed", "finished", "hungUp"}

ClientType(c) ==
  /\ c = [f \in ClientFields |-> c[f]]
  /\ c.topics \subseteq WsHub!Topics
  /\ c.outbox \in Seq(Messages)
  /\ c.sending = <<>> \/ \E m \in Messages : c.sending = <<m>>

HubTypes ==
  /\ state \in [WsHub!Topics -> Nat] /\ updates \in Nat
  /\ backlog \in Seq(Messages)
  /\ client = [s \in Sockets |-> client[s]]
  /\ \A s \in Sockets : ClientType(client[s])

\* Once the hub is closing, every socket it serves is finished with.
ClosingInv ==
  hub # "open" => \A s \in Sockets : client[s].at = "served" => client[s].finished

\* A spectrum comes alone.
SpanInv ==
  \A i \in 1 .. Len(backlog) :
    "span" \in DOMAIN backlog[i] => DOMAIN backlog[i] = {"span"}

\* What the subscription ends in is the present state.
BacklogInv ==
  hub = "open" /\ ~dropped =>
    \A t \in WsHub!Topics : WsHub!After(backlog, t, state[t]) = state[t]

\* What a client will have been shown, and CurrentOrCut of one client.
WillShow(c, messages, topic) ==
  WsHub!After(messages, topic,
    WsHub!After(c.outbox, topic, WsHub!After(c.sending, topic, c.shown[topic])))

Fed(c) == c.at = "served" /\ ~c.finished /\ ~c.overflowed

Current(c) ==
  Fed(c) /\ ~dropped =>
    \A t \in c.topics \ {"span"} : WillShow(c, backlog, t) = state[t]

HubInv ==
  /\ HubTypes /\ ClosingInv /\ SpanInv /\ BacklogInv
  /\ \A s \in Sockets : Current(client[s])

-----------------------------------------------------------------------------
(* What messages show *)

Last(q, t, i) == i \in DOMAIN q /\ t \in DOMAIN q[i] /\ \A j \in DOMAIN q : t \in DOMAIN q[j] => j <= i

\* A sequence that mentions a topic has a last message that does.
LEMMA LastMention ==
  ASSUME NEW q \in Seq(Messages), NEW t, NEW k \in DOMAIN q, t \in DOMAIN q[k]
  PROVE  \E i \in DOMAIN q : Last(q, t, i)
<1> DEFINE From == {n \in 1 .. Len(q) : t \in DOMAIN q[(Len(q) + 1) - n]}
<1>1. DOMAIN q = 1 .. Len(q) /\ Len(q) \in Nat
  OBVIOUS
<1>2. (Len(q) + 1) - k \in From
  <2>1. (Len(q) + 1) - k \in 1 .. Len(q) /\ (Len(q) + 1) - ((Len(q) + 1) - k) = k
    BY <1>1
  <2>2. QED
    BY <2>1
<1>3. From \subseteq Nat
  OBVIOUS
<1>4. PICK n \in From : \A m \in From : ~(<<m, n>> \in OpToRel(<, Nat))
  BY <1>2, <1>3, NatLessThanWellFounded, WFMin
<1> DEFINE i == (Len(q) + 1) - n
<1>5. i \in DOMAIN q /\ t \in DOMAIN q[i]
  <2>1. n \in 1 .. Len(q) /\ t \in DOMAIN q[(Len(q) + 1) - n]
    BY <1>4
  <2>2. QED
    BY <1>1, <2>1
<1>6. ASSUME NEW j \in DOMAIN q, t \in DOMAIN q[j]
      PROVE  j <= i
  <2> DEFINE m == (Len(q) + 1) - j
  <2>1. m \in 1 .. Len(q) /\ (Len(q) + 1) - m = j /\ j \in Nat
    BY <1>1
  <2>2. m \in From
    BY <1>6, <2>1
  <2>3. m \in Nat /\ n \in Nat
    BY <1>3, <1>4, <2>2
  <2>4. ~(m < n)
    BY <1>4, <2>2, <2>3 DEF OpToRel
  <2>5. QED
    BY <1>1, <2>1, <2>3, <2>4
<1>7. QED
  BY <1>5, <1>6 DEF Last

\* After is the version of that message.
LEMMA AfterLast ==
  ASSUME NEW q \in Seq(Messages), NEW t, NEW v, NEW i, Last(q, t, i)
  PROVE  WsHub!After(q, t, v) = q[i][t]
<1> DEFINE about == {j \in DOMAIN q : t \in DOMAIN q[j]}
<1>1. i \in about /\ \A j \in about : j <= i
  BY DEF Last
<1>2. DOMAIN q \subseteq Int
  OBVIOUS
<1>3. \A k \in about : (\A j \in about : j <= k) => k = i
  BY <1>1, <1>2
<1>4. (CHOOSE k \in about : \A j \in about : j <= k) = i
  BY <1>1, <1>3
<1>5. WsHub!After(q, t, v) =
        IF about = {} THEN v ELSE q[CHOOSE k \in about : \A j \in about : j <= k][t]
  BY DEF WsHub!After
<1>6. QED
  BY <1>1, <1>4, <1>5

LEMMA AfterNone ==
  ASSUME NEW q, NEW t, NEW v, \A j \in DOMAIN q : t \notin DOMAIN q[j]
  PROVE  WsHub!After(q, t, v) = v
BY DEF WsHub!After

\* One more message at the end.
LEMMA AfterAppend ==
  ASSUME NEW q \in Seq(Messages), NEW m \in Messages, NEW t, NEW v
  PROVE  WsHub!After(Append(q, m), t, v) = Shown(m, t, WsHub!After(q, t, v))
<1> DEFINE r == Append(q, m)
<1>1. /\ r \in Seq(Messages) /\ Len(q) \in Nat /\ DOMAIN q = 1 .. Len(q)
      /\ DOMAIN r = 1 .. Len(q) + 1 /\ r[Len(q) + 1] = m
  OBVIOUS
<1>2. \A i \in 1 .. Len(q) : r[i] = q[i]
  OBVIOUS
<1> HIDE DEF r
<1>3. CASE t \in DOMAIN m
  <2>1. Last(r, t, Len(q) + 1)
    BY <1>1, <1>3 DEF Last
  <2>2. WsHub!After(r, t, v) = r[Len(q) + 1][t]
    BY <1>1, <2>1, AfterLast
  <2>3. QED
    BY <1>1, <1>3, <2>2 DEF Shown, r
<1>4. CASE t \notin DOMAIN m /\ \E k \in DOMAIN q : t \in DOMAIN q[k]
  <2>1. PICK i \in DOMAIN q : Last(q, t, i)
    BY <1>4, LastMention
  <2>2. Last(r, t, i)
    <3>1. i \in DOMAIN r /\ t \in DOMAIN r[i]
      BY <1>1, <1>2, <2>1 DEF Last
    <3>2. ASSUME NEW j \in DOMAIN r, t \in DOMAIN r[j]
          PROVE  j <= i
      <4>1. j \in DOMAIN q /\ r[j] = q[j]
        BY <1>1, <1>2, <1>4, <3>2
      <4>2. QED
        BY <2>1, <3>2, <4>1 DEF Last
    <3>3. QED
      BY <3>1, <3>2 DEF Last
  <2>3. WsHub!After(r, t, v) = r[i][t] /\ WsHub!After(q, t, v) = q[i][t]
    BY <1>1, <2>1, <2>2, AfterLast
  <2>4. QED
    BY <1>1, <1>2, <1>4, <2>1, <2>3 DEF Shown, r
<1>5. CASE t \notin DOMAIN m /\ \A k \in DOMAIN q : t \notin DOMAIN q[k]
  <2>1. \A j \in DOMAIN r : t \notin DOMAIN r[j]
    BY <1>1, <1>2, <1>5
  <2>2. WsHub!After(r, t, v) = v /\ WsHub!After(q, t, v) = v
    BY <1>5, <2>1, AfterNone
  <2>3. QED
    BY <1>5, <2>2 DEF Shown, r
<1>6. QED
  BY <1>3, <1>4, <1>5

\* The first message comes first.
LEMMA AfterHead ==
  ASSUME NEW q \in Seq(Messages), q # <<>>, NEW t, NEW v
  PROVE  WsHub!After(q, t, v) = WsHub!After(Tail(q), t, Shown(Head(q), t, v))
<1> DEFINE r == Tail(q)
           w == Shown(Head(q), t, v)
<1>1. /\ r \in Seq(Messages) /\ Len(q) \in Nat /\ DOMAIN q = 1 .. Len(q)
      /\ DOMAIN r = 1 .. Len(q) - 1 /\ Head(q) = q[1] /\ Len(q) > 0
  OBVIOUS
<1>2. \A i \in 1 .. Len(q) - 1 : r[i] = q[i + 1]
  OBVIOUS
<1> HIDE DEF r
<1>3. CASE \E k \in DOMAIN r : t \in DOMAIN r[k]
  <2>1. PICK i \in DOMAIN r : Last(r, t, i)
    BY <1>1, <1>3, LastMention
  <2>2. Last(q, t, i + 1)
    <3>1. i + 1 \in DOMAIN q /\ t \in DOMAIN q[i + 1]
      BY <1>1, <1>2, <2>1 DEF Last
    <3>2. ASSUME NEW j \in DOMAIN q, t \in DOMAIN q[j]
          PROVE  j <= i + 1
      <4>1. CASE j = 1
        BY <1>1, <4>1
      <4>2. CASE j # 1
        <5>1. j - 1 \in DOMAIN r /\ (j - 1) + 1 = j
          BY <1>1, <4>2
        <5>2. t \in DOMAIN r[j - 1]
          BY <1>1, <1>2, <3>2, <5>1
        <5>3. j - 1 <= i
          BY <2>1, <5>1, <5>2 DEF Last
        <5>4. QED
          BY <1>1, <5>1, <5>3
      <4>3. QED
        BY <4>1, <4>2
    <3>3. QED
      BY <3>1, <3>2 DEF Last
  <2>3. WsHub!After(q, t, v) = q[i + 1][t] /\ WsHub!After(r, t, w) = r[i][t]
    BY <1>1, <2>1, <2>2, AfterLast
  <2>4. QED
    BY <1>1, <1>2, <2>1, <2>3 DEF r
<1>4. CASE (\A k \in DOMAIN r : t \notin DOMAIN r[k]) /\ t \in DOMAIN q[1]
  <2>1. Last(q, t, 1)
    <3>1. 1 \in DOMAIN q
      BY <1>1
    <3>2. ASSUME NEW j \in DOMAIN q, t \in DOMAIN q[j]
          PROVE  j <= 1
      <4>1. SUFFICES ASSUME j # 1 PROVE FALSE
        BY <1>1
      <4>2. j - 1 \in DOMAIN r /\ (j - 1) + 1 = j
        BY <1>1, <4>1
      <4>3. t \in DOMAIN r[j - 1]
        BY <1>1, <1>2, <3>2, <4>2
      <4>4. QED
        BY <1>4, <4>2, <4>3
    <3>3. QED
      BY <1>4, <3>1, <3>2 DEF Last
  <2>2. WsHub!After(q, t, v) = q[1][t]
    BY <2>1, AfterLast
  <2>3. WsHub!After(r, t, w) = w
    BY <1>4, AfterNone
  <2>4. QED
    BY <1>1, <1>4, <2>2, <2>3 DEF Shown, r
<1>5. CASE (\A k \in DOMAIN r : t \notin DOMAIN r[k]) /\ t \notin DOMAIN q[1]
  <2>1. ASSUME NEW j \in DOMAIN q
        PROVE  t \notin DOMAIN q[j]
    <3>1. CASE j = 1
      BY <1>5, <3>1
    <3>2. CASE j # 1
      <4>1. j - 1 \in DOMAIN r /\ (j - 1) + 1 = j
        BY <1>1, <3>2
      <4>2. r[j - 1] = q[j]
        BY <1>1, <1>2, <4>1
      <4>3. QED
        BY <1>5, <4>1, <4>2
    <3>3. QED
      BY <3>1, <3>2
  <2>2. WsHub!After(q, t, v) = v
    BY <2>1, AfterNone
  <2>3. WsHub!After(r, t, w) = w
    BY <1>5, AfterNone
  <2>4. QED
    BY <1>1, <1>5, <2>2, <2>3 DEF Shown, r
<1>6. QED
  BY <1>3, <1>4, <1>5

LEMMA AfterNothing == \A t, v : WsHub!After(<<>>, t, v) = v
BY DEF WsHub!After

LEMMA AfterOne ==
  ASSUME NEW m \in Messages, NEW t, NEW v
  PROVE  WsHub!After(<<m>>, t, v) = Shown(m, t, v)
<1>1. <<m>> \in Seq(Messages) /\ <<m>> # <<>> /\ Tail(<<m>>) = <<>> /\ Head(<<m>>) = m
  OBVIOUS
<1>2. PICK q \in Seq(Messages) : q = <<m>> /\ q # <<>> /\ Tail(q) = <<>> /\ Head(q) = m
  BY <1>1
<1>3. WsHub!After(q, t, v) = WsHub!After(Tail(q), t, Shown(Head(q), t, v))
  BY <1>2, AfterHead
<1>4. QED
  BY <1>2, <1>3, AfterNothing

\* What is shown at the end of a sequence stays when it comes again.
LEMMA AfterAgain ==
  ASSUME NEW q \in Seq(Messages), NEW t, NEW v
  PROVE  WsHub!After(q, t, WsHub!After(q, t, v)) = WsHub!After(q, t, v)
<1>1. CASE \E k \in DOMAIN q : t \in DOMAIN q[k]
  <2>1. PICK i \in DOMAIN q : Last(q, t, i)
    BY <1>1, LastMention
  <2>2. \A w : WsHub!After(q, t, w) = q[i][t]
    BY <2>1, AfterLast
  <2>3. QED
    BY <2>2
<1>2. CASE \A k \in DOMAIN q : t \notin DOMAIN q[k]
  BY <1>2, AfterNone
<1>3. QED
  BY <1>1, <1>2

-----------------------------------------------------------------------------
(* The hub's steps *)

LEMMA MessageFacts ==
  /\ state \in [WsHub!Topics -> Nat] => state \in Messages
  /\ \A topics \in SUBSET WsHub!Topics, n \in Nat : [t \in topics |-> n] \in Messages
  /\ \A m \in Messages : \A topics : [t \in DOMAIN m \intersect topics |-> m[t]] \in Messages
<1>1. ASSUME state \in [WsHub!Topics -> Nat]
      PROVE  state \in Messages
  BY <1>1 DEF Messages
<1>2. ASSUME NEW topics \in SUBSET WsHub!Topics, NEW n \in Nat
      PROVE  [t \in topics |-> n] \in Messages
  <2>1. [t \in topics |-> n] \in [topics -> Nat]
    OBVIOUS
  <2>2. QED
    BY <2>1 DEF Messages
<1>3. ASSUME NEW m \in Messages, NEW topics
      PROVE  [t \in DOMAIN m \intersect topics |-> m[t]] \in Messages
  <2>1. PICK about \in SUBSET WsHub!Topics : m \in [about -> Nat]
    BY DEF Messages
  <2>2. [t \in DOMAIN m \intersect topics |-> m[t]] \in [about \intersect topics -> Nat]
    BY <2>1
  <2>3. about \intersect topics \in SUBSET WsHub!Topics
    BY <2>1
  <2>4. QED
    BY <2>2, <2>3 DEF Messages
<1>4. QED
  BY <1>1, <1>2, <1>3

\* A step of one socket, which becomes d.
LEMMA OneClient ==
  ASSUME HubInv, NEW s \in Sockets, NEW d,
         client' = [client EXCEPT ![s] = d],
         ClientType(d),
         hub # "open" /\ d.at = "served" => d.finished,
         Fed(d) /\ ~dropped =>
           \A t \in d.topics \ {"span"} : WillShow(d, backlog, t) = state[t],
         UNCHANGED <<state, updates, backlog, dropped, hub>>
  PROVE  HubInv'
<1>1. /\ client' = [r \in Sockets |-> client'[r]]
      /\ client'[s] = d /\ \A r \in Sockets \ {s} : client'[r] = client[r]
  BY DEF HubInv, HubTypes
<1>2. HubTypes'
  <2>1. \A r \in Sockets : ClientType(client'[r])
    BY <1>1 DEF HubInv, HubTypes
  <2>2. QED
    BY <1>1, <2>1 DEF HubInv, HubTypes, ClientType
<1>3. ClosingInv'
  BY <1>1 DEF HubInv, ClosingInv
<1>4. SpanInv' /\ BacklogInv'
  BY DEF HubInv, SpanInv, BacklogInv
<1>5. ASSUME NEW r \in Sockets
      PROVE  Current(client[r])'
  <2>1. CASE r = s
    BY <1>1, <2>1 DEF Current, Fed, WillShow
  <2>2. CASE r # s
    BY <1>1, <2>2 DEF HubInv, Current, Fed, WillShow
  <2>3. QED
    BY <2>1, <2>2
<1>6. QED
  BY <1>2, <1>3, <1>4, <1>5 DEF HubInv

\* A client that is enqueued for has the message last, or is cut.
LEMMA EnqueueFacts ==
  ASSUME NEW c, ClientType(c), NEW m \in Messages
  PROVE  LET d == WsHub!Enqueue(c, m) IN
           /\ ClientType(d)
           /\ d.at = c.at /\ d.topics = c.topics /\ d.finished = c.finished
           /\ Fed(d) => /\ Fed(c) /\ d.outbox = Append(c.outbox, m)
                        /\ d.sending = c.sending /\ d.shown = c.shown
<1> DEFINE d == WsHub!Enqueue(c, m)
<1>1. CASE c.finished \/ c.overflowed
  <2>1. d = c
    BY <1>1 DEF WsHub!Enqueue
  <2>2. ~Fed(d)
    BY <1>1, <2>1 DEF Fed
  <2>3. QED
    BY <2>1, <2>2
<1>2. CASE ~(c.finished \/ c.overflowed) /\ Len(c.outbox) < Outbox
  <2>1. d = [c EXCEPT !.outbox = Append(@, m)]
    BY <1>2 DEF WsHub!Enqueue
  <2>2. /\ d = [f \in ClientFields |-> d[f]]
        /\ d.at = c.at /\ d.topics = c.topics /\ d.outbox = Append(c.outbox, m)
        /\ d.sending = c.sending /\ d.shown = c.shown
        /\ d.overflowed = c.overflowed /\ d.finished = c.finished
    BY <2>1 DEF ClientType, ClientFields
  <2>3. Append(c.outbox, m) \in Seq(Messages)
    BY DEF ClientType
  <2>4. ClientType(d)
    BY <2>2, <2>3 DEF ClientType
  <2>5. QED
    BY <1>2, <2>2, <2>4 DEF Fed
<1>3. CASE ~(c.finished \/ c.overflowed) /\ ~(Len(c.outbox) < Outbox)
  <2>1. d = [c EXCEPT !.overflowed = TRUE]
    BY <1>3 DEF WsHub!Enqueue
  <2>2. /\ d = [f \in ClientFields |-> d[f]]
        /\ d.at = c.at /\ d.topics = c.topics /\ d.outbox = c.outbox
        /\ d.sending = c.sending /\ d.overflowed = TRUE /\ d.finished = c.finished
    BY <2>1 DEF ClientType, ClientFields
  <2>3. ClientType(d)
    BY <2>2 DEF ClientType
  <2>4. QED
    BY <2>2, <2>3 DEF Fed
<1>4. QED
  BY <1>1, <1>2, <1>3

LEMMA NobodyFacts ==
  /\ ClientType(WsHub!Gone) /\ WsHub!Gone.at = "gone"
  /\ \A wanted \in SUBSET WsHub!Topics :
       LET c == [WsHub!Nobody EXCEPT !.at = "served", !.topics = wanted]
       IN  /\ ClientType(c) /\ c.at = "served" /\ c.topics = wanted
           /\ c.outbox = <<>> /\ c.sending = <<>>
<1>e. <<>> \in Seq(Messages)
  OBVIOUS
<1>1. /\ WsHub!Gone = [f \in ClientFields |-> WsHub!Gone[f]]
      /\ WsHub!Gone.at = "gone" /\ WsHub!Gone.topics = {}
      /\ WsHub!Gone.outbox = <<>> /\ WsHub!Gone.sending = <<>>
  BY DEF WsHub!Gone, WsHub!Nobody, ClientFields
<1>2. ClientType(WsHub!Gone) /\ WsHub!Gone.at = "gone"
  BY <1>e, <1>1 DEF ClientType
<1>3. ASSUME NEW wanted \in SUBSET WsHub!Topics
      PROVE  LET c == [WsHub!Nobody EXCEPT !.at = "served", !.topics = wanted]
             IN  /\ ClientType(c) /\ c.at = "served" /\ c.topics = wanted
                 /\ c.outbox = <<>> /\ c.sending = <<>>
  <2> DEFINE c == [WsHub!Nobody EXCEPT !.at = "served", !.topics = wanted]
  <2>1. /\ c = [f \in ClientFields |-> c[f]]
        /\ c.at = "served" /\ c.topics = wanted /\ c.outbox = <<>> /\ c.sending = <<>>
    BY DEF WsHub!Nobody, ClientFields
  <2> HIDE DEF c
  <2>2. ClientType(c)
    BY <1>e, <2>1 DEF ClientType
  <2>3. QED
    BY <2>1, <2>2 DEF c
<1>4. QED
  BY <1>2, <1>3

LEMMA StepServe ==
  ASSUME HubInv, NEW s \in Sockets, NEW wanted \in Wants, WsHub!Serve(s, wanted)
  PROVE  HubInv'
<1> DEFINE c == [WsHub!Nobody EXCEPT !.at = "served", !.topics = wanted]
           d == WsHub!Enqueue(c, state)
<1>1. wanted \in SUBSET WsHub!Topics /\ state \in Messages /\ state \in [WsHub!Topics -> Nat]
      /\ DOMAIN state = WsHub!Topics
  BY HubAssumption, MessageFacts DEF HubInv, HubTypes
<1>2. ClientType(c) /\ c.at = "served" /\ c.topics = wanted /\ c.outbox = <<>> /\ c.sending = <<>>
  BY <1>1, NobodyFacts
<1>3. /\ client' = [client EXCEPT ![s] = d] /\ hub = "open"
      /\ UNCHANGED <<state, updates, backlog, dropped, hub>>
  BY DEF WsHub!Serve
<1> HIDE DEF c
<1>4. /\ ClientType(d) /\ d.topics = c.topics
      /\ Fed(d) => d.outbox = Append(c.outbox, state) /\ d.sending = c.sending
  BY <1>1, <1>2, EnqueueFacts
<1> HIDE DEF d
<1>5. ASSUME Fed(d), ~dropped, NEW t \in d.topics \ {"span"}
      PROVE  WillShow(d, backlog, t) = state[t]
  <2>1. d.outbox = <<state>> /\ d.sending = <<>>
    BY <1>2, <1>4, <1>5
  <2>2. t \in WsHub!Topics
    BY <1>1, <1>2, <1>4, <1>5
  <2>3. \A v : WsHub!After(d.outbox, t, v) = state[t]
    BY <1>1, <2>1, <2>2, AfterOne DEF Shown
  <2>4. WsHub!After(backlog, t, state[t]) = state[t]
    BY <1>3, <1>5, <2>2 DEF HubInv, BacklogInv
  <2>5. QED
    BY <2>3, <2>4 DEF WillShow
<1>6. QED
  BY <1>3, <1>4, <1>5, OneClient

\* A socket that was turned away, is gone, or is on its way there.
LEMMA StepNotFed ==
  ASSUME HubInv, NEW s \in Sockets, WsHub!Refused(s) \/ WsHub!Leaves(s) \/ WsHub!Wakes(s)
  PROVE  HubInv'
<1>1. UNCHANGED <<state, updates, backlog, dropped, hub>>
  BY DEF WsHub!Refused, WsHub!Leaves, WsHub!Wakes
<1>2. CASE WsHub!Refused(s) \/ WsHub!Leaves(s)
  <2>1. client' = [client EXCEPT ![s] = WsHub!Gone]
    BY <1>2 DEF WsHub!Refused, WsHub!Leaves
  <2>2. QED
    BY <1>1, <2>1, NobodyFacts, OneClient DEF Fed
<1>3. CASE WsHub!Wakes(s)
  <2>1. PICK c : c = client[s] /\ ClientType(c)
    BY DEF HubInv, HubTypes
  <2> DEFINE d == [c EXCEPT !.at = "ending", !.finished = TRUE, !.sending = <<>>]
  <2>2. client' = [client EXCEPT ![s] = d]
    BY <1>3, <2>1 DEF WsHub!Wakes, HubInv, HubTypes
  <2>3. /\ d = [f \in ClientFields |-> d[f]]
        /\ d.at = "ending" /\ d.finished = TRUE /\ d.topics = c.topics /\ d.outbox = c.outbox
        /\ d.sending = <<>>
    BY <2>1 DEF ClientType, ClientFields
  <2> HIDE DEF d
  <2>4. ClientType(d)
    BY <2>1, <2>3 DEF ClientType
  <2>5. QED
    BY <1>1, <2>2, <2>3, <2>4, OneClient DEF Fed
<1>4. QED
  BY <1>2, <1>3

LEMMA StepSends ==
  ASSUME HubInv, NEW s \in Sockets,
         WsHub!Take(s) \/ WsHub!Sent(s) \/ WsHub!HangsUp(s) \/ WsHub!ClosesSocket(s)
  PROVE  HubInv'
<1>1. UNCHANGED <<state, updates, backlog, dropped, hub>>
  BY DEF WsHub!Take, WsHub!Sent, WsHub!HangsUp, WsHub!ClosesSocket
<1>2. PICK c : c = client[s] /\ ClientType(c)
  BY DEF HubInv, HubTypes
<1>3. /\ hub # "open" /\ c.at = "served" => c.finished
      /\ Fed(c) /\ ~dropped => \A t \in c.topics \ {"span"} : WillShow(c, backlog, t) = state[t]
  BY <1>2 DEF HubInv, ClosingInv, Current
<1>4. CASE WsHub!Take(s)
  <2> DEFINE d == [c EXCEPT !.sending = <<Head(c.outbox)>>, !.outbox = Tail(@)]
  <2>1. c.sending = <<>> /\ c.outbox # <<>> /\ c.outbox \in Seq(Messages)
    BY <1>2, <1>4 DEF WsHub!Take, ClientType
  <2>2. client' = [client EXCEPT ![s] = d]
    BY <1>2, <1>4 DEF WsHub!Take, HubInv, HubTypes
  <2>3. Tail(c.outbox) \in Seq(Messages) /\ Head(c.outbox) \in Messages
    BY <2>1
  <2>4. /\ d = [f \in ClientFields |-> d[f]]
        /\ d.at = c.at /\ d.topics = c.topics /\ d.finished = c.finished
        /\ d.overflowed = c.overflowed /\ d.shown = c.shown
        /\ d.outbox = Tail(c.outbox) /\ d.sending = <<Head(c.outbox)>>
    BY <1>2 DEF ClientType, ClientFields
  <2> HIDE DEF d
  <2>5. ClientType(d)
    BY <1>2, <2>3, <2>4 DEF ClientType
  <2>6. ASSUME NEW t
        PROVE  WillShow(d, backlog, t) = WillShow(c, backlog, t)
    <3>1. WsHub!After(d.sending, t, d.shown[t]) = Shown(Head(c.outbox), t, c.shown[t])
      <4>1. PICK m \in Messages : m = Head(c.outbox)
        BY <2>3
      <4>2. WsHub!After(<<m>>, t, c.shown[t]) = Shown(m, t, c.shown[t])
        BY AfterOne
      <4>3. QED
        BY <2>4, <4>1, <4>2
    <3>2. WsHub!After(c.sending, t, c.shown[t]) = c.shown[t]
      BY <2>1, AfterNothing
    <3>3. WsHub!After(c.outbox, t, c.shown[t])
            = WsHub!After(Tail(c.outbox), t, Shown(Head(c.outbox), t, c.shown[t]))
      BY <2>1, AfterHead
    <3>4. QED
      BY <2>4, <3>1, <3>2, <3>3 DEF WillShow
  <2>7. QED
    BY <1>1, <1>3, <2>2, <2>4, <2>5, <2>6, OneClient DEF Fed
<1>5. CASE WsHub!Sent(s)
  <2>1. PICK m \in Messages : c.sending = <<m>>
    BY <1>2, <1>5 DEF WsHub!Sent, ClientType
  <2> DEFINE now == [t \in WsHub!Topics |-> IF t \in DOMAIN m THEN m[t] ELSE c.shown[t]]
             d == [c EXCEPT !.shown = now, !.sending = <<>>]
  <2>2. client' = [client EXCEPT ![s] = d]
    <3>1. c.sending[1] = m
      BY <2>1
    <3>2. QED
      BY <1>2, <1>5, <3>1 DEF WsHub!Sent, HubInv, HubTypes
  <2>3. /\ d = [f \in ClientFields |-> d[f]]
        /\ d.at = c.at /\ d.topics = c.topics /\ d.finished = c.finished
        /\ d.overflowed = c.overflowed /\ d.shown = now
        /\ d.outbox = c.outbox /\ d.sending = <<>>
    BY <1>2 DEF ClientType, ClientFields
  <2> HIDE DEF d
  <2>4. ClientType(d)
    BY <1>2, <2>3 DEF ClientType
  <2>5. ASSUME NEW t \in WsHub!Topics
        PROVE  WillShow(d, backlog, t) = WillShow(c, backlog, t)
    <3>1. WsHub!After(d.sending, t, d.shown[t]) = Shown(m, t, c.shown[t])
      BY <2>3, AfterNothing DEF Shown
    <3>2. WsHub!After(c.sending, t, c.shown[t]) = Shown(m, t, c.shown[t])
      BY <2>1, AfterOne
    <3>3. QED
      BY <2>3, <3>1, <3>2 DEF WillShow
  <2>6. c.topics \subseteq WsHub!Topics
    BY <1>2 DEF ClientType
  <2>7. QED
    BY <1>1, <1>3, <2>2, <2>3, <2>4, <2>5, <2>6, OneClient DEF Fed
<1>6. CASE WsHub!HangsUp(s) \/ WsHub!ClosesSocket(s)
  <2> DEFINE d == [c EXCEPT !.hungUp = TRUE]
  <2>1. client' = [client EXCEPT ![s] = d]
    BY <1>2, <1>6 DEF WsHub!HangsUp, WsHub!ClosesSocket, HubInv, HubTypes
  <2>2. /\ d = [f \in ClientFields |-> d[f]]
        /\ d.at = c.at /\ d.topics = c.topics /\ d.finished = c.finished
        /\ d.overflowed = c.overflowed /\ d.shown = c.shown
        /\ d.outbox = c.outbox /\ d.sending = c.sending
    BY <1>2 DEF ClientType, ClientFields
  <2> HIDE DEF d
  <2>3. ClientType(d)
    BY <1>2, <2>2 DEF ClientType
  <2>4. QED
    BY <1>1, <1>3, <2>1, <2>2, <2>3, OneClient DEF Fed, WillShow
<1>7. QED
  BY <1>4, <1>5, <1>6

LEMMA StepPublishTopics ==
  ASSUME HubInv, NEW topics \in {WsHub!EpochTopics, {"rf"}, {"span"}}, WsHub!Publish(topics)
  PROVE  HubInv'
<1> DEFINE message == [t \in topics |-> updates + 1]
<1>1. /\ topics \subseteq WsHub!Topics /\ ("span" \in topics => topics = {"span"})
      /\ updates \in Nat /\ updates + 1 \in Nat /\ DOMAIN message = topics
  BY DEF HubInv, HubTypes, WsHub!Topics, WsHub!EpochTopics
<1>2. message \in Messages /\ \A t \in topics : message[t] = updates + 1
  BY <1>1, MessageFacts
<1> HIDE DEF message
<1>3. /\ state' = [t \in WsHub!Topics |-> IF t \in topics THEN updates + 1 ELSE state[t]]
      /\ updates' = updates + 1 /\ UNCHANGED <<hub, client>>
  BY DEF WsHub!Publish
<1>4. state' \in [WsHub!Topics -> Nat]
  BY <1>1, <1>3 DEF HubInv, HubTypes
<1>5. ClosingInv'
  BY <1>3 DEF HubInv, ClosingInv
<1>6. backlog \in Seq(Messages) /\ \A s \in Sockets : ClientType(client[s])
  BY DEF HubInv, HubTypes
<1>7. CASE hub # "open"
  <2>1. UNCHANGED <<backlog, dropped>>
    BY <1>7 DEF WsHub!Publish
  <2>2. HubTypes'
    BY <1>1, <1>3, <1>4, <2>1 DEF HubInv, HubTypes, ClientType
  <2>3. SpanInv' /\ BacklogInv'
    BY <1>3, <1>7, <2>1 DEF HubInv, SpanInv, BacklogInv
  <2>4. \A s \in Sockets : Current(client[s])'
    BY <1>3, <1>7 DEF HubInv, ClosingInv, Current, Fed
  <2>5. QED
    BY <1>5, <2>2, <2>3, <2>4 DEF HubInv
<1>8. CASE hub = "open"
  <2> DEFINE full == Len(backlog) = BusQueue
             kept == IF full THEN Tail(backlog) ELSE backlog
  <2>1. backlog' = Append(kept, message) /\ (dropped' <=> (dropped \/ full))
    BY <1>8 DEF WsHub!Publish, message
  <2>2. kept \in Seq(Messages) /\ (~dropped' => kept = backlog /\ ~dropped)
    <3>1. full => backlog # <<>>
      BY HubAssumption
    <3>2. QED
      BY <1>6, <2>1, <3>1
  <2>3. \A i \in 1 .. Len(kept) : "span" \in DOMAIN kept[i] => DOMAIN kept[i] = {"span"}
    <3>1. CASE full
      <4>1. backlog # <<>> /\ Len(backlog) \in Nat
        BY <1>6, <3>1, HubAssumption
      <4>2. Len(kept) = Len(backlog) - 1 /\ \A i \in 1 .. Len(kept) : kept[i] = backlog[i + 1]
        BY <1>6, <3>1, <4>1
      <4>3. \A i \in 1 .. Len(kept) : i + 1 \in 1 .. Len(backlog)
        BY <4>1, <4>2
      <4>4. QED
        BY <4>2, <4>3 DEF HubInv, SpanInv
    <3>2. CASE ~full
      BY <3>2 DEF HubInv, SpanInv
    <3>3. QED
      BY <3>1, <3>2
  <2> HIDE DEF kept, full
  <2>4. /\ backlog' \in Seq(Messages) /\ Len(backlog') = Len(kept) + 1 /\ Len(kept) \in Nat
        /\ backlog'[Len(kept) + 1] = message
        /\ \A i \in 1 .. Len(kept) : backlog'[i] = kept[i]
    BY <1>2, <2>1, <2>2
  <2>5. HubTypes'
    BY <1>1, <1>3, <1>4, <2>4 DEF HubInv, HubTypes, ClientType
  <2>6. SpanInv'
    <3>1. ASSUME NEW i \in 1 .. Len(backlog'), "span" \in DOMAIN backlog'[i]
          PROVE  DOMAIN backlog'[i] = {"span"}
      <4>1. CASE i = Len(kept) + 1
        BY <1>1, <2>4, <3>1, <4>1
      <4>2. CASE i # Len(kept) + 1
        <5>1. i \in 1 .. Len(kept)
          BY <2>4, <4>2
        <5>2. QED
          BY <2>3, <2>4, <3>1, <5>1
      <4>3. QED
        BY <4>1, <4>2
    <3>2. QED
      BY <3>1 DEF SpanInv
  <2>7. ASSUME ~dropped', NEW t \in WsHub!Topics, NEW v,
               WsHub!After(backlog, t, v) = state[t]
        PROVE  WsHub!After(backlog', t, v) = state'[t]
    <3>1. backlog' = Append(backlog, message)
      BY <2>1, <2>2, <2>7
    <3>2. WsHub!After(backlog', t, v) = Shown(message, t, WsHub!After(backlog, t, v))
      BY <1>2, <1>6, <3>1, AfterAppend
    <3>3. QED
      BY <1>1, <1>2, <1>3, <2>7, <3>2 DEF Shown
  <2>8. BacklogInv'
    <3>1. ASSUME ~dropped', NEW t \in WsHub!Topics
          PROVE  WsHub!After(backlog', t, state'[t]) = state'[t]
      <4>1. WsHub!After(backlog, t, state[t]) = state[t]
        BY <1>8, <2>2, <3>1 DEF HubInv, BacklogInv
      <4>2. WsHub!After(backlog', t, state[t]) = state'[t]
        BY <2>7, <3>1, <4>1
      <4>3. QED
        BY <2>4, <4>2, AfterAgain
    <3>2. QED
      BY <3>1 DEF BacklogInv
  <2>9. ASSUME NEW s \in Sockets
        PROVE  Current(client[s])'
    <3>1. ASSUME Fed(client[s]), ~dropped', NEW t \in client[s].topics \ {"span"}
          PROVE  WillShow(client[s], backlog', t) = state'[t]
      <4>1. t \in WsHub!Topics
        BY <1>6, <3>1 DEF ClientType
      <4>2. WillShow(client[s], backlog, t) = state[t]
        BY <2>2, <3>1 DEF HubInv, Current
      <4>3. QED
        BY <2>7, <3>1, <4>1, <4>2 DEF WillShow
    <3>2. QED
      BY <1>3, <3>1 DEF Current, Fed, WillShow
  <2>10. QED
    BY <1>5, <2>5, <2>6, <2>8, <2>9 DEF HubInv
<1>9. QED
  BY <1>7, <1>8

LEMMA StepDispatch ==
  ASSUME HubInv, WsHub!Dispatch
  PROVE  HubInv'
<1>1. /\ backlog # <<>> /\ backlog \in Seq(Messages) /\ \A s \in Sockets : ClientType(client[s])
      /\ backlog' = Tail(backlog) /\ UNCHANGED <<state, updates, dropped, hub>>
  BY DEF WsHub!Dispatch, HubInv, HubTypes
<1> DEFINE message == Head(backlog)
           meant == {s \in Sockets : WsHub!DueFor(message, client[s])}
           For(s) == [t \in DOMAIN message \intersect client[s].topics |-> message[t]]
<1>2. PICK some \in SUBSET meant :
        /\ "span" \notin DOMAIN message => some = meant
        /\ client' = [s \in Sockets |->
             IF s \in some THEN WsHub!Enqueue(client[s], For(s)) ELSE client[s]]
  BY DEF WsHub!Dispatch
<1>3. /\ message \in Messages /\ message = backlog[1]
      /\ Tail(backlog) \in Seq(Messages) /\ Len(backlog) \in Nat /\ Len(backlog) > 0
      /\ Len(Tail(backlog)) = Len(backlog) - 1
      /\ \A i \in 1 .. Len(Tail(backlog)) : Tail(backlog)[i] = backlog[i + 1]
  BY <1>1
<1> HIDE DEF message
<1>4. "span" \in DOMAIN message => DOMAIN message = {"span"}
  BY <1>3 DEF HubInv, SpanInv
<1>5. ASSUME NEW s \in Sockets
      PROVE  /\ ClientType(client'[s])
             /\ client'[s].at = client[s].at /\ client'[s].topics = client[s].topics
             /\ client'[s].finished = client[s].finished
             /\ s \in some /\ Fed(client'[s]) =>
                  /\ Fed(client[s]) /\ client'[s].outbox = Append(client[s].outbox, For(s))
                  /\ client'[s].sending = client[s].sending /\ client'[s].shown = client[s].shown
             /\ s \notin some => client'[s] = client[s]
  <2>1. For(s) \in Messages
    BY <1>3, MessageFacts
  <2>2. client'[s] = IF s \in some THEN WsHub!Enqueue(client[s], For(s)) ELSE client[s]
    BY <1>2
  <2>3. PICK m \in Messages : m = For(s)
    BY <2>1
  <2>c. PICK c : c = client[s] /\ ClientType(c)
    BY <1>1
  <2>4. LET d == WsHub!Enqueue(c, m) IN
          /\ ClientType(d)
          /\ d.at = c.at /\ d.topics = c.topics /\ d.finished = c.finished
          /\ Fed(d) => /\ Fed(c) /\ d.outbox = Append(c.outbox, m)
                       /\ d.sending = c.sending /\ d.shown = c.shown
    BY <2>c, EnqueueFacts
  <2> HIDE DEF For
  <2>5. QED
    BY <2>2, <2>3, <2>c, <2>4
<1>6. HubTypes'
  <2>1. client' = [s \in Sockets |-> client'[s]]
    BY <1>2
  <2>2. QED
    BY <1>1, <1>3, <1>5, <2>1 DEF HubInv, HubTypes, ClientType
<1>7. ClosingInv'
  BY <1>1, <1>5 DEF HubInv, ClosingInv
<1>8. SpanInv'
  <2>1. \A i \in 1 .. Len(Tail(backlog)) : i + 1 \in 1 .. Len(backlog)
    BY <1>3
  <2>2. QED
    BY <1>1, <1>3, <2>1 DEF HubInv, SpanInv
<1>9. ASSUME NEW t, NEW v
      PROVE  WsHub!After(backlog, t, v) = WsHub!After(backlog', t, Shown(message, t, v))
  BY <1>1, AfterHead DEF message
<1>10. BacklogInv'
  <2>1. ASSUME hub = "open", ~dropped, NEW t \in WsHub!Topics
        PROVE  WsHub!After(backlog', t, state[t]) = state[t]
    <3>1. WsHub!After(backlog, t, state[t]) = state[t]
      BY <2>1 DEF HubInv, BacklogInv
    <3>2. WsHub!After(backlog', t, Shown(message, t, state[t])) = state[t]
      BY <1>9, <3>1
    <3>3. PICK q \in Seq(Messages) : q = backlog'
      BY <1>1, <1>3
    <3>4. WsHub!After(q, t, WsHub!After(q, t, Shown(message, t, state[t]))) = WsHub!After(q, t, Shown(message, t, state[t]))
      BY AfterAgain
    <3>5. QED
      BY <3>2, <3>3, <3>4
  <2>2. QED
    BY <1>1, <2>1 DEF BacklogInv
<1>11. ASSUME NEW s \in Sockets
       PROVE  Current(client[s])'
  <2>1. ASSUME Fed(client'[s]), ~dropped, NEW t \in client[s].topics \ {"span"}
        PROVE  WillShow(client'[s], backlog', t) = state[t]
    <3> DEFINE before == WsHub!After(client[s].sending, t, client[s].shown[t])
               queued == WsHub!After(client[s].outbox, t, before)
    <3>1. Fed(client[s])
      BY <1>5, <2>1
    <3>2. WsHub!After(backlog, t, queued) = state[t]
      BY <2>1, <3>1 DEF HubInv, Current, WillShow
    <3>3. WsHub!After(backlog', t, Shown(message, t, queued)) = state[t]
      BY <1>9, <3>2
    <3>4. CASE s \in some
      <4>1. For(s) \in Messages
        BY <1>3, MessageFacts
      <4>2. Shown(For(s), t, queued) = Shown(message, t, queued)
        BY <2>1 DEF Shown
      <4> HIDE DEF For
      <4>3. WsHub!After(client'[s].outbox, t, before) = Shown(For(s), t, queued)
        <5>1. client[s].outbox \in Seq(Messages)
          BY <1>1 DEF ClientType
        <5>2. PICK q \in Seq(Messages), m \in Messages : q = client[s].outbox /\ m = For(s)
          BY <4>1, <5>1
        <5>3. WsHub!After(Append(q, m), t, before) = Shown(m, t, WsHub!After(q, t, before))
          BY AfterAppend
        <5>4. QED
          BY <1>5, <2>1, <3>4, <5>2, <5>3
      <4>4. QED
        BY <1>5, <2>1, <3>3, <3>4, <4>2, <4>3 DEF WillShow
    <3>5. CASE s \notin some
      <4>1. t \notin DOMAIN message
        <5>1. CASE "span" \in DOMAIN message
          BY <1>4, <2>1, <5>1
        <5>2. CASE "span" \notin DOMAIN message
          <6>1. ~WsHub!DueFor(message, client[s])
            BY <1>2, <3>5, <5>2
          <6>2. QED
            BY <2>1, <3>1, <6>1 DEF WsHub!DueFor, Fed
        <5>3. QED
          BY <5>1, <5>2
      <4>2. QED
        BY <1>5, <3>3, <3>5, <4>1 DEF Shown, WillShow
    <3>6. QED
      BY <3>4, <3>5
  <2>2. QED
    BY <1>1, <1>5, <2>1 DEF Current, Fed, WillShow
<1>12. QED
  BY <1>6, <1>7, <1>8, <1>10, <1>11 DEF HubInv

LEMMA StepClose ==
  ASSUME HubInv, WsHub!Close
  PROVE  HubInv'
<1>1. /\ UNCHANGED <<state, updates, backlog, dropped>> /\ hub' = "hanging up"
      /\ client' = [s \in Sockets |->
           IF s \in WsHub!Clients THEN [client[s] EXCEPT !.finished = TRUE] ELSE client[s]]
  BY DEF WsHub!Close
<1>2. ASSUME NEW s \in Sockets
      PROVE  /\ ClientType(client'[s])
             /\ client'[s].at = "served" => client'[s].finished
  <2>1. CASE s \in WsHub!Clients
    <3>1. PICK c : c = client[s] /\ ClientType(c)
      BY DEF HubInv, HubTypes
    <3> DEFINE d == [c EXCEPT !.finished = TRUE]
    <3>2. /\ d = [f \in ClientFields |-> d[f]] /\ d.finished = TRUE
          /\ d.topics = c.topics /\ d.outbox = c.outbox /\ d.sending = c.sending
      BY <3>1 DEF ClientType, ClientFields
    <3>3. client'[s] = d
      BY <1>1, <2>1, <3>1
    <3> HIDE DEF d
    <3>4. ClientType(d)
      BY <3>1, <3>2 DEF ClientType
    <3>5. QED
      BY <3>2, <3>3, <3>4
  <2>2. CASE s \notin WsHub!Clients
    <3>1. client'[s] = client[s]
      BY <1>1, <2>2
    <3>2. QED
      BY <2>2, <3>1 DEF HubInv, HubTypes, WsHub!Clients
  <2>3. QED
    BY <2>1, <2>2
<1>3. HubTypes'
  <2>1. client' = [s \in Sockets |-> client'[s]]
    BY <1>1
  <2>2. QED
    BY <1>1, <1>2, <2>1 DEF HubInv, HubTypes, ClientType
<1>4. ClosingInv' /\ SpanInv' /\ BacklogInv'
  BY <1>1, <1>2 DEF HubInv, ClosingInv, SpanInv, BacklogInv
<1>5. \A s \in Sockets : Current(client[s])'
  BY <1>2 DEF Current, Fed
<1>6. QED
  BY <1>3, <1>4, <1>5 DEF HubInv

\* The hub's shutdown goes on, or nothing happens.
LEMMA StepShutdown ==
  ASSUME HubInv,
         WsHub!HungUp \/ WsHub!ReaderEnds \/ WsHub!Joined \/ UNCHANGED hubVars
  PROVE  HubInv'
<1>1. /\ UNCHANGED <<state, updates, backlog, dropped, client>>
      /\ hub' = hub \/ (hub # "open" /\ hub' # "open")
  BY DEF WsHub!HungUp, WsHub!ReaderEnds, WsHub!Joined, hubVars
<1>2. HubTypes'
  BY <1>1 DEF HubInv, HubTypes, ClientType
<1>3. ClosingInv' /\ SpanInv' /\ BacklogInv'
  BY <1>1 DEF HubInv, ClosingInv, SpanInv, BacklogInv
<1>4. \A s \in Sockets : Current(client[s])'
  BY <1>1 DEF HubInv, Current, Fed, WillShow
<1>5. QED
  BY <1>2, <1>3, <1>4 DEF HubInv

LEMMA HubInit == WsHub!Init => HubInv
<1> SUFFICES ASSUME WsHub!Init PROVE HubInv
  OBVIOUS
<1>1. /\ state = [t \in WsHub!Topics |-> 0] /\ updates = 0 /\ backlog = <<>> /\ hub = "open"
      /\ client = [s \in Sockets |-> WsHub!Nobody]
  BY DEF WsHub!Init
<1>2. ClientType(WsHub!Nobody) /\ WsHub!Nobody.at = "none"
  <2>1. /\ WsHub!Nobody = [f \in ClientFields |-> WsHub!Nobody[f]]
        /\ WsHub!Nobody.at = "none" /\ WsHub!Nobody.topics = {}
        /\ WsHub!Nobody.outbox = <<>> /\ WsHub!Nobody.sending = <<>>
    BY DEF WsHub!Nobody, ClientFields
  <2>2. <<>> \in Seq(Messages)
    OBVIOUS
  <2>3. QED
    BY <2>1, <2>2 DEF ClientType
<1>3. HubTypes
  BY <1>1, <1>2 DEF HubTypes
<1>4. ClosingInv /\ SpanInv
  BY <1>1 DEF ClosingInv, SpanInv
<1>5. BacklogInv
  BY <1>1, AfterNothing DEF BacklogInv
<1>6. \A s \in Sockets : Current(client[s])
  BY <1>1, <1>2 DEF Current, Fed
<1>7. QED
  BY <1>3, <1>4, <1>5, <1>6 DEF HubInv

LEMMA HubStep == HubInv /\ [WsHub!Next]_hubVars => HubInv'
<1> SUFFICES ASSUME HubInv, [WsHub!Next]_hubVars PROVE HubInv'
  OBVIOUS
<1>1. CASE \E topics \in {WsHub!EpochTopics, {"rf"}, {"span"}} : WsHub!Publish(topics)
  BY <1>1, StepPublishTopics
<1>2. ASSUME NEW s \in Sockets,
             \/ WsHub!Refused(s) \/ WsHub!Take(s) \/ WsHub!Sent(s) \/ WsHub!HangsUp(s)
             \/ WsHub!Wakes(s) \/ WsHub!Leaves(s) \/ WsHub!ClosesSocket(s)
             \/ \E wanted \in Wants : WsHub!Serve(s, wanted)
      PROVE  HubInv'
  BY <1>2, StepNotFed, StepSends, StepServe
<1>3. CASE WsHub!Dispatch
  BY <1>3, StepDispatch
<1>4. CASE WsHub!Close
  BY <1>4, StepClose
<1>5. CASE WsHub!HungUp \/ WsHub!ReaderEnds \/ WsHub!Joined \/ UNCHANGED hubVars
  BY <1>5, StepShutdown
<1>6. QED
  BY <1>1, <1>2, <1>3, <1>4, <1>5 DEF WsHub!Next

\* CurrentOrCut holds in every state: whatever is published, however slow the sockets
\* are and whenever they come, go or are hung up, for every set of sockets and every
\* bound of the queues.
THEOREM AlwaysCurrentOrCut ==
  WsHub!Init /\ [][WsHub!Next]_hubVars => []CurrentOrCut
<1>1. HubInv => CurrentOrCut
  <2> SUFFICES ASSUME HubInv PROVE CurrentOrCut
    OBVIOUS
  <2>1. \A s \in Sockets : \A t : WsHub!Coming(s, t) = WillShow(client[s], backlog, t)
    BY DEF WsHub!Coming, WillShow
  <2>2. QED
    BY <2>1 DEF HubInv, Current, Fed, CurrentOrCut, WsHub!CurrentOrCut
<1>2. QED
  BY <1>1, HubInit, HubStep, PTL

=============================================================================
