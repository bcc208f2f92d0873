----------------------------- MODULE SbgConfig -----------------------------
(***************************************************************************)
(* Configuring an SBG Ellipse (rover/drivers/sbg/config.py, commands.py):  *)
(* every item of the profile is read, set where it differs and read back;  *)
(* what was applied is saved to flash at most once per process, and a      *)
(* marker under DATA_DIR remembers what was written to RAM only.  Runs on  *)
(* InsLink, against a unit with RAM and flash that may refuse an item,     *)
(* keep its own value, answer late or not at all.                          *)
(***************************************************************************)
EXTENDS InsLink

CONSTANT Units  \* the units to configure

VARIABLES
  unit,       \* how it takes each item ("takes", "keeps", "refuses", "absent"), and
              \* whether its Port A carries INS_OUTPUT_HZ
  ram, flash, \* item -> TRUE where it has the value the profile wants
  applyConf,  \* INS_APPLY_CONFIG
  marker,     \* the .ram-only file exists
  savedRun,   \* driver.saved_this_run
  saves,      \* SAVE_SETTINGS this process has sent
  job,        \* the configuration or reset in progress
  promised    \* items a report calls applied, and that the unit has not lost

unitVars == <<unit, ram, flash>>
hostVars == <<applyConf, marker, savedRun, saves, job, promised>>
sbgVars == <<linkVars, unitVars, hostVars>>

\* _items: Port A's rate first, read only; an output above FAST_OUTPUT_HZ, an
\* event log and a setting stand for the others.
Items == <<"uart", "nav", "event", "motion">>
Managed == {"nav", "event", "motion"}
Fast(i) == i = "nav"
Optional(i) == i \in {"nav", "event"}
Event(i) == i = "event"

\* The outputs share one command; GETs tell them apart by the selector.
Command(i) == IF i \in {"nav", "event"} THEN "OUTPUT_CONF" ELSE i

Idle == [who |-> "none", step |-> "none"]

Report == [applied |-> {}, pending |-> {}, mismatched |-> {}]

Init ==
  /\ LinkInit
  /\ unit \in Units
  /\ flash = [i \in Managed |-> FALSE] /\ ram = flash
  /\ applyConf \in BOOLEAN /\ marker = FALSE /\ savedRun = FALSE /\ saves = 0
  /\ job = Idle /\ promised = {}

\* The frames of the protocol.
Get(i) == [op |-> "get", item |-> i]
Set(i) == [op |-> "set", item |-> i]
Action(a) == [op |-> "action", item |-> a]
Data(i, v) == [op |-> "data", item |-> i, value |-> v]
Ack(c, code) == [op |-> "ack", item |-> c, value |-> code]

CommandOf(f) == IF f.op = "action" THEN "SETTINGS_ACTION" ELSE Command(f.item)

\* Whether a frame answers the request: data with its selector or an error
\* ACK for a GET, any ACK for the command for a SET.
MatchGet(f, i) ==
  \/ f.op = "data" /\ f.item = i
  \/ f.op = "ack" /\ f.item = Command(i) /\ f.value # "ok"

Match(f, r) ==
  IF r.op = "get" THEN MatchGet(f, r.item)
  ELSE f.op = "ack" /\ f.item = CommandOf(r)

\* The unit: what it answers, and what it holds afterwards.
Answer(r) ==
  IF r.op = "get"
  THEN IF r.item \in Managed /\ unit[r.item] = "absent" THEN <<Ack(Command(r.item), "absent")>>
       ELSE <<Data(r.item, IF r.item \in Managed THEN ram[r.item] ELSE TRUE)>>
  ELSE <<Ack(CommandOf(r), IF r.op = "set" /\ unit[r.item] = "refuses" THEN "refused" ELSE "ok")>>

RamAfter(r) ==
  CASE r.op = "set" /\ unit[r.item] = "takes" -> [ram EXCEPT ![r.item] = TRUE]
    [] r.op = "action" /\ r.item = "reboot" -> flash
    [] OTHER -> ram

FlashAfter(r) == IF r.op = "action" /\ r.item = "save" THEN ram ELSE flash

\* The configuration starts: the session's hook, or the API's forced apply,
\* which waits for the bundle's lock.
Job(who, force) ==
  [who |-> who, apply |-> force, step |-> "info", at |-> 1, report |-> Report,
   glitch |-> FALSE]

Start(who, force) ==
  /\ job = Idle /\ link = "up" /\ req.at = "none"
  /\ job' = Job(who, force) /\ req' = Request(Get("info"), 1)
  /\ UNCHANGED <<link, writer, inbox, faults, restarts, cuts, unitVars>>
  /\ UNCHANGED <<applyConf, marker, savedRun, saves, promised>>

Open ==
  /\ Connect /\ job = Idle /\ req.at = "none"
  /\ job' = Job("hook", applyConf) /\ req' = Request(Get("info"), 1)
  /\ UNCHANGED <<unitVars, applyConf, marker, savedRun, saves, promised>>

\* POST /api/receiver/ins/reset: REBOOT_ONLY, sent once.
Reset ==
  /\ job = Idle /\ link = "up" /\ req.at = "none"
  /\ job' = [Job("api", FALSE) EXCEPT !.step = "reboot"]
  /\ req' = Request(Action("reboot"), Retries)
  /\ UNCHANGED <<link, writer, inbox, faults, restarts, cuts, unitVars>>
  /\ UNCHANGED <<applyConf, marker, savedRun, saves, promised>>

\* mark_ram_only: whatever was applied is remembered until a save.
MarksForcedOnly(j) == j.apply /\ j.report.applied # {} /\ ~applyConf
Marks(j) == j.apply /\ j.report.applied # {}

Slow == ~unit.carries

\* Whether the report leads to a save: something applied, or everything in
\* place that an earlier run wrote to RAM only.
RamOnly(j, marked) ==
  marked /\ j.report.pending = {} /\ j.report.mismatched = {} /\ j.report.applied = {}

Saves(j, marked) ==
  /\ j.apply /\ applyConf /\ ~savedRun
  /\ j.report.applied # {} \/ RamOnly(j, marked)
  /\ j.report.mismatched = {}
  /\ ~Slow

\* The items are through: mark, then save or publish.
Conclude(j) ==
  LET marked == marker \/ Marks(j)
  IN  /\ marker' = marked
      /\ promised' = promised \union (IF j.glitch THEN {} ELSE j.report.applied)
      /\ IF Saves(j, marked)
         THEN /\ job' = [j EXCEPT !.step = "save"]
              /\ req' = Request(Action("save"), Retries)
              /\ savedRun' = TRUE
         ELSE job' = Idle /\ req' = NoReq /\ UNCHANGED savedRun

\* On with the items after the one at hand.
NextItem(j) ==
  IF j.at = Len(Items) THEN Conclude(j)
  ELSE /\ job' = [j EXCEPT !.at = @ + 1, !.step = "get"]
       /\ req' = Request(Get(Items[j.at + 1]), 1)
       /\ UNCHANGED <<marker, savedRun, promised>>

Ask(j, step, r) ==
  /\ job' = [j EXCEPT !.step = step] /\ req' = Request(r, 1)
  /\ UNCHANGED <<marker, savedRun, promised>>

Item(j) == Items[j.at]
Add(j, field) == [j EXCEPT !.report[field] = @ \union {Item(j)}]

\* The answer to the first read.
GotCurrent(j, v) ==
  IF v \/ Item(j) \notin Managed THEN NextItem(j)
  ELSE IF ~j.apply \/ (Fast(Item(j)) /\ Slow) THEN NextItem(Add(j, "pending"))
  ELSE Ask(j, "set", Set(Item(j)))

\* The answer to the read-back decides.
GotBack(j, v) ==
  NextItem(IF v THEN Add(j, "applied") ELSE IF Event(Item(j)) THEN j ELSE Add(j, "mismatched"))

End(j, cleared) ==
  /\ job' = Idle /\ req' = NoReq
  /\ marker' = (marker /\ ~cleared)
  /\ UNCHANGED <<savedRun, promised>>

\* The unit answered the step.
Reply ==
  LET j == job
      f == req.got
      ok == f.op = "data" \/ f.value = "ok"
  IN  /\ Answered /\ j # Idle
      /\ CASE j.step = "info" -> Ask([j EXCEPT !.at = 1], "get", Get(Items[1]))
           [] j.step = "get" /\ ok -> GotCurrent(j, f.value)
           [] j.step = "set" /\ ok -> Ask(j, "back", Get(Item(j)))
           [] j.step = "back" /\ ok -> GotBack(j, f.value)
           [] j.step \in {"get", "set", "back"} /\ ~ok -> NextItem(j)
           [] j.step \in {"save", "reboot"} -> End(j, ok /\ j.step = "save") 
      /\ UNCHANGED <<link, writer, inbox, faults, restarts, cuts, unitVars, applyConf, saves>>

\* No answer: sent again, or given up.  A SET may have landed all the same;
\* a save is unconfirmed, and the report says so.
Silence ==
  LET j == job
  IN  /\ TimedOut /\ j # Idle
      /\ IF req.tries < Retries
         THEN /\ req' = Request(req.frame, req.tries + 1)
              /\ UNCHANGED <<job, marker, savedRun, promised>>
         ELSE CASE j.step = "info" -> End(j, FALSE)
                [] j.step \in {"get", "back"} -> NextItem(j)
                [] j.step = "set" -> Ask(j, "back", Get(Item(j)))
                [] j.step = "save" ->
                     job' = Idle /\ req' = NoReq /\ marker' = FALSE /\ promised' = {}
                     /\ UNCHANGED savedRun
                [] j.step = "reboot" -> End(j, FALSE)
      /\ UNCHANGED <<unitVars, applyConf, saves>>

\* A save that raised ConnectionError: taken back when its write never
\* completed, unconfirmed when it did.
SaveFailed(sent) ==
  IF job.step = "save"
  THEN savedRun' = sent /\ marker' = (marker /\ ~sent)
  ELSE UNCHANGED <<savedRun, marker>>

\* The promises left when a command has gone out, or may have.
PromisedAfter(unconfirmed) ==
  promised' = IF req.frame = Action("reboot") \/ (job.step = "save" /\ unconfirmed)
              THEN {} ELSE promised

\* A command's bytes go out: the unit takes them, or they or the answer are lost.
Send ==
  LET r == req.frame
  IN  /\ \/ Written(Answer(r)) /\ ram' = RamAfter(r) /\ flash' = FlashAfter(r) /\ UNCHANGED faults
         \/ Written(<<>>) /\ ram' = RamAfter(r) /\ flash' = FlashAfter(r) /\ Fault
         \/ Written(<<>>) /\ Fault /\ UNCHANGED <<ram, flash>>
      /\ saves' = IF r = Action("save") THEN saves + 1 ELSE saves
      /\ IF req.at = "orphan" THEN job' = Idle /\ SaveFailed(TRUE)
         ELSE UNCHANGED <<job, savedRun, marker>>
      /\ PromisedAfter(req.at = "orphan")
      /\ UNCHANGED <<unit, applyConf>>

\* The link drops under a configuration.  The session's own is cancelled where
\* it stands (its bytes may still go out); the API's gets ConnectionError, once
\* its write is over.
LinkLost ==
  /\ SessionOver(job.who # "api")
  /\ IF job.who = "api" /\ writer # "command"
     THEN SaveFailed(req.at = "waiting") /\ PromisedAfter(req.at = "waiting")
     ELSE UNCHANGED <<savedRun, marker, promised>>
  /\ job' = IF job.who = "api" /\ writer = "command" THEN job ELSE Idle
  /\ \/ UNCHANGED <<ram, flash>>
     \/ /\ job.who # "api" /\ writer = "command"
        /\ ram' = RamAfter(req.frame) /\ flash' = FlashAfter(req.frame)
  /\ UNCHANGED <<unit, applyConf, saves>>

\* A write that does not drain in time: ConnectionError, though the transport
\* may still hand the bytes to the unit.
Stall ==
  /\ writer = "command" /\ Fault
  /\ writer' = "none" /\ req' = NoReq /\ job' = Idle
  /\ SaveFailed(FALSE) /\ PromisedAfter(FALSE)
  /\ \/ ram' = RamAfter(req.frame) /\ flash' = FlashAfter(req.frame)
     \/ UNCHANGED <<ram, flash>>
  /\ UNCHANGED <<link, inbox, restarts, cuts, unit, applyConf, saves>>

\* A new process, with INS_APPLY_CONFIG as the operator leaves it.
Restart ==
  /\ Restarted
  /\ applyConf' \in BOOLEAN
  /\ savedRun' = FALSE /\ saves' = 0 /\ job' = Idle
  /\ UNCHANGED <<unitVars, marker, promised>>

PowerCycle ==
  /\ PowerCut
  /\ ram' = flash /\ promised' = {}
  /\ job' = IF job = Idle THEN Idle ELSE [job EXCEPT !.glitch = TRUE]
  /\ UNCHANGED <<unit, flash, applyConf, marker, savedRun, saves>>

Next ==
  \/ Open \/ Start("api", TRUE) \/ Reset \/ Reply \/ Silence \/ Send \/ LinkLost
  \/ Stall \/ Restart \/ PowerCycle
  \/ (StartWrite \/ StartRtcm \/ EndRtcm \/ ClosePort
        \/ Route(inbox # <<>> /\ Match(Head(inbox), req.frame)))
     /\ UNCHANGED <<unitVars, hostVars>>

Spec == Init /\ [][Next]_sbgVars

TypeOK ==
  /\ LinkTypeOK
  /\ ram \in [Managed -> BOOLEAN] /\ flash \in [Managed -> BOOLEAN]
  /\ marker \in BOOLEAN /\ savedRun \in BOOLEAN /\ promised \subseteq Managed

\* What a report calls applied is in the unit's RAM and is in its flash, or is
\* remembered on disk so that a later run saves it, until the unit restarts or
\* a save went unconfirmed (configure, the marker and saved_this_run, through
\* lost and late answers, dropped links and restarts of mtrtk); and a process
\* completes the write of SAVE_SETTINGS, which reboots the unit, at most once.
AppliedIsKept ==
  /\ \A i \in promised : ram[i] /\ (flash[i] \/ marker)
  /\ saves <= 1

=============================================================================
