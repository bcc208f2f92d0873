------------------------------ MODULE VnConfig ------------------------------
(***************************************************************************)
(* Configuring a VectorNav unit (rover/drivers/vectornav/config.py and     *)
(* registers.py): binary output 1 is brought to the richest variant the    *)
(* unit takes, ASCII output is turned off once a binary frame has arrived  *)
(* on this port, the other registers follow, and what was applied is saved *)
(* to flash.  Runs on InsLink; a $VNERR does not say what it answers.      *)
(***************************************************************************)
EXTENDS InsLink

CONSTANT Units  \* the units to configure

VARIABLES
  unit,       \* [takes: variants it accepts, here: output 1 goes to mtrtk's port,
              \*  first: its registers at the start]
  ram, flash, \* the registers
  applyConf,  \* INS_APPLY_CONFIG
  marker, savedRun, job,
  glitch      \* the unit lost its power while it was being configured

unitVars == <<unit, ram, flash>>
hostVars == <<applyConf, marker, savedRun, job, glitch>>
vnVars == <<linkVars, unitVars, hostVars>>

\* Binary output 1: the profile with RawMeas, without, and without SatInfo;
\* "other" is some other output, "off" none.
Candidates == <<"raw", "sat", "bare">>

\* binary output, ASCII output on, the other registers as the profile wants
Registers(b, a, o) == [binary |-> b, ascii |-> a, other |-> o]

Streams(regs) == regs.binary # "off" /\ unit.here

Idle == [who |-> "none", step |-> "none"]

Job(who, apply) ==
  [who |-> who, apply |-> apply, step |-> "info", try |-> 1, current |-> "off",
   streaming |-> FALSE, applied |-> FALSE, mismatched |-> FALSE, pending |-> FALSE]

\* A unit that mtrtk hears: ASCII, or a binary output on this port.
Init ==
  /\ LinkInit
  /\ unit \in Units /\ ram = unit.first /\ flash = ram
  /\ ram.ascii \/ Streams(ram)
  /\ applyConf \in BOOLEAN /\ marker = FALSE /\ savedRun = FALSE /\ job = Idle /\ glitch = FALSE

Read(reg) == [op |-> "read", reg |-> reg]
WriteReg(reg, v) == [op |-> "write", reg |-> reg, value |-> v]
CommandTo(name) == [op |-> "command", reg |-> name]
Listen == [op |-> "listen", reg |-> "none"]
Error(kind) == [op |-> "error", reg |-> "none", value |-> kind]
BinaryFrame == [op |-> "binary", reg |-> "none"]

\* Any $VNERR, or the same command for the same register.
Match(f, r) ==
  IF r.op = "listen" THEN f.op = "binary"
  ELSE f.op = "error" \/ (f.op = r.op /\ f.reg = r.reg)

\* The unit.
Takes(r) == r.op # "write" \/ r.reg # "binary" \/ r.value \in unit.takes

Answer(r) ==
  IF r.op = "listen" THEN <<>>
  ELSE IF ~Takes(r) THEN <<Error("parameter")>>
  ELSE <<[op |-> r.op, reg |-> r.reg,
          value |-> IF r.op = "read" /\ r.reg # "model" THEN ram[r.reg] ELSE TRUE]>>

RamAfter(r) ==
  CASE r.op = "write" /\ Takes(r) -> [ram EXCEPT ![r.reg] = r.value]
    [] r.op = "command" /\ r.reg = "RST" -> flash
    [] OTHER -> ram

FlashAfter(r) == IF r.op = "command" /\ r.reg = "WNV" THEN ram ELSE flash

Ask(j, step, r) == job' = [j EXCEPT !.step = step] /\ req' = Request(r, 1)

Publish == job' = Idle /\ req' = NoReq

Kept == UNCHANGED <<marker, savedRun>>

\* save(): once everything is in place and output 1 streams here.
RamOnly(j) == marker /\ ~j.applied /\ ~j.mismatched /\ ~j.pending /\ j.streaming

Save(j) ==
  IF ~(j.apply /\ (j.applied \/ RamOnly(j))) \/ savedRun THEN Publish /\ Kept
  ELSE IF ~applyConf THEN Publish /\ marker' = (marker \/ j.applied) /\ UNCHANGED savedRun
  ELSE IF j.mismatched \/ ~j.streaming THEN Publish /\ Kept
  ELSE Ask(j, "save", CommandTo("WNV")) /\ Kept

\* async_output(): ASCII goes off only when the binary output streams here.
LeavesAsciiNot(j, on) == FALSE
LeavesAscii(j, on) == j.apply /\ on /\ ~j.streaming

\* The registers after the binary output, in the order of run().
AfterBinary(j) ==
  IF j.step = "listening" THEN Ask(j, "listen", Listen) /\ Kept
  ELSE Ask(j, "ascii", Read("ascii")) /\ Kept

AfterAscii(j) == Ask(j, "other", Read("other")) /\ Kept

AfterReg(j, reg) == IF reg = "ascii" THEN AfterAscii(j) ELSE Save(j)

\* change(): nothing to do, only noted, or written and read back.
Change(j, same, reg, v) ==
  IF same THEN AfterReg(j, reg)
  ELSE IF ~j.apply THEN AfterReg([j EXCEPT !.pending = TRUE], reg)
  ELSE Ask(j, IF reg = "ascii" THEN "asciiset" ELSE "otherset", WriteReg(reg, v)) /\ Kept

Verified(j, ok) == IF ok THEN [j EXCEPT !.applied = TRUE] ELSE [j EXCEPT !.mismatched = TRUE]

\* binary_output(): the candidate at hand, unless it is in place already.
TryCandidate(j) ==
  IF j.try > Len(Candidates) THEN AfterBinary([j EXCEPT !.step = "none"])
  ELSE IF Candidates[j.try] = j.current THEN AfterBinary([j EXCEPT !.step = "listening"])
  ELSE Ask(j, "binaryset", WriteReg("binary", Candidates[j.try])) /\ Kept

GotBinary(j, v) ==
  LET k == [j EXCEPT !.current = v]
  IN  IF v = Candidates[1] THEN AfterBinary([k EXCEPT !.step = "listening"])
      ELSE IF ~j.apply THEN AfterBinary([k EXCEPT !.pending = TRUE, !.step = "none"])
      ELSE TryCandidate(k)

GotAscii(j, on) ==
  IF LeavesAscii(j, on) THEN AfterAscii(j) ELSE Change(j, ~on, "ascii", FALSE)

\* The unit answered the step with a value.
Got(j, v) ==
  CASE j.step = "info" -> Ask(j, "binary", Read("binary")) /\ Kept
    [] j.step = "binary" -> GotBinary(j, v)
    [] j.step = "binaryset" -> Ask(j, "binaryback", Read("binary")) /\ Kept
    [] j.step = "binaryback" ->
         LET ok == v = Candidates[j.try]
         IN  AfterBinary([Verified(j, ok) EXCEPT !.step = IF ok THEN "listening" ELSE "none"])
    [] j.step = "listen" -> AfterBinary([j EXCEPT !.streaming = TRUE])
    [] j.step = "ascii" -> GotAscii(j, v)
    [] j.step = "asciiset" -> Ask(j, "asciiback", Read("ascii")) /\ Kept
    [] j.step = "asciiback" -> AfterAscii(Verified(j, ~v))
    [] j.step = "other" -> Change(j, v, "other", TRUE)
    [] j.step = "otherset" -> Ask(j, "otherback", Read("other")) /\ Kept
    [] j.step = "otherback" -> Save(Verified(j, v))
    [] j.step = "save" -> Publish /\ savedRun' = TRUE /\ marker' = FALSE
    [] j.step = "reset" -> Publish /\ Kept

\* The step failed: the unit refused it ("parameter"), could not read it
\* ("transport"), or was not heard ("silent").
Failed(j, why) ==
  CASE j.step = "info" -> Kept /\ IF why = "silent" THEN Publish ELSE Ask(j, "binary", Read("binary"))
    [] j.step = "binaryset" /\ why = "parameter" -> TryCandidate([j EXCEPT !.try = @ + 1])
    [] j.step \in {"binary", "binaryback"} \/ (j.step = "binaryset" /\ why # "parameter") ->
         AfterBinary([j EXCEPT !.step = "none"])
    [] j.step = "listen" -> AfterBinary(j)
    [] j.step \in {"ascii", "asciiset", "asciiback"} -> AfterAscii(j)
    [] j.step \in {"other", "otherset", "otherback"} -> Save(j)
    [] j.step \in {"save", "reset"} -> Publish /\ Kept

\* _exchange: sent again, or given up.
Again(why) ==
  IF req.tries < Retries /\ req.frame.op # "listen"
  THEN req' = Request(req.frame, req.tries + 1) /\ UNCHANGED job /\ Kept
  ELSE Failed(job, why)

Reply ==
  /\ Answered /\ job # Idle
  /\ CASE req.got.op # "error" -> Got(job, IF req.got.op = "binary" THEN TRUE ELSE req.got.value)
       [] req.got.op = "error" /\ req.got.value = "transport" -> Again("transport")
       [] OTHER -> Failed(job, "parameter")
  /\ UNCHANGED <<link, writer, inbox, faults, restarts, cuts, unitVars, applyConf, glitch>>

Silence ==
  /\ TimedOut /\ job # Idle
  /\ Again("silent")
  /\ UNCHANGED <<unitVars, applyConf, glitch>>

Open ==
  /\ Connect /\ job = Idle /\ req.at = "none"
  /\ Ask(Job("hook", applyConf), "info", Read("model"))
  /\ UNCHANGED <<unitVars, applyConf, marker, savedRun, glitch>>

Ready == job = Idle /\ link = "up" /\ req.at = "none"

Forced ==
  /\ Ready /\ Ask(Job("api", TRUE), "info", Read("model"))
  /\ UNCHANGED <<link, writer, inbox, faults, restarts, cuts, unitVars>>
  /\ UNCHANGED <<applyConf, marker, savedRun, glitch>>

Reset ==
  /\ Ready /\ job' = [Job("api", FALSE) EXCEPT !.step = "reset"]
  /\ req' = Request(CommandTo("RST"), Retries)
  /\ UNCHANGED <<link, writer, inbox, faults, restarts, cuts, unitVars>>
  /\ UNCHANGED <<applyConf, marker, savedRun, glitch>>

\* The unit takes a request, or the line garbles it, or its answer is lost.
Send ==
  LET r == req.frame
  IN  /\ \/ Written(Answer(r)) /\ ram' = RamAfter(r) /\ flash' = FlashAfter(r) /\ UNCHANGED faults
         \/ Written(<<>>) /\ ram' = RamAfter(r) /\ flash' = FlashAfter(r) /\ Fault
         \/ Written(<<Error("transport")>>) /\ Fault /\ UNCHANGED <<ram, flash>>
      /\ job' = IF req.at = "orphan" THEN Idle ELSE job
      /\ UNCHANGED <<unit, applyConf, marker, savedRun, glitch>>

\* A binary frame arrives on this port.
Stream ==
  /\ link = "up" /\ inbox = <<>> /\ Streams(ram) /\ job.step \in {"binaryback", "listen"}
  /\ inbox' = <<BinaryFrame>>
  /\ UNCHANGED <<link, writer, req, faults, restarts, cuts, unitVars, hostVars>>

LinkLost ==
  /\ SessionOver(job.who # "api")
  /\ job' = IF job.who = "api" /\ writer = "command" THEN job ELSE Idle
  /\ \/ UNCHANGED <<ram, flash>>
     \/ /\ job.who # "api" /\ writer = "command"
        /\ ram' = RamAfter(req.frame) /\ flash' = FlashAfter(req.frame)
  /\ UNCHANGED <<unit, applyConf, marker, savedRun, glitch>>

Stall ==
  /\ writer = "command" /\ Fault
  /\ writer' = "none" /\ req' = NoReq /\ job' = Idle
  /\ \/ ram' = RamAfter(req.frame) /\ flash' = FlashAfter(req.frame)
     \/ UNCHANGED <<ram, flash>>
  /\ UNCHANGED <<link, inbox, restarts, cuts, unit, applyConf, marker, savedRun, glitch>>

Restart ==
  /\ Restarted
  /\ applyConf' \in BOOLEAN /\ savedRun' = FALSE /\ job' = Idle
  /\ UNCHANGED <<unitVars, marker, glitch>>

PowerCycle ==
  /\ PowerCut
  /\ ram' = flash /\ glitch' = (glitch \/ job # Idle)
  /\ UNCHANGED <<unit, flash, applyConf, marker, savedRun, job>>

\* inject_rtcm drops the corrections while the unit is being configured.
Inject == job = Idle /\ StartRtcm

Next ==
  \/ Open \/ Forced \/ Reset \/ Reply \/ Silence \/ Send \/ Stream \/ LinkLost \/ Stall
  \/ Restart \/ PowerCycle
  \/ (StartWrite \/ Inject \/ EndRtcm \/ ClosePort
        \/ Route(inbox # <<>> /\ Match(Head(inbox), req.frame)))
     /\ UNCHANGED <<unitVars, hostVars>>

Spec == Init /\ [][Next]_vnVars

TypeOK ==
  /\ LinkTypeOK
  /\ \A r \in {ram, flash} :
       r.binary \in {"off", "other", "raw", "sat", "bare"} /\ {r.ascii, r.other} \subseteq BOOLEAN
  /\ {marker, savedRun} \subseteq BOOLEAN

\* mtrtk never silences the unit on its own port: neither in RAM nor in flash
\* is ASCII output off while binary output 1 goes nowhere mtrtk hears it,
\* whatever was refused, garbled, late or lost on the way (async_output and
\* save, behind check_stream).  A unit that loses its power half way through
\* a configuration is excepted.
NeverMute == glitch \/ \A r \in {ram, flash} : r.ascii \/ Streams(r)

=============================================================================
