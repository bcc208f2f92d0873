--------------------------- MODULE ExchangeProofs ---------------------------
(***************************************************************************)
(* Proofs about what the daemon says to a peer: the NTRIP client for every *)
(* ladder of delays and every bound on what the caster may do, the         *)
(* VectorNav and SBG configurations for every set of units and any number  *)
(* of faults, restarts and power cuts, and the INS capture for every       *)
(* length of the hour and any number of frames and crashes.                *)
(***************************************************************************)
EXTENDS MC_Exchanges, FiniteSets, Integers, FiniteSetTheorems, TLAPS

InSession == at \in {"connect", "stream", "close"}

(* A session spoke v1 if it was a retry, and a refusal that will be        *)
(* retried as v1 was the refusal of a v2 connection.                       *)
VersionInv ==
  /\ InSession /\ v1_retry => ~v2
  /\ v1_retry => refused
  /\ at = "close" /\ error = "other" /\ v2 => refused

(* At the top of the loop no connection was made since the last pause, or  *)
(* one that is to be retried as v1; in a session one, or two with the last *)
(* one a v1 one.                                                           *)
TriesInv ==
  /\ tries \in 0 .. 2
  /\ at = "loop" /\ ~stop => tries = 0 \/ (tries = 1 /\ v1_retry)
  /\ InSession => tries = 1 \/ (tries = 2 /\ ~v2)

(* Only a stop cancels a session, and a session that closes has a reason.  *)
StopInv ==
  /\ error = "stopped" => stop
  /\ at = "close" => error # "none"
  /\ at = "done" => stop

(* The GGA task does not outlive its session. *)
GgaInv == gga => at \in {"stream", "close"}

IInv == TypeOK /\ StopInv /\ StatusHonest /\ GgaInv /\ VersionInv /\ TriesInv

-----------------------------------------------------------------------------
(* Every delay that is waited for is a rung of the ladder or Fixed, and    *)
(* widening stays on the ladder.                                           *)
LEMMA DelayFacts ==
  ASSUME TypeOK, NEW e
  PROVE  /\ From(e) \in 0 .. MaxBackoff
         /\ Widened(From(e)) \in 0 .. MaxBackoff
         /\ Delay(e) \in Delays /\ Delay(e) # NoDelay
         /\ NoDelay \in Delays /\ 0 \in 0 .. MaxBackoff
BY NtripClientAssumption
   DEF TypeOK, From, Widened, Delay, Delays, NoDelay, Fixed

(* Initially the invariant holds. *)
LEMMA InitIInv == Init => IInv
<1> SUFFICES ASSUME Init PROVE IInv
  OBVIOUS
<1>1. TypeOK
  <2>1. NoDelay \in Delays
    BY NtripClientAssumption DEF NoDelay, Delays
  <2>2. 0 \in 0 .. MaxBackoff /\ 0 \in 0 .. MaxEvents
    BY NtripClientAssumption
  <2> QED
    BY <2>1, <2>2 DEF Init, Idle, Errors, TypeOK
<1>2. StopInv /\ StatusHonest /\ GgaInv /\ VersionInv /\ TriesInv
  BY NtripClientAssumption
     DEF Init, StopInv, StatusHonest, GgaInv, VersionInv, TriesInv, InSession, Idle
<1> QED
  BY <1>1, <1>2 DEF IInv

-----------------------------------------------------------------------------
(* Every step keeps the types. *)
LEMMA TypeStep ==
  ASSUME TypeOK, [Next]_vars
  PROVE  TypeOK'
<1> USE DEF TypeOK, session, history
<1>1. CASE Opens
  BY <1>1 DEF Opens
<1>2. CASE RunEnds
  BY <1>2, DelayFacts DEF RunEnds, Publishes
<1>3. CASE Refused
  <2>1. Answer \in Errors \cup {"stream"}
    BY DEF Answer, Casters, Errors
  <2> QED
    BY <1>3, <2>1 DEF Refused
<1>4. CASE Streams
  BY <1>4, DelayFacts, NtripClientAssumption DEF Streams, Publishes
<1>5. CASE TurnsStable
  BY <1>5 DEF TurnsStable
<1>6. CASE \E e \in {"net", "crash"} : StreamFails(e)
  BY <1>6, NtripClientAssumption DEF StreamFails, Errors
<1>7. CASE StreamBreaks
  BY <1>7 DEF StreamBreaks, Errors
<1>8. CASE StopCancels
  BY <1>8 DEF StopCancels
<1>9. CASE GgaWriteFails
  <2>1. UNCHANGED <<caster, at, session, backoff, status, stable, error, stop, pub, events, history>>
    BY <1>9 DEF GgaWriteFails
  <2>2. gga' \in BOOLEAN
    BY <1>9 DEF GgaWriteFails
  <2> QED
    BY <2>1, <2>2
<1>10. CASE RetryAsV1
  BY <1>10 DEF RetryAsV1, Publishes, Closes
<1>11. CASE Fails
  <2>1. backoff' \in 0 .. MaxBackoff /\ Delay(error) \in Delays
    BY <1>11, DelayFacts DEF Fails
  <2>2. status' \in [connected : BOOLEAN, retry : Delays] /\ pub' = status'
    BY <1>11, <2>1 DEF Fails, Publishes
  <2>3. sticky' \in BOOLEAN /\ v1_retry' \in BOOLEAN /\ gga' \in BOOLEAN
    BY <1>11 DEF Fails, Earned, Closes
  <2> QED
    BY <1>11, <2>1, <2>2, <2>3 DEF Fails
<1>12. CASE Stopped
  BY <1>12 DEF Stopped, Closes
<1>13. CASE PauseEnds
  BY <1>13 DEF PauseEnds
<1>14. CASE \E c \in Casters : CasterChanges(c)
  BY <1>14, NtripClientAssumption DEF CasterChanges
<1>15. CASE StopRequested
  BY <1>15 DEF StopRequested
<1>16. CASE UNCHANGED vars
  BY <1>16 DEF vars
<1> QED
  BY <1>1, <1>2, <1>3, <1>4, <1>5, <1>6, <1>7, <1>8, <1>9, <1>10, <1>11, <1>12, <1>13,
     <1>14, <1>15, <1>16 DEF Next

(* The type invariant, for every ladder and every bound. *)
THEOREM TypeCorrect == Spec => []TypeOK
<1>1. Init => TypeOK
  BY InitIInv DEF IInv
<1>2. TypeOK /\ [Next]_vars => TypeOK'
  BY TypeStep
<1> QED
  BY <1>1, <1>2, PTL DEF Spec

-----------------------------------------------------------------------------
(* A session that starts closes with a reason, and only a stop cancels it; *)
(* the GGA task is started and ended with its stream.                      *)
LEMMA SessionStep ==
  ASSUME IInv, [Next]_vars
  PROVE  StopInv' /\ GgaInv'
<1> USE DEF IInv, TypeOK, StopInv, GgaInv, session, history
<1>1. CASE Opens
  BY <1>1 DEF Opens
<1>2. CASE RunEnds
  BY <1>2 DEF RunEnds
<1>3. CASE Refused
  <2>1. Answer \notin {"none", "stopped"}
    BY DEF Answer, Casters
  <2> QED
    BY <1>3, <2>1 DEF Refused
<1>4. CASE Streams
  BY <1>4 DEF Streams
<1>5. CASE TurnsStable
  BY <1>5 DEF TurnsStable
<1>6. CASE \E e \in {"net", "crash"} : StreamFails(e)
  BY <1>6 DEF StreamFails
<1>7. CASE StreamBreaks
  BY <1>7 DEF StreamBreaks
<1>8. CASE StopCancels
  BY <1>8 DEF StopCancels
<1>9. CASE GgaWriteFails
  BY <1>9 DEF GgaWriteFails
<1>10. CASE RetryAsV1
  BY <1>10 DEF RetryAsV1, Closes
<1>11. CASE Fails
  BY <1>11 DEF Fails, Closes
<1>12. CASE Stopped
  BY <1>12 DEF Stopped, Closes
<1>13. CASE PauseEnds
  BY <1>13 DEF PauseEnds
<1>14. CASE \E c \in Casters : CasterChanges(c)
  BY <1>14 DEF CasterChanges
<1>15. CASE StopRequested
  BY <1>15 DEF StopRequested
<1>16. CASE UNCHANGED vars
  BY <1>16 DEF vars
<1> QED
  BY <1>1, <1>2, <1>3, <1>4, <1>5, <1>6, <1>7, <1>8, <1>9, <1>10, <1>11, <1>12, <1>13,
     <1>14, <1>15, <1>16 DEF Next

(* What is published stays what is. *)
LEMMA StatusStep ==
  ASSUME IInv, [Next]_vars
  PROVE  StatusHonest'
<1> USE DEF IInv, TypeOK, StopInv, StatusHonest, Idle, session, history
<1>1. CASE Opens
  BY <1>1 DEF Opens
<1>2. CASE RunEnds
  BY <1>2 DEF RunEnds, Publishes
<1>3. CASE Refused
  BY <1>3 DEF Refused
<1>4. CASE Streams
  BY <1>4 DEF Streams, Publishes
<1>5. CASE TurnsStable
  BY <1>5 DEF TurnsStable
<1>6. CASE \E e \in {"net", "crash"} : StreamFails(e)
  BY <1>6 DEF StreamFails
<1>7. CASE StreamBreaks
  BY <1>7 DEF StreamBreaks
<1>8. CASE StopCancels
  BY <1>8 DEF StopCancels
<1>9. CASE GgaWriteFails
  BY <1>9 DEF GgaWriteFails
<1>10. CASE RetryAsV1
  BY <1>10 DEF RetryAsV1, Publishes
<1>11. CASE Fails
  <2>1. Delay(error) # NoDelay
    BY DelayFacts
  <2>2. status' = [connected |-> FALSE, retry |-> Delay(error)] /\ pub' = status' /\ at' = "pause"
    BY <1>11 DEF Fails, Publishes
  <2> QED
    BY <2>1, <2>2
<1>12. CASE Stopped
  BY <1>12 DEF Stopped
<1>13. CASE PauseEnds
  BY <1>13 DEF PauseEnds
<1>14. CASE \E c \in Casters : CasterChanges(c)
  BY <1>14 DEF CasterChanges
<1>15. CASE StopRequested
  BY <1>15 DEF StopRequested
<1>16. CASE UNCHANGED vars
  BY <1>16 DEF vars
<1> QED
  BY <1>1, <1>2, <1>3, <1>4, <1>5, <1>6, <1>7, <1>8, <1>9, <1>10, <1>11, <1>12, <1>13,
     <1>14, <1>15, <1>16 DEF Next

(* The retry as v1 follows the refusal of a v2 connection, and there is at *)
(* most one before the next pause.                                         *)
LEMMA RetryStep ==
  ASSUME IInv, [Next]_vars
  PROVE  VersionInv' /\ TriesInv'
<1> USE DEF IInv, TypeOK, StopInv, VersionInv, TriesInv, InSession, session, history
<1>1. CASE Opens
  BY <1>1 DEF Opens
<1>2. CASE RunEnds
  BY <1>2 DEF RunEnds
<1>3. CASE Refused
  BY <1>3 DEF Refused
<1>4. CASE Streams
  BY <1>4 DEF Streams
<1>5. CASE TurnsStable
  BY <1>5 DEF TurnsStable
<1>6. CASE \E e \in {"net", "crash"} : StreamFails(e)
  BY <1>6 DEF StreamFails
<1>7. CASE StreamBreaks
  BY <1>7 DEF StreamBreaks
<1>8. CASE StopCancels
  BY <1>8 DEF StopCancels
<1>9. CASE GgaWriteFails
  BY <1>9 DEF GgaWriteFails
<1>10. CASE RetryAsV1
  BY <1>10 DEF RetryAsV1, RetriesV1
<1>11. CASE Fails
  BY <1>11 DEF Fails
<1>12. CASE Stopped
  BY <1>12 DEF Stopped
<1>13. CASE PauseEnds
  BY <1>13 DEF PauseEnds
<1>14. CASE \E c \in Casters : CasterChanges(c)
  BY <1>14 DEF CasterChanges
<1>15. CASE StopRequested
  BY <1>15 DEF StopRequested
<1>16. CASE UNCHANGED vars
  BY <1>16 DEF vars
<1> QED
  BY <1>1, <1>2, <1>3, <1>4, <1>5, <1>6, <1>7, <1>8, <1>9, <1>10, <1>11, <1>12, <1>13,
     <1>14, <1>15, <1>16 DEF Next

-----------------------------------------------------------------------------
(* The inductive invariant holds in every reachable state. *)
THEOREM InvCorrect == Spec => []IInv
<1>1. IInv /\ [Next]_vars => IInv'
  <2> SUFFICES ASSUME IInv, [Next]_vars PROVE IInv'
    OBVIOUS
  <2>1. TypeOK'
    BY TypeStep DEF IInv
  <2> QED
    BY <2>1, SessionStep, StatusStep, RetryStep DEF IInv
<1> QED
  BY <1>1, InitIInv, PTL DEF Spec

(* StatusHonest, for every ladder and caster: what was published last is   *)
(* the status, a client that is over does not look connected, and one that *)
(* waits says for how long (run, _publish).                                *)
THEOREM StatusAlwaysHonest == Spec => []StatusHonest
<1>1. IInv => StatusHonest
  BY DEF IInv
<1> QED
  BY <1>1, InvCorrect, PTL

(* NotHammered: two connections at most between two pauses (_run). *)
THEOREM NeverHammered == Spec => []NotHammered
<1>1. IInv => NotHammered
  BY DEF IInv, TriesInv, NotHammered
<1> QED
  BY <1>1, InvCorrect, PTL

(* StickyEarned: v1 sticks only for a caster that refused v2 and streamed  *)
(* to the retry as v1 (_sticky_v1).                                        *)
THEOREM StickyIsEarned == Spec => StickyEarned
<1>1. IInv /\ [Next]_vars => [sticky' /\ ~sticky => refused /\ streamed /\ ~v2]_vars
  <2> SUFFICES ASSUME IInv, Next, sticky', ~sticky
               PROVE  refused /\ streamed /\ ~v2
    OBVIOUS
  <2>1. Fails
    BY DEF Next, Opens, RunEnds, Refused, Streams, TurnsStable, StreamFails, StreamBreaks,
           StopCancels, GgaWriteFails, RetryAsV1, Stopped, PauseEnds, CasterChanges,
           StopRequested, session
  <2>2. v1_retry /\ streamed /\ at = "close"
    BY <2>1 DEF Fails, Earned
  <2> QED
    BY <2>2 DEF IInv, VersionInv, InSession
<1> QED
  BY <1>1, InvCorrect, PTL DEF Spec, StickyEarned

(* BackoffEarned: only a stable stream that broke narrows the backoff, and *)
(* it is retried at once (_run).                                           *)
THEOREM BackoffIsEarned == Spec => BackoffEarned
<1> DEFINE A == /\ backoff' < backoff => stable /\ status.connected
                /\ status' # status /\ at = "close" /\ error = "net" /\ status.connected /\ stable
                     => status'.retry = 0
<1>1. IInv /\ [Next]_vars => [A]_vars
  <2> SUFFICES ASSUME IInv, Next PROVE A
    OBVIOUS
  <2>1. backoff \in 0 .. MaxBackoff /\ ~(backoff < backoff) /\ MaxBackoff \in Nat
    BY NtripClientAssumption DEF IInv, TypeOK
  <2>2. CASE Fails
    <3>1. backoff' < backoff => stable /\ status.connected
      BY <2>1, <2>2 DEF Fails, Widened, From
    <3>2. error = "net" /\ status.connected /\ stable => status'.retry = 0
      BY <2>2 DEF Fails, Publishes, Delay, From
    <3> QED
      BY <3>1, <3>2
  <2>3. CASE ~Fails
    <3>1. backoff' = backoff
      BY <2>3 DEF Next, Opens, RunEnds, Refused, Streams, TurnsStable, StreamFails, StreamBreaks,
           StopCancels, GgaWriteFails, RetryAsV1, Stopped, PauseEnds, CasterChanges,
           StopRequested
    <3>2. at = "close" /\ error = "net" => status' = status
      BY <2>3 DEF Next, Opens, RunEnds, Refused, Streams, TurnsStable, StreamFails, StreamBreaks,
           StopCancels, GgaWriteFails, RetryAsV1, RetriesV1, Stopped, PauseEnds, CasterChanges,
           StopRequested
    <3> QED
      BY <2>1, <3>1, <3>2
  <2> QED
    BY <2>2, <2>3
<1> QED
  BY <1>1, InvCorrect, PTL DEF Spec, BackoffEarned
(* RetriesEarned: neither the v1 verdict nor a fresh backoff is taken      *)
(* without the stream that earns it.                                       *)
THEOREM RetriesAreEarned == Spec => RetriesEarned
  BY StickyIsEarned, BackoffIsEarned DEF RetriesEarned

(* ClientHonest: the published status is the client's own, and no caster   *)
(* is hammered.                                                            *)
THEOREM ClientIsHonest == Spec => []ClientHonest
<1>1. StatusHonest /\ NotHammered => ClientHonest
  BY DEF ClientHonest
<1> QED
  BY <1>1, StatusAlwaysHonest, NeverHammered, PTL

-----------------------------------------------------------------------------
(* VnConfig: what a unit may send, hold and be asked, and the runs.        *)
VnValues == BOOLEAN \union {"off", "other", "raw", "sat", "bare", "parameter", "transport"}
VnNames == {"model", "binary", "ascii", "other", "WNV", "RST", "none"}
VnSteps ==
  {"info", "binary", "binaryset", "binaryback", "listening", "listen", "ascii", "asciiset",
   "asciiback", "other", "otherset", "otherback", "save", "reset", "none"}
VnRegs ==
  [binary : {"off", "other", "raw", "sat", "bare"}, ascii : BOOLEAN, other : BOOLEAN]
VnFrames ==
  {VnConfig!BinaryFrame} \union
  [op : {"read", "write", "command", "error"}, reg : VnNames, value : VnValues]
VnJobs ==
  [who : {"hook", "api"}, apply : BOOLEAN, step : VnSteps, try : Nat \ {0}, current : VnValues,
   streaming : BOOLEAN, applied : BOOLEAN, mismatched : BOOLEAN, pending : BOOLEAN]

(* The request of a step; only asciiset silences, only reset restarts.     *)
VnFits(step, frame) ==
  \/ step = "info" /\ frame = VnConfig!Read("model")
  \/ step \in {"binary", "binaryback"} /\ frame = VnConfig!Read("binary")
  \/ /\ step = "binaryset"
     /\ \E v \in {"raw", "sat", "bare"} : frame = VnConfig!WriteReg("binary", v)
  \/ step = "listen" /\ frame = VnConfig!Listen
  \/ step \in {"ascii", "asciiback"} /\ frame = VnConfig!Read("ascii")
  \/ step = "asciiset" /\ frame = VnConfig!WriteReg("ascii", FALSE)
  \/ step \in {"other", "otherback"} /\ frame = VnConfig!Read("other")
  \/ step = "otherset" /\ frame = VnConfig!WriteReg("other", TRUE)
  \/ step = "save" /\ frame = VnConfig!CommandTo("WNV")
  \/ step = "reset" /\ frame = VnConfig!CommandTo("RST")

VnReq(at_, frame, got, tries_) == [at |-> at_, frame |-> frame, got |-> got, tries |-> tries_]

VnTypes ==
  /\ vnUnit \in VnUnits /\ vnRam \in VnRegs /\ vnFlash \in VnRegs /\ vnApplyConf \in BOOLEAN
  /\ vnJob = VnConfig!Idle \/ vnJob \in VnJobs
  /\ vnInbox \in Seq(VnFrames)
  /\ vnReq = VnReq(vnReq.at, vnReq.frame, vnReq.got, vnReq.tries)
  /\ vnReq.got \in VnFrames \union {VnConfig!Nothing}

(* The request in flight is that of the step, and an answer to it; the     *)
(* port's writer is the request's.                                         *)
AskInv ==
  /\ vnJob = VnConfig!Idle => vnReq = VnConfig!NoReq
  /\ vnReq.at # "none" => VnFits(vnJob.step, vnReq.frame)
  /\ vnReq.at \in {"none", "queued", "writing", "waiting", "orphan"}
  /\ vnWriter = "command" <=> vnReq.at \in {"writing", "orphan"}
  /\ vnReq.got # VnConfig!Nothing => VnConfig!Match(vnReq.got, vnReq.frame)

(* The binary output streams to mtrtk, or the unit lost its power in the   *)
(* middle of a run.                                                        *)
Hears == VnConfig!Streams(vnRam) \/ glitch

(* A binary frame is only ever the first in the inbox, and while a run is  *)
(* past its first answer it says that the output streams; so does the      *)
(* answer to listen, and the run that has had it.                          *)
HearInv ==
  /\ \A n \in 2 .. Len(vnInbox) : vnInbox[n].op # "binary"
  /\ vnInbox # <<>> /\ vnInbox[1].op = "binary" =>
       \/ Hears \/ vnJob.step \in {"none", "reset"}
       \/ vnJob.step = "info" /\ vnReq.got = VnConfig!Nothing
  /\ vnJob.step = "listen" /\ vnReq.got # VnConfig!Nothing => Hears
  /\ vnJob # VnConfig!Idle /\ vnJob.streaming => Hears
  /\ vnJob.step = "reset" => ~vnJob.streaming
  /\ vnJob.step = "asciiset" => vnJob.streaming

VnInv == VnTypes /\ AskInv /\ HearInv /\ NeverMute

-----------------------------------------------------------------------------
(* What a step of a run leaves: the run over, or the next request queued.  *)
Goes(s) ==
  \/ vnJob' = VnConfig!Idle /\ vnReq' = VnConfig!NoReq
  \/ /\ vnJob' \in VnJobs /\ vnJob'.streaming = s /\ vnJob'.step \notin {"info", "reset"}
     /\ vnReq' = VnReq("queued", vnReq'.frame, VnConfig!Nothing, vnReq'.tries)
     /\ VnFits(vnJob'.step, vnReq'.frame)
     /\ vnJob'.step = "asciiset" => s = TRUE

LEMMA AskGoes ==
  ASSUME NEW j \in VnJobs, NEW step \in VnSteps, NEW f, VnConfig!Ask(j, step, f),
         step \notin {"info", "reset"}, VnFits(step, f), step = "asciiset" => j.streaming = TRUE
  PROVE  Goes(j.streaming)
<1>1. /\ vnJob' = [j EXCEPT !.step = step]
      /\ vnReq' = VnReq("queued", f, VnConfig!Nothing, 1)
  BY DEF VnConfig!Ask, VnConfig!Request, VnReq
<1>2. vnJob' \in VnJobs /\ vnJob'.step = step /\ vnJob'.streaming = j.streaming
  BY <1>1 DEF VnJobs
<1>3. vnReq'.frame = f /\ vnReq'.tries = 1
  BY <1>1 DEF VnReq
<1> QED
  BY <1>1, <1>2, <1>3 DEF Goes

LEMMA IdleGoes == VnConfig!Publish => \A s : Goes(s)
  BY DEF VnConfig!Publish, Goes

LEMMA SaveGoes ==
  ASSUME NEW j \in VnJobs, VnConfig!Save(j)
  PROVE  Goes(j.streaming)
<1>1. VnConfig!Publish \/ VnConfig!Ask(j, "save", VnConfig!CommandTo("WNV"))
  BY DEF VnConfig!Save
<1>2. VnFits("save", VnConfig!CommandTo("WNV"))
  BY DEF VnFits
<1> QED
  BY <1>1, <1>2, AskGoes, IdleGoes DEF VnSteps

LEMMA AfterAsciiGoes ==
  ASSUME NEW j \in VnJobs, VnConfig!AfterAscii(j)
  PROVE  Goes(j.streaming)
<1>1. VnFits("other", VnConfig!Read("other"))
  BY DEF VnFits
<1> QED
  BY <1>1, AskGoes DEF VnConfig!AfterAscii, VnSteps

LEMMA AfterBinaryGoes ==
  ASSUME NEW j \in VnJobs, VnConfig!AfterBinary(j)
  PROVE  Goes(j.streaming)
<1>1. VnFits("listen", VnConfig!Listen) /\ VnFits("ascii", VnConfig!Read("ascii"))
  BY DEF VnFits
<1>2. \/ VnConfig!Ask(j, "listen", VnConfig!Listen)
      \/ VnConfig!Ask(j, "ascii", VnConfig!Read("ascii"))
  BY DEF VnConfig!AfterBinary
<1> QED
  BY <1>1, <1>2, AskGoes DEF VnSteps

(* change() of a register after the binary output: only the ASCII output   *)
(* of a run that streams is turned off.                                    *)
LEMMA ChangeGoes ==
  ASSUME NEW j \in VnJobs, NEW same,
         NEW reg \in {"ascii", "other"}, NEW v, v = (reg = "other"),
         VnConfig!Change(j, same, reg, v),
         reg = "ascii" => same \/ ~j.apply \/ j.streaming = TRUE
  PROVE  Goes(j.streaming)
<1>1. \A k \in VnJobs : VnConfig!AfterReg(k, reg) => Goes(k.streaming)
  BY AfterAsciiGoes, SaveGoes DEF VnConfig!AfterReg
<1>2. CASE VnConfig!AfterReg(j, reg)
  BY <1>1, <1>2
<1>3. CASE VnConfig!AfterReg([j EXCEPT !.pending = TRUE], reg)
  <2>1. /\ [j EXCEPT !.pending = TRUE] \in VnJobs
        /\ [j EXCEPT !.pending = TRUE].streaming = j.streaming
    BY DEF VnJobs, VnSteps
  <2> QED
    BY <1>1, <1>3, <2>1
<1>4. CASE /\ reg = "ascii" /\ j.streaming = TRUE
           /\ VnConfig!Ask(j, "asciiset", VnConfig!WriteReg("ascii", FALSE))
  <2>1. VnFits("asciiset", VnConfig!WriteReg("ascii", FALSE))
    BY DEF VnFits
  <2> QED
    BY <1>4, <2>1, AskGoes DEF VnSteps
<1>5. CASE reg = "other" /\ VnConfig!Ask(j, "otherset", VnConfig!WriteReg("other", TRUE))
  <2>1. VnFits("otherset", VnConfig!WriteReg("other", TRUE))
    BY DEF VnFits
  <2> QED
    BY <1>5, <2>1, AskGoes DEF VnSteps
<1>6. CASE reg = "ascii"
  <2>1. v = FALSE
    BY <1>6
  <2> QED
    BY <1>2, <1>3, <1>4, <1>6, <2>1 DEF VnConfig!Change
<1>7. CASE reg = "other"
  <2>1. v = TRUE
    BY <1>7
  <2> QED
    BY <1>2, <1>3, <1>5, <1>7, <2>1 DEF VnConfig!Change
<1> QED
  BY <1>6, <1>7

LEMMA TryCandidateGoes ==
  ASSUME NEW j \in VnJobs, VnConfig!TryCandidate(j)
  PROVE  Goes(j.streaming)
<1>1. CASE VnConfig!AfterBinary([j EXCEPT !.step = "none"])
  <2>1. /\ [j EXCEPT !.step = "none"] \in VnJobs
        /\ [j EXCEPT !.step = "none"].streaming = j.streaming
    BY DEF VnJobs, VnSteps
  <2> QED
    BY <1>1, <2>1, AfterBinaryGoes
<1>2. CASE VnConfig!AfterBinary([j EXCEPT !.step = "listening"])
  <2>1. /\ [j EXCEPT !.step = "listening"] \in VnJobs
        /\ [j EXCEPT !.step = "listening"].streaming = j.streaming
    BY DEF VnJobs, VnSteps
  <2> QED
    BY <1>2, <2>1, AfterBinaryGoes
<1>3. CASE /\ j.try <= 3
           /\ VnConfig!Ask(j, "binaryset",
                           VnConfig!WriteReg("binary", VnConfig!Candidates[j.try]))
  <2>1. VnConfig!Candidates[j.try] \in {"raw", "sat", "bare"}
    <3>1. j.try = 1 \/ j.try = 2 \/ j.try = 3
      BY <1>3 DEF VnJobs
    <3> QED
      BY <3>1 DEF VnConfig!Candidates
  <2>2. VnFits("binaryset", VnConfig!WriteReg("binary", VnConfig!Candidates[j.try]))
    BY <2>1 DEF VnFits
  <2> QED
    BY <1>3, <2>2, AskGoes DEF VnSteps
<1>4. Len(VnConfig!Candidates) = 3 /\ j.try \in Nat
  BY DEF VnConfig!Candidates, VnJobs
<1> QED
  BY <1>1, <1>2, <1>3, <1>4 DEF VnConfig!TryCandidate

LEMMA GotBinaryGoes ==
  ASSUME NEW j \in VnJobs, NEW v \in VnValues, VnConfig!GotBinary(j, v)
  PROVE  Goes(j.streaming)
<1>1. PICK k : k = [j EXCEPT !.current = v]
  OBVIOUS
<1>2. k \in VnJobs /\ k.streaming = j.streaming
  BY <1>1 DEF VnJobs
<1>3. \/ VnConfig!AfterBinary([k EXCEPT !.step = "listening"])
      \/ VnConfig!AfterBinary([k EXCEPT !.pending = TRUE, !.step = "none"])
      \/ VnConfig!TryCandidate(k)
  BY <1>1 DEF VnConfig!GotBinary
<1>4. /\ [k EXCEPT !.step = "listening"] \in VnJobs
      /\ [k EXCEPT !.step = "listening"].streaming = j.streaming
  BY <1>2 DEF VnJobs, VnSteps
<1>5. /\ [k EXCEPT !.pending = TRUE, !.step = "none"] \in VnJobs
      /\ [k EXCEPT !.pending = TRUE, !.step = "none"].streaming = j.streaming
  BY <1>2 DEF VnJobs, VnSteps
<1> QED
  BY <1>2, <1>3, <1>4, <1>5, AfterBinaryGoes, TryCandidateGoes

LEMMA GotAsciiGoes ==
  ASSUME NEW j \in VnJobs, NEW on, VnConfig!GotAscii(j, on)
  PROVE  Goes(j.streaming)
<1>1. CASE VnConfig!LeavesAscii(j, on)
  BY <1>1, AfterAsciiGoes DEF VnConfig!GotAscii
<1>2. CASE ~VnConfig!LeavesAscii(j, on)
  <2>1. VnConfig!Change(j, ~on, "ascii", FALSE)
    BY <1>2 DEF VnConfig!GotAscii
  <2>2. ~on \/ ~j.apply \/ j.streaming = TRUE
    BY <1>2 DEF VnConfig!LeavesAscii, VnJobs
  <2>3. FALSE = ("ascii" = "other")
    OBVIOUS
  <2> QED
    BY <2>1, <2>2, <2>3, ChangeGoes
<1> QED
  BY <1>1, <1>2

(* The unit answered the step: what follows streams if the run did, or if  *)
(* the answer was the binary frame it listened for.                        *)
LEMMA GotGoes ==
  ASSUME NEW j \in VnJobs, NEW v \in VnValues, VnConfig!Got(j, v),
         j.step \notin {"listening", "none"}
  PROVE  IF j.step = "listen" THEN Goes(TRUE) ELSE Goes(j.streaming)
<1>1. \A k \in VnJobs :
        /\ VnConfig!Ask(k, "binary", VnConfig!Read("binary")) => Goes(k.streaming)
        /\ VnConfig!Ask(k, "binaryback", VnConfig!Read("binary")) => Goes(k.streaming)
        /\ VnConfig!Ask(k, "asciiback", VnConfig!Read("ascii")) => Goes(k.streaming)
        /\ VnConfig!Ask(k, "otherback", VnConfig!Read("other")) => Goes(k.streaming)
  <2>1. /\ VnFits("binary", VnConfig!Read("binary"))
        /\ VnFits("binaryback", VnConfig!Read("binary"))
        /\ VnFits("asciiback", VnConfig!Read("ascii"))
        /\ VnFits("otherback", VnConfig!Read("other"))
    BY DEF VnFits
  <2> QED
    BY <2>1, AskGoes DEF VnSteps
<1>2. \A ok : VnConfig!Verified(j, ok) \in VnJobs /\ VnConfig!Verified(j, ok).streaming = j.streaming
  <2> TAKE ok
  <2>1. /\ [j EXCEPT !.applied = TRUE] \in VnJobs
        /\ [j EXCEPT !.applied = TRUE].streaming = j.streaming
        /\ [j EXCEPT !.mismatched = TRUE] \in VnJobs
        /\ [j EXCEPT !.mismatched = TRUE].streaming = j.streaming
    BY DEF VnJobs
  <2>2. \/ VnConfig!Verified(j, ok) = [j EXCEPT !.applied = TRUE]
        \/ VnConfig!Verified(j, ok) = [j EXCEPT !.mismatched = TRUE]
    BY DEF VnConfig!Verified
  <2> QED
    BY <2>1, <2>2
<1>3. CASE j.step = "info"
  <2>1. VnConfig!Ask(j, "binary", VnConfig!Read("binary"))
    BY <1>3 DEF VnConfig!Got
  <2> QED
    BY <1>1, <1>3, <2>1
<1>4. CASE j.step = "binary"
  <2>1. VnConfig!GotBinary(j, v)
    BY <1>4 DEF VnConfig!Got
  <2> QED
    BY <1>4, <2>1, GotBinaryGoes
<1>5. CASE j.step = "binaryset"
  <2>1. VnConfig!Ask(j, "binaryback", VnConfig!Read("binary"))
    BY <1>5 DEF VnConfig!Got
  <2> QED
    BY <1>1, <1>5, <2>1
<1>6. CASE j.step = "binaryback"
  <2>1. CASE v = VnConfig!Candidates[j.try]
    <3>1. VnConfig!AfterBinary([[j EXCEPT !.applied = TRUE] EXCEPT !.step = "listening"])
      BY <1>6, <2>1 DEF VnConfig!Got, VnConfig!Verified
    <3>2. /\ [[j EXCEPT !.applied = TRUE] EXCEPT !.step = "listening"] \in VnJobs
          /\ [[j EXCEPT !.applied = TRUE] EXCEPT !.step = "listening"].streaming = j.streaming
      BY DEF VnJobs, VnSteps
    <3> QED
      BY <1>6, <3>1, <3>2, AfterBinaryGoes
  <2>2. CASE v # VnConfig!Candidates[j.try]
    <3>1. VnConfig!AfterBinary([[j EXCEPT !.mismatched = TRUE] EXCEPT !.step = "none"])
      BY <1>6, <2>2 DEF VnConfig!Got, VnConfig!Verified
    <3>2. /\ [[j EXCEPT !.mismatched = TRUE] EXCEPT !.step = "none"] \in VnJobs
          /\ [[j EXCEPT !.mismatched = TRUE] EXCEPT !.step = "none"].streaming = j.streaming
      BY DEF VnJobs, VnSteps
    <3> QED
      BY <1>6, <3>1, <3>2, AfterBinaryGoes
  <2> QED
    BY <2>1, <2>2
<1>7. CASE j.step = "listen"
  <2>1. VnConfig!AfterBinary([j EXCEPT !.streaming = TRUE])
    BY <1>7 DEF VnConfig!Got
  <2>2. /\ [j EXCEPT !.streaming = TRUE] \in VnJobs
        /\ [j EXCEPT !.streaming = TRUE].streaming = TRUE
    BY DEF VnJobs
  <2>3. Goes([j EXCEPT !.streaming = TRUE].streaming)
    BY <2>1, <2>2, AfterBinaryGoes
  <2> QED
    BY <1>7, <2>2, <2>3
<1>8. CASE j.step = "ascii"
  <2>1. VnConfig!GotAscii(j, v)
    BY <1>8 DEF VnConfig!Got
  <2> QED
    BY <1>8, <2>1, GotAsciiGoes
<1>9. CASE j.step = "asciiset"
  <2>1. VnConfig!Ask(j, "asciiback", VnConfig!Read("ascii"))
    BY <1>9 DEF VnConfig!Got
  <2> QED
    BY <1>1, <1>9, <2>1
<1>10. CASE j.step = "asciiback"
  <2>1. VnConfig!AfterAscii(VnConfig!Verified(j, ~v))
    BY <1>10 DEF VnConfig!Got
  <2>2. Goes(VnConfig!Verified(j, ~v).streaming)
    BY <1>2, <2>1, AfterAsciiGoes
  <2> QED
    BY <1>2, <1>10, <2>2
<1>11. CASE j.step = "other"
  <2>1. VnConfig!Change(j, v, "other", TRUE)
    BY <1>11 DEF VnConfig!Got
  <2>2. TRUE = ("other" = "other")
    OBVIOUS
  <2>3. Goes(j.streaming)
    BY <2>1, <2>2, ChangeGoes
  <2> QED
    BY <1>11, <2>3
<1>12. CASE j.step = "otherset"
  <2>1. VnConfig!Ask(j, "otherback", VnConfig!Read("other"))
    BY <1>12 DEF VnConfig!Got
  <2> QED
    BY <1>1, <1>12, <2>1
<1>13. CASE j.step = "otherback"
  <2>1. VnConfig!Save(VnConfig!Verified(j, v))
    BY <1>13 DEF VnConfig!Got
  <2>2. Goes(VnConfig!Verified(j, v).streaming)
    BY <1>2, <2>1, SaveGoes
  <2> QED
    BY <1>2, <1>13, <2>2
<1>14. CASE j.step \in {"save", "reset"}
  <2>1. VnConfig!Publish
    BY <1>14 DEF VnConfig!Got
  <2> QED
    BY <1>14, <2>1, IdleGoes
<1> QED
  BY <1>3, <1>4, <1>5, <1>6, <1>7, <1>8, <1>9, <1>10, <1>11, <1>12, <1>13, <1>14
     DEF VnJobs, VnSteps

(* The step failed: the run goes on as it streamed, or is over.            *)
LEMMA FailedGoes ==
  ASSUME NEW j \in VnJobs, NEW why \in {"parameter", "transport", "silent"},
         VnConfig!Failed(j, why), j.step \notin {"listening", "none"}
  PROVE  Goes(j.streaming)
<1>1. CASE j.step = "info"
  <2>1. VnConfig!Publish \/ VnConfig!Ask(j, "binary", VnConfig!Read("binary"))
    BY <1>1 DEF VnConfig!Failed
  <2>2. VnFits("binary", VnConfig!Read("binary"))
    BY DEF VnFits
  <2> QED
    BY <2>1, <2>2, AskGoes, IdleGoes DEF VnSteps
<1>2. CASE j.step = "binaryset" /\ why = "parameter"
  <2>1. VnConfig!TryCandidate([j EXCEPT !.try = @ + 1])
    BY <1>2 DEF VnConfig!Failed
  <2>2. /\ [j EXCEPT !.try = @ + 1] \in VnJobs
        /\ [j EXCEPT !.try = @ + 1].streaming = j.streaming
    BY DEF VnJobs
  <2> QED
    BY <2>1, <2>2, TryCandidateGoes
<1>3. CASE j.step \in {"binary", "binaryback"} \/ (j.step = "binaryset" /\ why # "parameter")
  <2>1. VnConfig!AfterBinary([j EXCEPT !.step = "none"])
    BY <1>3 DEF VnConfig!Failed
  <2>2. /\ [j EXCEPT !.step = "none"] \in VnJobs
        /\ [j EXCEPT !.step = "none"].streaming = j.streaming
    BY DEF VnJobs, VnSteps
  <2> QED
    BY <2>1, <2>2, AfterBinaryGoes
<1>4. CASE j.step = "listen"
  <2>1. VnConfig!AfterBinary(j)
    BY <1>4 DEF VnConfig!Failed
  <2> QED
    BY <2>1, AfterBinaryGoes
<1>5. CASE j.step \in {"ascii", "asciiset", "asciiback"}
  <2>1. VnConfig!AfterAscii(j)
    BY <1>5 DEF VnConfig!Failed
  <2> QED
    BY <2>1, AfterAsciiGoes
<1>6. CASE j.step \in {"other", "otherset", "otherback"}
  <2>1. VnConfig!Save(j)
    BY <1>6 DEF VnConfig!Failed
  <2> QED
    BY <2>1, SaveGoes
<1>7. CASE j.step \in {"save", "reset"}
  <2>1. VnConfig!Publish
    BY <1>7 DEF VnConfig!Failed
  <2> QED
    BY <2>1, IdleGoes
<1> QED
  BY <1>1, <1>2, <1>3, <1>4, <1>5, <1>6, <1>7 DEF VnJobs, VnSteps

(* A reset or a run whose first request is in flight does not go on until  *)
(* it is answered; what goes on hears what it heard.                       *)
LEMMA GoesKeeps ==
  ASSUME VnInv, NEW s \in BOOLEAN, Goes(s), vnReq.at = "waiting", s = TRUE => Hears,
         vnJob' = VnConfig!Idle \/ Hears \/ ~(vnInbox # <<>> /\ vnInbox[1].op = "binary"),
         UNCHANGED <<vnWriter, vnInbox, vnUnit, vnRam, vnFlash, vnApplyConf, glitch>>
  PROVE  VnInv'
<1>1. Hears' = Hears /\ NeverMute'
  BY DEF VnInv, NeverMute, VnConfig!NeverMute, Hears, VnConfig!Streams
<1>2. vnWriter # "command" /\ vnInbox \in Seq(VnFrames)
  BY DEF VnInv, AskInv, VnTypes
<1>3. VnTypes /\ AskInv /\ HearInv
  BY DEF VnInv
<1>4. CASE vnJob' = VnConfig!Idle /\ vnReq' = VnConfig!NoReq
  <2>1. VnTypes'
    BY <1>3, <1>4 DEF VnTypes, VnConfig!NoReq, VnReq
  <2>2. AskInv'
    BY <1>2, <1>4 DEF AskInv, VnConfig!NoReq
  <2>3. HearInv'
    BY <1>3, <1>4 DEF HearInv, VnConfig!Idle
  <2> QED
    BY <1>1, <2>1, <2>2, <2>3 DEF VnInv
<1>5. CASE /\ vnJob' \in VnJobs /\ vnJob'.streaming = s /\ vnJob'.step \notin {"info", "reset"}
           /\ vnReq' = VnReq("queued", vnReq'.frame, VnConfig!Nothing, vnReq'.tries)
           /\ VnFits(vnJob'.step, vnReq'.frame)
           /\ vnJob'.step = "asciiset" => s = TRUE
  <2>1. vnReq'.at = "queued" /\ vnReq'.got = VnConfig!Nothing
    BY <1>5 DEF VnReq
  <2>2. vnJob' # VnConfig!Idle
    <3>1. vnJob'.who # "none"
      BY <1>5 DEF VnJobs
    <3> QED
      BY <3>1 DEF VnConfig!Idle
  <2>3. VnTypes'
    BY <1>3, <1>5, <2>1 DEF VnTypes
  <2>4. AskInv'
    BY <1>2, <1>5, <2>1, <2>2 DEF AskInv
  <2>5. HearInv'
    BY <1>1, <1>3, <1>5, <2>1, <2>2 DEF HearInv
  <2> QED
    BY <1>1, <2>3, <2>4, <2>5 DEF VnInv
<1> QED
  BY <1>4, <1>5 DEF Goes

(* The same request sent again.                                            *)
LEMMA AgainKeeps ==
  ASSUME VnInv, vnJob # VnConfig!Idle, vnReq.at = "waiting", NEW n,
         vnReq' = VnConfig!Request(vnReq.frame, n),
         UNCHANGED <<vnJob, vnWriter, vnInbox, vnUnit, vnRam, vnFlash, vnApplyConf, glitch>>
  PROVE  VnInv'
<1>1. Hears' = Hears /\ NeverMute'
  BY DEF VnInv, NeverMute, VnConfig!NeverMute, Hears, VnConfig!Streams
<1>2. vnReq' = VnReq("queued", vnReq.frame, VnConfig!Nothing, n)
  BY DEF VnConfig!Request, VnReq
<1>3. vnReq'.at = "queued" /\ vnReq'.frame = vnReq.frame /\ vnReq'.got = VnConfig!Nothing
      /\ vnReq'.tries = n
  BY <1>2 DEF VnReq
<1>4. VnTypes'
  BY <1>2, <1>3 DEF VnInv, VnTypes
<1>5. AskInv'
  BY <1>3 DEF VnInv, AskInv
<1>6. HearInv'
  BY <1>1, <1>3 DEF VnInv, HearInv
<1> QED
  BY <1>1, <1>4, <1>5, <1>6 DEF VnInv

(* A run is of one of the steps that ask.                                  *)
LEMMA RunFacts ==
  ASSUME VnInv, vnJob # VnConfig!Idle, vnReq.at # "none"
  PROVE  /\ vnJob \in VnJobs /\ vnJob.step \notin {"listening", "none"}
         /\ VnFits(vnJob.step, vnReq.frame)
  BY DEF VnInv, VnTypes, AskInv, VnFits

(* _exchange: sent again, or given up.                                     *)
LEMMA GivenUpKeeps ==
  ASSUME VnInv, vnJob # VnConfig!Idle, vnReq.at = "waiting",
         NEW why \in {"parameter", "transport", "silent"},
         VnConfig!Again(why) \/ VnConfig!Failed(vnJob, why),
         why = "silent" \/ vnReq.got # VnConfig!Nothing,
         UNCHANGED <<vnWriter, vnInbox, vnUnit, vnRam, vnFlash, vnApplyConf, glitch>>
  PROVE  VnInv'
<1>1. CASE vnReq' = VnConfig!Request(vnReq.frame, vnReq.tries + 1) /\ UNCHANGED vnJob
  BY <1>1, AgainKeeps
<1>2. CASE VnConfig!Failed(vnJob, why)
  <2>1. vnJob \in VnJobs /\ vnJob.step \notin {"listening", "none"}
    BY RunFacts
  <2>2. Goes(vnJob.streaming)
    BY <1>2, <2>1, FailedGoes
  <2>3. vnJob.streaming \in BOOLEAN /\ (vnJob.streaming = TRUE => Hears)
    BY <2>1 DEF VnJobs, VnInv, HearInv
  <2>4. vnJob' = VnConfig!Idle \/ Hears \/ ~(vnInbox # <<>> /\ vnInbox[1].op = "binary")
    <3>1. CASE vnJob.step = "reset" \/ (vnJob.step = "info" /\ why = "silent")
      BY <1>2, <3>1 DEF VnConfig!Failed, VnConfig!Publish
    <3>2. CASE vnJob.step # "reset" /\ ~(vnJob.step = "info" /\ why = "silent")
      BY <2>1, <3>2 DEF VnInv, HearInv
    <3> QED
      BY <3>1, <3>2
  <2> QED
    BY <2>2, <2>3, <2>4, GoesKeeps
<1> QED
  BY <1>1, <1>2 DEF VnConfig!Again

LEMMA ReplyKeeps ==
  ASSUME VnInv, VnConfig!Reply
  PROVE  VnInv'
<1>1. /\ vnReq.at = "waiting" /\ vnReq.got # VnConfig!Nothing /\ vnJob # VnConfig!Idle
      /\ UNCHANGED <<vnWriter, vnInbox, vnUnit, vnRam, vnFlash, vnApplyConf, glitch>>
  BY DEF VnConfig!Reply, VnConfig!Answered, VnConfig!unitVars
<1>2. /\ vnJob \in VnJobs /\ vnJob.step \notin {"listening", "none"}
      /\ VnFits(vnJob.step, vnReq.frame)
  BY <1>1, RunFacts
<1>3. CASE vnReq.got.op # "error"
  <2>1. PICK v : v = IF vnReq.got.op = "binary" THEN TRUE ELSE vnReq.got.value
    OBVIOUS
  <2>2. VnConfig!Got(vnJob, v)
    BY <1>3, <2>1 DEF VnConfig!Reply
  <2>3. v \in VnValues
    BY <1>1, <2>1 DEF VnInv, VnTypes, VnFrames, VnConfig!BinaryFrame, VnValues
  <2>4. IF vnJob.step = "listen" THEN Goes(TRUE) ELSE Goes(vnJob.streaming)
    BY <1>2, <2>2, <2>3, GotGoes
  <2>5. vnJob.step = "listen" => Hears
    BY <1>1 DEF VnInv, HearInv
  <2>6. vnJob.streaming \in BOOLEAN /\ (vnJob.streaming = TRUE => Hears)
    BY <1>1, <1>2 DEF VnJobs, VnInv, HearInv
  <2>7. vnJob' = VnConfig!Idle \/ Hears \/ ~(vnInbox # <<>> /\ vnInbox[1].op = "binary")
    <3>1. CASE vnJob.step = "reset"
      BY <2>2, <3>1 DEF VnConfig!Got, VnConfig!Publish
    <3>2. CASE vnJob.step # "reset"
      BY <1>1, <1>2, <3>2 DEF VnInv, HearInv
    <3> QED
      BY <3>1, <3>2
  <2>8. CASE vnJob.step = "listen"
    BY <1>1, <2>4, <2>5, <2>7, <2>8, GoesKeeps
  <2>9. CASE vnJob.step # "listen"
    BY <1>1, <2>4, <2>6, <2>7, <2>9, GoesKeeps
  <2> QED
    BY <2>8, <2>9
<1>4. CASE vnReq.got.op = "error"
  <2>1. VnConfig!Again("transport") \/ VnConfig!Failed(vnJob, "parameter")
    BY <1>4 DEF VnConfig!Reply
  <2> QED
    BY <1>1, <2>1, GivenUpKeeps
<1> QED
  BY <1>3, <1>4

LEMMA SilenceKeeps ==
  ASSUME VnInv, VnConfig!Silence
  PROVE  VnInv'
<1>1. /\ vnReq.at = "waiting" /\ vnJob # VnConfig!Idle /\ VnConfig!Again("silent")
      /\ UNCHANGED <<vnWriter, vnInbox, vnUnit, vnRam, vnFlash, vnApplyConf, glitch>>
  BY DEF VnConfig!Silence, VnConfig!TimedOut, VnConfig!unitVars
<1> QED
  BY <1>1, GivenUpKeeps

(* The unit takes the request of a step: its answer is no binary frame, and *)
(* its registers never leave it mute.                                      *)
LEMMA TakesKeeps ==
  ASSUME VnInv, vnWriter = "command",
         vnRam' = VnConfig!RamAfter(vnReq.frame), vnFlash' = VnConfig!FlashAfter(vnReq.frame),
         UNCHANGED <<vnUnit, glitch>>
  PROVE  /\ vnRam' \in VnRegs /\ vnFlash' \in VnRegs /\ NeverMute'
         /\ vnJob.step # "reset" => (Hears => Hears')
<1>1. /\ vnRam \in VnRegs /\ vnFlash \in VnRegs /\ VnFits(vnJob.step, vnReq.frame)
      /\ vnJob # VnConfig!Idle
  BY DEF VnInv, VnTypes, AskInv, VnConfig!NoReq
<1>2. \/ UNCHANGED <<vnRam, vnFlash>>
      \/ \E v \in {"raw", "sat", "bare"} : vnRam' = [vnRam EXCEPT !["binary"] = v] /\ vnFlash' = vnFlash
      \/ /\ vnJob.step = "asciiset"
         /\ vnRam' = [vnRam EXCEPT !["ascii"] = FALSE] /\ vnFlash' = vnFlash
      \/ vnRam' = [vnRam EXCEPT !["other"] = TRUE] /\ vnFlash' = vnFlash
      \/ vnRam' = vnRam /\ vnFlash' = vnRam
      \/ vnJob.step = "reset" /\ vnRam' = vnFlash /\ vnFlash' = vnFlash
  <2> DEFINE f == vnReq.frame
  <2>1. CASE f.op \in {"read", "listen"}
    BY <2>1 DEF VnConfig!RamAfter, VnConfig!FlashAfter
  <2>2. ASSUME NEW v \in {"raw", "sat", "bare"}, f = VnConfig!WriteReg("binary", v)
        PROVE  \/ UNCHANGED <<vnRam, vnFlash>>
               \/ vnRam' = [vnRam EXCEPT !["binary"] = v] /\ vnFlash' = vnFlash
    <3>1. f.op = "write" /\ f.reg = "binary" /\ f.value = v
      BY <2>2 DEF VnConfig!WriteReg
    <3>2. VnConfig!FlashAfter(f) = vnFlash
      BY <3>1 DEF VnConfig!FlashAfter
    <3>3. VnConfig!RamAfter(f) \in {vnRam, [vnRam EXCEPT ![f.reg] = f.value]}
      BY <3>1 DEF VnConfig!RamAfter
    <3> QED
      BY <3>1, <3>2, <3>3
  <2>3. ASSUME NEW r \in {"ascii", "other"}, NEW v, f = VnConfig!WriteReg(r, v)
        PROVE  vnRam' = [vnRam EXCEPT ![r] = v] /\ vnFlash' = vnFlash
    <3>1. f.op = "write" /\ f.reg = r /\ f.value = v
      BY <2>3 DEF VnConfig!WriteReg
    <3>2. VnConfig!FlashAfter(f) = vnFlash /\ VnConfig!Takes(f)
      BY <3>1 DEF VnConfig!FlashAfter, VnConfig!Takes
    <3>3. VnConfig!RamAfter(f) = [vnRam EXCEPT ![f.reg] = f.value]
      BY <3>1, <3>2 DEF VnConfig!RamAfter
    <3> QED
      BY <3>1, <3>2, <3>3
  <2>4. CASE f = VnConfig!CommandTo("WNV")
    <3>1. f.op = "command" /\ f.reg = "WNV"
      BY <2>4 DEF VnConfig!CommandTo
    <3> QED
      BY <3>1 DEF VnConfig!RamAfter, VnConfig!FlashAfter
  <2>5. CASE vnJob.step = "reset" /\ f = VnConfig!CommandTo("RST")
    <3>1. f.op = "command" /\ f.reg = "RST"
      BY <2>5 DEF VnConfig!CommandTo
    <3> QED
      BY <2>5, <3>1 DEF VnConfig!RamAfter, VnConfig!FlashAfter
  <2>6. \/ f.op \in {"read", "listen"}
        \/ \E v \in {"raw", "sat", "bare"} : f = VnConfig!WriteReg("binary", v)
        \/ vnJob.step = "asciiset" /\ f = VnConfig!WriteReg("ascii", FALSE)
        \/ f = VnConfig!WriteReg("other", TRUE)
        \/ f = VnConfig!CommandTo("WNV")
        \/ vnJob.step = "reset" /\ f = VnConfig!CommandTo("RST")
    <3>1. /\ \A x : VnConfig!Read(x).op = "read"
          /\ VnConfig!Listen.op = "listen"
      BY DEF VnConfig!Read, VnConfig!Listen
    <3> QED
      BY <1>1, <3>1 DEF VnFits
  <2> QED
    BY <2>1, <2>2, <2>3, <2>4, <2>5, <2>6
<1>3. NeverMute /\ (glitch' <=> glitch) /\ vnUnit' = vnUnit
  BY DEF VnInv
<1>4. CASE UNCHANGED <<vnRam, vnFlash>>
  BY <1>1, <1>3, <1>4 DEF NeverMute, VnConfig!NeverMute, Hears, VnConfig!Streams
<1>5. ASSUME NEW v \in {"raw", "sat", "bare"},
             vnRam' = [vnRam EXCEPT !["binary"] = v], vnFlash' = vnFlash
      PROVE  /\ vnRam' \in VnRegs /\ vnFlash' \in VnRegs /\ NeverMute' /\ (Hears => Hears')
  <2>1. vnRam' \in VnRegs /\ vnRam'.binary = v /\ vnRam'.ascii = vnRam.ascii /\ v # "off"
    BY <1>1, <1>5 DEF VnRegs
  <2> QED
    BY <1>1, <1>3, <1>5, <2>1 DEF NeverMute, VnConfig!NeverMute, Hears, VnConfig!Streams
<1>6. CASE /\ vnJob.step = "asciiset"
           /\ vnRam' = [vnRam EXCEPT !["ascii"] = FALSE] /\ vnFlash' = vnFlash
  <2>1. vnRam' \in VnRegs /\ vnRam'.binary = vnRam.binary
    BY <1>1, <1>6 DEF VnRegs
  <2>2. Hears
    BY <1>1, <1>6 DEF VnInv, HearInv
  <2> QED
    BY <1>1, <1>3, <1>6, <2>1, <2>2 DEF NeverMute, VnConfig!NeverMute, Hears, VnConfig!Streams
<1>7. CASE vnRam' = [vnRam EXCEPT !["other"] = TRUE] /\ vnFlash' = vnFlash
  <2>1. vnRam' \in VnRegs /\ vnRam'.binary = vnRam.binary /\ vnRam'.ascii = vnRam.ascii
    BY <1>1, <1>7 DEF VnRegs
  <2> QED
    BY <1>1, <1>3, <1>7, <2>1 DEF NeverMute, VnConfig!NeverMute, Hears, VnConfig!Streams
<1>8. CASE vnRam' = vnRam /\ vnFlash' = vnRam
  BY <1>1, <1>3, <1>8 DEF NeverMute, VnConfig!NeverMute, Hears, VnConfig!Streams
<1>9. CASE vnJob.step = "reset" /\ vnRam' = vnFlash /\ vnFlash' = vnFlash
  BY <1>1, <1>3, <1>9 DEF NeverMute, VnConfig!NeverMute, VnConfig!Streams
<1> QED
  BY <1>2, <1>4, <1>5, <1>6, <1>7, <1>8, <1>9

(* What the unit answers is of the request's kind.                         *)
LEMMA AnswerFacts ==
  ASSUME VnInv, vnWriter = "command"
  PROVE  \/ VnConfig!Answer(vnReq.frame) = <<>>
         \/ \E f \in VnFrames : f.op # "binary" /\ VnConfig!Answer(vnReq.frame) = <<f>>
<1>1. /\ vnRam \in VnRegs /\ VnFits(vnJob.step, vnReq.frame)
  BY DEF VnInv, VnTypes, AskInv
<1>2. CASE vnReq.frame.op = "listen"
  BY <1>2 DEF VnConfig!Answer
<1>3. CASE vnReq.frame.op # "listen" /\ ~VnConfig!Takes(vnReq.frame)
  <2>1. VnConfig!Answer(vnReq.frame) = <<VnConfig!Error("parameter")>>
    BY <1>3 DEF VnConfig!Answer
  <2>2. VnConfig!Error("parameter") \in VnFrames /\ VnConfig!Error("parameter").op # "binary"
    BY DEF VnConfig!Error, VnFrames, VnNames, VnValues
  <2> QED
    BY <2>1, <2>2
<1>4. CASE vnReq.frame.op # "listen" /\ VnConfig!Takes(vnReq.frame)
  <2>1. PICK v : v = IF vnReq.frame.op = "read" /\ vnReq.frame.reg # "model"
                     THEN vnRam[vnReq.frame.reg] ELSE TRUE
    OBVIOUS
  <2>2. VnConfig!Answer(vnReq.frame) = <<[op |-> vnReq.frame.op, reg |-> vnReq.frame.reg, value |-> v]>>
    BY <1>4, <2>1 DEF VnConfig!Answer
  <2>3. /\ vnReq.frame.op \in {"read", "write", "command"} /\ vnReq.frame.reg \in VnNames
        /\ vnReq.frame.op = "read" => vnReq.frame.reg \in {"model", "binary", "ascii", "other"}
    BY <1>1, <1>4 DEF VnFits, VnConfig!Read, VnConfig!WriteReg, VnConfig!CommandTo,
                      VnConfig!Listen, VnNames
  <2>4. v \in VnValues
    BY <1>1, <2>1, <2>3 DEF VnRegs, VnValues
  <2>5. PICK f : f = [op |-> vnReq.frame.op, reg |-> vnReq.frame.reg, value |-> v]
    OBVIOUS
  <2>6. f \in VnFrames /\ f.op # "binary"
    BY <2>3, <2>4, <2>5 DEF VnFrames
  <2> QED
    BY <2>2, <2>5, <2>6
<1> QED
  BY <1>2, <1>3, <1>4

(* What the unit sends is put behind what is there: a binary frame is      *)
(* still only the first.                                                   *)
LEMMA Appended ==
  ASSUME NEW s \in Seq(VnFrames), NEW f \in VnFrames, f.op # "binary",
         \A n \in 2 .. Len(s) : s[n].op # "binary"
  PROVE  /\ s \o <<f>> \in Seq(VnFrames)
         /\ \A n \in 2 .. Len(s \o <<f>>) : (s \o <<f>>)[n].op # "binary"
         /\ (s \o <<f>>)[1].op = "binary" => s # <<>> /\ s[1].op = "binary"
<1>1. Len(s) \in Nat /\ (s = <<>> <=> Len(s) = 0)
  OBVIOUS
<1>2. Len(s \o <<f>>) = Len(s) + 1 /\ s \o <<f>> \in Seq(VnFrames)
  BY <1>1
<1>3. \A n \in 1 .. Len(s) : (s \o <<f>>)[n] = s[n]
  BY <1>1
<1>4. (s \o <<f>>)[Len(s) + 1] = f
  BY <1>1
<1> QED
  BY <1>1, <1>2, <1>3, <1>4

(* The request is gone with its run, and nothing else of the link matters. *)
LEMMA OverKeeps ==
  ASSUME VnInv, vnJob' = VnConfig!Idle, vnReq' = VnConfig!NoReq, vnWriter' # "command",
         vnInbox' \in Seq(VnFrames), \A n \in 2 .. Len(vnInbox') : vnInbox'[n].op # "binary",
         vnRam' \in VnRegs, vnFlash' \in VnRegs, vnApplyConf' \in BOOLEAN, NeverMute',
         UNCHANGED <<vnUnit>>
  PROVE  VnInv'
<1>1. VnTypes'
  BY DEF VnInv, VnTypes, VnConfig!NoReq, VnReq
<1>2. AskInv'
  BY DEF AskInv, VnConfig!NoReq
<1>3. HearInv'
  BY DEF HearInv, VnConfig!Idle, VnConfig!NoReq
<1> QED
  BY <1>1, <1>2, <1>3 DEF VnInv

(* The bytes went out, with what the unit made of them and sent back.      *)
LEMMA SendKeeps ==
  ASSUME VnInv, VnConfig!Send
  PROVE  VnInv'
<1>1. PICK answers : /\ VnConfig!Written(answers)
                     /\ \/ answers = VnConfig!Answer(vnReq.frame)
                        \/ answers \in {<<>>, <<VnConfig!Error("transport")>>}
                     /\ \/ /\ vnRam' = VnConfig!RamAfter(vnReq.frame)
                           /\ vnFlash' = VnConfig!FlashAfter(vnReq.frame)
                        \/ UNCHANGED <<vnRam, vnFlash>>
  BY DEF VnConfig!Send
<1>2. /\ vnWriter = "command" /\ vnWriter' = "none" /\ vnInbox' = vnInbox \o answers
      /\ vnReq' = IF vnReq.at = "orphan" THEN VnConfig!NoReq ELSE [vnReq EXCEPT !.at = "waiting"]
      /\ vnJob' = IF vnReq.at = "orphan" THEN VnConfig!Idle ELSE vnJob
      /\ UNCHANGED <<vnUnit, vnApplyConf, glitch>>
  BY <1>1 DEF VnConfig!Send, VnConfig!Written
<1>3. VnTypes /\ AskInv /\ HearInv /\ NeverMute
  BY DEF VnInv
<1>4. /\ vnRam' \in VnRegs /\ vnFlash' \in VnRegs /\ NeverMute'
      /\ vnJob.step # "reset" => (Hears => Hears')
  <2>1. CASE UNCHANGED <<vnRam, vnFlash>>
    BY <1>2, <1>3, <2>1 DEF VnTypes, NeverMute, VnConfig!NeverMute, Hears, VnConfig!Streams
  <2>2. CASE /\ vnRam' = VnConfig!RamAfter(vnReq.frame)
             /\ vnFlash' = VnConfig!FlashAfter(vnReq.frame)
    BY <1>2, <2>2, TakesKeeps
  <2> QED
    BY <1>1, <2>1, <2>2
<1>5. /\ vnInbox' \in Seq(VnFrames)
      /\ \A n \in 2 .. Len(vnInbox') : vnInbox'[n].op # "binary"
      /\ vnInbox' # <<>> /\ vnInbox'[1].op = "binary" => vnInbox # <<>> /\ vnInbox[1].op = "binary"
  <2>1. vnInbox \in Seq(VnFrames) /\ \A n \in 2 .. Len(vnInbox) : vnInbox[n].op # "binary"
    BY <1>3 DEF VnTypes, HearInv
  <2>2. CASE answers = <<>>
    <3>1. vnInbox' = vnInbox
      BY <1>2, <2>1, <2>2
    <3> QED
      BY <2>1, <3>1
  <2>3. CASE \E f \in VnFrames : f.op # "binary" /\ answers = <<f>>
    <3>1. PICK f \in VnFrames : f.op # "binary" /\ answers = <<f>>
      BY <2>3
    <3>2. vnInbox' = vnInbox \o <<f>>
      BY <1>2, <3>1
    <3> QED
      BY <2>1, <3>1, <3>2, Appended
  <2>4. VnConfig!Error("transport") \in VnFrames /\ VnConfig!Error("transport").op # "binary"
    BY DEF VnConfig!Error, VnFrames, VnNames, VnValues
  <2> QED
    BY <1>1, <1>2, <2>2, <2>3, <2>4, AnswerFacts
<1>6. CASE vnReq.at = "orphan"
  BY <1>2, <1>3, <1>4, <1>5, <1>6, OverKeeps DEF VnTypes
<1>7. CASE vnReq.at # "orphan"
  <2>1. vnReq.at = "writing"
    BY <1>2, <1>3, <1>7 DEF AskInv
  <2>2. vnReq' = VnReq("waiting", vnReq.frame, vnReq.got, vnReq.tries)
    BY <1>2, <1>3, <1>7 DEF VnTypes, VnReq
  <2>3. /\ vnReq'.at = "waiting" /\ vnReq'.frame = vnReq.frame /\ vnReq'.got = vnReq.got
        /\ vnReq'.tries = vnReq.tries /\ vnJob' = vnJob
    BY <1>2, <1>7, <2>2 DEF VnReq
  <2>4. VnTypes'
    BY <1>2, <1>3, <1>4, <1>5, <2>2, <2>3 DEF VnTypes
  <2>5. AskInv'
    BY <1>2, <1>3, <2>1, <2>3 DEF AskInv, VnConfig!NoReq
  <2>6. HearInv'
    <3>1. CASE vnJob.step = "reset"
      BY <1>3, <1>5, <2>3, <3>1 DEF HearInv
    <3>2. CASE vnJob.step # "reset"
      BY <1>3, <1>4, <1>5, <2>3, <3>2 DEF HearInv
    <3> QED
      BY <3>1, <3>2
  <2> QED
    BY <1>4, <2>4, <2>5, <2>6 DEF VnInv
<1> QED
  BY <1>6, <1>7

(* The reader routes the first frame; only it can be a binary one.         *)
LEMMA RouteKeeps ==
  ASSUME VnInv, UNCHANGED <<vnUnit, vnRam, vnFlash, vnApplyConf, vnJob, glitch>>,
         VnConfig!Route(vnInbox # <<>> /\ VnConfig!Match(Head(vnInbox), vnReq.frame))
  PROVE  VnInv'
<1>1. VnTypes /\ AskInv /\ HearInv /\ NeverMute
  BY DEF VnInv
<1>2. Hears' = Hears /\ NeverMute'
  BY <1>1 DEF NeverMute, VnConfig!NeverMute, Hears, VnConfig!Streams
<1>3. vnInbox \in Seq(VnFrames) /\ vnInbox # <<>> /\ vnInbox' = Tail(vnInbox)
      /\ vnWriter' = vnWriter
  BY <1>1 DEF VnConfig!Route, VnTypes
<1>4. /\ vnInbox' \in Seq(VnFrames) /\ Head(vnInbox) = vnInbox[1] /\ vnInbox[1] \in VnFrames
      /\ \A n \in 1 .. Len(vnInbox') : vnInbox'[n].op # "binary"
  <2>1. /\ Len(vnInbox') = Len(vnInbox) - 1 /\ vnInbox' \in Seq(VnFrames) /\ Len(vnInbox) \in Nat
        /\ Head(vnInbox) = vnInbox[1] /\ vnInbox[1] \in VnFrames
    BY <1>3
  <2>2. \A n \in 1 .. Len(vnInbox') : vnInbox'[n] = vnInbox[n + 1] /\ n + 1 \in 2 .. Len(vnInbox)
    BY <1>3, <2>1
  <2> QED
    BY <1>1, <2>1, <2>2 DEF HearInv
<1>5. vnInbox' # <<>> => vnInbox'[1].op # "binary"
  BY <1>4
<1>6. CASE UNCHANGED vnReq
  <2>1. VnTypes' /\ AskInv'
    BY <1>1, <1>3, <1>4, <1>6 DEF VnTypes, AskInv
  <2>2. HearInv'
    BY <1>1, <1>2, <1>4, <1>5, <1>6 DEF HearInv
  <2> QED
    BY <1>2, <2>1, <2>2 DEF VnInv
<1>7. CASE /\ vnReq.at \in {"queued", "writing", "waiting"} /\ vnReq.got = VnConfig!Nothing
           /\ VnConfig!Match(Head(vnInbox), vnReq.frame)
           /\ vnReq' = [vnReq EXCEPT !.got = Head(vnInbox)]
  <2>1. vnReq' = VnReq(vnReq.at, vnReq.frame, vnInbox[1], vnReq.tries)
    BY <1>1, <1>4, <1>7 DEF VnTypes, VnReq
  <2>2. /\ vnReq'.at = vnReq.at /\ vnReq'.frame = vnReq.frame /\ vnReq'.got = vnInbox[1]
        /\ vnReq'.tries = vnReq.tries
    BY <2>1 DEF VnReq
  <2>3. VnTypes'
    BY <1>1, <1>4, <2>1, <2>2 DEF VnTypes
  <2>4. AskInv'
    BY <1>1, <1>3, <1>4, <1>7, <2>2 DEF AskInv, VnConfig!NoReq
  <2>5. vnJob.step = "listen" => Hears
    <3> SUFFICES ASSUME vnJob.step = "listen" PROVE Hears
      OBVIOUS
    <3>1. vnReq.frame = VnConfig!Listen
      BY <1>1, <1>7 DEF AskInv, VnFits
    <3>2. vnInbox[1].op = "binary"
      BY <1>4, <1>7, <3>1 DEF VnConfig!Match, VnConfig!Listen
    <3> QED
      BY <1>1, <1>3, <3>2 DEF HearInv
  <2>6. HearInv'
    BY <1>1, <1>2, <1>4, <1>5, <2>5 DEF HearInv
  <2> QED
    BY <1>2, <2>3, <2>4, <2>6 DEF VnInv
<1> QED
  BY <1>6, <1>7 DEF VnConfig!Route

(* The session is over: a run of the session is cancelled, and what it was *)
(* writing may have reached the unit; another caller's write goes on.      *)
LEMMA LinkLostKeeps ==
  ASSUME VnInv, VnConfig!LinkLost
  PROVE  VnInv'
<1>1. /\ vnWriter' = IF vnJob.who # "api" /\ vnWriter = "command" THEN "none" ELSE vnWriter
      /\ vnReq' = IF ~(vnJob.who # "api") /\ vnWriter = "command"
                  THEN [vnReq EXCEPT !.at = "orphan"] ELSE VnConfig!NoReq
      /\ vnJob' = IF vnJob.who = "api" /\ vnWriter = "command" THEN vnJob ELSE VnConfig!Idle
      /\ \/ UNCHANGED <<vnRam, vnFlash>>
         \/ /\ vnJob.who # "api" /\ vnWriter = "command"
            /\ vnRam' = VnConfig!RamAfter(vnReq.frame)
            /\ vnFlash' = VnConfig!FlashAfter(vnReq.frame)
      /\ UNCHANGED <<vnInbox, vnUnit, vnApplyConf, glitch>>
  BY DEF VnConfig!LinkLost, VnConfig!SessionOver
<1>2. VnTypes /\ AskInv /\ HearInv /\ NeverMute
  BY DEF VnInv
<1>3. CASE vnJob.who = "api" /\ vnWriter = "command"
  <2>1. vnReq' = VnReq("orphan", vnReq.frame, vnReq.got, vnReq.tries)
    BY <1>1, <1>2, <1>3 DEF VnTypes, VnReq
  <2>2. /\ vnReq'.at = "orphan" /\ vnReq'.frame = vnReq.frame /\ vnReq'.got = vnReq.got
        /\ vnReq'.tries = vnReq.tries /\ vnJob' = vnJob /\ vnWriter' = "command"
        /\ UNCHANGED <<vnRam, vnFlash>>
    BY <1>1, <1>3, <2>1 DEF VnReq
  <2>3. vnReq.at # "none" /\ vnJob # VnConfig!Idle
    BY <1>2, <1>3 DEF AskInv, VnConfig!NoReq
  <2>4. Hears' = Hears /\ NeverMute'
    BY <1>1, <1>2, <2>2 DEF NeverMute, VnConfig!NeverMute, Hears, VnConfig!Streams
  <2>5. VnTypes'
    BY <1>1, <1>2, <2>1, <2>2 DEF VnTypes
  <2>6. AskInv'
    BY <1>2, <2>2, <2>3 DEF AskInv
  <2>7. HearInv'
    BY <1>1, <1>2, <2>2, <2>4 DEF HearInv
  <2> QED
    BY <2>4, <2>5, <2>6, <2>7 DEF VnInv
<1>4. CASE ~(vnJob.who = "api" /\ vnWriter = "command")
  <2>1. vnJob' = VnConfig!Idle /\ vnReq' = VnConfig!NoReq /\ vnWriter' # "command"
    BY <1>1, <1>4
  <2>2. vnRam' \in VnRegs /\ vnFlash' \in VnRegs /\ NeverMute'
    <3>1. CASE UNCHANGED <<vnRam, vnFlash>>
      BY <1>1, <1>2, <3>1 DEF VnTypes, NeverMute, VnConfig!NeverMute, VnConfig!Streams
    <3>2. CASE /\ vnWriter = "command" /\ vnRam' = VnConfig!RamAfter(vnReq.frame)
               /\ vnFlash' = VnConfig!FlashAfter(vnReq.frame)
      BY <1>1, <3>2, TakesKeeps
    <3> QED
      BY <1>1, <3>1, <3>2
  <2> QED
    BY <1>1, <1>2, <2>1, <2>2, OverKeeps DEF VnTypes, HearInv
<1> QED
  BY <1>3, <1>4

(* A write that stalls past its waiter reaches the unit or does not.       *)
LEMMA StallKeeps ==
  ASSUME VnInv, VnConfig!Stall
  PROVE  VnInv'
<1>1. /\ vnWriter = "command" /\ vnWriter' = "none" /\ vnReq' = VnConfig!NoReq
      /\ vnJob' = VnConfig!Idle /\ UNCHANGED <<vnInbox, vnUnit, vnApplyConf, glitch>>
      /\ \/ /\ vnRam' = VnConfig!RamAfter(vnReq.frame)
            /\ vnFlash' = VnConfig!FlashAfter(vnReq.frame)
         \/ UNCHANGED <<vnRam, vnFlash>>
  BY DEF VnConfig!Stall
<1>2. VnTypes /\ HearInv /\ NeverMute
  BY DEF VnInv
<1>3. vnRam' \in VnRegs /\ vnFlash' \in VnRegs /\ NeverMute'
  <2>1. CASE UNCHANGED <<vnRam, vnFlash>>
    BY <1>1, <1>2, <2>1 DEF VnTypes, NeverMute, VnConfig!NeverMute, VnConfig!Streams
  <2>2. CASE vnRam' = VnConfig!RamAfter(vnReq.frame) /\ vnFlash' = VnConfig!FlashAfter(vnReq.frame)
    BY <1>1, <2>2, TakesKeeps
  <2> QED
    BY <1>1, <2>1, <2>2
<1> QED
  BY <1>1, <1>2, <1>3, OverKeeps DEF VnTypes, HearInv

LEMMA RestartKeeps ==
  ASSUME VnInv, VnConfig!Restart
  PROVE  VnInv'
<1>1. /\ vnJob' = VnConfig!Idle /\ vnReq' = VnConfig!NoReq /\ vnWriter' = "none"
      /\ vnInbox' = <<>> /\ vnApplyConf' \in BOOLEAN
      /\ UNCHANGED <<vnUnit, vnRam, vnFlash, glitch>>
  BY DEF VnConfig!Restart, VnConfig!Restarted, VnConfig!unitVars
<1>2. VnTypes /\ NeverMute
  BY DEF VnInv
<1>3. vnRam' \in VnRegs /\ vnFlash' \in VnRegs /\ NeverMute'
  BY <1>1, <1>2 DEF VnTypes, NeverMute, VnConfig!NeverMute, VnConfig!Streams
<1>4. vnInbox' \in Seq(VnFrames) /\ \A n \in 2 .. Len(vnInbox') : vnInbox'[n].op # "binary"
  BY <1>1
<1> QED
  BY <1>1, <1>2, <1>3, <1>4, OverKeeps

(* The unit starts from its flash; a run in progress is excepted for good. *)
LEMMA PowerCycleKeeps ==
  ASSUME VnInv, VnConfig!PowerCycle
  PROVE  VnInv'
<1>1. /\ vnInbox' = <<>> /\ vnRam' = vnFlash /\ (glitch' <=> glitch \/ vnJob # VnConfig!Idle)
      /\ UNCHANGED <<vnWriter, vnReq, vnUnit, vnFlash, vnApplyConf, vnJob>>
  BY DEF VnConfig!PowerCycle, VnConfig!PowerCut
<1>2. VnTypes /\ AskInv /\ HearInv /\ NeverMute
  BY DEF VnInv
<1>3. vnInbox' \in Seq(VnFrames) /\ Len(vnInbox') = 0
  BY <1>1
<1>4. VnTypes' /\ AskInv'
  BY <1>1, <1>2, <1>3 DEF VnTypes, AskInv
<1>5. NeverMute'
  BY <1>1, <1>2 DEF NeverMute, VnConfig!NeverMute, VnConfig!Streams
<1>6. vnJob # VnConfig!Idle => Hears'
  BY <1>1 DEF Hears
<1>7. HearInv'
  BY <1>1, <1>2, <1>3, <1>6 DEF HearInv, VnConfig!Idle
<1> QED
  BY <1>4, <1>5, <1>7 DEF VnInv

(* A run or a reset starts, with nothing answered yet.                     *)
LEMMA StartsKeeps ==
  ASSUME VnInv, NEW j \in VnJobs, j.streaming = FALSE,
         NEW f, NEW n, vnJob' = j, vnReq' = VnConfig!Request(f, n), VnFits(j.step, f),
         j.step \in {"info", "reset"}, vnReq.at = "none",
         vnInbox' \in {vnInbox, <<>>},
         UNCHANGED <<vnWriter, vnUnit, vnRam, vnFlash, vnApplyConf, glitch>>
  PROVE  VnInv'
<1>1. VnTypes /\ AskInv /\ HearInv /\ NeverMute
  BY DEF VnInv
<1>2. vnReq' = VnReq("queued", f, VnConfig!Nothing, n)
  BY DEF VnConfig!Request, VnReq
<1>3. vnReq'.at = "queued" /\ vnReq'.frame = f /\ vnReq'.got = VnConfig!Nothing /\ vnReq'.tries = n
  BY <1>2 DEF VnReq
<1>4. NeverMute'
  BY <1>1 DEF NeverMute, VnConfig!NeverMute, VnConfig!Streams
<1>5. vnInbox' \in Seq(VnFrames) /\ \A m \in 2 .. Len(vnInbox') : vnInbox'[m].op # "binary"
  <2>1. CASE vnInbox' = vnInbox
    BY <1>1, <2>1 DEF VnTypes, HearInv
  <2>2. CASE vnInbox' = <<>>
    <3>1. Len(vnInbox') = 0 /\ vnInbox' \in Seq(VnFrames)
      BY <2>2
    <3> QED
      BY <3>1
  <2> QED
    BY <2>1, <2>2
<1>6. vnJob' # VnConfig!Idle
  <2>1. vnJob'.who # "none"
    BY DEF VnJobs
  <2> QED
    BY <2>1 DEF VnConfig!Idle
<1>7. VnTypes'
  BY <1>1, <1>2, <1>3, <1>5 DEF VnTypes
<1>8. AskInv'
  BY <1>1, <1>3, <1>6 DEF AskInv
<1>9. HearInv'
  BY <1>3, <1>5 DEF HearInv
<1> QED
  BY <1>4, <1>7, <1>8, <1>9 DEF VnInv

(* The hook of a session, configure() of the API, and its reset.           *)
LEMMA RunStarts ==
  ASSUME VnInv, VnConfig!Open \/ VnConfig!Forced \/ VnConfig!Reset
  PROVE  VnInv'
<1>1. \A who \in {"hook", "api"}, apply \in BOOLEAN :
        /\ [VnConfig!Job(who, apply) EXCEPT !.step = "info"] \in VnJobs
        /\ [VnConfig!Job(who, apply) EXCEPT !.step = "info"].streaming = FALSE
        /\ [VnConfig!Job(who, apply) EXCEPT !.step = "info"].step = "info"
        /\ [VnConfig!Job(who, apply) EXCEPT !.step = "reset"] \in VnJobs
        /\ [VnConfig!Job(who, apply) EXCEPT !.step = "reset"].streaming = FALSE
        /\ [VnConfig!Job(who, apply) EXCEPT !.step = "reset"].step = "reset"
  <2> TAKE who \in {"hook", "api"}, apply \in BOOLEAN
  <2>1. PICK j : j = VnConfig!Job(who, apply)
    OBVIOUS
  <2>2. j \in VnJobs /\ j.streaming = FALSE
    BY <2>1 DEF VnConfig!Job, VnJobs, VnSteps, VnValues
  <2>3. "info" \in VnSteps /\ "reset" \in VnSteps
    BY DEF VnSteps
  <2>4. /\ [j EXCEPT !.step = "info"] \in VnJobs
        /\ [j EXCEPT !.step = "info"].streaming = FALSE
        /\ [j EXCEPT !.step = "info"].step = "info"
    BY <2>2, <2>3 DEF VnJobs
  <2>5. /\ [j EXCEPT !.step = "reset"] \in VnJobs
        /\ [j EXCEPT !.step = "reset"].streaming = FALSE
        /\ [j EXCEPT !.step = "reset"].step = "reset"
    BY <2>2, <2>3 DEF VnJobs
  <2> QED
    BY <2>1, <2>4, <2>5
<1>2. VnFits("info", VnConfig!Read("model")) /\ VnFits("reset", VnConfig!CommandTo("RST"))
  BY DEF VnFits
<1>3. vnApplyConf \in BOOLEAN
  BY DEF VnInv, VnTypes
<1>4. ASSUME NEW who \in {"hook", "api"}, NEW apply \in BOOLEAN,
             VnConfig!Ask(VnConfig!Job(who, apply), "info", VnConfig!Read("model")),
             vnReq.at = "none", vnInbox' \in {vnInbox, <<>>},
             UNCHANGED <<vnWriter, vnUnit, vnRam, vnFlash, vnApplyConf, glitch>>
      PROVE  VnInv'
  <2>1. PICK j : j = [VnConfig!Job(who, apply) EXCEPT !.step = "info"]
    OBVIOUS
  <2>2. j \in VnJobs /\ j.streaming = FALSE /\ j.step = "info"
    BY <1>1, <2>1
  <2>3. vnJob' = j /\ vnReq' = VnConfig!Request(VnConfig!Read("model"), 1)
    BY <1>4, <2>1 DEF VnConfig!Ask
  <2> QED
    BY <1>2, <1>4, <2>2, <2>3, StartsKeeps
<1>5. CASE VnConfig!Open
  <2>1. /\ VnConfig!Ask(VnConfig!Job("hook", vnApplyConf), "info", VnConfig!Read("model"))
        /\ vnReq.at = "none" /\ vnInbox' \in {vnInbox, <<>>}
        /\ UNCHANGED <<vnWriter, vnUnit, vnRam, vnFlash, vnApplyConf, glitch>>
    BY <1>5 DEF VnConfig!Open, VnConfig!Connect, VnConfig!unitVars
  <2> QED
    BY <1>3, <1>4, <2>1
<1>6. CASE VnConfig!Forced
  <2>1. /\ VnConfig!Ask(VnConfig!Job("api", TRUE), "info", VnConfig!Read("model"))
        /\ vnReq.at = "none" /\ vnInbox' \in {vnInbox, <<>>}
        /\ UNCHANGED <<vnWriter, vnUnit, vnRam, vnFlash, vnApplyConf, glitch>>
    BY <1>6 DEF VnConfig!Forced, VnConfig!Ready, VnConfig!unitVars
  <2> QED
    BY <1>4, <2>1
<1>7. CASE VnConfig!Reset
  <2>1. PICK j : j = [VnConfig!Job("api", FALSE) EXCEPT !.step = "reset"]
    OBVIOUS
  <2>2. j \in VnJobs /\ j.streaming = FALSE /\ j.step = "reset"
    BY <1>1, <2>1
  <2>3. /\ vnJob' = j /\ vnReq' = VnConfig!Request(VnConfig!CommandTo("RST"), Retries)
        /\ vnReq.at = "none" /\ vnInbox' \in {vnInbox, <<>>}
        /\ UNCHANGED <<vnWriter, vnUnit, vnRam, vnFlash, vnApplyConf, glitch>>
    BY <1>7, <2>1 DEF VnConfig!Reset, VnConfig!Ready, VnConfig!unitVars
  <2> QED
    BY <1>2, <2>2, <2>3, StartsKeeps
<1> QED
  BY <1>5, <1>6, <1>7

(* A binary frame arrives because the output streams.                      *)
LEMMA StreamKeeps ==
  ASSUME VnInv, VnConfig!Stream
  PROVE  VnInv'
<1>1. /\ vnInbox' = <<VnConfig!BinaryFrame>> /\ VnConfig!Streams(vnRam)
      /\ UNCHANGED <<vnWriter, vnReq, vnUnit, vnRam, vnFlash, vnApplyConf, vnJob, glitch>>
  BY DEF VnConfig!Stream, VnConfig!unitVars, VnConfig!hostVars
<1>2. VnTypes /\ AskInv /\ HearInv /\ NeverMute
  BY DEF VnInv
<1>3. Hears' = Hears /\ NeverMute'
  BY <1>1, <1>2 DEF NeverMute, VnConfig!NeverMute, Hears, VnConfig!Streams
<1>4. Hears
  BY <1>1 DEF Hears
<1>5. vnInbox' \in Seq(VnFrames) /\ Len(vnInbox') = 1
  BY <1>1 DEF VnFrames
<1>6. VnTypes' /\ AskInv'
  BY <1>1, <1>2, <1>5 DEF VnTypes, AskInv
<1>7. HearInv'
  BY <1>1, <1>2, <1>3, <1>4, <1>5 DEF HearInv
<1> QED
  BY <1>3, <1>6, <1>7 DEF VnInv

(* The port changes hands or closes.                                       *)
LEMMA PortKeeps ==
  ASSUME VnInv, UNCHANGED <<vnUnit, vnRam, vnFlash, vnApplyConf, vnJob, glitch>>,
         \/ VnConfig!StartWrite \/ VnConfig!Inject \/ VnConfig!EndRtcm \/ VnConfig!ClosePort
         \/ UNCHANGED <<vnWriter, vnReq, vnInbox>>
  PROVE  VnInv'
<1>1. VnTypes /\ AskInv /\ HearInv /\ NeverMute
  BY DEF VnInv
<1>2. Hears' = Hears /\ NeverMute'
  BY <1>1 DEF NeverMute, VnConfig!NeverMute, Hears, VnConfig!Streams
<1>3. CASE VnConfig!StartWrite
  <2>1. /\ vnReq.at = "queued" /\ vnWriter' = "command" /\ vnReq' = [vnReq EXCEPT !.at = "writing"]
        /\ vnInbox' = vnInbox
    BY <1>3 DEF VnConfig!StartWrite
  <2>2. vnReq' = VnReq("writing", vnReq.frame, vnReq.got, vnReq.tries)
    BY <1>1, <2>1 DEF VnTypes, VnReq
  <2>3. /\ vnReq'.at = "writing" /\ vnReq'.frame = vnReq.frame /\ vnReq'.got = vnReq.got
        /\ vnReq'.tries = vnReq.tries
    BY <2>2 DEF VnReq
  <2>4. VnTypes'
    BY <1>1, <2>1, <2>2, <2>3 DEF VnTypes
  <2>5. AskInv'
    BY <1>1, <2>1, <2>3 DEF AskInv, VnConfig!NoReq
  <2>6. HearInv'
    BY <1>1, <1>2, <2>1, <2>3 DEF HearInv
  <2> QED
    BY <1>2, <2>4, <2>5, <2>6 DEF VnInv
<1>4. CASE ~VnConfig!StartWrite
  <2>1. /\ UNCHANGED <<vnReq, vnInbox>>
        /\ vnWriter' = vnWriter \/ (vnWriter # "command" /\ vnWriter' # "command")
    BY <1>4 DEF VnConfig!Inject, VnConfig!StartRtcm, VnConfig!EndRtcm, VnConfig!ClosePort
  <2>2. VnTypes' /\ AskInv'
    BY <1>1, <2>1 DEF VnTypes, AskInv
  <2>3. HearInv'
    BY <1>1, <1>2, <2>1 DEF HearInv
  <2> QED
    BY <1>2, <2>2, <2>3 DEF VnInv
<1> QED
  BY <1>3, <1>4

LEMMA VnStarts == VnConfig!Init => VnInv
<1> SUFFICES ASSUME VnConfig!Init PROVE VnInv
  OBVIOUS
<1>1. vnRam \in VnRegs /\ vnFlash = vnRam /\ vnUnit \in VnUnits
  BY VnAssumption DEF VnConfig!Init, VnRegs
<1>2. VnTypes
  BY <1>1 DEF VnConfig!Init, VnConfig!LinkInit, VnTypes, VnConfig!NoReq, VnReq
<1>3. AskInv
  BY DEF VnConfig!Init, VnConfig!LinkInit, AskInv, VnConfig!NoReq
<1>4. HearInv
  BY DEF VnConfig!Init, VnConfig!LinkInit, HearInv, VnConfig!NoReq, VnConfig!Idle
<1>5. NeverMute
  BY <1>1 DEF VnConfig!Init, NeverMute, VnConfig!NeverMute
<1> QED
  BY <1>2, <1>3, <1>4, <1>5 DEF VnInv

LEMMA VnStep == VnInv /\ [VnConfig!Next]_vnVars => VnInv'
<1> SUFFICES ASSUME VnInv, [VnConfig!Next]_vnVars PROVE VnInv'
  OBVIOUS
<1>1. CASE VnConfig!Open \/ VnConfig!Forced \/ VnConfig!Reset
  BY <1>1, RunStarts
<1>2. CASE VnConfig!Reply
  BY <1>2, ReplyKeeps
<1>3. CASE VnConfig!Silence
  BY <1>3, SilenceKeeps
<1>4. CASE VnConfig!Send
  BY <1>4, SendKeeps
<1>5. CASE VnConfig!Stream
  BY <1>5, StreamKeeps
<1>6. CASE VnConfig!LinkLost
  BY <1>6, LinkLostKeeps
<1>7. CASE VnConfig!Stall
  BY <1>7, StallKeeps
<1>8. CASE VnConfig!Restart
  BY <1>8, RestartKeeps
<1>9. CASE VnConfig!PowerCycle
  BY <1>9, PowerCycleKeeps
<1>10. CASE (VnConfig!StartWrite \/ VnConfig!Inject \/ VnConfig!EndRtcm \/ VnConfig!ClosePort)
            /\ UNCHANGED <<VnConfig!unitVars, VnConfig!hostVars>>
  BY <1>10, PortKeeps DEF VnConfig!unitVars, VnConfig!hostVars
<1>11. CASE VnConfig!Route(vnInbox # <<>> /\ VnConfig!Match(Head(vnInbox), vnReq.frame))
            /\ UNCHANGED <<VnConfig!unitVars, VnConfig!hostVars>>
  BY <1>11, RouteKeeps DEF VnConfig!unitVars, VnConfig!hostVars
<1>12. CASE UNCHANGED vnVars
  BY <1>12, PortKeeps DEF vnVars
<1> QED
  BY <1>1, <1>2, <1>3, <1>4, <1>5, <1>6, <1>7, <1>8, <1>9, <1>10, <1>11, <1>12
     DEF VnConfig!Next

(* The invariant of a VectorNav configuration, in every behaviour of the   *)
(* exchanges.                                                              *)
THEOREM VnInvariant == MCSpec => []VnInv
<1>1. MCInit => VnInv
  BY VnStarts DEF MCInit
<1>2. VnInv /\ [MCNext]_allVars => VnInv'
  <2>1. [MCNext]_allVars => [VnConfig!Next]_vnVars
    BY DEF MCNext, allVars
  <2> QED
    BY <2>1, VnStep
<1> QED
  BY <1>1, <1>2, PTL DEF MCSpec

(* NeverMute: mtrtk never silences a VectorNav unit on its own port, for   *)
(* any units and any number of faults, retries, restarts and power cuts    *)
(* (vectornav/config.py, async_output and save behind check_stream).       *)
THEOREM NeverMutes == MCSpec => []NeverMute
<1>1. VnInv => NeverMute
  BY DEF VnInv
<1> QED
  BY <1>1, VnInvariant, PTL

-----------------------------------------------------------------------------
(* RawCapture: the frames that have a number, and the hours a crash cut.   *)
Frames == 1 .. MaxFrames
CutHours == [hour : RawCapture!Hours, open : BOOLEAN]
Tallies == [bytes : Nat, frames : Nat]

CaptureTypes ==
  /\ now \in 1 .. MaxTime /\ next \in 1 .. (MaxFrames + 1)
  /\ hour \in RawCapture!Hours \union {RawCapture!None}
  /\ disk \in [RawCapture!Hours -> SUBSET Frames]
  /\ side \in [RawCapture!Hours -> Tallies] /\ counts \in Tallies
  /\ capturePending \in SUBSET Frames /\ buffered \in SUBSET Frames /\ lost \in SUBSET Frames
  /\ torn \in SUBSET CutHours

(* The clock that names the file is never more than a second away from the *)
(* host's, and is there while a file is open.                              *)
ClockInv ==
  hour # RawCapture!None =>
    utc \in Int /\ utcMono \in Int /\ (utc - utcMono) \in {-1, 0, 1}

(* Where a frame may be: waiting, in the open file's buffer, lost, or in   *)
(* the file of one hour.                                                   *)
HomeInv ==
  /\ \A f \in Frames :
       f < next <=> f \in capturePending \/ f \in buffered \/ f \in lost
                      \/ \E h \in RawCapture!Hours : f \in disk[h]
  /\ capturePending \intersect buffered = {} /\ capturePending \intersect lost = {}
  /\ buffered \intersect lost = {}
  /\ \A h \in RawCapture!Hours :
       disk[h] \intersect (capturePending \union buffered \union lost) = {}
  /\ \A g, h \in RawCapture!Hours : g # h => disk[g] \intersect disk[h] = {}

(* An hour is cut once, and is opened when it is taken up again.           *)
TornInv ==
  /\ \A x, y \in torn : x.hour = y.hour => x = y
  /\ \A x \in torn : x.hour = hour => x.open

(* The open hour's counts are those of its file with what is not flushed;  *)
(* its frames are right unless a crash cut it.                             *)
TallyInv ==
  /\ hour = RawCapture!None => buffered = {}
  /\ hour # RawCapture!None =>
       /\ capturePending = {}
       /\ counts.bytes = Cardinality(disk[hour] \union buffered)
       /\ (\A x \in torn : x.hour # hour) => counts.frames = counts.bytes

(* The same of an hour that is not open, against the sidecar on disk.      *)
SideInv ==
  \A h \in RawCapture!Hours \ {hour} :
    /\ (\A x \in torn : x.hour = h => x.open) => side[h].bytes = Cardinality(disk[h])
    /\ (\A x \in torn : x.hour # h) => side[h].frames = Cardinality(disk[h])

CaptureInv == CaptureTypes /\ ClockInv /\ HomeInv /\ TornInv /\ TallyInv /\ SideInv

-----------------------------------------------------------------------------
(* The instance counts as everybody does.                                  *)
LEMMA SameCount == \A S : RawCapture!Cardinality(S) = Cardinality(S)
BY DEF RawCapture!Cardinality, Cardinality

(* Sets of frames are finite, and those that exclude each other add up.    *)
LEMMA FrameSets ==
  ASSUME NEW S \in SUBSET Frames, NEW T \in SUBSET Frames
  PROVE  /\ IsFiniteSet(S) /\ Cardinality(S) \in Nat
         /\ S \intersect T = {} => Cardinality(S \union T) = Cardinality(S) + Cardinality(T)
<1>1. IsFiniteSet(Frames)
  BY CaptureAssumption, FS_Interval DEF Frames
<1>2. /\ IsFiniteSet(S) /\ IsFiniteSet(T)
      /\ Cardinality(S) \in Nat /\ Cardinality(T) \in Nat
  BY <1>1, FS_Subset, FS_CardinalityType
<1>3. ASSUME S \intersect T = {} PROVE Cardinality(S \union T) = Cardinality(S) + Cardinality(T)
  <2>1. Cardinality(S \union T) = Cardinality(S) + Cardinality(T) - Cardinality(S \intersect T)
    BY <1>2, FS_Union
  <2>2. Cardinality(S \intersect T) = 0
    BY <1>3, FS_EmptySet
  <2> QED
    BY <1>2, <2>1, <2>2
<1> QED
  BY <1>2, <1>3

(* One frame more is one more.                                             *)
LEMMA FrameAdded ==
  ASSUME NEW S \in SUBSET Frames, NEW n \in Frames, n \notin S
  PROVE  Cardinality(S \union {n}) = Cardinality(S) + 1
<1>1. IsFiniteSet(S)
  BY FrameSets
<1> QED
  BY <1>1, FS_AddElement

(* A reading a second away from the host's clock names one of the hours.   *)
LEMMA HourNear ==
  ASSUME NEW t \in Int, 0 <= t, t <= MaxTime + 1
  PROVE  RawCapture!FloorHour(t) \in RawCapture!Hours
<1> DEFINE q == t \div Hour
           m == MaxTime \div Hour
<1>1. /\ q \in Int /\ m \in Int /\ Hour \in Nat /\ Hour > 0 /\ MaxTime \in Nat
      /\ Hour * q <= t /\ t < Hour * q + Hour
      /\ Hour * m <= MaxTime /\ MaxTime < Hour * m + Hour
  BY CaptureAssumption
<1> HIDE DEF q, m
<1>2. 0 <= q
  <2> SUFFICES ASSUME q <= -1 PROVE FALSE
    BY <1>1
  <2>1. Hour * q <= -Hour
    BY <1>1
  <2> QED
    BY <1>1, <2>1
<1>3. q <= m + 1
  <2> SUFFICES ASSUME q >= m + 2 PROVE FALSE
    BY <1>1
  <2>1. Hour * q >= Hour * m + 2 * Hour
    BY <1>1
  <2> QED
    BY <1>1, <2>1
<1> QED
  BY <1>1, <1>2, <1>3 DEF q, m, RawCapture!FloorHour, RawCapture!Hours

LEMMA CaptureStarts == RawCapture!Init => CaptureInv
<1> SUFFICES ASSUME RawCapture!Init PROVE CaptureInv
  OBVIOUS
<1>1. RawCapture!NoCounts \in Tallies
  BY DEF RawCapture!NoCounts, Tallies
<1>2. CaptureTypes
  BY <1>1, CaptureAssumption DEF RawCapture!Init, CaptureTypes
<1>3. ClockInv /\ TornInv
  BY DEF RawCapture!Init, ClockInv, TornInv, RawCapture!None
<1>4. HomeInv
  BY CaptureAssumption DEF RawCapture!Init, HomeInv, Frames
<1>5. TallyInv /\ SideInv
  BY FS_EmptySet DEF RawCapture!Init, TallyInv, SideInv, RawCapture!NoCounts
<1> QED
  BY <1>2, <1>3, <1>4, <1>5 DEF CaptureInv

(* Of a set with at most one member, and of two that exclude each other.   *)
LEMMA CountedOnce ==
  ASSUME NEW S, NEW T, IsFiniteSet(S), IsFiniteSet(T),
         (T = {} /\ (\E x : S = {x})) \/ (S = {} /\ (\E y : T = {y}))
  PROVE  Cardinality(S) + Cardinality(T) = 1
<1>1. CASE T = {} /\ (\E x : S = {x})
  <2>1. Cardinality(T) = 0 /\ Cardinality(S) = 1
    BY <1>1, FS_EmptySet, FS_Singleton
  <2> QED
    BY <2>1
<1>2. CASE S = {} /\ (\E y : T = {y})
  <2>1. Cardinality(S) = 0 /\ Cardinality(T) = 1
    BY <1>2, FS_EmptySet, FS_Singleton
  <2> QED
    BY <2>1
<1> QED
  BY <1>1, <1>2

LEMMA CaptureHolds == CaptureInv => CaptureCounts
<1> SUFFICES ASSUME CaptureInv PROVE CaptureCounts
  OBVIOUS
<1>1. ASSUME NEW f \in 1 .. (next - 1)
      PROVE  RawCapture!Cardinality({h \in RawCapture!Hours : f \in disk[h]}) +
             RawCapture!Cardinality({s \in {1, 2, 3} :
                                       f \in (<<capturePending, buffered, lost>>)[s]}) = 1
  <2> DEFINE S == {h \in RawCapture!Hours : f \in disk[h]}
             T == {s \in {1, 2, 3} : f \in (<<capturePending, buffered, lost>>)[s]}
  <2>1. f \in Frames /\ f < next
    BY CaptureAssumption DEF CaptureInv, CaptureTypes, Frames
  <2>2. /\ IsFiniteSet(S) /\ IsFiniteSet(T)
    <3>1. IsFiniteSet(RawCapture!Hours) /\ IsFiniteSet({1, 2, 3})
      <4>1. 0 \in Int /\ MaxTime \div Hour + 1 \in Int
        BY CaptureAssumption
      <4>2. IsFiniteSet(0 .. (MaxTime \div Hour + 1))
        BY <4>1, FS_Interval
      <4>3. IsFiniteSet({1, 2, 3})
        <5>1. 1 .. 3 = {1, 2, 3}
          OBVIOUS
        <5>2. 1 \in Int /\ 3 \in Int
          OBVIOUS
        <5>3. IsFiniteSet(1 .. 3)
          BY <5>2, FS_Interval
        <5> QED
          BY <5>1, <5>3
      <4> QED
        BY <4>2, <4>3 DEF RawCapture!Hours
    <3> QED
      BY <3>1, FS_Subset
  <2>3. ASSUME f \in capturePending \/ f \in buffered \/ f \in lost
        PROVE  Cardinality(S) + Cardinality(T) = 1
    <3>1. S = {}
      BY <2>3 DEF CaptureInv, HomeInv
    <3>2. T = {1} \/ T = {2} \/ T = {3}
      BY <2>3 DEF CaptureInv, HomeInv
    <3> HIDE DEF S, T
    <3>3. \E y : T = {y}
      BY <3>2
    <3> QED
      BY <2>2, <3>1, <3>3, CountedOnce
  <2>4. ASSUME ~(f \in capturePending \/ f \in buffered \/ f \in lost)
        PROVE  Cardinality(S) + Cardinality(T) = 1
    <3>1. T = {}
      BY <2>4
    <3>2. PICK h \in RawCapture!Hours : f \in disk[h]
      BY <2>1, <2>4 DEF CaptureInv, HomeInv
    <3>3. S = {h}
      BY <3>2 DEF CaptureInv, HomeInv
    <3> HIDE DEF S, T
    <3>4. \E x : S = {x}
      BY <3>3
    <3> QED
      BY <2>2, <3>1, <3>4, CountedOnce
  <2>5. Cardinality(S) + Cardinality(T) = 1
    BY <2>3, <2>4
  <2> HIDE DEF S, T
  <2>6. RawCapture!Cardinality(S) + RawCapture!Cardinality(T) = 1
    BY <2>5, SameCount
  <2> QED
    BY <2>6 DEF S, T
<1>2. ASSUME NEW h \in RawCapture!Hours \ {hour}
      PROVE  LET n == RawCapture!Cardinality(disk[h])
             IN  \/ \E x \in torn : x.hour = h /\ ~x.open
                 \/ (\E x \in torn : x.hour = h) /\ side[h].bytes = n
                 \/ side[h] = [bytes |-> n, frames |-> n]
  <2>1. side[h] = [bytes |-> side[h].bytes, frames |-> side[h].frames]
    BY DEF CaptureInv, CaptureTypes, Tallies
  <2>6. RawCapture!Cardinality(disk[h]) = Cardinality(disk[h])
    BY SameCount
  <2>2. \A x \in torn : x.open \in BOOLEAN
    BY DEF CaptureInv, CaptureTypes, CutHours
  <2>3. CASE \E x \in torn : x.hour = h /\ ~x.open
    BY <2>3
  <2>4. CASE \E x \in torn : x.hour = h /\ x.open
    <3>1. \A x \in torn : x.hour = h => x.open
      BY <2>4 DEF CaptureInv, TornInv
    <3>2. side[h].bytes = Cardinality(disk[h])
      BY <3>1 DEF CaptureInv, SideInv
    <3> QED
      BY <2>4, <2>6, <3>1, <3>2
  <2>5. CASE \A x \in torn : x.hour # h
    <3>1. side[h].bytes = Cardinality(disk[h]) /\ side[h].frames = Cardinality(disk[h])
      BY <2>5 DEF CaptureInv, SideInv
    <3> QED
      BY <2>1, <2>6, <3>1
  <2> QED
    BY <2>2, <2>3, <2>4, <2>5
<1> QED
  BY <1>1, <1>2, Zenon DEF CaptureCounts, RawCapture!CaptureCounts

(* The clock names an hour.                                                *)
LEMMA ClockNames ==
  ASSUME CaptureInv, hour # RawCapture!None
  PROVE  /\ RawCapture!Projected \in Int /\ (RawCapture!Projected - now) \in {-1, 0, 1}
         /\ RawCapture!FloorHour(RawCapture!Projected) \in RawCapture!Hours
<1>1. now \in Nat /\ 1 <= now /\ now <= MaxTime /\ MaxTime \in Nat
  BY CaptureAssumption DEF CaptureInv, CaptureTypes
<1>2. RawCapture!Projected \in Int /\ (RawCapture!Projected - now) \in {-1, 0, 1}
  BY <1>1 DEF CaptureInv, ClockInv, RawCapture!Projected
<1>3. 0 <= RawCapture!Projected /\ RawCapture!Projected <= MaxTime + 1
  BY <1>1, <1>2
<1> QED
  BY <1>2, <1>3, HourNear

(* The files with the buffer written out and the sidecar after it, as      *)
(* close() leaves them: no hour is open.                                   *)
LEMMA ClosedFiles ==
  ASSUME CaptureInv, NEW c, c = RawCapture!Closed
  PROVE  /\ c.disk \in [RawCapture!Hours -> SUBSET Frames]
         /\ c.side \in [RawCapture!Hours -> Tallies]
         /\ \A f : (\E h \in RawCapture!Hours : f \in c.disk[h])
                     <=> f \in buffered \/ \E h \in RawCapture!Hours : f \in disk[h]
         /\ \A h \in RawCapture!Hours : c.disk[h] \intersect (capturePending \union lost) = {}
         /\ \A g, h \in RawCapture!Hours : g # h => c.disk[g] \intersect c.disk[h] = {}
         /\ \A h \in RawCapture!Hours :
              /\ (\A x \in torn : x.hour = h => x.open) =>
                   c.side[h].bytes = Cardinality(c.disk[h])
              /\ (\A x \in torn : x.hour # h) => c.side[h].frames = Cardinality(c.disk[h])
<1>1. CASE hour = RawCapture!None
  <2>1. c.disk = disk /\ c.side = side /\ buffered = {} /\ hour \notin RawCapture!Hours
    BY <1>1, CaptureAssumption
       DEF RawCapture!Closed, CaptureInv, TallyInv, RawCapture!Hours, RawCapture!None
  <2> QED
    BY <2>1 DEF CaptureInv, CaptureTypes, HomeInv, SideInv
<1>2. CASE hour # RawCapture!None
  <2>1. /\ hour \in RawCapture!Hours /\ disk \in [RawCapture!Hours -> SUBSET Frames]
        /\ side \in [RawCapture!Hours -> Tallies] /\ counts \in Tallies
        /\ buffered \in SUBSET Frames
    BY <1>2 DEF CaptureInv, CaptureTypes
  <2>2. /\ c.disk = [disk EXCEPT ![hour] = @ \union buffered]
        /\ c.side = [side EXCEPT ![hour] = counts]
    BY <1>2 DEF RawCapture!Closed
  <2>3. /\ c.disk[hour] = disk[hour] \union buffered /\ c.side[hour] = counts
        /\ \A h \in RawCapture!Hours \ {hour} : c.disk[h] = disk[h] /\ c.side[h] = side[h]
    BY <2>1, <2>2
  <2>4. /\ c.disk \in [RawCapture!Hours -> SUBSET Frames]
        /\ c.side \in [RawCapture!Hours -> Tallies]
    BY <2>1, <2>2
  <2>5. \A f : (\E h \in RawCapture!Hours : f \in c.disk[h])
                 <=> f \in buffered \/ \E h \in RawCapture!Hours : f \in disk[h]
    BY <2>1, <2>3
  <2>6. /\ \A h \in RawCapture!Hours : c.disk[h] \intersect (capturePending \union lost) = {}
        /\ \A g, h \in RawCapture!Hours : g # h => c.disk[g] \intersect c.disk[h] = {}
    BY <2>1, <2>3 DEF CaptureInv, HomeInv
  <2>7. ASSUME NEW h \in RawCapture!Hours
        PROVE  /\ (\A x \in torn : x.hour = h => x.open) =>
                    c.side[h].bytes = Cardinality(c.disk[h])
               /\ (\A x \in torn : x.hour # h) => c.side[h].frames = Cardinality(c.disk[h])
    <3>1. CASE h = hour
      BY <1>2, <2>3, <3>1 DEF CaptureInv, TallyInv
    <3>2. CASE h # hour
      BY <2>3, <3>2 DEF CaptureInv, SideInv
    <3> QED
      BY <3>1, <3>2
  <2> QED
    BY <2>4, <2>5, <2>6, <2>7
<1> QED
  BY <1>1, <1>2

(* _rotate() with the frames that waited, and perhaps the one at hand.     *)
LEMMA RotateKeeps ==
  ASSUME CaptureInv, NEW h \in RawCapture!Hours, NEW waiting \in SUBSET Frames,
         RawCapture!Rotate(h, waiting), UNCHANGED <<now, lost>>,
         next' \in 1 .. (MaxFrames + 1), capturePending \subseteq waiting,
         \A f \in Frames : f < next' <=> f < next \/ f \in waiting,
         waiting \intersect (buffered \union lost) = {},
         \A g \in RawCapture!Hours : waiting \intersect disk[g] = {},
         utc' \in Int, utcMono' \in Int, (utc' - utcMono') \in {-1, 0, 1}
  PROVE  CaptureInv'
<1>1. PICK c : c = RawCapture!Closed
  OBVIOUS
<1>2. PICK r : r = RawCapture!Resumed(c, h)
  OBVIOUS
<1>3. /\ hour' = h /\ disk' = c.disk /\ side' = [c.side EXCEPT ![h] = r]
      /\ buffered' = waiting /\ capturePending' = {}
      /\ counts' = [bytes |-> r.bytes + Cardinality(waiting),
                    frames |-> r.frames + Cardinality(waiting)]
  BY <1>1, <1>2, SameCount DEF RawCapture!Rotate
<1>15. torn' = {x \in torn : x.hour # h}
                 \union {[x EXCEPT !.open = TRUE] : x \in {y \in torn : y.hour = h}}
  BY DEF RawCapture!Rotate
<1>4. /\ c.disk \in [RawCapture!Hours -> SUBSET Frames]
      /\ c.side \in [RawCapture!Hours -> Tallies]
      /\ \A f : (\E g \in RawCapture!Hours : f \in c.disk[g])
                  <=> f \in buffered \/ \E g \in RawCapture!Hours : f \in disk[g]
      /\ \A g \in RawCapture!Hours : c.disk[g] \intersect (capturePending \union lost) = {}
      /\ \A f, g \in RawCapture!Hours : f # g => c.disk[f] \intersect c.disk[g] = {}
      /\ \A g \in RawCapture!Hours :
           /\ (\A x \in torn : x.hour = g => x.open) => c.side[g].bytes = Cardinality(c.disk[g])
           /\ (\A x \in torn : x.hour # g) => c.side[g].frames = Cardinality(c.disk[g])
  BY <1>1, ClosedFiles
<1>5. /\ r.bytes = Cardinality(c.disk[h]) /\ r.frames = c.side[h].frames
      /\ r \in Tallies /\ Cardinality(waiting) \in Nat
  <2>1. Cardinality(c.disk[h]) \in Nat /\ Cardinality(waiting) \in Nat
    BY <1>4, FrameSets
  <2>2. c.side[h].frames \in Nat
    BY <1>4 DEF Tallies
  <2>3. r = [bytes |-> Cardinality(c.disk[h]), frames |-> c.side[h].frames]
    BY <1>2, SameCount DEF RawCapture!Resumed
  <2> QED
    BY <2>1, <2>2, <2>3 DEF Tallies
<1>6. c.disk[h] \intersect waiting = {}
  BY <1>4
<1>7. /\ torn' \in SUBSET CutHours
      /\ \A x \in torn' : x.hour # h => x \in torn
      /\ \A x \in torn' : x.hour = h => x.open
      /\ \A x \in torn : \E y \in torn' : y.hour = x.hour /\ (x.hour # h => y = x)
      /\ \A x, y \in torn' : x.hour = y.hour => x = y
  <2>1. /\ torn \in SUBSET CutHours
        /\ \A x, y \in torn : x.hour = y.hour => x = y
    BY DEF CaptureInv, CaptureTypes, TornInv
  <2> DEFINE Opened(x) == [x EXCEPT !.open = TRUE]
  <2>2. ASSUME NEW x \in torn, x.hour = h
        PROVE  Opened(x) \in CutHours /\ Opened(x).hour = h /\ Opened(x).open
    BY <2>1, <2>2 DEF CutHours
  <2>3. torn' = {x \in torn : x.hour # h}
                  \union {Opened(x) : x \in {y \in torn : y.hour = h}}
    BY <1>15
  <2> HIDE DEF Opened
  <2>4. \A x \in torn' :
          (x \in torn /\ x.hour # h) \/ (\E y \in torn : y.hour = h /\ x = Opened(y))
    BY <2>3
  <2>5. \A x \in torn : x.hour # h => x \in torn'
    BY <2>3
  <2>6. \A x \in torn : x.hour = h => Opened(x) \in torn'
    BY <2>3
  <2>7. \A x \in torn : \E y \in torn' : y.hour = x.hour /\ (x.hour # h => y = x)
    BY <2>2, <2>5, <2>6
  <2>8. torn' \in SUBSET CutHours
    BY <2>1, <2>2, <2>4
  <2>9. /\ \A x \in torn' : x.hour # h => x \in torn
        /\ \A x \in torn' : x.hour = h => x.open
    BY <2>2, <2>4
  <2>10. \A x, y \in torn' : x.hour = y.hour => x = y
    BY <2>1, <2>2, <2>4
  <2> QED
    BY <2>7, <2>8, <2>9, <2>10
<1>8. CaptureTypes'
  <2>1. counts' \in Tallies
    BY <1>3, <1>5 DEF Tallies
  <2>2. side' \in [RawCapture!Hours -> Tallies]
    BY <1>3, <1>4, <1>5
  <2> QED
    BY <1>3, <1>4, <1>7, <2>1, <2>2 DEF CaptureInv, CaptureTypes
<1>9. ClockInv'
  BY DEF ClockInv
<1>10. HomeInv'
  <2>1. \A f \in Frames :
          f < next' <=> f \in capturePending' \/ f \in buffered' \/ f \in lost'
                          \/ \E g \in RawCapture!Hours : f \in disk'[g]
    BY <1>3, <1>4 DEF CaptureInv, HomeInv
  <2> QED
    BY <1>3, <1>4, <2>1 DEF CaptureInv, HomeInv
<1>11. TornInv'
  BY <1>3, <1>7 DEF TornInv
<1>12. TallyInv'
  <2>1. h # RawCapture!None
    BY CaptureAssumption DEF RawCapture!Hours, RawCapture!None
  <2>2. Cardinality(c.disk[h] \union waiting) = Cardinality(c.disk[h]) + Cardinality(waiting)
    BY <1>4, <1>6, FrameSets
  <2>3. counts'.bytes = Cardinality(c.disk[h]) + Cardinality(waiting)
    BY <1>3, <1>5
  <2>4. ASSUME \A x \in torn' : x.hour # h PROVE counts'.frames = counts'.bytes
    <3>1. \A x \in torn : x.hour # h
      BY <1>7, <2>4
    <3>2. r.frames = Cardinality(c.disk[h])
      BY <1>4, <1>5, <3>1
    <3> QED
      BY <1>3, <1>5, <3>2
  <2> QED
    BY <1>3, <2>1, <2>2, <2>3, <2>4 DEF TallyInv
<1>13. SideInv'
  <2> SUFFICES ASSUME NEW g \in RawCapture!Hours \ {h}
               PROVE  /\ (\A x \in torn' : x.hour = g => x.open) =>
                           side'[g].bytes = Cardinality(disk'[g])
                      /\ (\A x \in torn' : x.hour # g) => side'[g].frames = Cardinality(disk'[g])
    BY <1>3 DEF SideInv
  <2>1. side'[g] = c.side[g] /\ disk'[g] = c.disk[g]
    BY <1>3, <1>4
  <2>2. (\A x \in torn' : x.hour = g => x.open) => (\A x \in torn : x.hour = g => x.open)
    BY <1>7
  <2>3. (\A x \in torn' : x.hour # g) => (\A x \in torn : x.hour # g)
    BY <1>7
  <2> QED
    BY <1>4, <2>1, <2>2, <2>3
<1> QED
  BY <1>8, <1>9, <1>10, <1>11, <1>12, <1>13 DEF CaptureInv

(* Nothing but the clock's reading changes.                                *)
LEMMA CaptureAside ==
  ASSUME CaptureInv, now' \in 1 .. MaxTime, ClockInv',
         UNCHANGED <<next, hour, capturePending, buffered, counts, disk, side, lost, torn>>
  PROVE  CaptureInv'
<1>1. CaptureTypes'
  BY DEF CaptureInv, CaptureTypes
<1>2. HomeInv'
  BY DEF CaptureInv, HomeInv
<1>3. TornInv' /\ TallyInv' /\ SideInv'
  BY DEF CaptureInv, TornInv, TallyInv, SideInv
<1> QED
  BY <1>1, <1>2, <1>3 DEF CaptureInv

(* note_utc: the reading is followed, perhaps into another hour.           *)
LEMMA NoteUtcKeeps ==
  ASSUME CaptureInv, NEW u \in {now - 1, now, now + 1}, RawCapture!NoteUtc(u)
  PROVE  CaptureInv'
<1>1. /\ now \in 1 .. MaxTime /\ MaxTime \in Nat /\ next \in 1 .. (MaxFrames + 1)
      /\ capturePending \in SUBSET Frames
  BY CaptureAssumption DEF CaptureInv, CaptureTypes
<1>2. UNCHANGED <<now, next, lost>>
  BY DEF RawCapture!NoteUtc
<1>3. RawCapture!FloorHour(u) \in RawCapture!Hours
  <2>1. u \in Int /\ 0 <= u /\ u <= MaxTime + 1
    BY <1>1
  <2> QED
    BY <2>1, HourNear
<1>4. \/ UNCHANGED <<utc, utcMono>> /\ RawCapture!SameFile
      \/ utc' = u /\ utcMono' = now /\ RawCapture!Rotate(RawCapture!FloorHour(u), capturePending)
      \/ utc' = u /\ utcMono' = now /\ RawCapture!SameFile /\ hour # RawCapture!None
  BY DEF RawCapture!NoteUtc
<1>5. CASE UNCHANGED <<utc, utcMono>> /\ RawCapture!SameFile
  <2>1. ClockInv'
    BY <1>5 DEF CaptureInv, ClockInv, RawCapture!SameFile
  <2> QED
    BY <1>1, <1>2, <1>5, <2>1, CaptureAside DEF RawCapture!SameFile
<1>6. CASE utc' = u /\ utcMono' = now /\ RawCapture!SameFile
  <2>1. ClockInv'
    BY <1>1, <1>6 DEF ClockInv
  <2> QED
    BY <1>1, <1>2, <1>6, <2>1, CaptureAside DEF RawCapture!SameFile
<1>7. CASE utc' = u /\ utcMono' = now
             /\ RawCapture!Rotate(RawCapture!FloorHour(u), capturePending)
  <2>1. utc' \in Int /\ utcMono' \in Int /\ (utc' - utcMono') \in {-1, 0, 1}
    BY <1>1, <1>7
  <2>2. \A f \in Frames : f < next' <=> f < next \/ f \in capturePending
    BY <1>2 DEF CaptureInv, HomeInv
  <2>3. /\ capturePending \intersect (buffered \union lost) = {}
        /\ \A g \in RawCapture!Hours : capturePending \intersect disk[g] = {}
    BY DEF CaptureInv, HomeInv
  <2> QED
    BY <1>1, <1>2, <1>3, <1>7, <2>1, <2>2, <2>3, RotateKeeps
<1> QED
  BY <1>4, <1>5, <1>6, <1>7

(* The frame at hand is nowhere yet.                                       *)
LEMMA NextIsNew ==
  ASSUME CaptureInv, next <= MaxFrames, next' = next + 1
  PROVE  /\ next \in Frames /\ next' \in 1 .. (MaxFrames + 1)
         /\ next \notin capturePending /\ next \notin buffered /\ next \notin lost
         /\ \A h \in RawCapture!Hours : next \notin disk[h]
         /\ \A f \in Frames : f < next' <=> f < next \/ f = next
<1>1. next \in 1 .. (MaxFrames + 1) /\ MaxFrames \in Nat
  BY CaptureAssumption DEF CaptureInv, CaptureTypes
<1>2. next \in Frames /\ next' \in 1 .. (MaxFrames + 1) /\ ~(next < next)
  BY <1>1 DEF Frames
<1>3. \A f \in Frames : f < next' <=> f < next \/ f = next
  BY <1>1 DEF Frames
<1> QED
  BY <1>2, <1>3 DEF CaptureInv, HomeInv

(* write() without a clock.                                                *)
LEMMA WriteWaitsKeeps ==
  ASSUME CaptureInv, RawCapture!WriteWaits
  PROVE  CaptureInv'
<1>1. /\ hour = RawCapture!None /\ next <= MaxFrames /\ next' = next + 1
      /\ UNCHANGED <<now, lost>>
  BY DEF RawCapture!WriteWaits
<1>2. /\ next \in Frames /\ next' \in 1 .. (MaxFrames + 1)
      /\ next \notin capturePending /\ next \notin buffered /\ next \notin lost
      /\ \A h \in RawCapture!Hours : next \notin disk[h]
      /\ \A f \in Frames : f < next' <=> f < next \/ f = next
  BY <1>1, NextIsNew
<1>3. /\ now \in 1 .. MaxTime /\ MaxTime \in Nat
      /\ capturePending \in SUBSET Frames
  BY CaptureAssumption DEF CaptureInv, CaptureTypes
<1>4. \/ /\ utc' = now /\ utcMono' = now
         /\ RawCapture!Rotate(RawCapture!FloorHour(now), capturePending \union {next})
      \/ /\ capturePending' = capturePending \union {next}
         /\ UNCHANGED <<utc, utcMono, hour, disk, side, buffered, counts, torn>>
  BY DEF RawCapture!WriteWaits
<1>5. CASE /\ utc' = now /\ utcMono' = now
           /\ RawCapture!Rotate(RawCapture!FloorHour(now), capturePending \union {next})
  <2>1. RawCapture!FloorHour(now) \in RawCapture!Hours
    BY <1>3, HourNear
  <2>2. utc' \in Int /\ utcMono' \in Int /\ (utc' - utcMono') \in {-1, 0, 1}
    BY <1>3, <1>5
  <2>3. capturePending \union {next} \in SUBSET Frames
    BY <1>2, <1>3
  <2>4. \A f \in Frames : f < next' <=> f < next \/ f \in capturePending \union {next}
    BY <1>2 DEF CaptureInv, HomeInv
  <2>5. /\ (capturePending \union {next}) \intersect (buffered \union lost) = {}
        /\ \A g \in RawCapture!Hours : (capturePending \union {next}) \intersect disk[g] = {}
    BY <1>2 DEF CaptureInv, HomeInv
  <2> QED
    BY <1>1, <1>2, <1>5, <2>1, <2>2, <2>3, <2>4, <2>5, RotateKeeps
<1>6. CASE /\ capturePending' = capturePending \union {next}
           /\ UNCHANGED <<utc, utcMono, hour, disk, side, buffered, counts, torn>>
  <2>1. CaptureTypes'
    BY <1>1, <1>2, <1>6 DEF CaptureInv, CaptureTypes
  <2>2. HomeInv'
    BY <1>1, <1>2, <1>6 DEF CaptureInv, HomeInv
  <2>3. ClockInv' /\ TornInv' /\ TallyInv' /\ SideInv'
    BY <1>1, <1>6 DEF CaptureInv, ClockInv, TornInv, TallyInv, SideInv
  <2> QED
    BY <2>1, <2>2, <2>3 DEF CaptureInv
<1> QED
  BY <1>4, <1>5, <1>6

(* write() with a file open: into it, flushed when the sidecar is due, or  *)
(* into the next.                                                          *)
LEMMA WriteKeeps ==
  ASSUME CaptureInv, RawCapture!Write
  PROVE  CaptureInv'
<1>1. /\ hour # RawCapture!None /\ next <= MaxFrames /\ next' = next + 1
      /\ UNCHANGED <<now, lost>>
  BY DEF RawCapture!Write
<1>2. /\ next \in Frames /\ next' \in 1 .. (MaxFrames + 1)
      /\ next \notin capturePending /\ next \notin buffered /\ next \notin lost
      /\ \A h \in RawCapture!Hours : next \notin disk[h]
      /\ \A f \in Frames : f < next' <=> f < next \/ f = next
  BY <1>1, NextIsNew
<1>3. /\ hour \in RawCapture!Hours /\ capturePending = {}
      /\ disk \in [RawCapture!Hours -> SUBSET Frames] /\ buffered \in SUBSET Frames
      /\ side \in [RawCapture!Hours -> Tallies] /\ counts \in Tallies
      /\ now \in Int
  BY <1>1 DEF CaptureInv, CaptureTypes, TallyInv
<1>4. CASE RawCapture!Advances
  <2>1. /\ utc' = RawCapture!Projected /\ utcMono' = now
        /\ RawCapture!Rotate(RawCapture!FloorHour(RawCapture!Projected), {next})
    BY <1>4 DEF RawCapture!Write
  <2>2. RawCapture!FloorHour(RawCapture!Projected) \in RawCapture!Hours
    BY <1>1, ClockNames
  <2>3. utc' \in Int /\ utcMono' \in Int /\ (utc' - utcMono') \in {-1, 0, 1}
    BY <1>1, <1>3, <2>1, ClockNames
  <2>4. {next} \in SUBSET Frames /\ capturePending \subseteq {next}
    BY <1>2, <1>3
  <2>5. \A f \in Frames : f < next' <=> f < next \/ f \in {next}
    BY <1>2
  <2>6. /\ {next} \intersect (buffered \union lost) = {}
        /\ \A g \in RawCapture!Hours : {next} \intersect disk[g] = {}
    BY <1>2
  <2> QED
    BY <1>1, <1>2, <2>1, <2>2, <2>3, <2>4, <2>5, <2>6, RotateKeeps
<1>5. CASE ~RawCapture!Advances
  <2>1. /\ counts' = RawCapture!Counted
        /\ UNCHANGED <<utc, utcMono, hour, capturePending, torn>>
        /\ \/ /\ disk' = [disk EXCEPT ![hour] = @ \union buffered \union {next}]
              /\ buffered' = {} /\ side' = [side EXCEPT ![hour] = RawCapture!Counted]
           \/ buffered' = buffered \union {next} /\ UNCHANGED <<disk, side>>
    BY <1>5 DEF RawCapture!Write
  <2>2. /\ counts' \in Tallies
        /\ counts'.bytes = counts.bytes + 1 /\ counts'.frames = counts.frames + 1
    BY <1>3, <2>1 DEF RawCapture!Counted, Tallies
  <2>3. /\ disk' \in [RawCapture!Hours -> SUBSET Frames]
        /\ buffered' \in SUBSET Frames
        /\ disk'[hour] \union buffered' = disk[hour] \union buffered \union {next}
        /\ \A h \in RawCapture!Hours \ {hour} : disk'[h] = disk[h] /\ side'[h] = side[h]
        /\ side' \in [RawCapture!Hours -> Tallies]
        /\ disk[hour] \subseteq disk'[hour] /\ disk'[hour] \intersect buffered' = {}
    <3>1. disk[hour] \intersect buffered = {}
      BY <1>3 DEF CaptureInv, HomeInv
    <3>2. CASE /\ disk' = [disk EXCEPT ![hour] = @ \union buffered \union {next}]
               /\ buffered' = {} /\ side' = [side EXCEPT ![hour] = RawCapture!Counted]
      BY <1>2, <1>3, <2>1, <2>2, <3>2
    <3>3. CASE buffered' = buffered \union {next} /\ UNCHANGED <<disk, side>>
      BY <1>2, <1>3, <3>1, <3>3
    <3> QED
      BY <2>1, <3>2, <3>3
  <2>4. CaptureTypes'
    BY <1>1, <1>2, <2>1, <2>2, <2>3 DEF CaptureInv, CaptureTypes
  <2>5. HomeInv'
    <3>1. \A f : (f \in buffered' \/ \E h \in RawCapture!Hours : f \in disk'[h])
                   <=> (f = next \/ f \in buffered \/ \E h \in RawCapture!Hours : f \in disk[h])
      BY <1>3, <2>3
    <3>2. \A f \in Frames :
            f < next' <=> f \in capturePending' \/ f \in buffered' \/ f \in lost'
                            \/ \E h \in RawCapture!Hours : f \in disk'[h]
      BY <1>1, <1>2, <2>1, <3>1 DEF CaptureInv, HomeInv
    <3>3. \A h \in RawCapture!Hours : \A f \in disk'[h] :
            f \in disk[h] \/ (h = hour /\ (f \in buffered \/ f = next))
      BY <1>3, <2>3
    <3>4. \A f \in buffered' : f \in buffered \/ f = next
      BY <2>1
    <3>5. \A h \in RawCapture!Hours : disk'[h] \intersect buffered' = {}
      <4>1. \A h \in RawCapture!Hours \ {hour} : disk'[h] \intersect buffered' = {}
        BY <1>2, <2>3, <3>4 DEF CaptureInv, HomeInv
      <4> QED
        BY <2>3, <4>1
    <3>6. /\ capturePending' = {} /\ buffered' \intersect lost' = {}
      BY <1>1, <1>2, <1>3, <2>1, <3>4 DEF CaptureInv, HomeInv
    <3>7. \A h \in RawCapture!Hours : disk'[h] \intersect lost' = {}
      BY <1>1, <1>2, <3>3 DEF CaptureInv, HomeInv
    <3>8. \A g, h \in RawCapture!Hours : g # h => disk'[g] \intersect disk'[h] = {}
      BY <1>2, <3>3 DEF CaptureInv, HomeInv
    <3> QED
      BY <3>2, <3>5, <3>6, <3>7, <3>8 DEF HomeInv
  <2>6. ClockInv' /\ TornInv'
    BY <2>1 DEF CaptureInv, ClockInv, TornInv
  <2>7. TallyInv'
    <3>1. disk[hour] \union buffered \in SUBSET Frames /\ next \notin disk[hour] \union buffered
      BY <1>2, <1>3
    <3>2. Cardinality(disk'[hour] \union buffered') = Cardinality(disk[hour] \union buffered) + 1
      BY <1>2, <2>3, <3>1, FrameAdded
    <3>3. counts'.bytes = Cardinality(disk'[hour] \union buffered')
      BY <1>1, <2>2, <3>2 DEF CaptureInv, TallyInv
    <3>4. (\A x \in torn : x.hour # hour) => counts'.frames = counts'.bytes
      BY <1>1, <2>2 DEF CaptureInv, TallyInv
    <3> QED
      BY <1>1, <1>3, <2>1, <3>3, <3>4 DEF TallyInv
  <2>8. SideInv'
    BY <2>1, <2>3 DEF CaptureInv, SideInv
  <2> QED
    BY <2>4, <2>5, <2>6, <2>7, <2>8 DEF CaptureInv
<1> QED
  BY <1>4, <1>5

(* A new RawCapture after close(): the hours are all closed, and the frames *)
(* that had no clock are lost.                                             *)
LEMMA StopKeeps ==
  ASSUME CaptureInv, RawCapture!Stop
  PROVE  CaptureInv'
<1>1. PICK c : c = RawCapture!Closed
  OBVIOUS
<1>2. /\ disk' = c.disk /\ side' = c.side /\ lost' = lost \union capturePending
      /\ hour' = RawCapture!None /\ capturePending' = {} /\ buffered' = {}
      /\ counts' = RawCapture!NoCounts /\ UNCHANGED <<now, next, torn>>
  BY <1>1 DEF RawCapture!Stop, RawCapture!Fresh
<1>3. /\ c.disk \in [RawCapture!Hours -> SUBSET Frames]
      /\ c.side \in [RawCapture!Hours -> Tallies]
      /\ \A f : (\E g \in RawCapture!Hours : f \in c.disk[g])
                  <=> f \in buffered \/ \E g \in RawCapture!Hours : f \in disk[g]
      /\ \A g \in RawCapture!Hours : c.disk[g] \intersect (capturePending \union lost) = {}
      /\ \A f, g \in RawCapture!Hours : f # g => c.disk[f] \intersect c.disk[g] = {}
      /\ \A g \in RawCapture!Hours :
           /\ (\A x \in torn : x.hour = g => x.open) => c.side[g].bytes = Cardinality(c.disk[g])
           /\ (\A x \in torn : x.hour # g) => c.side[g].frames = Cardinality(c.disk[g])
  BY <1>1, ClosedFiles
<1>4. CaptureTypes'
  <2>1. RawCapture!NoCounts \in Tallies
    BY DEF RawCapture!NoCounts, Tallies
  <2> QED
    BY <1>2, <1>3, <2>1 DEF CaptureInv, CaptureTypes
<1>5. HomeInv'
  <2>1. \A f \in Frames :
          f < next' <=> f \in capturePending' \/ f \in buffered' \/ f \in lost'
                          \/ \E g \in RawCapture!Hours : f \in disk'[g]
    BY <1>2, <1>3 DEF CaptureInv, HomeInv
  <2> QED
    BY <1>2, <1>3, <2>1 DEF HomeInv
<1>6. ClockInv' /\ TallyInv'
  BY <1>2 DEF ClockInv, TallyInv
<1>7. TornInv'
  <2>1. \A x \in torn : x.hour # RawCapture!None
    BY CaptureAssumption
       DEF CaptureInv, CaptureTypes, CutHours, RawCapture!Hours, RawCapture!None
  <2> QED
    BY <1>2, <2>1 DEF CaptureInv, TornInv
<1>8. SideInv'
  BY <1>2, <1>3 DEF SideInv
<1> QED
  BY <1>4, <1>5, <1>6, <1>7, <1>8 DEF CaptureInv

(* A crash loses what was not flushed, or what of it had not reached the   *)
(* file, and leaves the hour cut.                                          *)
LEMMA CrashKeeps ==
  ASSUME CaptureInv, RawCapture!Crash
  PROVE  CaptureInv'
<1>1. PICK kept \in SUBSET buffered :
        /\ disk' = [disk EXCEPT ![hour] = @ \union kept]
        /\ lost' = lost \union (buffered \ kept)
  BY DEF RawCapture!Crash
<1>2. /\ hour # RawCapture!None
      /\ hour' = RawCapture!None /\ capturePending' = {} /\ buffered' = {}
      /\ counts' = RawCapture!NoCounts /\ UNCHANGED <<now, next, side>>
      /\ torn' = {x \in torn : x.hour # hour} \union {[hour |-> hour, open |-> FALSE]}
  BY DEF RawCapture!Crash, RawCapture!Fresh
<1>3. /\ hour \in RawCapture!Hours /\ capturePending = {}
      /\ disk \in [RawCapture!Hours -> SUBSET Frames] /\ buffered \in SUBSET Frames
      /\ torn \in SUBSET CutHours
  BY <1>2 DEF CaptureInv, CaptureTypes, TallyInv
<1>4. /\ disk' \in [RawCapture!Hours -> SUBSET Frames]
      /\ disk'[hour] = disk[hour] \union kept
      /\ \A h \in RawCapture!Hours \ {hour} : disk'[h] = disk[h]
  BY <1>1, <1>3
<1>5. CaptureTypes'
  <2>1. RawCapture!NoCounts \in Tallies
    BY DEF RawCapture!NoCounts, Tallies
  <2>2. [hour |-> hour, open |-> FALSE] \in CutHours
    BY <1>3 DEF CutHours
  <2> QED
    BY <1>1, <1>2, <1>3, <1>4, <2>1, <2>2 DEF CaptureInv, CaptureTypes
<1>6. HomeInv'
  <2>1. \A f : (f \in lost' \/ \E h \in RawCapture!Hours : f \in disk'[h])
                 <=> (f \in lost \/ f \in buffered \/ \E h \in RawCapture!Hours : f \in disk[h])
    BY <1>1, <1>3, <1>4
  <2>2. \A f \in Frames :
          f < next' <=> f \in capturePending' \/ f \in buffered' \/ f \in lost'
                          \/ \E h \in RawCapture!Hours : f \in disk'[h]
    BY <1>2, <1>3, <2>1 DEF CaptureInv, HomeInv
  <2>3. \A h \in RawCapture!Hours : \A f \in disk'[h] :
          f \in disk[h] \/ (h = hour /\ f \in kept)
    BY <1>3, <1>4
  <2>4. \A h \in RawCapture!Hours : disk'[h] \intersect lost' = {}
    BY <1>1, <2>3 DEF CaptureInv, HomeInv
  <2>5. \A g, h \in RawCapture!Hours : g # h => disk'[g] \intersect disk'[h] = {}
    BY <1>1, <2>3 DEF CaptureInv, HomeInv
  <2> QED
    BY <1>2, <2>2, <2>4, <2>5 DEF HomeInv
<1>7. ClockInv' /\ TallyInv'
  BY <1>2 DEF ClockInv, TallyInv
<1>8. PICK cut : cut = [hour |-> hour, open |-> FALSE]
  OBVIOUS
<1>9. /\ cut.hour = hour /\ ~cut.open /\ cut \in torn' /\ cut \in CutHours
      /\ \A x \in torn' : (x \in torn /\ x.hour # hour) \/ x = cut
  BY <1>2, <1>3, <1>8 DEF CutHours
<1>10. TornInv'
  <2>1. \A x \in torn' : x.hour # RawCapture!None
    BY <1>3, <1>9, CaptureAssumption DEF CutHours, RawCapture!Hours, RawCapture!None
  <2>2. \A x, y \in torn' : x.hour = y.hour => x = y
    BY <1>9 DEF CaptureInv, TornInv
  <2> QED
    BY <1>2, <2>1, <2>2 DEF TornInv
<1>11. SideInv'
  <2> SUFFICES ASSUME NEW h \in RawCapture!Hours
               PROVE  /\ (\A x \in torn' : x.hour = h => x.open) =>
                           side'[h].bytes = Cardinality(disk'[h])
                      /\ (\A x \in torn' : x.hour # h) => side'[h].frames = Cardinality(disk'[h])
    BY DEF SideInv
  <2>1. CASE h = hour
    BY <1>9, <2>1
  <2>2. CASE h # hour
    <3>1. \A x \in torn : x.hour = h => x \in torn'
      BY <1>2, <2>2
    <3>2. /\ (\A x \in torn' : x.hour = h => x.open) => (\A x \in torn : x.hour = h => x.open)
          /\ (\A x \in torn' : x.hour # h) => (\A x \in torn : x.hour # h)
      BY <3>1
    <3>3. side'[h] = side[h] /\ disk'[h] = disk[h]
      BY <1>2, <1>4, <2>2
    <3> QED
      BY <2>2, <3>2, <3>3 DEF CaptureInv, SideInv
  <2> QED
    BY <2>1, <2>2
<1> QED
  BY <1>5, <1>6, <1>7, <1>10, <1>11 DEF CaptureInv

LEMMA CaptureStep == CaptureInv /\ [RawCapture!Next]_captureVars => CaptureInv'
<1> SUFFICES ASSUME CaptureInv, [RawCapture!Next]_captureVars PROVE CaptureInv'
  OBVIOUS
<1>1. ASSUME NEW u \in {now - 1, now, now + 1}, RawCapture!NoteUtc(u) PROVE CaptureInv'
  BY <1>1, NoteUtcKeeps
<1>2. CASE RawCapture!WriteWaits
  BY <1>2, WriteWaitsKeeps
<1>3. CASE RawCapture!Write
  BY <1>3, WriteKeeps
<1>4. CASE RawCapture!Tick
  <2>1. /\ now' \in 1 .. MaxTime
        /\ UNCHANGED <<next, hour, capturePending, buffered, counts, disk, side, lost, torn,
                       utc, utcMono>>
    BY <1>4, CaptureAssumption DEF RawCapture!Tick, CaptureInv, CaptureTypes
  <2>2. ClockInv'
    BY <2>1 DEF CaptureInv, ClockInv
  <2> QED
    BY <2>1, <2>2, CaptureAside
<1>5. CASE RawCapture!Stop
  BY <1>5, StopKeeps
<1>6. CASE RawCapture!Crash
  BY <1>6, CrashKeeps
<1>7. CASE UNCHANGED captureVars
  <2>1. /\ now' \in 1 .. MaxTime
        /\ UNCHANGED <<next, hour, capturePending, buffered, counts, disk, side, lost, torn,
                       utc, utcMono>>
    BY <1>7 DEF captureVars, CaptureInv, CaptureTypes
  <2>2. ClockInv'
    BY <2>1 DEF CaptureInv, ClockInv
  <2> QED
    BY <2>1, <2>2, CaptureAside
<1> QED
  BY <1>1, <1>2, <1>3, <1>4, <1>5, <1>6, <1>7 DEF RawCapture!Next

(* The invariant of the capture, in every behaviour of the exchanges.      *)
THEOREM CaptureInvariant == MCSpec => []CaptureInv
<1>1. MCInit => CaptureInv
  BY CaptureStarts DEF MCInit
<1>2. CaptureInv /\ [MCNext]_allVars => CaptureInv'
  <2>1. [MCNext]_allVars => [RawCapture!Next]_captureVars
    BY DEF MCNext, allVars
  <2> QED
    BY <2>1, CaptureStep
<1> QED
  BY <1>1, <1>2, PTL DEF MCSpec

(* CaptureCounts: a frame is filed once or known to be lost, and the       *)
(* sidecar of an hour that is not open counts what its file holds, for any *)
(* length of the hour and any number of frames, readings and crashes       *)
(* (RawCapture.write, _rotate, flush, close).                              *)
THEOREM CaptureAlwaysCounts == MCSpec => []CaptureCounts
BY CaptureInvariant, CaptureHolds, PTL

-----------------------------------------------------------------------------
(* SbgConfig: what a unit may send and be asked, and the runs.              *)
Managed == {"nav", "event", "motion"}
SbgFrames ==
  [op : {"data"}, item : Managed \union {"uart", "info"}, value : BOOLEAN] \union
  [op : {"ack"}, item : {"OUTPUT_CONF", "motion", "SETTINGS_ACTION"},
   value : {"ok", "refused", "absent"}]
SbgJobs ==
  [who : {"hook", "api"}, apply : BOOLEAN, step : {"info", "get", "set", "back", "save", "reboot"},
   at : 1 .. 4, glitch : BOOLEAN,
   report : [applied : SUBSET Managed, pending : SUBSET Managed, mismatched : SUBSET Managed]]

\* What a job asks at its step.
SbgAsks(j) ==
  CASE j.step = "info" -> SbgConfig!Get("info")
    [] j.step \in {"get", "back"} -> SbgConfig!Get(SbgConfig!Item(j))
    [] j.step = "set" -> SbgConfig!Set(SbgConfig!Item(j))
    [] j.step = "save" -> SbgConfig!Action("save")
    [] j.step = "reboot" -> SbgConfig!Action("reboot")

SbgJobFits(j) ==
  /\ j.step \in {"set", "back"} => SbgConfig!Item(j) \in Managed /\ j.apply
  /\ j.report.applied # {} => j.apply
  /\ j.step \in {"info", "reboot"} => j.report.applied = {}
  /\ j.step = "reboot" => j.who = "api"

SbgReq(at_, frame, got, tries_) == [at |-> at_, frame |-> frame, got |-> got, tries |-> tries_]

SbgTypes ==
  /\ sbgRam \in [Managed -> BOOLEAN] /\ flash \in [Managed -> BOOLEAN]
  /\ applyConf \in BOOLEAN /\ marker \in BOOLEAN /\ savedRun \in BOOLEAN
  /\ saves \in {0, 1} /\ promised \subseteq Managed
  /\ job = SbgConfig!Idle \/ job \in SbgJobs
  /\ inbox \in Seq(SbgFrames)
  /\ req = SbgReq(req.at, req.frame, req.got, req.tries)
  /\ req.at \in {"none", "queued", "writing", "waiting", "orphan"}
  /\ req.got \in SbgFrames \union {SbgConfig!Nothing}
  /\ writer = "command" <=> req.at \in {"writing", "orphan"}
  /\ job = SbgConfig!Idle <=> req.at = "none"
  /\ job = SbgConfig!Idle => req = SbgConfig!NoReq
  /\ job # SbgConfig!Idle => SbgJobFits(job) /\ req.frame = SbgAsks(job)
  /\ req.got # SbgConfig!Nothing => SbgConfig!Match(req.got, req.frame)

\* SAVE_SETTINGS goes out once: it is not sent again, and savedRun stands for it.
SaveInv ==
  /\ saves = 1 => savedRun
  /\ job # SbgConfig!Idle /\ job.step = "save" =>
       /\ savedRun /\ req.tries = Retries
       /\ req.at # "waiting" => saves = 0 /\ req.got = SbgConfig!Nothing

InPlace(f) == f.op = "data" /\ f.item \in Managed /\ f.value
Greeting(f) == f.op = "data" /\ f.item = "info"
ActionAck(f) == f.op = "ack" /\ f.item = "SETTINGS_ACTION"
FlashHolds == \A k \in promised : flash[k]

\* A run that has its first answer hears nothing that was sent before it: what
\* says that an item is in place is true, and an action that was acknowledged
\* is its own save.
PastInv ==
  /\ job # SbgConfig!Idle /\ job.step = "info" /\ req.got # SbgConfig!Nothing =>
       \A n \in 1 .. Len(inbox) : Greeting(inbox[n])
  /\ job # SbgConfig!Idle /\ job.step \notin {"info", "reboot"} =>
       /\ \A n \in 1 .. Len(inbox) : InPlace(inbox[n]) => sbgRam[inbox[n].item]
       /\ \A n \in 1 .. Len(inbox) : ActionAck(inbox[n]) =>
            job.step = "save" /\ req.at = "waiting" /\ FlashHolds
       /\ job.step = "save" /\ req.got # SbgConfig!Nothing => FlashHolds
       /\ job.step = "back" /\ req.got # SbgConfig!Nothing /\ InPlace(req.got) =>
            job.glitch \/ sbgRam[req.got.item]

ReportInv ==
  job # SbgConfig!Idle /\ ~job.glitch => \A k \in job.report.applied : sbgRam[k]

SbgInv == SbgTypes /\ SaveInv /\ PastInv /\ ReportInv /\ SbgConfig!AppliedIsKept

\* No run takes an answer to the first question of an earlier one for its own
\* while something else is on its way behind it.
FirstAnswerFresh ==
  part = "sbg" /\ job # SbgConfig!Idle /\ job.step = "info" /\ req.got = SbgConfig!Nothing =>
    \A m, n \in 1 .. Len(inbox) : m < n /\ Greeting(inbox[m]) => Greeting(inbox[n])
\* A report that may be published: what it calls applied is in the unit's RAM.
SbgReports(j) ==
  /\ j \in SbgJobs /\ (j.report.applied # {} => j.apply)
  /\ j.glitch \/ \A k \in j.report.applied : sbgRam[k]

\* What a run goes on with after the report j: its next question, or nothing.
SbgGoes(j) ==
  /\ \/ job' = SbgConfig!Idle /\ req' = SbgConfig!NoReq
     \/ /\ SbgReports(job') /\ SbgJobFits(job') /\ job'.step \in {"get", "set", "back", "save"}
        /\ req' = SbgReq("queued", SbgAsks(job'), SbgConfig!Nothing, req'.tries)
        /\ job'.step = "save" => req'.tries = Retries /\ savedRun' /\ ~savedRun
  /\ marker' \in BOOLEAN /\ savedRun' \in BOOLEAN /\ (savedRun => savedRun')
  /\ promised' \subseteq Managed
  /\ \A k \in promised' : sbgRam[k] /\ (flash[k] \/ marker')

(* The items a run goes through, Port A first.                             *)
LEMMA ItemIs ==
  ASSUME NEW j \in SbgJobs
  PROVE  SbgConfig!Item(j) \in Managed \union {"uart"}
<1>1. j.at \in {1, 2, 3, 4}
  BY DEF SbgJobs
<1>2. /\ SbgConfig!Items[1] = "uart" /\ SbgConfig!Items[2] = "nav"
      /\ SbgConfig!Items[3] = "event" /\ SbgConfig!Items[4] = "motion"
  BY DEF SbgConfig!Items
<1> QED
  BY <1>1, <1>2 DEF SbgConfig!Item, Managed

(* A question, the end of the items and the next item: each lets the run go *)
(* on with a report that holds.                                            *)
LEMMA SbgAskGoes ==
  ASSUME SbgTypes, SbgConfig!AppliedIsKept, NEW j, SbgReports(j), NEW step \in {"get", "set", "back"},
         step \in {"set", "back"} => SbgConfig!Item(j) \in Managed /\ j.apply,
         SbgConfig!Ask(j, step, SbgAsks([j EXCEPT !.step = step]))
  PROVE  SbgGoes(j)
<1> DEFINE k == [j EXCEPT !.step = step]
<1>1. /\ k \in SbgJobs /\ k.step = step /\ k.report = j.report /\ k.apply = j.apply
      /\ k.glitch = j.glitch /\ k.at = j.at
  BY DEF SbgReports, SbgJobs
<1>2. SbgReports(k) /\ SbgJobFits(k)
  BY <1>1 DEF SbgReports, SbgJobFits, SbgConfig!Item
<1>3. job' = k /\ req' = SbgReq("queued", SbgAsks(k), SbgConfig!Nothing, 1)
  BY DEF SbgConfig!Ask, SbgConfig!Request, SbgReq
<1>4. UNCHANGED <<marker, savedRun, promised>>
  BY DEF SbgConfig!Ask
<1> HIDE DEF k
<1>5. req' = SbgReq("queued", SbgAsks(job'), SbgConfig!Nothing, req'.tries)
  BY <1>3 DEF SbgReq
<1>6. job'.step \in {"get", "set", "back"}
  BY <1>1, <1>3
<1>7. \A n \in promised : sbgRam[n] /\ (flash[n] \/ marker)
  BY DEF SbgConfig!AppliedIsKept
<1> QED
  BY <1>2, <1>3, <1>4, <1>5, <1>6, <1>7 DEF SbgGoes, SbgTypes

LEMMA ConcludeGoes ==
  ASSUME SbgTypes, SbgConfig!AppliedIsKept, NEW j, SbgReports(j), SbgConfig!Conclude(j)
  PROVE  SbgGoes(j)
<1>1. PICK marked \in BOOLEAN : marked = (marker \/ SbgConfig!Marks(j)) /\ marker' = marked
  BY DEF SbgConfig!Conclude, SbgTypes, SbgConfig!Marks, SbgReports, SbgJobs
<1>2. /\ j.report.applied \subseteq Managed
      /\ promised' = promised \union (IF j.glitch THEN {} ELSE j.report.applied)
  BY DEF SbgConfig!Conclude, SbgReports, SbgJobs
<1>3. \A n \in promised' : sbgRam[n] /\ (flash[n] \/ marker')
  BY <1>1, <1>2 DEF SbgConfig!AppliedIsKept, SbgReports, SbgConfig!Marks
<1>4. promised' \subseteq Managed
  BY <1>2 DEF SbgTypes
<1>5. CASE SbgConfig!Saves(j, marked)
  <2> DEFINE k == [j EXCEPT !.step = "save"]
  <2>1. /\ k \in SbgJobs /\ k.step = "save" /\ k.report = j.report /\ k.apply = j.apply
        /\ k.glitch = j.glitch
    BY DEF SbgReports, SbgJobs
  <2>2. SbgReports(k) /\ SbgJobFits(k) /\ SbgAsks(k) = SbgConfig!Action("save")
    BY <2>1 DEF SbgReports, SbgJobFits, SbgAsks
  <2>3. /\ job' = k /\ savedRun' = TRUE
        /\ req' = SbgReq("queued", SbgAsks(k), SbgConfig!Nothing, Retries)
    BY <1>1, <1>5, <2>2 DEF SbgConfig!Conclude, SbgConfig!Request, SbgReq
  <2>4. ~savedRun
    BY <1>5 DEF SbgConfig!Saves
  <2> HIDE DEF k
  <2>5. req' = SbgReq("queued", SbgAsks(job'), SbgConfig!Nothing, req'.tries) /\ req'.tries = Retries
    BY <2>3 DEF SbgReq
  <2> QED
    BY <1>1, <1>3, <1>4, <2>1, <2>2, <2>3, <2>4, <2>5 DEF SbgGoes
<1>6. CASE ~SbgConfig!Saves(j, marked)
  <2>1. job' = SbgConfig!Idle /\ req' = SbgConfig!NoReq /\ savedRun' = savedRun
    BY <1>1, <1>6 DEF SbgConfig!Conclude
  <2> QED
    BY <1>1, <1>3, <1>4, <2>1 DEF SbgGoes, SbgTypes
<1> QED
  BY <1>5, <1>6

LEMMA NextItemGoes ==
  ASSUME SbgTypes, SbgConfig!AppliedIsKept, NEW j, SbgReports(j), SbgConfig!NextItem(j)
  PROVE  SbgGoes(j)
<1>1. Len(SbgConfig!Items) = 4 /\ j.at \in 1 .. 4
  BY DEF SbgConfig!Items, SbgReports, SbgJobs
<1>2. CASE j.at = 4
  BY <1>1, <1>2, ConcludeGoes DEF SbgConfig!NextItem
<1>3. CASE j.at # 4
  <2> DEFINE k == [j EXCEPT !.at = @ + 1, !.step = "get"]
  <2>0. PICK m \in 1 .. 4 : m = j.at + 1
    BY <1>1, <1>3
  <2>1. /\ k \in SbgJobs /\ k.step = "get" /\ k.report = j.report /\ k.apply = j.apply
        /\ k.glitch = j.glitch /\ k.at = j.at + 1
    <3>1. k = [[j EXCEPT !.at = m] EXCEPT !.step = "get"]
      BY <2>0
    <3>2. [j EXCEPT !.at = m] \in SbgJobs
      BY DEF SbgReports, SbgJobs
    <3> QED
      BY <2>0, <3>1, <3>2 DEF SbgReports, SbgJobs
  <2>2. SbgReports(k) /\ SbgJobFits(k) /\ SbgAsks(k) = SbgConfig!Get(SbgConfig!Items[j.at + 1])
    BY <2>1 DEF SbgReports, SbgJobFits, SbgAsks, SbgConfig!Item
  <2>3. /\ job' = k /\ UNCHANGED <<marker, savedRun, promised>>
        /\ req' = SbgReq("queued", SbgAsks(k), SbgConfig!Nothing, 1)
    BY <1>1, <1>3, <2>2 DEF SbgConfig!NextItem, SbgConfig!Request, SbgReq
  <2> HIDE DEF k
  <2>4. req' = SbgReq("queued", SbgAsks(job'), SbgConfig!Nothing, req'.tries)
    BY <2>3 DEF SbgReq
  <2>5. \A n \in promised : sbgRam[n] /\ (flash[n] \/ marker)
    BY DEF SbgConfig!AppliedIsKept
  <2> QED
    BY <2>1, <2>2, <2>3, <2>4, <2>5 DEF SbgGoes, SbgTypes
<1> QED
  BY <1>2, <1>3


\* What is on its way to a run that asks for no save is true.
SbgCurrent ==
  \A n \in 1 .. Len(inbox) :
    ~ActionAck(inbox[n]) /\ (InPlace(inbox[n]) => sbgRam[inbox[n].item])

(* Nothing is asked any more: the promises and the memory of the save are  *)
(* all that is left to hold.                                               *)
LEMMA SbgIdleKeeps ==
  ASSUME SbgInv, job' = SbgConfig!Idle, req' = SbgConfig!NoReq, writer' # "command",
         inbox' \in Seq(SbgFrames),
         sbgRam' \in [Managed -> BOOLEAN], flash' \in [Managed -> BOOLEAN],
         applyConf' \in BOOLEAN, marker' \in BOOLEAN, savedRun' \in BOOLEAN,
         saves' \in {0, 1}, saves' = 1 => savedRun',
         promised' \subseteq Managed,
         \A k \in promised' : sbgRam'[k] /\ (flash'[k] \/ marker')
  PROVE  SbgInv'
<1>1. /\ req'.at = "none" /\ req'.got = SbgConfig!Nothing
      /\ req' = SbgReq(req'.at, req'.frame, req'.got, req'.tries)
  BY DEF SbgConfig!NoReq, SbgReq
<1>2. SbgTypes'
  BY <1>1 DEF SbgTypes
<1>3. SaveInv' /\ PastInv' /\ ReportInv'
  BY DEF SaveInv, PastInv, ReportInv
<1>4. SbgConfig!AppliedIsKept'
  BY DEF SbgConfig!AppliedIsKept
<1> QED
  BY <1>2, <1>3, <1>4 DEF SbgInv

(* A run that goes on keeps the invariant.                                 *)
LEMMA SbgGoesKeeps ==
  ASSUME SbgInv, NEW j, SbgGoes(j), job' = SbgConfig!Idle \/ SbgCurrent,
         writer # "command",
         UNCHANGED <<writer, inbox, sbgRam, flash, applyConf, saves>>
  PROVE  SbgInv'
<1> USE DEF SbgInv
<1>1. /\ marker' \in BOOLEAN /\ savedRun' \in BOOLEAN /\ (savedRun => savedRun')
      /\ promised' \subseteq Managed
      /\ \A k \in promised' : sbgRam[k] /\ (flash[k] \/ marker')
  BY DEF SbgGoes
<1>2. saves' \in {0, 1} /\ (saves' = 1 => savedRun') /\ (~savedRun => saves' = 0)
  BY <1>1 DEF SbgTypes, SaveInv
<1>3. CASE job' = SbgConfig!Idle /\ req' = SbgConfig!NoReq
  BY <1>1, <1>2, <1>3, SbgIdleKeeps DEF SbgTypes
<1>4. CASE /\ SbgReports(job') /\ SbgJobFits(job') /\ job'.step \in {"get", "set", "back", "save"}
           /\ req' = SbgReq("queued", SbgAsks(job'), SbgConfig!Nothing, req'.tries)
           /\ job'.step = "save" => req'.tries = Retries /\ savedRun' /\ ~savedRun
  <2>1. /\ req'.at = "queued" /\ req'.got = SbgConfig!Nothing /\ req'.frame = SbgAsks(job')
        /\ req' = SbgReq(req'.at, req'.frame, req'.got, req'.tries)
    BY <1>4 DEF SbgReq
  <2>2. job' \in SbgJobs /\ job' # SbgConfig!Idle
    BY <1>4 DEF SbgReports, SbgJobs, SbgConfig!Idle
  <2>3. SbgTypes'
    BY <1>1, <1>2, <1>4, <2>1, <2>2 DEF SbgTypes, SbgJobFits, SbgAsks
  <2>4. SaveInv'
    BY <1>2, <1>4, <2>1 DEF SaveInv
  <2>5. SbgCurrent
    BY <2>2
  <2>6. PastInv'
    <3>1. \A n \in 1 .. Len(inbox') :
            ~ActionAck(inbox'[n]) /\ (InPlace(inbox'[n]) => sbgRam'[inbox'[n].item])
      BY <2>5 DEF SbgCurrent
    <3> QED
      BY <1>4, <2>1, <3>1 DEF PastInv
  <2>7. ReportInv'
    BY <1>4 DEF ReportInv, SbgReports
  <2>8. SbgConfig!AppliedIsKept'
    BY <1>1, <1>2 DEF SbgConfig!AppliedIsKept
  <2> QED
    BY <2>3, <2>4, <2>6, <2>7, <2>8
<1> QED
  BY <1>3, <1>4 DEF SbgGoes

(* An answer: at the first question what is behind it is fresh, and a      *)
(* read-back that says so is true.                                         *)
LEMMA SbgReplyKeeps ==
  ASSUME SbgInv, SbgConfig!Reply
  PROVE  SbgInv'
<1> USE DEF SbgInv
<1>1. /\ job # SbgConfig!Idle /\ job \in SbgJobs /\ SbgJobFits(job) /\ req.frame = SbgAsks(job)
      /\ req.at = "waiting" /\ req.got # SbgConfig!Nothing /\ req.got \in SbgFrames
      /\ SbgConfig!Match(req.got, req.frame) /\ writer # "command"
      /\ UNCHANGED <<writer, inbox, sbgRam, flash, applyConf, saves>>
  BY DEF SbgConfig!Reply, SbgConfig!Answered, SbgTypes, SbgConfig!Nothing, SbgConfig!Idle,
         SbgConfig!unitVars
<1>2. SbgReports(job)
  BY <1>1 DEF SbgReports, SbgJobFits, ReportInv
<1>3. job.step \in {"info", "get", "set", "back", "save", "reboot"}
  BY <1>1 DEF SbgJobs
<1>4. job.step \in {"get", "set", "back"} => SbgCurrent
  BY <1>1 DEF PastInv, SbgCurrent
<1>5. CASE job.step = "info"
  <2>1. SbgCurrent
    BY <1>1, <1>5 DEF PastInv, SbgCurrent, Greeting, ActionAck, InPlace, Managed
  <2> DEFINE j == [job EXCEPT !.at = 1]
  <2>2. /\ j \in SbgJobs /\ j.report = job.report /\ j.apply = job.apply /\ j.glitch = job.glitch
        /\ j.at = 1
    BY <1>1 DEF SbgJobs
  <2>3. SbgReports(j)
    BY <1>2, <2>2 DEF SbgReports
  <2>4. SbgConfig!Ask(j, "get", SbgConfig!Get(SbgConfig!Items[1]))
    BY <1>5 DEF SbgConfig!Reply
  <2>5. SbgAsks([j EXCEPT !.step = "get"]) = SbgConfig!Get(SbgConfig!Items[1])
    BY <2>2 DEF SbgAsks, SbgConfig!Item, SbgJobs
  <2> HIDE DEF j
  <2>6. SbgGoes(j)
    BY <2>3, <2>4, <2>5, SbgAskGoes
  <2> QED
    BY <1>1, <2>1, <2>6, SbgGoesKeeps
<1>6. CASE job.step = "get" /\ (req.got.op = "data" \/ req.got.value = "ok")
  <2>1. req.got.op = "data" /\ req.got.value \in BOOLEAN
    BY <1>1, <1>6 DEF SbgFrames, SbgAsks, SbgConfig!Get, SbgConfig!Match, SbgConfig!MatchGet
  <2>2. PICK v \in BOOLEAN : v = req.got.value
    BY <2>1
  <2>3. SbgConfig!GotCurrent(job, v)
    BY <1>6, <2>2 DEF SbgConfig!Reply
  <2>4. CASE v \/ SbgConfig!Item(job) \notin Managed
    BY <1>1, <1>2, <1>4, <1>6, <2>3, <2>4, NextItemGoes, SbgGoesKeeps
       DEF SbgConfig!GotCurrent, Managed, SbgConfig!Managed
  <2>5. CASE ~(v \/ SbgConfig!Item(job) \notin Managed)
    <3>1. PICK j : j = SbgConfig!Add(job, "pending")
      OBVIOUS
    <3>2. SbgReports(j)
      <4>1. PICK x \in Managed : x = SbgConfig!Item(job)
        BY <2>5
      <4>3. job.report \in [applied : SUBSET Managed, pending : SUBSET Managed, mismatched : SUBSET Managed]
        BY <1>1 DEF SbgJobs
      <4>4. PICK w : w = [job.report EXCEPT !.pending = @ \union {x}]
        OBVIOUS
      <4>5. /\ w \in [applied : SUBSET Managed, pending : SUBSET Managed, mismatched : SUBSET Managed]
            /\ w.applied = job.report.applied
        BY <4>3, <4>4
      <4>6. SbgConfig!Add(job, "pending") = [job EXCEPT !.report = w]
        BY <4>1, <4>4 DEF SbgConfig!Add
      <4>7. j \in SbgJobs /\ j.report = w /\ j.apply = job.apply /\ j.glitch = job.glitch
        BY <1>1, <3>1, <4>5, <4>6 DEF SbgJobs
      <4> QED
        BY <1>2, <4>5, <4>7 DEF SbgReports
    <3>3. CASE ~job.apply \/ (SbgConfig!Fast(SbgConfig!Item(job)) /\ SbgConfig!Slow)
      <4>1. SbgConfig!NextItem(j)
        BY <2>3, <2>5, <3>1, <3>3 DEF SbgConfig!GotCurrent, Managed, SbgConfig!Managed
      <4> QED
        BY <1>1, <1>4, <1>6, <3>2, <4>1, NextItemGoes, SbgGoesKeeps
    <3>4. CASE ~(~job.apply \/ (SbgConfig!Fast(SbgConfig!Item(job)) /\ SbgConfig!Slow))
      <4>1. SbgConfig!Ask(job, "set", SbgConfig!Set(SbgConfig!Item(job)))
        BY <2>3, <2>5, <3>4 DEF SbgConfig!GotCurrent, Managed, SbgConfig!Managed
      <4>2. SbgAsks([job EXCEPT !.step = "set"]) = SbgConfig!Set(SbgConfig!Item(job))
        BY <1>1 DEF SbgAsks, SbgConfig!Item, SbgJobs
      <4>3. SbgGoes(job)
        BY <1>2, <2>5, <3>4, <4>1, <4>2, SbgAskGoes
      <4> QED
        BY <1>1, <1>4, <1>6, <4>3, SbgGoesKeeps
    <3> QED
      BY <3>3, <3>4
  <2> QED
    BY <2>4, <2>5
<1>7. CASE job.step = "set" /\ (req.got.op = "data" \/ req.got.value = "ok")
  <2>1. SbgConfig!Ask(job, "back", SbgConfig!Get(SbgConfig!Item(job)))
    BY <1>7 DEF SbgConfig!Reply
  <2>2. SbgAsks([job EXCEPT !.step = "back"]) = SbgConfig!Get(SbgConfig!Item(job))
    BY <1>1 DEF SbgAsks, SbgConfig!Item, SbgJobs
  <2>3. SbgGoes(job)
    BY <1>1, <1>2, <1>7, <2>1, <2>2, SbgAskGoes DEF SbgJobFits
  <2> QED
    BY <1>1, <1>4, <1>7, <2>3, SbgGoesKeeps
<1>8. CASE job.step = "back" /\ (req.got.op = "data" \/ req.got.value = "ok")
  <2>1. /\ req.got.op = "data" /\ req.got.value \in BOOLEAN
        /\ req.got.item = SbgConfig!Item(job)
    BY <1>1, <1>8 DEF SbgFrames, SbgAsks, SbgConfig!Get, SbgConfig!Match, SbgConfig!MatchGet
  <2>2. PICK v \in BOOLEAN : v = req.got.value
    BY <2>1
  <2>3. SbgConfig!GotBack(job, v)
    BY <1>8, <2>2 DEF SbgConfig!Reply
  <2>4. PICK x \in Managed : x = SbgConfig!Item(job)
    BY <1>1, <1>8 DEF SbgJobFits
  <2>5. v => job.glitch \/ sbgRam[x]
    BY <1>1, <1>8, <2>1, <2>2, <2>4 DEF PastInv, InPlace
  <2>6. PICK j : /\ j = (IF v THEN SbgConfig!Add(job, "applied")
                         ELSE IF SbgConfig!Event(SbgConfig!Item(job)) THEN job
                         ELSE SbgConfig!Add(job, "mismatched"))
                 /\ SbgConfig!NextItem(j)
    BY <2>3 DEF SbgConfig!GotBack
  <2>7. PICK w : w = [job.report EXCEPT !.applied = @ \union {x}]
    OBVIOUS
  <2>8. PICK u : u = [job.report EXCEPT !.mismatched = @ \union {x}]
    OBVIOUS
  <2>9. job.report \in [applied : SUBSET Managed, pending : SUBSET Managed, mismatched : SUBSET Managed]
    BY <1>1 DEF SbgJobs
  <2>10. /\ w \in [applied : SUBSET Managed, pending : SUBSET Managed, mismatched : SUBSET Managed]
         /\ w.applied = job.report.applied \union {x}
    BY <2>7, <2>9
  <2>11. /\ u \in [applied : SUBSET Managed, pending : SUBSET Managed, mismatched : SUBSET Managed]
         /\ u.applied = job.report.applied
    BY <2>8, <2>9
  <2>12. /\ SbgConfig!Add(job, "applied") = [job EXCEPT !.report = w]
         /\ SbgConfig!Add(job, "mismatched") = [job EXCEPT !.report = u]
    BY <2>4, <2>7, <2>8 DEF SbgConfig!Add
  <2>13. SbgReports(j)
    <3>1. CASE v
      <4>1. j = [job EXCEPT !.report = w]
        BY <2>6, <2>12, <3>1
      <4>2. j \in SbgJobs /\ j.report = w /\ j.apply = job.apply /\ j.glitch = job.glitch
        BY <1>1, <2>10, <4>1 DEF SbgJobs
      <4> QED
        BY <1>1, <1>2, <1>8, <2>5, <2>10, <3>1, <4>2 DEF SbgReports, SbgJobFits
    <3>2. CASE ~v /\ j = job
      BY <1>2, <3>2
    <3>3. CASE ~v /\ j = SbgConfig!Add(job, "mismatched")
      <4>1. j = [job EXCEPT !.report = u]
        BY <2>12, <3>3
      <4>2. j \in SbgJobs /\ j.report = u /\ j.apply = job.apply /\ j.glitch = job.glitch
        BY <1>1, <2>11, <4>1 DEF SbgJobs
      <4> QED
        BY <1>2, <2>11, <4>2 DEF SbgReports
    <3> QED
      BY <2>6, <3>1, <3>2, <3>3
  <2> QED
    BY <1>1, <1>4, <1>8, <2>6, <2>13, NextItemGoes, SbgGoesKeeps
<1>9. CASE job.step \in {"get", "set", "back"} /\ ~(req.got.op = "data" \/ req.got.value = "ok")
  <2>1. SbgConfig!NextItem(job)
    BY <1>9 DEF SbgConfig!Reply
  <2> QED
    BY <1>1, <1>2, <1>4, <1>9, <2>1, NextItemGoes, SbgGoesKeeps
<1>10. CASE job.step \in {"save", "reboot"}
  <2>1. PICK cleared \in BOOLEAN :
          cleared = ((req.got.op = "data" \/ req.got.value = "ok") /\ job.step = "save")
    OBVIOUS
  <2>2. SbgConfig!End(job, cleared)
    BY <1>10, <2>1 DEF SbgConfig!Reply
  <2>3. \A k \in promised : cleared => flash[k]
    BY <1>1, <2>1 DEF PastInv, FlashHolds
  <2>4. \A k \in promised' : sbgRam[k] /\ (flash[k] \/ marker')
    BY <2>2, <2>3 DEF SbgConfig!End, SbgConfig!AppliedIsKept
  <2>5. /\ job' = SbgConfig!Idle /\ req' = SbgConfig!NoReq /\ marker' \in BOOLEAN
        /\ savedRun' = savedRun /\ promised' = promised
    BY <2>2 DEF SbgConfig!End
  <2> QED
    BY <1>1, <2>4, <2>5, SbgIdleKeeps DEF SbgTypes, SaveInv
<1> QED
  BY <1>3, <1>5, <1>6, <1>7, <1>8, <1>9, <1>10

\* A question that is sent again: never a save, which has no tries left.
LEMMA SbgAgainKeeps ==
  ASSUME SbgInv, SbgConfig!Silence, req.tries < Retries
  PROVE  SbgInv'
<1> USE DEF SbgInv
<1>1. /\ job # SbgConfig!Idle /\ req.at = "waiting" /\ req.got = SbgConfig!Nothing
      /\ req' = SbgReq("queued", req.frame, SbgConfig!Nothing, req.tries + 1)
      /\ UNCHANGED <<job, marker, savedRun, promised, inbox, writer, sbgRam, flash, applyConf, saves>>
  BY DEF SbgConfig!Silence, SbgConfig!TimedOut, SbgConfig!Request, SbgReq, SbgConfig!unitVars,
         SbgConfig!Nothing
<1>2. job.step # "save"
  BY <1>1, RetriesAssumption DEF SaveInv
<1>3. /\ req'.at = "queued" /\ req'.got = SbgConfig!Nothing /\ req'.frame = req.frame
      /\ req' = SbgReq(req'.at, req'.frame, req'.got, req'.tries)
  BY <1>1 DEF SbgReq
<1>4. SbgTypes'
  BY <1>1, <1>3 DEF SbgTypes, SbgJobFits, SbgAsks, SbgConfig!Item
<1>5. SaveInv'
  BY <1>1, <1>2 DEF SaveInv
<1>6. PastInv'
  BY <1>1, <1>2, <1>3 DEF PastInv
<1>7. ReportInv' /\ SbgConfig!AppliedIsKept'
  BY <1>1 DEF ReportInv, SbgConfig!AppliedIsKept
<1> QED
  BY <1>4, <1>5, <1>6, <1>7

(* A question that is given up.                                            *)
LEMMA SbgSilenceKeeps ==
  ASSUME SbgInv, SbgConfig!Silence
  PROVE  SbgInv'
<1> USE DEF SbgInv
<1>1. /\ job # SbgConfig!Idle /\ job \in SbgJobs /\ SbgJobFits(job) /\ writer # "command"
      /\ UNCHANGED <<writer, inbox, sbgRam, flash, applyConf, saves>>
  BY DEF SbgConfig!Silence, SbgConfig!TimedOut, SbgTypes, SbgConfig!Nothing, SbgConfig!Idle,
         SbgConfig!unitVars
<1>2. SbgReports(job)
  BY <1>1 DEF SbgReports, SbgJobFits, ReportInv
<1>3. job.step \in {"info", "get", "set", "back", "save", "reboot"}
  BY <1>1 DEF SbgJobs
<1>4. job.step \in {"get", "set", "back"} => SbgCurrent
  BY <1>1 DEF PastInv, SbgCurrent
<1>5. CASE req.tries < Retries
  BY <1>5, SbgAgainKeeps
<1>6. CASE ~(req.tries < Retries) /\ job.step \in {"info", "reboot"}
  <2>1. SbgConfig!End(job, FALSE)
    BY <1>6 DEF SbgConfig!Silence
  <2>2. /\ job' = SbgConfig!Idle /\ req' = SbgConfig!NoReq
        /\ UNCHANGED <<marker, savedRun, promised>>
    BY <2>1 DEF SbgConfig!End, SbgTypes
  <2> QED
    BY <1>1, <2>2, SbgIdleKeeps DEF SbgTypes, SaveInv, SbgConfig!AppliedIsKept
<1>7. CASE ~(req.tries < Retries) /\ job.step \in {"get", "back"}
  <2>1. SbgConfig!NextItem(job)
    BY <1>7 DEF SbgConfig!Silence
  <2> QED
    BY <1>1, <1>2, <1>4, <1>7, <2>1, NextItemGoes, SbgGoesKeeps
<1>8. CASE ~(req.tries < Retries) /\ job.step = "set"
  <2>1. SbgConfig!Ask(job, "back", SbgConfig!Get(SbgConfig!Item(job)))
    BY <1>8 DEF SbgConfig!Silence
  <2>2. SbgAsks([job EXCEPT !.step = "back"]) = SbgConfig!Get(SbgConfig!Item(job))
    BY <1>1 DEF SbgAsks, SbgConfig!Item, SbgJobs
  <2>3. SbgGoes(job)
    BY <1>1, <1>2, <1>8, <2>1, <2>2, SbgAskGoes DEF SbgJobFits
  <2> QED
    BY <1>1, <1>4, <1>8, <2>3, SbgGoesKeeps
<1>9. CASE ~(req.tries < Retries) /\ job.step = "save"
  <2>1. /\ job' = SbgConfig!Idle /\ req' = SbgConfig!NoReq /\ marker' = FALSE /\ promised' = {}
        /\ savedRun' = savedRun
    BY <1>9 DEF SbgConfig!Silence
  <2> QED
    BY <1>1, <2>1, SbgIdleKeeps DEF SbgTypes, SaveInv
<1> QED
  BY <1>3, <1>5, <1>6, <1>7, <1>8, <1>9

(* A run or a reset starts, whatever is still on its way to it.            *)
LEMMA SbgStarts ==
  ASSUME SbgInv, job = SbgConfig!Idle,
         NEW who \in {"hook", "api"}, NEW apply \in BOOLEAN,
         \/ /\ job' = SbgConfig!Job(who, apply)
            /\ req' = SbgConfig!Request(SbgConfig!Get("info"), 1)
         \/ /\ who = "api" /\ job' = [SbgConfig!Job(who, apply) EXCEPT !.step = "reboot"]
            /\ req' = SbgConfig!Request(SbgConfig!Action("reboot"), Retries),
         inbox' \in Seq(SbgFrames),
         UNCHANGED <<writer, sbgRam, flash, applyConf, marker, savedRun, saves, promised>>
  PROVE  SbgInv'
<1> USE DEF SbgInv
<1>1. /\ job' \in SbgJobs /\ job'.report.applied = {} /\ job'.step \in {"info", "reboot"}
      /\ job'.step = "reboot" => job'.who = "api"
  <2>1. PICK k : k = SbgConfig!Job(who, apply)
    OBVIOUS
  <2>2. k \in SbgJobs /\ k.report.applied = {} /\ k.step = "info" /\ k.who = who
    BY <2>1 DEF SbgConfig!Job, SbgConfig!Report, SbgJobs, Managed
  <2>3. \/ job' = k
        \/ who = "api" /\ job' = [k EXCEPT !.step = "reboot"]
    BY <2>1
  <2> QED
    BY <2>2, <2>3 DEF SbgJobs
<1>2. /\ req' = SbgReq("queued", SbgAsks(job'), SbgConfig!Nothing, req'.tries)
      /\ req'.at = "queued" /\ req'.got = SbgConfig!Nothing /\ req'.frame = SbgAsks(job')
  BY DEF SbgConfig!Job, SbgConfig!Request, SbgReq, SbgAsks
<1>3. job' # SbgConfig!Idle
  BY <1>1 DEF SbgJobs, SbgConfig!Idle
<1>4. SbgJobFits(job')
  BY <1>1 DEF SbgJobFits
<1>5. SbgTypes'
  <2>1. req.at = "none" /\ writer # "command"
    BY DEF SbgTypes
  <2> QED
    BY <1>1, <1>2, <1>3, <1>4, <2>1 DEF SbgTypes, SbgAsks, SbgJobFits
<1>6. SaveInv' /\ PastInv' /\ ReportInv' /\ SbgConfig!AppliedIsKept'
  BY <1>1, <1>2 DEF SaveInv, PastInv, ReportInv, SbgConfig!AppliedIsKept
<1> QED
  BY <1>5, <1>6

\* What a question does to the unit, and what the unit says to it.
LEMMA SbgEffect ==
  ASSUME SbgTypes, SbgConfig!AppliedIsKept, job # SbgConfig!Idle
  PROVE  /\ SbgConfig!RamAfter(req.frame) \in [Managed -> BOOLEAN]
         /\ SbgConfig!FlashAfter(req.frame) \in [Managed -> BOOLEAN]
         /\ job.step # "reboot" =>
              \A k \in Managed : sbgRam[k] => SbgConfig!RamAfter(req.frame)[k]
         /\ job.step # "save" => SbgConfig!FlashAfter(req.frame) = flash
         /\ job.step = "save" => SbgConfig!FlashAfter(req.frame) = sbgRam
         /\ req.frame = SbgConfig!Action("reboot") <=> job.step = "reboot"
         /\ req.frame = SbgConfig!Action("save") <=> job.step = "save"
<1>1. /\ job \in SbgJobs /\ SbgJobFits(job) /\ req.frame = SbgAsks(job)
      /\ job.step \in {"info", "get", "set", "back", "save", "reboot"}
  BY DEF SbgTypes, SbgJobs
<1>2. CASE job.step \in {"info", "get", "back"}
  <2>1. req.frame.op = "get"
    BY <1>1, <1>2 DEF SbgAsks, SbgConfig!Get
  <2>2. SbgConfig!RamAfter(req.frame) = sbgRam /\ SbgConfig!FlashAfter(req.frame) = flash
    BY <2>1 DEF SbgConfig!RamAfter, SbgConfig!FlashAfter
  <2> QED
    BY <1>2, <2>1, <2>2 DEF SbgTypes, SbgConfig!Action
<1>3. CASE job.step = "set"
  <2>1. PICK x \in Managed : x = SbgConfig!Item(job)
    BY <1>1, <1>3 DEF SbgJobFits
  <2>2. req.frame.op = "set" /\ req.frame.item = x
    BY <1>1, <1>3, <2>1 DEF SbgAsks, SbgConfig!Set
  <2>3. /\ SbgConfig!FlashAfter(req.frame) = flash
        /\ SbgConfig!RamAfter(req.frame) \in {sbgRam, [sbgRam EXCEPT ![x] = TRUE]}
    BY <2>2 DEF SbgConfig!RamAfter, SbgConfig!FlashAfter
  <2>4. /\ SbgConfig!RamAfter(req.frame) \in [Managed -> BOOLEAN]
        /\ \A k \in Managed : sbgRam[k] => SbgConfig!RamAfter(req.frame)[k]
    BY <2>3 DEF SbgTypes
  <2>5. req.frame # SbgConfig!Action("reboot") /\ req.frame # SbgConfig!Action("save")
    BY <2>2 DEF SbgConfig!Action
  <2> QED
    BY <1>3, <2>3, <2>4, <2>5 DEF SbgTypes
<1>4. CASE job.step = "save"
  <2>1. req.frame = SbgConfig!Action("save") /\ req.frame.op = "action" /\ req.frame.item = "save"
    BY <1>1, <1>4 DEF SbgAsks, SbgConfig!Action
  <2>2. SbgConfig!RamAfter(req.frame) = sbgRam /\ SbgConfig!FlashAfter(req.frame) = sbgRam
    BY <2>1 DEF SbgConfig!RamAfter, SbgConfig!FlashAfter
  <2> QED
    BY <1>4, <2>1, <2>2 DEF SbgTypes, SbgConfig!Action
<1>5. CASE job.step = "reboot"
  <2>1. req.frame = SbgConfig!Action("reboot") /\ req.frame.op = "action" /\ req.frame.item = "reboot"
    BY <1>1, <1>5 DEF SbgAsks, SbgConfig!Action
  <2>2. SbgConfig!RamAfter(req.frame) = flash /\ SbgConfig!FlashAfter(req.frame) = flash
    BY <2>1 DEF SbgConfig!RamAfter, SbgConfig!FlashAfter
  <2> QED
    BY <1>5, <2>1, <2>2 DEF SbgTypes, SbgConfig!Action
<1> QED
  BY <1>1, <1>2, <1>3, <1>4, <1>5

LEMMA SbgAnswers ==
  ASSUME SbgTypes, job # SbgConfig!Idle
  PROVE  \E f \in SbgFrames :
           /\ SbgConfig!Answer(req.frame) = <<f>>
           /\ job.step # "reboot" /\ InPlace(f) => sbgRam[f.item]
           /\ job.step = "info" => Greeting(f)
           /\ ActionAck(f) => job.step \in {"save", "reboot"}
<1>1. /\ job \in SbgJobs /\ SbgJobFits(job) /\ req.frame = SbgAsks(job)
      /\ job.step \in {"info", "get", "set", "back", "save", "reboot"}
  BY DEF SbgTypes, SbgJobs
<1>2. CASE job.step = "info"
  <2>1. req.frame.op = "get" /\ req.frame.item = "info"
    BY <1>1, <1>2 DEF SbgAsks, SbgConfig!Get
  <2>2. SbgConfig!Answer(req.frame) = <<SbgConfig!Data("info", TRUE)>>
    BY <2>1 DEF SbgConfig!Answer, SbgConfig!Managed
  <2>3. PICK f : f = SbgConfig!Data("info", TRUE)
    OBVIOUS
  <2>4. f \in SbgFrames /\ f.op = "data" /\ f.item = "info"
    BY <2>3 DEF SbgConfig!Data, SbgFrames
  <2> QED
    BY <1>2, <2>2, <2>3, <2>4 DEF InPlace, Greeting, ActionAck, Managed
<1>3. CASE job.step \in {"get", "back"}
  <2>1. PICK x \in Managed \union {"uart"} : x = SbgConfig!Item(job)
    BY <1>1, ItemIs
  <2>2. req.frame = SbgConfig!Get(x) /\ req.frame.op = "get" /\ req.frame.item = x
    BY <1>1, <1>3, <2>1 DEF SbgAsks, SbgConfig!Get
  <2>3. CASE x = "uart"
    <3>1. SbgConfig!Answer(req.frame) = <<SbgConfig!Data("uart", TRUE)>>
      BY <2>2, <2>3 DEF SbgConfig!Answer, SbgConfig!Managed
    <3>2. PICK f : f = SbgConfig!Data("uart", TRUE)
      OBVIOUS
    <3>3. f \in SbgFrames /\ f.op = "data" /\ f.item = "uart"
      BY <3>2 DEF SbgConfig!Data, SbgFrames
    <3> QED
      BY <1>3, <3>1, <3>2, <3>3 DEF InPlace, Greeting, ActionAck, Managed
  <2>4. CASE x \in Managed
    <3>1. \/ SbgConfig!Answer(req.frame) = <<SbgConfig!Ack(SbgConfig!Command(x), "absent")>>
          \/ SbgConfig!Answer(req.frame) = <<SbgConfig!Data(x, sbgRam[x])>>
      BY <2>2, <2>4 DEF SbgConfig!Answer, SbgConfig!Managed, Managed
    <3>2. CASE SbgConfig!Answer(req.frame) = <<SbgConfig!Ack(SbgConfig!Command(x), "absent")>>
      BY <1>3, <2>4, <3>2 DEF SbgConfig!Ack, SbgConfig!Command, SbgFrames, InPlace, Greeting,
           ActionAck, Managed
    <3>3. CASE SbgConfig!Answer(req.frame) = <<SbgConfig!Data(x, sbgRam[x])>>
      <4>1. PICK v \in BOOLEAN : v = sbgRam[x]
        BY <2>4 DEF SbgTypes
      <4> QED
        BY <1>3, <2>4, <3>3, <4>1 DEF SbgConfig!Data, SbgFrames, InPlace, Greeting, ActionAck
    <3> QED
      BY <3>1, <3>2, <3>3
  <2> QED
    BY <2>3, <2>4
<1>4. CASE job.step = "set"
  <2>1. PICK x \in Managed : x = SbgConfig!Item(job)
    BY <1>1, <1>4 DEF SbgJobFits
  <2>2. req.frame = SbgConfig!Set(x) /\ req.frame.op = "set" /\ req.frame.item = x
    BY <1>1, <1>4, <2>1 DEF SbgAsks, SbgConfig!Set
  <2>3. PICK code \in {"ok", "refused"} :
          SbgConfig!Answer(req.frame) = <<SbgConfig!Ack(SbgConfig!Command(x), code)>>
    BY <2>2 DEF SbgConfig!Answer, SbgConfig!CommandOf
  <2> QED
    BY <1>4, <2>3 DEF SbgConfig!Ack, SbgConfig!Command, SbgFrames, InPlace, Greeting, ActionAck, Managed
<1>5. CASE job.step \in {"save", "reboot"}
  <2>1. req.frame.op = "action"
    BY <1>1, <1>5 DEF SbgAsks, SbgConfig!Action
  <2>2. SbgConfig!Answer(req.frame) = <<SbgConfig!Ack("SETTINGS_ACTION", "ok")>>
    BY <2>1 DEF SbgConfig!Answer, SbgConfig!CommandOf
  <2> QED
    BY <1>5, <2>2 DEF SbgConfig!Ack, SbgFrames, InPlace, Greeting, ActionAck
<1> QED
  BY <1>1, <1>2, <1>3, <1>4, <1>5

(* The bytes of a question go out, and the answer, the question or both may *)
(* be lost.                                                                *)
LEMMA SbgSendKeeps ==
  ASSUME SbgInv, SbgConfig!Send
  PROVE  SbgInv'
<1> USE DEF SbgInv
<1>1. /\ req.at \in {"writing", "orphan"} /\ job # SbgConfig!Idle /\ writer' = "none"
      /\ req' = (IF req.at = "orphan" THEN SbgConfig!NoReq ELSE [req EXCEPT !.at = "waiting"])
      /\ applyConf' = applyConf
  BY DEF SbgConfig!Send, SbgConfig!Written, SbgTypes
<1>2. /\ job \in SbgJobs /\ SbgJobFits(job) /\ req.frame = SbgAsks(job)
      /\ job.step \in {"info", "get", "set", "back", "save", "reboot"}
  BY <1>1 DEF SbgTypes, SbgJobs
<1>3. PICK f \in SbgFrames :
           /\ SbgConfig!Answer(req.frame) = <<f>>
           /\ job.step # "reboot" /\ InPlace(f) => sbgRam[f.item]
           /\ job.step = "info" => Greeting(f)
           /\ ActionAck(f) => job.step \in {"save", "reboot"}
  BY <1>1, SbgAnswers
<1>4. \/ /\ inbox' = Append(inbox, f)
         /\ sbgRam' = SbgConfig!RamAfter(req.frame) /\ flash' = SbgConfig!FlashAfter(req.frame)
      \/ inbox' = inbox /\ sbgRam' = SbgConfig!RamAfter(req.frame)
         /\ flash' = SbgConfig!FlashAfter(req.frame)
      \/ inbox' = inbox /\ sbgRam' = sbgRam /\ flash' = flash
  BY <1>3 DEF SbgConfig!Send, SbgConfig!Written, SbgTypes
<1>5. inbox' \in Seq(SbgFrames)
  BY <1>4 DEF SbgTypes
<1>6. /\ sbgRam' \in [Managed -> BOOLEAN] /\ flash' \in [Managed -> BOOLEAN]
      /\ job.step # "reboot" => \A k \in Managed : sbgRam[k] => sbgRam'[k]
      /\ job.step # "save" => flash' = flash
      /\ job.step = "save" => \A k \in promised : flash[k] => flash'[k]
  BY <1>1, <1>4, SbgEffect DEF SbgTypes, SbgConfig!AppliedIsKept
<1>7. /\ req.frame = SbgConfig!Action("reboot") <=> job.step = "reboot"
      /\ req.frame = SbgConfig!Action("save") <=> job.step = "save"
  BY <1>1, SbgEffect
<1>8. /\ saves' = (IF job.step = "save" THEN 1 ELSE saves) /\ saves' \in {0, 1}
      /\ promised' \in {promised, {}} /\ (job.step = "reboot" => promised' = {})
  BY <1>1, <1>7 DEF SbgConfig!Send, SbgConfig!PromisedAfter, SaveInv, SbgTypes
<1>9. CASE req.at = "orphan"
  <2>1. /\ job' = SbgConfig!Idle /\ req' = SbgConfig!NoReq
        /\ (job.step = "save" => savedRun' = TRUE /\ promised' = {} /\ marker' = FALSE)
        /\ (job.step # "save" => UNCHANGED <<savedRun, marker>>)
    BY <1>1, <1>9 DEF SbgConfig!Send, SbgConfig!SaveFailed, SbgConfig!PromisedAfter
  <2>2. \A k \in promised' : sbgRam'[k] /\ (flash'[k] \/ marker')
    BY <1>6, <1>8, <2>1 DEF SbgConfig!AppliedIsKept, SbgTypes
  <2>3. /\ savedRun' \in BOOLEAN /\ marker' \in BOOLEAN /\ (saves' = 1 => savedRun')
        /\ promised' \subseteq Managed
    <3>1. CASE job.step = "save"
      BY <1>8, <2>1, <3>1 DEF SbgTypes
    <3>2. CASE job.step # "save"
      BY <1>8, <2>1, <3>2 DEF SaveInv, SbgTypes
    <3> QED
      BY <3>1, <3>2
  <2> QED
    BY <1>1, <1>5, <1>6, <1>8, <2>1, <2>2, <2>3, SbgIdleKeeps DEF SbgTypes
<1>10. CASE req.at = "writing"
  <2>1. /\ UNCHANGED <<job, savedRun, marker>>
        /\ req' = SbgReq("waiting", req.frame, req.got, req.tries)
    <3>1. req = SbgReq(req.at, req.frame, req.got, req.tries)
      BY DEF SbgTypes
    <3> QED
      BY <1>1, <1>10, <3>1 DEF SbgConfig!Send, SbgReq
  <2>2. /\ req'.at = "waiting" /\ req'.frame = req.frame /\ req'.got = req.got
        /\ req'.tries = req.tries /\ req' = SbgReq(req'.at, req'.frame, req'.got, req'.tries)
    BY <2>1 DEF SbgReq
  <2>3. promised' = (IF job.step = "reboot" THEN {} ELSE promised)
    BY <1>7, <1>10 DEF SbgConfig!Send, SbgConfig!PromisedAfter
  <2>4. SbgTypes'
    BY <1>1, <1>2, <1>5, <1>6, <1>8, <2>1, <2>2, <2>3
       DEF SbgTypes, SbgJobFits, SbgAsks, SbgConfig!Item
  <2>5. SaveInv'
    <3>1. CASE job.step = "save"
      <4>1. savedRun /\ req.tries = Retries
        BY <1>1, <3>1 DEF SaveInv
      <4> QED
        BY <2>1, <2>2, <4>1 DEF SaveInv
    <3>2. CASE job.step # "save"
      <4>1. saves' = saves /\ (saves = 1 => savedRun)
        BY <1>8, <3>2 DEF SaveInv
      <4> QED
        BY <2>1, <3>2, <4>1 DEF SaveInv
    <3> QED
      BY <3>1, <3>2
  <2>6. ReportInv'
    <3>1. job.report.applied \subseteq Managed
      BY <1>2 DEF SbgJobs
    <3> QED
      BY <1>2, <1>6, <2>1, <3>1 DEF ReportInv, SbgJobFits
  <2>7. SbgConfig!AppliedIsKept'
    BY <1>6, <1>8, <2>1, <2>3 DEF SbgConfig!AppliedIsKept, SbgTypes
  <2>8. \A n \in 1 .. Len(inbox') :
          \/ n \in 1 .. Len(inbox) /\ inbox'[n] = inbox[n]
          \/ inbox'[n] = f /\ sbgRam' = SbgConfig!RamAfter(req.frame)
             /\ flash' = SbgConfig!FlashAfter(req.frame)
    BY <1>4 DEF SbgTypes
  <2>9. PastInv'
    <3>1. ASSUME job.step = "info", req.got # SbgConfig!Nothing, NEW n \in 1 .. Len(inbox')
          PROVE  Greeting(inbox'[n])
      BY <1>1, <1>3, <2>8, <3>1 DEF PastInv
    <3>2. ASSUME job.step \notin {"info", "reboot"}, NEW n \in 1 .. Len(inbox'), InPlace(inbox'[n])
          PROVE  sbgRam'[inbox'[n].item]
      <4>1. inbox'[n].item \in Managed
        BY <3>2 DEF InPlace
      <4> QED
        BY <1>1, <1>3, <1>6, <2>8, <3>2, <4>1 DEF PastInv
    <3>3. ASSUME job.step \notin {"info", "reboot"}, NEW n \in 1 .. Len(inbox'), ActionAck(inbox'[n])
          PROVE  job.step = "save" /\ FlashHolds'
      <4>1. ~(n \in 1 .. Len(inbox) /\ inbox'[n] = inbox[n])
        BY <1>1, <1>10, <3>3 DEF PastInv
      <4>2. job.step = "save" /\ flash' = SbgConfig!FlashAfter(req.frame)
        BY <1>3, <2>8, <3>3, <4>1
      <4>3. flash' = sbgRam
        BY <1>1, <4>2, SbgEffect
      <4> QED
        BY <2>3, <4>2, <4>3 DEF FlashHolds, SbgConfig!AppliedIsKept
    <3>4. job.step = "save" => req.got = SbgConfig!Nothing
      BY <1>1, <1>10 DEF SaveInv
    <3>5. ASSUME job.step = "back", req.got # SbgConfig!Nothing, InPlace(req.got)
          PROVE  job.glitch \/ sbgRam'[req.got.item]
      BY <1>1, <1>6, <3>5 DEF PastInv, InPlace
    <3> QED
      BY <2>1, <2>2, <3>1, <3>2, <3>3, <3>4, <3>5 DEF PastInv
  <2> QED
    BY <2>4, <2>5, <2>6, <2>7, <2>9
<1> QED
  BY <1>1, <1>9, <1>10

(* The reader routes a frame: the one step that needs FirstAnswerFresh.    *)
LEMMA SbgRouteKeeps ==
  ASSUME SbgInv, FirstAnswerFresh, part = "sbg",
         SbgConfig!Route(inbox # <<>> /\ SbgConfig!Match(Head(inbox), req.frame)),
         UNCHANGED <<SbgConfig!unitVars, SbgConfig!hostVars>>
  PROVE  SbgInv'
<1> USE DEF SbgInv
<1>1. /\ inbox # <<>> /\ inbox' = Tail(inbox) /\ writer' = writer
      /\ UNCHANGED <<sbgRam, flash, applyConf, marker, savedRun, saves, job, promised>>
  BY DEF SbgConfig!Route, SbgConfig!unitVars, SbgConfig!hostVars
<1>2. /\ Head(inbox) \in SbgFrames /\ inbox' \in Seq(SbgFrames) /\ Head(inbox) = inbox[1]
      /\ 1 \in 1 .. Len(inbox)
      /\ \A n \in 1 .. Len(inbox') : n + 1 \in 1 .. Len(inbox) /\ inbox'[n] = inbox[n + 1] /\ 1 < n + 1
  BY <1>1 DEF SbgTypes
<1>3. CASE /\ req.at \in {"queued", "writing", "waiting"} /\ req.got = SbgConfig!Nothing
           /\ SbgConfig!Match(Head(inbox), req.frame)
           /\ req' = [req EXCEPT !.got = Head(inbox)]
  <2>1. req' = SbgReq(req.at, req.frame, Head(inbox), req.tries)
    <3>1. req = SbgReq(req.at, req.frame, req.got, req.tries)
      BY DEF SbgTypes
    <3> QED
      BY <1>3, <3>1 DEF SbgReq
  <2>2. /\ req'.at = req.at /\ req'.frame = req.frame /\ req'.got = Head(inbox)
        /\ req'.tries = req.tries /\ req' = SbgReq(req'.at, req'.frame, req'.got, req'.tries)
    BY <2>1 DEF SbgReq
  <2>3. job # SbgConfig!Idle /\ job \in SbgJobs /\ SbgJobFits(job) /\ req.frame = SbgAsks(job)
    BY <1>3 DEF SbgTypes
  <2>4. SbgTypes'
    BY <1>1, <1>2, <1>3, <2>2, <2>3 DEF SbgTypes, SbgJobFits, SbgAsks, SbgConfig!Item
  <2>5. ASSUME job.step = "save" PROVE ActionAck(Head(inbox))
    <3>1. req.frame.op = "action"
      BY <2>3, <2>5 DEF SbgAsks, SbgConfig!Action
    <3> QED
      BY <1>3, <3>1 DEF SbgConfig!Match, SbgConfig!CommandOf, ActionAck
  <2>6. SaveInv'
    <3>1. ASSUME job.step = "save" PROVE req.at = "waiting"
      BY <1>2, <2>3, <2>5, <3>1 DEF PastInv
    <3> QED
      BY <1>1, <2>2, <2>3, <3>1 DEF SaveInv
  <2>7. PastInv'
    <3>1. ASSUME job.step = "info", NEW n \in 1 .. Len(inbox') PROVE Greeting(inbox'[n])
      <4>1. req.frame.op = "get" /\ req.frame.item = "info"
        BY <2>3, <3>1 DEF SbgAsks, SbgConfig!Get
      <4>2. Greeting(Head(inbox))
        BY <1>2, <1>3, <4>1
           DEF SbgConfig!Match, SbgConfig!MatchGet, SbgConfig!Command, Greeting, SbgFrames
      <4>3. \A m, k \in 1 .. Len(inbox) : m < k /\ Greeting(inbox[m]) => Greeting(inbox[k])
        BY <1>3, <2>3, <3>1 DEF FirstAnswerFresh
      <4> QED
        BY <1>2, <4>2, <4>3
    <3>2. ASSUME job.step \notin {"info", "reboot"}, NEW n \in 1 .. Len(inbox')
          PROVE  /\ InPlace(inbox'[n]) => sbgRam[inbox'[n].item]
                 /\ ActionAck(inbox'[n]) => job.step = "save" /\ req.at = "waiting" /\ FlashHolds
      BY <1>2, <2>3, <3>2 DEF PastInv
    <3>3. ASSUME job.step = "save" PROVE FlashHolds
      BY <1>2, <2>3, <2>5, <3>3 DEF PastInv
    <3>4. ASSUME job.step = "back", InPlace(Head(inbox)) PROVE sbgRam[Head(inbox).item]
      BY <1>2, <2>3, <3>4 DEF PastInv
    <3>5. FlashHolds' <=> FlashHolds
      BY <1>1 DEF FlashHolds
    <3> QED
      BY <1>1, <2>2, <3>1, <3>2, <3>3, <3>4, <3>5 DEF PastInv
  <2>8. ReportInv' /\ SbgConfig!AppliedIsKept'
    BY <1>1 DEF ReportInv, SbgConfig!AppliedIsKept
  <2> QED
    BY <2>4, <2>6, <2>7, <2>8
<1>4. CASE req' = req
  <2>1. SbgTypes'
    BY <1>1, <1>2, <1>4 DEF SbgTypes, SbgJobFits, SbgAsks, SbgConfig!Item
  <2>2. SaveInv' /\ ReportInv' /\ SbgConfig!AppliedIsKept'
    BY <1>1, <1>4 DEF SaveInv, ReportInv, SbgConfig!AppliedIsKept
  <2>3. PastInv'
    <3>1. ASSUME job # SbgConfig!Idle, job.step = "info", req.got # SbgConfig!Nothing,
                 NEW n \in 1 .. Len(inbox')
          PROVE  Greeting(inbox'[n])
      BY <1>2, <3>1 DEF PastInv
    <3>2. ASSUME job # SbgConfig!Idle, job.step \notin {"info", "reboot"}, NEW n \in 1 .. Len(inbox')
          PROVE  /\ InPlace(inbox'[n]) => sbgRam[inbox'[n].item]
                 /\ ActionAck(inbox'[n]) => job.step = "save" /\ req.at = "waiting" /\ FlashHolds
      BY <1>2, <3>2 DEF PastInv
    <3>3. FlashHolds' <=> FlashHolds
      BY <1>1 DEF FlashHolds
    <3>4. /\ job # SbgConfig!Idle /\ job.step = "save" /\ req.got # SbgConfig!Nothing => FlashHolds
          /\ job # SbgConfig!Idle /\ job.step = "back" /\ req.got # SbgConfig!Nothing /\ InPlace(req.got) =>
               job.glitch \/ sbgRam[req.got.item]
      BY DEF PastInv
    <3> QED
      BY <1>1, <1>4, <3>1, <3>2, <3>3, <3>4 DEF PastInv
  <2> QED
    BY <2>1, <2>2, <2>3
<1> QED
  BY <1>3, <1>4 DEF SbgConfig!Route, SbgConfig!Nothing

\* The port and the corrections: what they change is none of the run's.
LEMMA SbgPortKeeps ==
  ASSUME SbgInv,
         \/ req' = req
         \/ req.at = "queued" /\ req' = [req EXCEPT !.at = "writing"],
         writer' = "command" <=> req'.at \in {"writing", "orphan"},
         UNCHANGED <<inbox, sbgRam, flash, applyConf, marker, savedRun, saves, job, promised>>
  PROVE  SbgInv'
<1> USE DEF SbgInv
<1>1. /\ req'.frame = req.frame /\ req'.got = req.got /\ req'.tries = req.tries
      /\ req' = SbgReq(req'.at, req'.frame, req'.got, req'.tries)
      /\ req'.at = req.at \/ (req.at = "queued" /\ req'.at = "writing")
  <2>1. req = SbgReq(req.at, req.frame, req.got, req.tries)
    BY DEF SbgTypes
  <2>2. CASE req' = req
    <3>1. /\ req'.at = req.at /\ req'.frame = req.frame /\ req'.got = req.got
          /\ req'.tries = req.tries
      BY <2>2
    <3> QED
      BY <2>1, <2>2, <3>1
  <2>3. CASE req.at = "queued" /\ req' = [req EXCEPT !.at = "writing"]
    <3>1. req' = SbgReq("writing", req.frame, req.got, req.tries)
      BY <2>1, <2>3 DEF SbgReq
    <3> QED
      BY <2>3, <3>1 DEF SbgReq
  <2> QED
    BY <2>2, <2>3
<1>2. SbgTypes'
  <2>1. job = SbgConfig!Idle => req' = SbgConfig!NoReq
    BY DEF SbgTypes
  <2>2. job' # SbgConfig!Idle => SbgJobFits(job') /\ req'.frame = SbgAsks(job')
    BY <1>1 DEF SbgTypes
  <2>3. req'.got # SbgConfig!Nothing => SbgConfig!Match(req'.got, req'.frame)
    BY <1>1 DEF SbgTypes
  <2>4. /\ req'.at \in {"none", "queued", "writing", "waiting", "orphan"}
        /\ req'.got \in SbgFrames \union {SbgConfig!Nothing}
        /\ (job' = SbgConfig!Idle <=> req'.at = "none")
    BY <1>1 DEF SbgTypes
  <2>5. /\ sbgRam' \in [Managed -> BOOLEAN] /\ flash' \in [Managed -> BOOLEAN]
        /\ applyConf' \in BOOLEAN /\ marker' \in BOOLEAN /\ savedRun' \in BOOLEAN
        /\ saves' \in {0, 1} /\ promised' \subseteq Managed
        /\ (job' = SbgConfig!Idle \/ job' \in SbgJobs)
        /\ inbox' \in Seq(SbgFrames)
    BY DEF SbgTypes
  <2> QED
    BY <1>1, <2>1, <2>2, <2>3, <2>4, <2>5 DEF SbgTypes
<1>3. SaveInv' /\ ReportInv' /\ SbgConfig!AppliedIsKept'
  BY <1>1 DEF SaveInv, ReportInv, SbgConfig!AppliedIsKept
<1>4. FlashHolds' <=> FlashHolds
  BY DEF FlashHolds
<1>5. PastInv'
  BY <1>1, <1>4 DEF PastInv
<1> QED
  BY <1>2, <1>3, <1>5

(* The link drops: the session's run is cancelled, the API's write goes on. *)
LEMMA SbgLinkLostKeeps ==
  ASSUME SbgInv, SbgConfig!LinkLost
  PROVE  SbgInv'
<1> USE DEF SbgInv
<1>1. UNCHANGED <<inbox, applyConf, saves>> /\ SbgConfig!SessionOver(job.who # "api")
  BY DEF SbgConfig!LinkLost, SbgConfig!SessionOver
<1>2. job = SbgConfig!Idle => job.who # "api"
  BY DEF SbgConfig!Idle
<1>3. CASE job.who = "api" /\ writer = "command"
  <2>1. /\ UNCHANGED <<writer, sbgRam, flash, savedRun, marker, promised, job>>
        /\ req' = [req EXCEPT !.at = "orphan"]
    BY <1>1, <1>3 DEF SbgConfig!LinkLost, SbgConfig!SessionOver
  <2>2. req' = SbgReq("orphan", req.frame, req.got, req.tries)
    <3>1. req = SbgReq(req.at, req.frame, req.got, req.tries)
      BY DEF SbgTypes
    <3> QED
      BY <2>1, <3>1 DEF SbgReq
  <2>3. /\ req'.at = "orphan" /\ req'.frame = req.frame /\ req'.got = req.got
        /\ req'.tries = req.tries /\ req' = SbgReq(req'.at, req'.frame, req'.got, req'.tries)
        /\ job # SbgConfig!Idle /\ req.at \in {"writing", "orphan"}
    BY <1>2, <1>3, <2>2 DEF SbgReq, SbgTypes
  <2>4. SbgTypes'
    BY <1>1, <1>3, <2>1, <2>3 DEF SbgTypes, SbgJobFits, SbgAsks, SbgConfig!Item
  <2>5. SaveInv' /\ ReportInv' /\ SbgConfig!AppliedIsKept'
    BY <1>1, <2>1, <2>3 DEF SaveInv, ReportInv, SbgConfig!AppliedIsKept
  <2>6. PastInv'
    BY <1>1, <2>1, <2>3 DEF PastInv, FlashHolds
  <2> QED
    BY <2>4, <2>5, <2>6
<1>4. CASE job.who = "api" /\ writer # "command"
  <2>1. /\ job' = SbgConfig!Idle /\ req' = SbgConfig!NoReq /\ writer' = writer
        /\ UNCHANGED <<sbgRam, flash>>
        /\ SbgConfig!SaveFailed(req.at = "waiting") /\ SbgConfig!PromisedAfter(req.at = "waiting")
    BY <1>1, <1>4 DEF SbgConfig!LinkLost, SbgConfig!SessionOver
  <2>2. promised' \in {promised, {}}
    BY <2>1 DEF SbgConfig!PromisedAfter
  <2>3. CASE job.step = "save" /\ req.at = "waiting"
    <3>1. savedRun' = TRUE /\ marker' = FALSE /\ promised' = {}
      BY <2>1, <2>3 DEF SbgConfig!SaveFailed, SbgConfig!PromisedAfter
    <3> QED
      BY <1>1, <1>4, <2>1, <3>1, SbgIdleKeeps DEF SbgTypes
  <2>4. CASE job.step = "save" /\ req.at # "waiting"
    <3>1. savedRun' = FALSE /\ marker' = marker
      BY <2>1, <2>4 DEF SbgConfig!SaveFailed, SbgTypes
    <3>2. saves' = 0
      BY <1>1, <1>2, <1>4, <2>4 DEF SaveInv
    <3>3. \A k \in promised' : sbgRam'[k] /\ (flash'[k] \/ marker')
      BY <2>1, <2>2, <3>1 DEF SbgConfig!AppliedIsKept
    <3>4. saves' \in {0, 1} /\ ~(saves' = 1)
      BY <3>2
    <3>5. savedRun' \in BOOLEAN /\ marker' \in BOOLEAN
      BY <3>1 DEF SbgTypes
    <3>6. promised' \subseteq Managed
      BY <2>2 DEF SbgTypes
    <3> QED
      BY <1>1, <1>4, <2>1, <3>3, <3>4, <3>5, <3>6, SbgIdleKeeps DEF SbgTypes
  <2>5. CASE job.step # "save"
    <3>1. savedRun' = savedRun /\ marker' = marker
      BY <2>1, <2>5 DEF SbgConfig!SaveFailed
    <3> QED
      BY <1>1, <1>4, <2>1, <2>2, <3>1, SbgIdleKeeps DEF SbgTypes, SaveInv, SbgConfig!AppliedIsKept
  <2> QED
    BY <2>3, <2>4, <2>5
<1>5. CASE job.who # "api"
  <2>1. /\ job' = SbgConfig!Idle /\ req' = SbgConfig!NoReq /\ writer' # "command"
        /\ UNCHANGED <<savedRun, marker, promised>>
    BY <1>1, <1>5 DEF SbgConfig!LinkLost, SbgConfig!SessionOver
  <2>2. CASE UNCHANGED <<sbgRam, flash>>
    BY <1>1, <2>1, <2>2, SbgIdleKeeps DEF SbgTypes, SaveInv, SbgConfig!AppliedIsKept
  <2>3. CASE /\ writer = "command"
             /\ sbgRam' = SbgConfig!RamAfter(req.frame) /\ flash' = SbgConfig!FlashAfter(req.frame)
    <3>1. job # SbgConfig!Idle /\ job.step # "reboot"
      BY <1>5, <2>3 DEF SbgTypes, SbgJobFits
    <3>2. /\ sbgRam' \in [Managed -> BOOLEAN] /\ flash' \in [Managed -> BOOLEAN]
          /\ \A k \in Managed : sbgRam[k] => sbgRam'[k]
          /\ flash' = flash \/ flash' = sbgRam
      BY <2>3, <3>1, SbgEffect
    <3>3. \A k \in promised' : sbgRam'[k] /\ (flash'[k] \/ marker')
      BY <2>1, <3>2 DEF SbgTypes, SbgConfig!AppliedIsKept
    <3> QED
      BY <1>1, <2>1, <3>2, <3>3, SbgIdleKeeps DEF SbgTypes, SaveInv
  <2> QED
    BY <1>5, <2>2, <2>3 DEF SbgConfig!LinkLost
<1> QED
  BY <1>3, <1>4, <1>5

(* A write that stalls may have reached the unit all the same.             *)
LEMMA SbgStallKeeps ==
  ASSUME SbgInv, SbgConfig!Stall
  PROVE  SbgInv'
<1> USE DEF SbgInv
<1>1. /\ writer = "command" /\ writer' = "none" /\ job' = SbgConfig!Idle /\ req' = SbgConfig!NoReq
      /\ UNCHANGED <<inbox, applyConf, saves>>
      /\ SbgConfig!SaveFailed(FALSE) /\ SbgConfig!PromisedAfter(FALSE)
  BY DEF SbgConfig!Stall
<1>2. job # SbgConfig!Idle /\ req.at # "waiting"
  BY <1>1 DEF SbgTypes
<1>3. /\ sbgRam' \in [Managed -> BOOLEAN] /\ flash' \in [Managed -> BOOLEAN]
      /\ job.step # "reboot" => \A k \in Managed : sbgRam[k] => sbgRam'[k]
      /\ job.step # "save" => flash' = flash
      /\ job.step = "save" => flash' = flash \/ flash' = sbgRam
  BY <1>2, SbgEffect DEF SbgConfig!Stall, SbgTypes
<1>4. promised' = (IF job.step = "reboot" THEN {} ELSE promised)
  BY <1>1, <1>2, SbgEffect DEF SbgConfig!PromisedAfter
<1>5. marker' = marker /\ savedRun' \in BOOLEAN /\ (saves' = 1 => savedRun')
  <2>1. CASE job.step = "save"
    <3>1. savedRun' = FALSE /\ marker' = marker /\ saves = 0
      BY <1>1, <1>2, <2>1 DEF SbgConfig!SaveFailed, SaveInv, SbgTypes
    <3>2. saves' = 0 /\ savedRun' \in BOOLEAN /\ marker' = marker
      BY <1>1, <3>1
    <3>3. ~(saves' = 1)
      BY <3>2
    <3> QED
      BY <3>2, <3>3
  <2>2. CASE job.step # "save"
    BY <1>1, <2>2 DEF SbgConfig!SaveFailed, SaveInv, SbgTypes
  <2> QED
    BY <2>1, <2>2
<1>6. \A k \in promised' : sbgRam'[k] /\ (flash'[k] \/ marker')
  BY <1>3, <1>4, <1>5 DEF SbgTypes, SbgConfig!AppliedIsKept
<1> QED
  BY <1>1, <1>3, <1>4, <1>5, <1>6, SbgIdleKeeps DEF SbgTypes

(* The unit forgets its RAM, and what was promised of it.                  *)
LEMMA SbgPowerCycleKeeps ==
  ASSUME SbgInv, SbgConfig!PowerCycle
  PROVE  SbgInv'
<1> USE DEF SbgInv
<1>1. /\ inbox' = <<>> /\ sbgRam' = flash /\ promised' = {}
      /\ UNCHANGED <<writer, req, flash, applyConf, marker, savedRun, saves>>
      /\ job' = (IF job = SbgConfig!Idle THEN SbgConfig!Idle ELSE [job EXCEPT !.glitch = TRUE])
  BY DEF SbgConfig!PowerCycle, SbgConfig!PowerCut
<1>2. CASE job = SbgConfig!Idle
  <2>1. req' = SbgConfig!NoReq /\ writer' # "command" /\ (saves = 1 => savedRun)
    BY <1>1, <1>2 DEF SbgTypes, SaveInv
  <2> QED
    BY <1>1, <1>2, <2>1, SbgIdleKeeps DEF SbgTypes
<1>3. CASE job # SbgConfig!Idle
  <2>1. /\ job' \in SbgJobs /\ job'.glitch /\ job'.step = job.step /\ job'.at = job.at
        /\ job'.report = job.report /\ job'.apply = job.apply /\ job'.who = job.who
    BY <1>1, <1>3 DEF SbgTypes, SbgJobs
  <2>2. job' # SbgConfig!Idle
    BY <2>1 DEF SbgJobs, SbgConfig!Idle
  <2>3. SbgJobFits(job') /\ SbgAsks(job') = SbgAsks(job)
    BY <1>3, <2>1 DEF SbgTypes, SbgJobFits, SbgAsks, SbgConfig!Item
  <2>4. SbgTypes'
    <3>1. req.frame = SbgAsks(job') /\ req.at # "none"
      BY <1>3, <2>3 DEF SbgTypes
    <3> QED
      BY <1>1, <1>3, <2>1, <2>2, <2>3, <3>1 DEF SbgTypes
  <2>5. SaveInv' /\ ReportInv' /\ SbgConfig!AppliedIsKept'
    BY <1>1, <1>3, <2>1 DEF SaveInv, ReportInv, SbgConfig!AppliedIsKept
  <2>6. PastInv'
    BY <1>1, <2>1 DEF PastInv, FlashHolds
  <2> QED
    BY <2>4, <2>5, <2>6
<1> QED
  BY <1>2, <1>3

LEMMA SbgBegins == SbgConfig!Init => SbgInv
<1> SUFFICES ASSUME SbgConfig!Init PROVE SbgInv
  OBVIOUS
<1>1. /\ writer = "none" /\ req = SbgConfig!NoReq /\ inbox = <<>> /\ job = SbgConfig!Idle
      /\ flash = [n \in Managed |-> FALSE] /\ sbgRam = flash /\ applyConf \in BOOLEAN
      /\ marker = FALSE /\ savedRun = FALSE /\ saves = 0 /\ promised = {}
  BY DEF SbgConfig!Init, SbgConfig!LinkInit, SbgConfig!Managed, Managed
<1>2. /\ req.at = "none" /\ req.got = SbgConfig!Nothing
      /\ req = SbgReq(req.at, req.frame, req.got, req.tries)
  BY <1>1 DEF SbgConfig!NoReq, SbgReq
<1>3. flash \in [Managed -> BOOLEAN] /\ inbox \in Seq(SbgFrames)
  BY <1>1
<1>4. SbgTypes
  BY <1>1, <1>2, <1>3 DEF SbgTypes
<1>5. SaveInv /\ PastInv /\ ReportInv /\ SbgConfig!AppliedIsKept
  BY <1>1 DEF SaveInv, PastInv, ReportInv, SbgConfig!AppliedIsKept
<1> QED
  BY <1>4, <1>5 DEF SbgInv

LEMMA SbgStep ==
  ASSUME SbgInv, FirstAnswerFresh, part = "sbg", SbgConfig!Next
  PROVE  SbgInv'
<1>1. ASSUME SbgConfig!Start("api", TRUE) PROVE SbgInv'
  BY <1>1, SbgStarts DEF SbgConfig!Start, SbgConfig!unitVars, SbgInv, SbgTypes
<1>2. CASE SbgConfig!Open
  BY <1>2, SbgStarts DEF SbgConfig!Open, SbgConfig!Connect, SbgConfig!unitVars, SbgInv, SbgTypes
<1>3. CASE SbgConfig!Reset
  BY <1>3, SbgStarts DEF SbgConfig!Reset, SbgConfig!unitVars, SbgInv, SbgTypes
<1>4. CASE SbgConfig!Restart
  <2>1. /\ writer' = "none" /\ req' = SbgConfig!NoReq /\ inbox' = <<>> /\ applyConf' \in BOOLEAN
        /\ savedRun' = FALSE /\ saves' = 0 /\ job' = SbgConfig!Idle
        /\ UNCHANGED <<sbgRam, flash, marker, promised>>
    BY <1>4 DEF SbgConfig!Restart, SbgConfig!Restarted, SbgConfig!unitVars
  <2>2. \A k \in promised' : sbgRam'[k] /\ (flash'[k] \/ marker')
    BY <2>1 DEF SbgInv, SbgConfig!AppliedIsKept
  <2>3. inbox' \in Seq(SbgFrames) /\ writer' # "command" /\ ~(saves' = 1)
    BY <2>1
  <2> QED
    BY <2>1, <2>2, <2>3, SbgIdleKeeps DEF SbgInv, SbgTypes
<1>5. CASE (SbgConfig!StartWrite \/ SbgConfig!StartRtcm \/ SbgConfig!EndRtcm \/ SbgConfig!ClosePort)
             /\ UNCHANGED <<SbgConfig!unitVars, SbgConfig!hostVars>>
  <2>1. UNCHANGED <<inbox, sbgRam, flash, applyConf, marker, savedRun, saves, job, promised>>
    BY <1>5 DEF SbgConfig!StartWrite, SbgConfig!StartRtcm, SbgConfig!EndRtcm, SbgConfig!ClosePort,
         SbgConfig!unitVars, SbgConfig!hostVars
  <2>2. CASE SbgConfig!StartWrite
    <3>1. req'.at = "writing"
      <4>1. req = SbgReq(req.at, req.frame, req.got, req.tries)
        BY DEF SbgInv, SbgTypes
      <4> QED
        BY <2>2, <4>1 DEF SbgConfig!StartWrite, SbgReq
    <3> QED
      BY <2>1, <2>2, <3>1, SbgPortKeeps DEF SbgConfig!StartWrite
  <2>3. CASE SbgConfig!StartRtcm \/ SbgConfig!EndRtcm \/ SbgConfig!ClosePort
    <3>1. req' = req /\ (writer' = "command" <=> writer = "command")
      BY <2>3 DEF SbgConfig!StartRtcm, SbgConfig!EndRtcm, SbgConfig!ClosePort
    <3>2. writer = "command" <=> req.at \in {"writing", "orphan"}
      BY DEF SbgInv, SbgTypes
    <3> QED
      BY <2>1, <3>1, <3>2, SbgPortKeeps
  <2> QED
    BY <1>5, <2>2, <2>3
<1> QED
  BY <1>1, <1>2, <1>3, <1>4, <1>5, SbgReplyKeeps, SbgSilenceKeeps, SbgSendKeeps, SbgLinkLostKeeps,
     SbgStallKeeps, SbgPowerCycleKeeps, SbgRouteKeeps DEF SbgConfig!Next

(* The invariant of an SBG run, in every behaviour of the exchanges in which *)
(* no run takes an old greeting for its own with old frames behind it.     *)
THEOREM SbgInvariant == MCSpec /\ []FirstAnswerFresh => []SbgInv
<1>1. MCInit => SbgInv
  BY SbgBegins DEF MCInit
<1>2. SbgInv /\ FirstAnswerFresh /\ [MCNext]_allVars => SbgInv'
  <2> SUFFICES ASSUME SbgInv, FirstAnswerFresh, [MCNext]_allVars PROVE SbgInv'
    OBVIOUS
  <2>1. CASE part = "sbg" /\ SbgConfig!Next
    BY <2>1, SbgStep
  <2>2. CASE UNCHANGED sbgVars
    BY <2>2, SbgPortKeeps DEF sbgVars, SbgInv, SbgTypes
  <2> QED
    BY <2>1, <2>2 DEF MCNext, allVars
<1> QED
  BY <1>1, <1>2, PTL DEF MCSpec

(* AppliedIsKept: what a report calls applied is in the unit's RAM and in its *)
(* flash or remembered on disk, and SAVE_SETTINGS goes out at most once per *)
(* process, for any units, faults, tries, restarts and power cycles, as long *)
(* as FirstAnswerFresh holds (sbg/config.py, configure and save).          *)
THEOREM AppliedStaysKept == MCSpec /\ []FirstAnswerFresh => []AppliedIsKept
<1>1. SbgInv => AppliedIsKept
  BY DEF SbgInv, AppliedIsKept
<1> QED
  BY <1>1, SbgInvariant, PTL

\* What a request owes to the frames that came too early or go astray: an answer
\* it has is one frame less on its way, and one more may come while it waits.
Owed(r) ==
  (IF r.got # SbgConfig!Nothing THEN 1 ELSE 0) + (IF r.at = "orphan" THEN 1 ELSE 0)
    - (IF r.at = "waiting" THEN 1 ELSE 0)

\* Every frame on its way but the answer to the question that waits has cost a fault,
\* and when one more is on its way the last of them is that answer.
LateInv ==
  /\ faults \in Nat /\ faults <= MaxFaults
  /\ Len(inbox) + Owed(req) <= faults
  /\ job # SbgConfig!Idle /\ job.step = "info" /\ req.at = "waiting" /\ Len(inbox) > faults =>
       Greeting(inbox[Len(inbox)])

LEMMA OwedIs ==
  ASSUME NEW r
  PROVE  /\ Owed(r) \in {-1, 0, 1, 2}
         /\ r.got = SbgConfig!Nothing /\ r.at \in {"none", "queued", "writing"} => Owed(r) = 0
         /\ r.got = SbgConfig!Nothing /\ r.at = "waiting" => Owed(r) = -1
         /\ r.got # SbgConfig!Nothing /\ r.at = "waiting" => Owed(r) = 0
         /\ r.at \in {"none", "queued", "writing"} => Owed(r) \in {0, 1}
         /\ r.at = "orphan" => Owed(r) \in {1, 2}
         /\ r.at # "waiting" => Owed(r) \in Nat
BY DEF Owed

\* The next question of a run has not been sent.
NotSent == req'.got = SbgConfig!Nothing /\ req'.at \in {"none", "queued"}

LEMMA AskNotSent ==
  ASSUME NEW j, NEW step, NEW r, SbgConfig!Ask(j, step, r)
  PROVE  NotSent
BY DEF SbgConfig!Ask, SbgConfig!Request, NotSent

LEMMA NextNotSent ==
  ASSUME NEW j, SbgConfig!NextItem(j)
  PROVE  NotSent
<1>1. CASE j.at = Len(SbgConfig!Items)
  BY <1>1 DEF SbgConfig!NextItem, SbgConfig!Conclude, SbgConfig!Request, SbgConfig!NoReq, NotSent
<1>2. CASE j.at # Len(SbgConfig!Items)
  BY <1>2 DEF SbgConfig!NextItem, SbgConfig!Request, NotSent
<1> QED
  BY <1>1, <1>2

LEMMA EndNotSent ==
  ASSUME NEW j, NEW cleared, SbgConfig!End(j, cleared)
  PROVE  NotSent
BY DEF SbgConfig!End, SbgConfig!NoReq, NotSent

LEMMA ReplyNotSent ==
  ASSUME SbgTypes, SbgConfig!Reply
  PROVE  NotSent
<1>1. PICK ok \in BOOLEAN : ok = (req.got.op = "data" \/ req.got.value = "ok")
  OBVIOUS
<1>2. job.step \in {"info", "get", "set", "back", "save", "reboot"}
  BY DEF SbgConfig!Reply, SbgTypes, SbgJobs
<1>3. CASE job.step = "info"
  BY <1>3, AskNotSent DEF SbgConfig!Reply
<1>4. CASE job.step = "get" /\ ok
  <2>1. SbgConfig!GotCurrent(job, req.got.value)
    BY <1>1, <1>4 DEF SbgConfig!Reply
  <2> QED
    BY <2>1, AskNotSent, NextNotSent DEF SbgConfig!GotCurrent
<1>5. CASE job.step = "set" /\ ok
  BY <1>1, <1>5, AskNotSent DEF SbgConfig!Reply
<1>6. CASE job.step = "back" /\ ok
  <2>1. SbgConfig!GotBack(job, req.got.value)
    BY <1>1, <1>6 DEF SbgConfig!Reply
  <2> QED
    BY <2>1, NextNotSent DEF SbgConfig!GotBack
<1>7. CASE job.step \in {"get", "set", "back"} /\ ~ok
  <2>1. SbgConfig!NextItem(job)
    BY <1>1, <1>7 DEF SbgConfig!Reply
  <2> QED
    BY <2>1, NextNotSent
<1>8. CASE job.step \in {"save", "reboot"}
  <2>1. \E cleared : SbgConfig!End(job, cleared)
    BY <1>1, <1>8 DEF SbgConfig!Reply
  <2> QED
    BY <2>1, EndNotSent
<1> QED
  BY <1>2, <1>3, <1>4, <1>5, <1>6, <1>7, <1>8

LEMMA SilenceNotSent ==
  ASSUME SbgTypes, SbgConfig!Silence
  PROVE  NotSent
<1>1. job.step \in {"info", "get", "set", "back", "save", "reboot"}
  BY DEF SbgConfig!Silence, SbgTypes, SbgJobs
<1>2. CASE req.tries < Retries
  BY <1>2 DEF SbgConfig!Silence, SbgConfig!Request, NotSent
<1>3. CASE ~(req.tries < Retries)
  <2>1. CASE job.step \in {"info", "reboot"}
    BY <1>3, <2>1, EndNotSent DEF SbgConfig!Silence
  <2>2. CASE job.step \in {"get", "back"}
    BY <1>3, <2>2, NextNotSent DEF SbgConfig!Silence
  <2>3. CASE job.step = "set"
    BY <1>3, <2>3, AskNotSent DEF SbgConfig!Silence
  <2>4. CASE job.step = "save"
    BY <1>3, <2>4 DEF SbgConfig!Silence, SbgConfig!NoReq, NotSent
  <2> QED
    BY <1>1, <2>1, <2>2, <2>3, <2>4
<1> QED
  BY <1>2, <1>3

(* A frame too many on its way has cost a fault, whatever the step.        *)
LEMMA LateKeeps ==
  ASSUME SbgInv, SbgInv', LateInv, MaxFaults \in Nat, SbgConfig!Next
  PROVE  LateInv'
<1>1. PICK len \in Nat : len = Len(inbox)
  BY DEF SbgInv, SbgTypes
<1>2. PICK len2 \in Nat : len2 = Len(inbox')
  BY DEF SbgInv, SbgTypes
<1>3. PICK r, r2 : r = req /\ r2 = req'
  OBVIOUS
<1>4. PICK owes \in {-1, 0, 1, 2} : owes = Owed(r)
  BY OwedIs
<1>5. PICK owes2 \in {-1, 0, 1, 2} : owes2 = Owed(r2)
  BY OwedIs
<1>6. len + owes <= faults /\ faults \in Nat /\ faults <= MaxFaults
  BY <1>1, <1>3, <1>4 DEF LateInv
<1>7. SUFFICES /\ faults' \in Nat /\ faults' <= MaxFaults /\ len2 + owes2 <= faults'
               /\ job' # SbgConfig!Idle /\ job'.step = "info" /\ req'.at = "waiting"
                    /\ len2 > faults' => Greeting(inbox'[len2])
  <2>1. Owed(req)' = owes2
    BY <1>3, <1>5 DEF Owed
  <2> QED
    BY <1>2, <1>7, <2>1 DEF LateInv
<1>8. ASSUME SbgConfig!Fault PROVE faults' = faults + 1 /\ faults' \in Nat /\ faults' <= MaxFaults
  BY <1>6, <1>8 DEF SbgConfig!Fault
<1>10. CASE SbgConfig!Reply
  <2>1. /\ r2.got = SbgConfig!Nothing /\ r2.at \in {"none", "queued"} /\ req'.at # "waiting"
    BY <1>3, <1>10, ReplyNotSent DEF NotSent, SbgInv
  <2>2. r.got # SbgConfig!Nothing /\ r.at = "waiting" /\ faults' = faults /\ inbox' = inbox
    BY <1>3, <1>10 DEF SbgConfig!Reply, SbgConfig!Answered, SbgConfig!Nothing
  <2>3. owes = 0 /\ owes2 = 0 /\ len2 = len
    BY <1>1, <1>2, <1>4, <1>5, <2>1, <2>2, OwedIs
  <2> QED
    BY <1>6, <2>1, <2>2, <2>3
<1>11. CASE SbgConfig!Silence
  <2>1. /\ r2.got = SbgConfig!Nothing /\ r2.at \in {"none", "queued"} /\ req'.at # "waiting"
    BY <1>3, <1>11, SilenceNotSent DEF NotSent, SbgInv
  <2>2. /\ r.got = SbgConfig!Nothing /\ r.at = "waiting" /\ inbox' = inbox
        /\ IF inbox = <<>> THEN faults' = faults ELSE SbgConfig!Fault
    BY <1>3, <1>11 DEF SbgConfig!Silence, SbgConfig!TimedOut, SbgConfig!Nothing
  <2>3. owes = -1 /\ owes2 = 0 /\ len2 = len
    BY <1>1, <1>2, <1>4, <1>5, <2>1, <2>2, OwedIs
  <2>4. inbox = <<>> => len = 0
    BY <1>1
  <2> QED
    BY <1>6, <1>8, <2>1, <2>2, <2>3, <2>4
<1>12. CASE SbgConfig!Open \/ SbgConfig!Start("api", TRUE) \/ SbgConfig!Reset
  <2>1. /\ r2.got = SbgConfig!Nothing /\ r2.at = "queued" /\ req'.at # "waiting" /\ faults' = faults
        /\ inbox' = inbox \/ inbox' = <<>>
    <3>1. CASE SbgConfig!Open
      BY <1>3, <3>1 DEF SbgConfig!Open, SbgConfig!Connect, SbgConfig!Request
    <3>2. CASE SbgConfig!Start("api", TRUE)
      BY <1>3, <3>2 DEF SbgConfig!Start, SbgConfig!Request
    <3>3. CASE SbgConfig!Reset
      BY <1>3, <3>3 DEF SbgConfig!Reset, SbgConfig!Request
    <3> QED
      BY <1>12, <3>1, <3>2, <3>3
  <2>2. r.got = SbgConfig!Nothing /\ r.at = "none"
    <3>1. job = SbgConfig!Idle
      BY <1>12 DEF SbgConfig!Open, SbgConfig!Start, SbgConfig!Reset
    <3> QED
      BY <1>3, <3>1 DEF SbgInv, SbgTypes, SbgConfig!NoReq
  <2>3. owes = 0 /\ owes2 = 0 /\ (len2 = len \/ len2 = 0)
    BY <1>1, <1>2, <1>4, <1>5, <2>1, <2>2, OwedIs
  <2> QED
    BY <1>6, <2>1, <2>3
<1>13. CASE SbgConfig!Restart
  <2>1. /\ r2.got = SbgConfig!Nothing /\ r2.at = "none" /\ req'.at # "waiting" /\ faults' = faults
        /\ inbox' = <<>>
    BY <1>3, <1>13 DEF SbgConfig!Restart, SbgConfig!Restarted, SbgConfig!NoReq
  <2>2. owes2 = 0 /\ len2 = 0
    BY <1>2, <1>5, <2>1, OwedIs
  <2> QED
    BY <1>6, <2>1, <2>2
<1>14. CASE SbgConfig!PowerCycle
  <2>1. r2 = r /\ faults' = faults /\ inbox' = <<>>
    BY <1>3, <1>14 DEF SbgConfig!PowerCycle, SbgConfig!PowerCut
  <2>2. owes2 = owes /\ len2 = 0
    BY <1>2, <1>4, <1>5, <2>1
  <2> QED
    BY <1>6, <2>1, <2>2
<1>15. CASE SbgConfig!Stall
  <2>1. /\ r2.got = SbgConfig!Nothing /\ r2.at = "none" /\ req'.at # "waiting" /\ SbgConfig!Fault
        /\ inbox' = inbox /\ r.at # "waiting"
    BY <1>3, <1>15 DEF SbgConfig!Stall, SbgConfig!NoReq, SbgInv, SbgTypes
  <2>2. owes2 = 0 /\ owes \in Nat /\ len2 = len
    BY <1>1, <1>2, <1>4, <1>5, <2>1, OwedIs
  <2> QED
    BY <1>6, <1>8, <2>1, <2>2
<1>16. CASE SbgConfig!LinkLost
  <2>1. /\ SbgConfig!Fault /\ inbox' = inbox
        /\ \/ r2 = SbgConfig!NoReq
           \/ writer = "command" /\ r2 = [r EXCEPT !.at = "orphan"]
    BY <1>3, <1>16 DEF SbgConfig!LinkLost, SbgConfig!SessionOver
  <2>2. len2 = len
    BY <1>1, <1>2, <2>1
  <2>3. CASE r2 = SbgConfig!NoReq
    <3>1. owes2 = 0 /\ req'.at # "waiting"
      BY <1>3, <1>5, <2>3, OwedIs DEF SbgConfig!NoReq
    <3> QED
      BY <1>6, <1>8, <2>1, <2>2, <3>1
  <2>4. CASE writer = "command" /\ r2 = [r EXCEPT !.at = "orphan"]
    <3>1. r = SbgReq(r.at, r.frame, r.got, r.tries) /\ r.at \in {"writing", "orphan"}
      BY <1>3, <2>4 DEF SbgInv, SbgTypes
    <3>2. r2.at = "orphan" /\ r2.got = r.got
      BY <2>4, <3>1 DEF SbgReq
    <3>3. owes2 <= owes + 1 /\ req'.at # "waiting"
      BY <1>3, <1>4, <1>5, <3>1, <3>2 DEF Owed
    <3> QED
      BY <1>6, <1>8, <2>1, <2>2, <3>3
  <2> QED
    BY <2>1, <2>3, <2>4
<1>17. CASE SbgConfig!Send
  <2>1. PICK f \in SbgFrames :
          SbgConfig!Answer(req.frame) = <<f>> /\ (job.step = "info" => Greeting(f))
    <3>1. job # SbgConfig!Idle
      BY <1>17 DEF SbgConfig!Send, SbgConfig!Written, SbgInv, SbgTypes
    <3> QED
      BY <3>1, SbgAnswers DEF SbgInv
  <2>2. \/ inbox' = Append(inbox, f) /\ faults' = faults
        \/ inbox' = inbox /\ SbgConfig!Fault
    BY <1>17, <2>1 DEF SbgConfig!Send, SbgConfig!Written, SbgInv, SbgTypes
  <2>3. \/ len2 = len + 1 /\ faults' = faults /\ inbox'[len2] = f
        \/ len2 = len /\ faults' = faults + 1 /\ faults' <= MaxFaults
    BY <1>1, <1>2, <1>8, <2>2 DEF SbgInv, SbgTypes
  <2>4. CASE r.at = "orphan"
    <3>1. r2 = SbgConfig!NoReq
      BY <1>3, <1>17, <2>4 DEF SbgConfig!Send, SbgConfig!Written
    <3>2. owes2 = 0 /\ owes \in {1, 2} /\ req'.at # "waiting"
      BY <1>3, <1>4, <1>5, <2>4, <3>1, OwedIs DEF SbgConfig!NoReq
    <3> QED
      BY <1>6, <2>3, <3>2
  <2>5. CASE r.at # "orphan"
    <3>1. /\ r = SbgReq(r.at, r.frame, r.got, r.tries) /\ r.at = "writing"
          /\ r2 = [r EXCEPT !.at = "waiting"] /\ job' = job
      BY <1>3, <1>17, <2>5 DEF SbgConfig!Send, SbgConfig!Written, SbgInv, SbgTypes
    <3>2. r2.at = "waiting" /\ r2.got = r.got
      BY <3>1 DEF SbgReq
    <3>3. owes2 = owes - 1 /\ owes \in {0, 1}
      BY <1>4, <1>5, <3>1, <3>2 DEF Owed
    <3> QED
      BY <1>6, <2>1, <2>3, <3>1, <3>3
  <2> QED
    BY <2>4, <2>5
<1>18. CASE /\ SbgConfig!Route(inbox # <<>> /\ SbgConfig!Match(Head(inbox), req.frame))
            /\ UNCHANGED <<SbgConfig!unitVars, SbgConfig!hostVars>>
  <2>1. /\ inbox # <<>> /\ inbox' = Tail(inbox) /\ faults' = faults /\ job' = job
        /\ \/ r2 = r
           \/ r.got = SbgConfig!Nothing /\ r2 = [r EXCEPT !.got = Head(inbox)]
    BY <1>3, <1>18 DEF SbgConfig!Route, SbgConfig!hostVars, SbgConfig!Nothing
  <2>2. len2 = len - 1 /\ len > 0 /\ len2 \in Nat
    BY <1>1, <1>2, <2>1 DEF SbgInv, SbgTypes
  <2>3. owes2 \in {owes, owes + 1}
    <3>1. CASE r2 = r
      BY <1>4, <1>5, <3>1
    <3>2. CASE r.got = SbgConfig!Nothing /\ r2 = [r EXCEPT !.got = Head(inbox)]
      <4>1. r = SbgReq(r.at, r.frame, r.got, r.tries)
        BY <1>3 DEF SbgInv, SbgTypes
      <4>2. r2.at = r.at
        BY <3>2, <4>1 DEF SbgReq
      <4> QED
        BY <1>4, <1>5, <3>2, <4>2 DEF Owed
    <3> QED
      BY <2>1, <3>1, <3>2
  <2>4. len2 <= faults
    BY <1>6, <2>2
  <2> QED
    BY <1>6, <2>1, <2>2, <2>3, <2>4
<1>19. CASE /\ SbgConfig!StartWrite \/ SbgConfig!StartRtcm \/ SbgConfig!EndRtcm \/ SbgConfig!ClosePort
            /\ UNCHANGED <<SbgConfig!unitVars, SbgConfig!hostVars>>
  <2>1. /\ inbox' = inbox /\ faults' = faults /\ job' = job
        /\ \/ r2 = r
           \/ r.at = "queued" /\ r2 = [r EXCEPT !.at = "writing"]
    BY <1>3, <1>19 DEF SbgConfig!StartWrite, SbgConfig!StartRtcm, SbgConfig!EndRtcm,
         SbgConfig!ClosePort, SbgConfig!hostVars
  <2>2. len2 = len
    BY <1>1, <1>2, <2>1
  <2>3. CASE r2 = r
    <3>1. owes2 = owes
      BY <1>4, <1>5, <2>3
    <3>2. req' = req /\ inbox'[len2] = inbox[Len(inbox)]
      BY <1>1, <1>3, <2>1, <2>2, <2>3
    <3> QED
      BY <1>1, <1>6, <2>1, <2>2, <3>1, <3>2 DEF LateInv
  <2>4. CASE r.at = "queued" /\ r2 = [r EXCEPT !.at = "writing"]
    <3>1. r = SbgReq(r.at, r.frame, r.got, r.tries)
      BY <1>3 DEF SbgInv, SbgTypes
    <3>2. r2.at = "writing" /\ r2.got = r.got /\ req'.at # "waiting"
      BY <1>3, <2>4, <3>1 DEF SbgReq
    <3>3. owes2 = owes
      BY <1>4, <1>5, <2>4, <3>2 DEF Owed
    <3> QED
      BY <1>6, <2>1, <2>2, <3>2, <3>3
  <2> QED
    BY <2>1, <2>3, <2>4
<1> QED
  BY <1>10, <1>11, <1>12, <1>13, <1>14, <1>15, <1>16, <1>17, <1>18, <1>19 DEF SbgConfig!Next

\* With one fault, what is on its way with an old greeting is the greeting that
\* the run has asked for.
LEMMA LateIsFresh ==
  ASSUME SbgInv, LateInv, MaxFaults \in {0, 1}
  PROVE  FirstAnswerFresh
<1> SUFFICES ASSUME job # SbgConfig!Idle, job.step = "info", req.got = SbgConfig!Nothing,
                    NEW m \in 1 .. Len(inbox), NEW n \in 1 .. Len(inbox), m < n
             PROVE  Greeting(inbox[n])
  BY DEF FirstAnswerFresh
<1>1. PICK len \in Nat : len = Len(inbox)
  BY DEF SbgInv, SbgTypes
<1>2. PICK r : r = req
  OBVIOUS
<1>3. /\ Owed(r) \in {-1, 0, 1, 2} /\ len + Owed(r) <= faults /\ faults \in {0, 1}
      /\ r.at # "waiting" => Owed(r) \in Nat
  BY <1>1, <1>2, OwedIs DEF LateInv
<1>4. len >= 2 /\ n <= len /\ n >= 2
  BY <1>1
<1>5. r.at = "waiting" /\ len = 2 /\ n = len /\ len > faults
  BY <1>3, <1>4
<1> QED
  BY <1>1, <1>2, <1>5 DEF LateInv

(* AppliedIsKept again, with no hypothesis on the behaviour: with one fault, *)
(* whichever it is (a frame lost or late, a dropped link, a write that     *)
(* stalls), and any number of restarts, power cycles and tries.            *)
THEOREM OneFaultIsKept == ASSUME MaxFaults \in {0, 1} PROVE MCSpec => []AppliedIsKept
<1>1. MCInit => SbgInv /\ LateInv
  <2> SUFFICES ASSUME MCInit PROVE SbgInv /\ LateInv
    OBVIOUS
  <2>1. SbgConfig!Init
    BY DEF MCInit
  <2>2. inbox = <<>> /\ faults = 0 /\ req = SbgConfig!NoReq /\ job = SbgConfig!Idle
    BY <2>1 DEF SbgConfig!Init, SbgConfig!LinkInit
  <2>3. Owed(req) = 0
    BY <2>2 DEF Owed, SbgConfig!NoReq
  <2> QED
    BY <2>1, <2>2, <2>3, SbgBegins DEF LateInv
<1>2. SbgInv /\ LateInv /\ [MCNext]_allVars => (SbgInv /\ LateInv)'
  <2> SUFFICES ASSUME SbgInv, LateInv, [MCNext]_allVars PROVE SbgInv' /\ LateInv'
    OBVIOUS
  <2>1. CASE part = "sbg" /\ SbgConfig!Next
    BY <2>1, SbgStep, LateIsFresh, LateKeeps
  <2>2. CASE UNCHANGED sbgVars
    <3>1. LateInv'
      BY <2>2 DEF sbgVars, LateInv, Owed
    <3> QED
      BY <2>2, <3>1, SbgPortKeeps DEF sbgVars, SbgInv, SbgTypes
  <2> QED
    BY <2>1, <2>2 DEF MCNext, allVars
<1>3. SbgInv => AppliedIsKept
  BY DEF SbgInv, AppliedIsKept
<1> QED
  BY <1>1, <1>2, <1>3, PTL DEF MCSpec

=============================================================================
