------------------------------ MODULE InsLink ------------------------------
(***************************************************************************)
(* The serial connection to an INS (rover/drivers/ins_common.py,           *)
(* InsController): sessions that open, run and close, one writer at a time *)
(* and one request in flight, its answer correlated with the frames the    *)
(* reader routes.  The vendor modules SbgConfig and VnConfig extend it     *)
(* with the unit and with the configuration that talks to it.              *)
(***************************************************************************)
EXTENDS Naturals, Sequences

CONSTANTS
  MaxFaults,   \* lost or late frames and dropped links in a behaviour
  MaxRestarts, \* restarts of mtrtk
  MaxCuts,     \* power cycles of the unit
  Retries      \* times a request is sent before it is given up

VARIABLES
  link,     \* "closed", "up", or "closing" once the session is over
  writer,   \* who holds _write_lock: "none", "command", "rtcm"
  req,      \* the request in flight, NoReq, or a write nobody waits for any more
  inbox,    \* frames the unit sent and the reader has not routed
  faults, restarts, cuts

linkVars == <<link, writer, req, inbox, faults, restarts, cuts>>

Nothing == [op |-> "none"]

NoReq == [at |-> "none", frame |-> Nothing, got |-> Nothing, tries |-> 0]

LinkInit ==
  /\ link = "closed" /\ writer = "none" /\ req = NoReq /\ inbox = <<>>
  /\ faults = 0 /\ restarts = 0 /\ cuts = 0

Fault == faults < MaxFaults /\ faults' = faults + 1

\* The waiter is registered here, before the write.
Request(frame, tries) == [at |-> "queued", frame |-> frame, got |-> Nothing, tries |-> tries]

\* run(): the port opens and a session starts, with a fresh framer.
Connect ==
  /\ link = "closed"
  /\ link' = "up" /\ inbox' = <<>>
  /\ UNCHANGED <<writer, faults, restarts, cuts>>

\* The source ended, failed or fell silent: the waiters fail.  `abandons` is
\* the configure task of the session, cancelled with its write; another
\* caller's write in progress goes on.
SessionOver(abandons) ==
  /\ link = "up" /\ Fault
  /\ link' = "closing"
  /\ writer' = IF abandons /\ writer = "command" THEN "none" ELSE writer
  /\ req' = IF ~abandons /\ writer = "command" THEN [req EXCEPT !.at = "orphan"] ELSE NoReq
  /\ UNCHANGED <<inbox, restarts, cuts>>

\* The port is closed once no write is in progress.
ClosePort ==
  /\ link = "closing" /\ writer = "none"
  /\ link' = "closed"
  /\ UNCHANGED <<writer, req, inbox, faults, restarts, cuts>>

\* write(): the lock, then the port.
StartWrite ==
  /\ req.at = "queued" /\ link = "up" /\ writer = "none"
  /\ writer' = "command" /\ req' = [req EXCEPT !.at = "writing"]
  /\ UNCHANGED <<link, inbox, faults, restarts, cuts>>

\* The NTRIP client's corrections take the same lock.
StartRtcm ==
  /\ link = "up" /\ writer = "none"
  /\ writer' = "rtcm"
  /\ UNCHANGED <<link, req, inbox, faults, restarts, cuts>>

EndRtcm ==
  /\ writer = "rtcm" /\ writer' = "none"
  /\ UNCHANGED <<link, req, inbox, faults, restarts, cuts>>

\* The bytes went out; `answers` is what the unit sends back.
Written(answers) ==
  /\ writer = "command" /\ writer' = "none"
  /\ req' = IF req.at = "orphan" THEN NoReq ELSE [req EXCEPT !.at = "waiting"]
  /\ inbox' = inbox \o answers
  /\ UNCHANGED <<link, restarts, cuts>>

\* _resolve_waiters: the reader routes the first frame; a waiter that has its
\* answer, or that it does not match, lets it pass.
Route(match) ==
  /\ link = "up" /\ inbox # <<>>
  /\ inbox' = Tail(inbox)
  /\ req' = IF req.at \in {"queued", "writing", "waiting"} /\ req.got = Nothing /\ match
            THEN [req EXCEPT !.got = Head(inbox)] ELSE req
  /\ UNCHANGED <<link, writer, faults, restarts, cuts>>

Answered == req.at = "waiting" /\ req.got # Nothing /\ link = "up"

\* Nothing matched in time.  An answer that is still on its way is late.
TimedOut ==
  /\ req.at = "waiting" /\ req.got = Nothing /\ link = "up"
  /\ IF inbox = <<>> THEN UNCHANGED faults ELSE Fault
  /\ UNCHANGED <<link, writer, inbox, restarts, cuts>>

\* mtrtk ends and starts again.
Restarted ==
  /\ restarts < MaxRestarts /\ restarts' = restarts + 1
  /\ link' = "closed" /\ writer' = "none" /\ req' = NoReq /\ inbox' = <<>>
  /\ UNCHANGED <<faults, cuts>>

\* The unit loses its power, and what it was about to send.
PowerCut ==
  /\ cuts < MaxCuts /\ cuts' = cuts + 1
  /\ inbox' = <<>>
  /\ UNCHANGED <<link, writer, req, faults, restarts>>

LinkTypeOK ==
  /\ link \in {"closed", "up", "closing"} /\ writer \in {"none", "command", "rtcm"}
  /\ req.at \in {"none", "queued", "writing", "waiting", "orphan"}
  /\ faults \in 0..MaxFaults /\ restarts \in 0..MaxRestarts /\ cuts \in 0..MaxCuts

=============================================================================
