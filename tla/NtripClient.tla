---------------------------- MODULE NtripClient ----------------------------
(***************************************************************************)
(* The rover's NTRIP client (src/mtrtk/rover/ntrip_client.py): run() and   *)
(* its sessions, the one retry as v1, the backoff, the GGA task and the    *)
(* status that is published.                                               *)
(*                                                                         *)
(* A caster is what it answers: it may serve v2 and v1, v1 only, refuse    *)
(* everyone, the login or the mountpoint, or be unreachable; it changes as *)
(* it likes.  A delay is a number of doublings of BACKOFF_MIN_S, or Fixed  *)
(* (AUTH_BACKOFF_S, MOUNT_BACKOFF_S).                                      *)
(***************************************************************************)
EXTENDS Naturals

CONSTANTS
  MaxBackoff,   \* doublings that reach BACKOFF_MAX_S
  MaxEvents,    \* bound: changes of the caster, and failures of a stream
  Gga           \* gga_interval_s > 0

ASSUME NtripClientAssumption ==
  /\ MaxBackoff \in Nat \ {0} /\ MaxEvents \in Nat /\ Gga \in BOOLEAN

NoDelay == MaxBackoff + 2
Fixed == MaxBackoff + 1
Casters == {"v2", "v1", "broken", "auth", "mount", "down"}
Errors == {"auth", "mount", "other", "net", "crash"}

VARIABLES
  caster,     \* what is at the other end
  at,         \* where run() stands
  v2,         \* the version this session speaks
  v1_retry, sticky, streamed,    \* v1_retry, _sticky_v1, _streamed
  backoff,
  status,     \* connected and next_retry_s of NtripClientStatus
  stable,     \* the stream has lasted STABLE_S
  gga,        \* the GGA task runs
  error,      \* what ended the session
  stop,       \* the stop event
  pub,        \* the status that was published last
  events,     \* changes and failures so far
  tries,      \* connections since the last pause                  (history)
  refused     \* the last v2 connection was answered by "other"    (history)

session == <<v2, v1_retry, sticky, streamed>>
history == <<tries, refused>>
vars == <<caster, at, session, backoff, status, stable, gga, error, stop, pub, events, history>>

Idle == [connected |-> FALSE, retry |-> NoDelay]

Init ==
  /\ caster \in Casters
  /\ at = "loop" /\ v2 = TRUE /\ v1_retry = FALSE /\ sticky = FALSE /\ streamed = FALSE
  /\ backoff = 0 /\ status = Idle /\ stable = FALSE /\ gga = FALSE
  /\ error = "none" /\ stop = FALSE /\ pub = Idle /\ events = 0
  /\ tries = 0 /\ refused = FALSE

(* The status after _set_connected(c), published. *)
Publishes(c, retry) ==
  /\ status' = [connected |-> c, retry |-> retry]
  /\ pub' = status'

-----------------------------------------------------------------------------
(* _run: the top of the loop *)

Opens ==
  /\ at = "loop" /\ ~stop
  /\ v2' = ~(sticky \/ v1_retry)
  /\ streamed' = FALSE
  /\ at' = "connect"
  /\ tries' = tries + 1
  /\ UNCHANGED <<caster, v1_retry, sticky, backoff, status, stable, gga, error, stop, pub,
                 events, refused>>

(* Mutant of RunEnds: the last status stays published. *)
RunEndsSilent ==
  /\ at = "loop" /\ stop
  /\ at' = "done"
  /\ UNCHANGED <<caster, session, backoff, status, stable, gga, error, stop, pub, events, history>>

(* run()'s finally: also when a stop ends a session. *)
RunEnds ==
  /\ at = "loop" /\ stop
  /\ at' = "done"
  /\ Publishes(FALSE, NoDelay)
  /\ UNCHANGED <<caster, session, backoff, stable, gga, error, stop, events, history>>

-----------------------------------------------------------------------------
(* _session: _read_head and _classify, then _stream *)

Answer ==
  CASE caster = "v2" -> "stream"
    [] caster = "v1" -> IF v2 THEN "other" ELSE "stream"
    [] caster = "broken" -> "other"
    [] caster = "down" -> "net"
    [] OTHER -> caster

Refused ==
  /\ at = "connect" /\ Answer # "stream"
  /\ error' = Answer
  /\ at' = "close"
  /\ refused' = IF v2 THEN Answer = "other" ELSE refused
  /\ UNCHANGED <<caster, session, backoff, status, stable, gga, stop, pub, events, tries>>

Streams ==
  /\ at = "connect" /\ Answer = "stream"
  /\ streamed' = TRUE
  /\ Publishes(TRUE, NoDelay)
  /\ gga' = Gga
  /\ stable' = FALSE
  /\ at' = "stream"
  /\ refused' = IF v2 THEN FALSE ELSE refused
  /\ UNCHANGED <<caster, v2, v1_retry, sticky, backoff, error, stop, events, tries>>

TurnsStable ==
  /\ at = "stream" /\ ~stable
  /\ stable' = TRUE
  /\ UNCHANGED <<caster, at, session, backoff, status, gga, error, stop, pub, events, history>>

(* No data for NO_DATA_TIMEOUT_S, an end of file, a mangled chunk ("net"), *)
(* or an exception of the driver ("crash").                                *)
StreamFails(e) ==
  /\ at = "stream" /\ events < MaxEvents
  /\ error' = e
  /\ at' = "close"
  /\ events' = events + 1
  /\ UNCHANGED <<caster, session, backoff, status, stable, gga, stop, pub, history>>

(* The caster is no longer what it was: a stream that is up breaks. *)
StreamBreaks ==
  /\ at = "stream" /\ caster \notin {"v2", "v1"}
  /\ error' = "net"
  /\ at' = "close"
  /\ UNCHANGED <<caster, session, backoff, status, stable, gga, stop, pub, events, history>>

(* _until_stop cancels the session; its finally ends the GGA task. *)
StopCancels ==
  /\ at \in {"connect", "stream"} /\ stop
  /\ error' = "stopped"
  /\ at' = "close"
  /\ UNCHANGED <<caster, session, backoff, status, stable, gga, stop, pub, events, history>>

GgaWriteFails ==
  /\ gga /\ caster \notin {"v2", "v1"}
  /\ gga' = FALSE
  /\ UNCHANGED <<caster, at, session, backoff, status, stable, error, stop, pub, events, history>>

-----------------------------------------------------------------------------
(* _run: what the end of a session leads to *)

Closes == gga' = FALSE

Widened(b) == IF b < MaxBackoff THEN b + 1 ELSE MaxBackoff

(* The backoff a failure starts from, and the delay it makes. *)
From(e) == IF e = "net" /\ status.connected /\ stable THEN 0 ELSE backoff
Delay(e) == IF e \in {"auth", "mount"} THEN Fixed ELSE From(e)

RetriesV1Never == FALSE

RetriesV1 == error = "other" /\ v2

RetryAsV1 ==
  /\ at = "close" /\ RetriesV1
  /\ Closes
  /\ v1_retry' = TRUE
  /\ Publishes(FALSE, status.retry)
  /\ error' = "none"
  /\ at' = "loop"
  /\ UNCHANGED <<caster, v2, sticky, streamed, backoff, stable, stop, events, history>>

(* Mutant of Earned: the retry alone makes v1 stick. *)
EarnedByTrying == v1_retry

Earned == v1_retry /\ streamed

Fails ==
  /\ at = "close" /\ error \in Errors /\ ~RetriesV1
  /\ Closes
  /\ backoff' = IF error \in {"auth", "mount"} THEN backoff ELSE Widened(From(error))
  /\ sticky' = (sticky \/ Earned)
  /\ v1_retry' = FALSE
  /\ Publishes(FALSE, Delay(error))
  /\ error' = "none"
  /\ at' = "pause"
  /\ UNCHANGED <<caster, v2, streamed, stable, stop, events, history>>

Stopped ==
  /\ at = "close" /\ error = "stopped"
  /\ Closes
  /\ at' = "loop"
  /\ UNCHANGED <<caster, session, backoff, status, stable, error, stop, pub, events, history>>

(* _pause: the delay is over, or stop wakes it. *)
PauseEnds ==
  /\ at = "pause"
  /\ at' = "loop"
  /\ tries' = 0
  /\ UNCHANGED <<caster, session, backoff, status, stable, gga, error, stop, pub, events, refused>>

-----------------------------------------------------------------------------
CasterChanges(c) ==
  /\ c # caster /\ events < MaxEvents
  /\ caster' = c
  /\ events' = events + 1
  /\ UNCHANGED <<at, session, backoff, status, stable, gga, error, stop, pub, history>>

StopRequested ==
  /\ ~stop
  /\ stop' = TRUE
  /\ UNCHANGED <<caster, at, session, backoff, status, stable, gga, error, pub, events, history>>

Next ==
  \/ Opens \/ RunEnds \/ Refused \/ Streams \/ TurnsStable
  \/ \E e \in {"net", "crash"} : StreamFails(e)
  \/ StreamBreaks \/ StopCancels \/ GgaWriteFails
  \/ RetryAsV1 \/ Fails \/ Stopped \/ PauseEnds
  \/ \E c \in Casters : CasterChanges(c)
  \/ StopRequested

Spec == Init /\ [][Next]_vars

-----------------------------------------------------------------------------
Delays == 0 .. MaxBackoff + 2

TypeOK ==
  /\ caster \in Casters
  /\ at \in {"loop", "connect", "stream", "close", "pause", "done"}
  /\ v2 \in BOOLEAN /\ v1_retry \in BOOLEAN /\ sticky \in BOOLEAN /\ streamed \in BOOLEAN
  /\ stable \in BOOLEAN /\ gga \in BOOLEAN /\ stop \in BOOLEAN /\ refused \in BOOLEAN
  /\ backoff \in 0 .. MaxBackoff
  /\ status \in [connected : BOOLEAN, retry : Delays]
  /\ pub \in [connected : BOOLEAN, retry : Delays]
  /\ error \in Errors \cup {"none", "stopped"}
  /\ events \in 0 .. MaxEvents

(* What was published last is what is: a subscriber never waits for the    *)
(* next report to learn that the stream is down or when it is retried, and *)
(* a client that is over does not look connected (run, _publish).          *)
StatusHonest ==
  /\ pub = status
  /\ status.connected => at \in {"stream", "close"} \/ stop
  /\ at = "pause" => status.retry # NoDelay
  /\ at = "done" => status = Idle

(* A caster that refuses is not hammered: after two connections, a v2 one  *)
(* and its retry as v1, there is a pause (_run).                           *)
NotHammered == tries <= 2

(* v1 is spoken only to a caster that refused v2 and, from then on, only   *)
(* to one that has streamed to a v1 retry (_sticky_v1).                    *)
StickyEarned == [][sticky' /\ ~sticky => refused /\ streamed /\ ~v2]_vars

(* The backoff is forgotten only by a stream that was stable when it       *)
(* broke, over any sequence of refusals and short streams, and such a one  *)
(* is retried at once, whatever came before it (_run).                     *)
BackoffEarned ==
  [][/\ backoff' < backoff => stable /\ status.connected
     /\ status' # status /\ at = "close" /\ error = "net" /\ status.connected /\ stable
          => status'.retry = 0]_vars

(* What a client has learnt about a caster it has earned, over any         *)
(* sequence of refusals and broken streams (_sticky_v1 and _run).          *)
RetriesEarned == StickyEarned /\ BackoffEarned

(* What the client shows is what it does, and a caster that refuses it has *)
(* its pauses.                                                             *)
ClientHonest == StatusHonest /\ NotHammered

=============================================================================
