------------------------------ MODULE Receiver ------------------------------
(***************************************************************************)
(* The receiver's supervisor (src/mtrtk/core/receiver.py): open, session,  *)
(* configure, watchdog, teardown, backoff, and the two API requests that   *)
(* share the link with the session, reapply() and reset().                 *)
(*                                                                         *)
(* The profile is one thing the receiver has or has not, in RAM and in     *)
(* flash: a power cycle loads RAM from flash.  What configure() asks key   *)
(* by key is the subject of ReceiverConfig; here it reads RAM back, writes *)
(* what differs, verifies, and may fail at each step.                      *)
(***************************************************************************)
EXTENDS Naturals, Sequences

CONSTANTS
  Reasons,       \* why a device may refuse to open
  MaxBackoff,    \* doublings of BACKOFF_MIN_S that reach BACKOFF_MAX_S
  Plans          \* the situations to check: RECEIVER_STRICT (strict); nothing is
                 \* configured, as in a replay or a passive start (passive); the
                 \* source has a retry_s of its own, as `auto`'s USB scan (fixedRetry);
                 \* bounds on configure failures (faults), on how often the device
                 \* goes away (drops) and on reapply() and reset() calls (requests);
                 \* what may go wrong (kinds)

FaultKinds == {"swap", "reset_queued", "refuse", "silence"}

ASSUME ReceiverAssumption ==
  /\ MaxBackoff \in Nat
  /\ Plans \subseteq [strict : BOOLEAN, passive : BOOLEAN, fixedRetry : BOOLEAN,
                      faults : Nat, drops : Nat, requests : Nat, kinds : SUBSET FaultKinds]

VARIABLES
  plan,      \* the situation of this run; never changes
  plugged, ram, flash,  \* the device, and where it holds the profile
  wire,      \* the handle the session opened still reaches the device
  at,        \* where run() stands
  stop,      \* the stop event
  link,      \* "none", "live" or "stopped" (torn down, not yet forgotten)
  gen,       \* number of the session that opened it
  first,     \* _first_apply
  once,      \* _configured_once
  backoff,   \* _backoff, as doublings
  reported,  \* _down_reported
  failures,  \* _open_failures
  op,        \* op[a]: a user of the configure lock
  queue,     \* _configuring: its holder, then those that wait
  used,      \* requests, faults and drops so far
  said,      \* receiver.disconnected since the last receiver.connected (history)
  fails,     \* waits since the last configured session, capped       (history)
  swapped    \* the device is not the one that was configured first   (history)

device == <<plugged, ram, flash, wire>>
flags == <<first, once, reported, failures>>
locks == <<op, queue>>
history == <<said, fails, swapped>>
vars == <<plan, device, at, stop, link, gen, flags, backoff, locks, used, history>>

Users == {"session", "reapply", "reset"}
Idle == [at |-> "idle", first |-> FALSE, gen |-> 0, kind |-> "none"]
Held(a) == queue # <<>> /\ Head(queue) = a
\* The task that was just given the lock runs before any I/O completes.
Settled == queue # <<>> /\ Head(queue) # "session" => op[Head(queue)].at # "wait"
Min2(a, b) == IF a < b THEN a ELSE b

Init ==
  /\ plan \in Plans
  /\ plugged \in BOOLEAN /\ flash \in BOOLEAN /\ ram = flash /\ wire = FALSE
  /\ at = "open" /\ stop = FALSE
  /\ link = "none" /\ gen = 0
  /\ first = TRUE /\ once = FALSE /\ reported = FALSE /\ failures = {}
  /\ backoff = 0
  /\ op = [a \in Users |-> Idle] /\ queue = <<>>
  /\ used = [requests |-> 0, faults |-> 0, drops |-> 0]
  /\ said = 0 /\ fails = 0 /\ swapped = FALSE

Ask(a, o) ==
  /\ op' = [op EXCEPT ![a] = o]
  /\ queue' = Append(queue, a)

Release(a) ==
  /\ op' = [op EXCEPT ![a] = Idle]
  /\ queue' = Tail(queue)

-----------------------------------------------------------------------------
(* run() and _session() *)

\* _report_open_failure(): once per outage, then each new reason as an error.
ReportOpenFailure(r) ==
  /\ failures' = failures \cup {r}
  /\ reported' = TRUE
  /\ said' = IF r \notin failures /\ ~reported THEN said + 1 ELSE said

OpenFails(r) ==
  /\ at = "open" /\ ~stop
  /\ ReportOpenFailure(r)
  /\ at' = "backoff"
  /\ UNCHANGED <<device, stop, link, gen, first, once, backoff, locks, used, fails, swapped>>

OpenSucceeds ==
  /\ at = "open" /\ ~stop /\ plugged /\ Settled
  /\ link' = "live" /\ gen' = gen + 1 /\ wire' = TRUE
  /\ said' = 0
  /\ IF plan.passive
     THEN /\ at' = "watching" /\ backoff' = 0 /\ fails' = 0
          /\ UNCHANGED locks
     ELSE /\ at' = "configuring"
          /\ Ask("session", [at |-> "wait", first |-> first, gen |-> gen + 1, kind |-> "none"])
          /\ UNCHANGED <<backoff, fails>>
  /\ UNCHANGED <<plugged, ram, flash, stop, flags, used, swapped>>

StoppedBetween ==
  /\ at = "open" /\ stop
  /\ at' = "ended"
  /\ UNCHANGED <<device, stop, link, gen, flags, backoff, locks, used, history>>

\* The wait races `stop`; either way the backoff is widened afterwards, except
\* after a failed open of a source with its own interval.
BackoffEnds ==
  /\ at = "backoff"
  /\ at' = "open"
  /\ backoff' = IF plan.fixedRetry /\ failures # {} THEN backoff ELSE Min2(backoff + 1, MaxBackoff)
  /\ fails' = IF plan.fixedRetry /\ failures # {} THEN fails ELSE Min2(fails + 1, MaxBackoff + 1)
  /\ UNCHANGED <<device, stop, link, gen, flags, locks, used, said, swapped>>

\* _configure_or_stop() resumes after its task has ended: the flag is lowered
\* after the lock was released.
SessionConfigured ==
  /\ at = "configured"
  /\ at' = "watching"
  /\ first' = FALSE /\ once' = TRUE /\ backoff' = 0 /\ fails' = 0
  /\ UNCHANGED <<device, stop, link, gen, reported, failures, locks, used, said, swapped>>

\* A stop cancels the configure, wherever it is.
StopWhileConfiguring ==
  /\ at = "configuring" /\ stop
  /\ at' = "leaving"
  /\ op' = [op EXCEPT !["session"] = Idle]
  /\ queue' = SelectSeq(queue, LAMBDA a : a # "session")
  /\ UNCHANGED <<device, stop, link, gen, flags, backoff, used, history>>

\* The watchdog: the reader failed or nothing arrived for rx_timeout_s.
WatchdogFires ==
  /\ at = "watching" /\ ~wire /\ ~stop
  /\ at' = "failed_session"
  /\ UNCHANGED <<device, stop, link, gen, flags, backoff, locks, used, history>>

WatchdogStops ==
  /\ at = "watching" /\ stop
  /\ at' = "leaving"
  /\ UNCHANGED <<device, stop, link, gen, flags, backoff, locks, used, history>>

\* A replay reaches the end of its file.
SourceEnds ==
  /\ plan.passive /\ at = "watching"
  /\ at' = "leaving_for_good"
  /\ UNCHANGED <<device, stop, link, gen, flags, backoff, locks, used, history>>

Leaving == {"leaving", "leaving_for_good", "failed_session", "refused_session"}

\* `finally`: link.stop() and source.close() are awaited ...
LinkStops ==
  /\ at \in Leaving /\ link = "live" /\ Settled
  /\ link' = "stopped"
  /\ UNCHANGED <<device, at, stop, gen, flags, backoff, locks, used, history>>

\* RECEIVER_STRICT: a refused profile ends the run, until one was accepted.
Fatal == plan.strict /\ ~once

\* Mutant of SessionEnds: the drop is not noted as the outage's report.
SessionEndsUnnoted ==
  /\ at \in Leaving /\ link = "stopped"
  /\ link' = "none"
  /\ failures' = {}
  /\ said' = said + 1
  /\ at' = IF at = "refused_session" /\ Fatal THEN "failed"
           ELSE IF at = "leaving_for_good" \/ stop THEN "ended" ELSE "backoff"
  /\ UNCHANGED <<device, stop, gen, first, once, reported, backoff, locks, used, fails, swapped>>

\* ... then the link is forgotten and the drop reported.
SessionEnds ==
  /\ at \in Leaving /\ link = "stopped"
  /\ link' = "none"
  /\ reported' = TRUE /\ failures' = {}
  /\ said' = said + 1
  /\ at' = IF at = "refused_session" /\ Fatal THEN "failed"
           ELSE IF at = "leaving_for_good" \/ stop THEN "ended" ELSE "backoff"
  /\ UNCHANGED <<device, stop, gen, first, once, backoff, locks, used, fails, swapped>>

-----------------------------------------------------------------------------
(* configure(), of the session or of reapply() *)

\* A request gets an answer: its link is the live one and reaches the device.
Answers(a) == wire /\ link = "live" /\ op[a].gen = gen

ConfigureStarts(a) ==
  /\ a \in {"session", "reapply"} /\ Held(a) /\ op[a].at = "wait"
  /\ IF a = "reapply" /\ link = "none"
     THEN Release(a)       \* _live_link(): not connected
     ELSE /\ op' = [op EXCEPT ![a].at = "apply", ![a].gen = IF a = "reapply" THEN gen ELSE @]
          /\ UNCHANGED queue
  /\ UNCHANGED <<device, at, stop, link, gen, flags, backoff, used, history>>

\* The keys that differ from what RAM holds are written, to every layer the
\* first time and to RAM afterwards.
ConfigureApplies(a) ==
  /\ op[a].at = "apply" /\ Held(a) /\ Answers(a)
  /\ ram' = TRUE
  /\ flash' = (flash \/ (~ram /\ op[a].first))
  /\ op' = [op EXCEPT ![a].at = "verify"]
  /\ UNCHANGED <<plugged, wire, at, stop, link, gen, flags, backoff, queue, used, history>>

\* The profile reads back: capabilities are published and the lock is free.
ConfigureVerified(a) ==
  /\ op[a].at = "verify" /\ Held(a) /\ Answers(a) /\ ram
  /\ Release(a)
  /\ IF a = "session"
     THEN at' = "configured" /\ UNCHANGED first
     ELSE first' = FALSE /\ UNCHANGED at
  /\ UNCHANGED <<device, stop, link, gen, once, reported, failures, backoff, used, history>>

\* Mutant of ConfigureFails: reapply() keeps the lock when it fails.
ConfigureFailsHolding(a) ==
  /\ op[a].at \in {"apply", "verify"} /\ Held(a) /\ ~Answers(a)
  /\ IF a # "session"
     THEN op' = [op EXCEPT ![a] = Idle] /\ UNCHANGED <<queue, at>>
     ELSE Release(a) /\ at' = "failed_session"
  /\ UNCHANGED <<device, stop, link, gen, flags, backoff, used, history>>

\* A refusal (ProfileError), or silence (LinkTimeout): on a dead link, or now
\* and then.  Silence at the first verification is a ProfileError as well.
ConfigureFails(a) ==
  /\ op[a].at \in {"apply", "verify"} /\ Held(a)
  /\ \/ ~Answers(a) /\ UNCHANGED used
     \/ /\ Answers(a) /\ {"refuse", "silence"} \cap plan.kinds # {} /\ used.faults < plan.faults
        /\ used' = [used EXCEPT !.faults = @ + 1]
  /\ Release(a)
  /\ IF a # "session" THEN UNCHANGED at
     ELSE \/ at' = "failed_session" /\ (~Answers(a) \/ "silence" \in plan.kinds)
          \/ at' = "refused_session"
               /\ \/ Answers(a) /\ "refuse" \in plan.kinds
                  \/ op[a].at = "verify" /\ ~once
  /\ UNCHANGED <<device, stop, link, gen, flags, backoff, history>>

-----------------------------------------------------------------------------
(* The API *)

\* _controller(): only a connected, active receiver takes requests.
Asks ==
  /\ ~plan.passive /\ link # "none"
  /\ used.requests < plan.requests
  /\ used' = [used EXCEPT !.requests = @ + 1]

AskReapply ==
  /\ Asks
  /\ op["reapply"] = Idle
  /\ Ask("reapply", [at |-> "wait", first |-> TRUE, gen |-> 0, kind |-> "none"])
  /\ UNCHANGED <<device, at, stop, link, gen, flags, backoff, history>>

\* Unless a run asks for it, no reset is asked for while a configure is under
\* way or waiting.
AskReset(kind) ==
  /\ Asks
  /\ op["reset"] = Idle
  /\ (queue = <<>> /\ at = "watching") \/ "reset_queued" \in plan.kinds
  /\ Ask("reset", [at |-> "wait", first |-> FALSE, gen |-> 0, kind |-> kind])
  /\ UNCHANGED <<device, at, stop, link, gen, flags, backoff, history>>

\* reset() with the lock held: none of its writes waits, so it is one step.
\* The device restarts and its USB port goes away; a factory reset wipes it.
ResetRuns ==
  /\ Held("reset")
  /\ Release("reset")
  /\ IF link = "live" /\ wire
     THEN /\ flash' = (flash /\ op["reset"].kind # "factory")
          /\ first' = (first \/ op["reset"].kind = "factory")
          /\ plugged' = FALSE /\ wire' = FALSE /\ ram' = FALSE
     ELSE UNCHANGED <<device, first>>
  /\ UNCHANGED <<at, stop, link, gen, once, reported, failures, backoff, used, history>>

-----------------------------------------------------------------------------
(* The device and the process *)

Unplug ==
  /\ plugged /\ used.drops < plan.drops
  /\ plugged' = FALSE /\ wire' = FALSE /\ ram' = FALSE
  /\ used' = [used EXCEPT !.drops = @ + 1]
  /\ UNCHANGED <<flash, at, stop, link, gen, flags, backoff, locks, history>>

\* The device (or another one, fresh from its box) comes up from its flash.
Plug ==
  /\ ~plugged
  /\ plugged' = TRUE
  /\ \/ UNCHANGED <<flash, swapped>>
     \/ "swap" \in plan.kinds /\ flash' = FALSE /\ swapped' = TRUE
  /\ ram' = flash'
  /\ UNCHANGED <<wire, at, stop, link, gen, flags, backoff, locks, used, said, fails>>

StopRequested ==
  /\ ~stop
  /\ stop' = TRUE
  /\ UNCHANGED <<device, at, link, gen, flags, backoff, locks, used, history>>

Finished ==
  /\ at \in {"ended", "failed"}
  /\ UNCHANGED vars

Session ==
  \/ OpenSucceeds \/ StoppedBetween \/ BackoffEnds \/ SessionConfigured
  \/ StopWhileConfiguring \/ WatchdogFires \/ WatchdogStops \/ LinkStops \/ SessionEnds

Next ==
  /\ \/ \E r \in Reasons : OpenFails(r)
     \/ OpenSucceeds \/ StoppedBetween \/ BackoffEnds \/ SessionConfigured
     \/ StopWhileConfiguring \/ WatchdogFires \/ WatchdogStops \/ SourceEnds
     \/ LinkStops \/ SessionEnds
     \/ \E a \in {"session", "reapply"} :
          ConfigureStarts(a) \/ ConfigureApplies(a) \/ ConfigureVerified(a) \/ ConfigureFails(a)
     \/ AskReapply \/ ResetRuns
     \/ \E kind \in {"hot", "factory"} : AskReset(kind)
     \/ Unplug \/ Plug \/ StopRequested
     \/ Finished
  /\ UNCHANGED plan

\* Every task that can go on does; a request is answered or times out; a
\* device that opens now and then is opened; one that went away is put back.
Fairness ==
  /\ WF_vars(Session /\ UNCHANGED plan) /\ SF_vars(OpenSucceeds /\ UNCHANGED plan)
  /\ \A a \in {"session", "reapply"} :
       WF_vars((\/ ConfigureStarts(a) \/ ConfigureApplies(a)
                \/ ConfigureVerified(a) \/ ConfigureFails(a)) /\ UNCHANGED plan)
  /\ WF_vars(ResetRuns /\ UNCHANGED plan) /\ WF_vars(Plug /\ UNCHANGED plan)

Spec == Init /\ [][Next]_vars /\ Fairness

-----------------------------------------------------------------------------
(* Properties *)

\* The wait before the next attempt is the ladder's for the number of waits
\* since a session was last configured (a session that was only opened earns
\* nothing, _session), and never past its top.
BackoffIsLadder == backoff = Min2(fails, MaxBackoff)

\* An outage is announced by one receiver.disconnected, however often and for
\* whatever reasons the device fails to open in it (_report_open_failure),
\* and before run() first waits.
OneReportPerOutage == said <= 1 /\ (at = "backoff" => said = 1)

Configuring == \E a \in {"session", "reapply"} : op[a].at \in {"apply", "verify"}

\* A session that watches a receiver with the profile in RAM has it in flash
\* as well: `_first_apply` is up until flash has been written (reset, reapply,
\* _configure_or_stop).
ProfileKept ==
  at = "watching" /\ ~plan.passive /\ wire /\ ram /\ ~Configuring => flash

\* ProfileKept, factory resets included, for the receiver that was configured
\* first and resets that did not wait behind a configure.
ProfileInFlash == ~swapped /\ "reset_queued" \notin plan.kinds => ProfileKept

\* A daemon that is not stopped comes to serve a configured receiver, again
\* and again, unless its first start is refused or its replay is over: a
\* refusal never ends one that has served (_session).  After a stop run()
\* returns, from whatever it was waiting for.
ServesOrEnds ==
  /\ []<>(stop \/ at \in {"watching", "ended"} \/ (at = "failed" /\ plan.strict /\ ~once))
  /\ stop ~> at \in {"ended", "failed"}

\* reapply() and reset() answer, also on a link that died under them.
RequestsEnd == \A a \in {"reapply", "reset"} : []<>(op[a] = Idle)

\* Over any sequence of outages, refusals, resets and reapplies: one report an
\* outage, the ladder's wait before each attempt, and the profile in flash
\* where it is in RAM (run, _session, _configure_or_stop, reset).
SessionsAccounted == BackoffIsLadder /\ OneReportPerOutage /\ ProfileInFlash

\* The supervisor serves or ends, and its callers get their answers.
ServesAndAnswers == ServesOrEnds /\ RequestsEnd

=============================================================================
