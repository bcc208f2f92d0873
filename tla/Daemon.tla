------------------------------- MODULE Daemon -------------------------------
(***************************************************************************)
(* The process (src/mtrtk/daemon.py): startup, the supervised consumers,   *)
(* the rover's NTRIP client and the PUT that replaces it, servers that     *)
(* follow the tailnet address, and the ordered shutdown.                   *)
(*                                                                         *)
(* Three consumers stand for all: "web", a server behind _serve_on_bind    *)
(* (the caster is another), "rover", which owns the NTRIP client, and      *)
(* "writer", any other (raw log, sampler, alerts, retention...).           *)
(***************************************************************************)
EXTENDS Naturals, FiniteSets

CONSTANTS
  Puts,     \* PUT /api/rover/ntrip requests; each asks for its own URL
  MaxMoves, \* bound: changes of tailscale0's address
  Plans     \* the situations to check: the requests, moves of the address and
            \* faults (of consumers, binds, watchers, startup) each may have

BootUrl == "boot"           \* NTRIP_URL at startup
Urls == Puts \union {BootUrl}
Consumers == {"web", "rover", "writer"}

VARIABLES
  plan,      \* the situation of this run; never changes
  phase,     \* where run() stands
  stop,      \* the stop event
  db,        \* the connection is open
  con,       \* con[c]: where the consumer and its supervisor stand
  addr,      \* tailscale0's address now, 0 for none
  bound,     \* the address the server listens on, 0 for none
  found,     \* what the watcher returned: an address, or 0
  rover,     \* self.rover is published
  task,      \* _ntrip_task: the URL of the client it runs, or "none"
  client,    \* client[u]: the task of a client on u: "none", "run", "cancelled", "ended"
  put,       \* put[p]: where a PUT stands, the URL it may restore, the client it hangs up
  putLock,   \* rover_ntrip_lock
  ntripLock, \* _ntrip_lock
  url,       \* settings.ntrip_url
  env,       \* NTRIP_URL in .env
  moves, faults

serverVars == <<addr, bound, found, moves>>
ntripVars == <<rover, task, client, put, putLock, ntripLock, url, env>>
state == <<phase, stop, db, con, serverVars, ntripVars, faults>>
vars == <<plan, state>>

Idle == [at |-> "idle", prev |-> "none", old |-> "none"]

Init ==
  /\ plan \in Plans
  /\ phase = "open" /\ stop = FALSE /\ db = FALSE
  /\ con = [c \in Consumers |-> "off"]
  /\ addr \in {0, 1} /\ bound = 0 /\ found = 0
  /\ rover = FALSE /\ task = "none" /\ client = [u \in Urls |-> "none"]
  /\ put = [p \in Puts |-> Idle] /\ putLock = "free" /\ ntripLock = "free"
  /\ url = BootUrl /\ env = BootUrl
  /\ moves = 0 /\ faults = 0

Fault == faults < plan.faults /\ faults' = faults + 1

-----------------------------------------------------------------------------
(* run(): startup *)

OpenDatabase ==
  /\ phase = "open" /\ phase' = "restore" /\ db' = TRUE
  /\ UNCHANGED <<stop, con, serverVars, ntripVars, faults>>

\* restore(), leftover export directories, recover_incomplete(); then the
\* consumers start, and the receiver.
Launch ==
  /\ phase = "restore" /\ phase' = "serve"
  /\ con' = [c \in Consumers |-> "start"]
  /\ UNCHANGED <<stop, db, serverVars, ntripVars, faults>>

\* Startup raises: the same `finally` runs, with no task to wind down.
StartupFails ==
  /\ phase \in {"open", "restore"} /\ Fault
  /\ phase' = "loops" /\ stop' = TRUE
  /\ UNCHANGED <<db, con, serverVars, ntripVars>>

-----------------------------------------------------------------------------
(* _supervise *)

\* A consumer raised: reported, and retried after the backoff unless stopped.
Raised(c) == con' = [con EXCEPT ![c] = "backoff"]
Returned(c) == con' = [con EXCEPT ![c] = "done"]

BackoffEnds(c) ==
  /\ con[c] = "backoff"
  /\ con' = [con EXCEPT ![c] = IF stop THEN "done" ELSE "start"]
  /\ UNCHANGED <<phase, stop, db, serverVars, ntripVars, faults>>

\* `while not self.stop.is_set()`, before the first attempt.
NeverStarts(c) ==
  /\ con[c] = "start" /\ stop
  /\ Returned(c)
  /\ UNCHANGED <<phase, stop, db, serverVars, ntripVars, faults>>

-----------------------------------------------------------------------------
(* "writer": runs until stop; one that dies is raised out of _run_rawlog *)

WriterStarts ==
  /\ con["writer"] = "start" /\ ~stop
  /\ con' = [con EXCEPT !["writer"] = "run"]
  /\ UNCHANGED <<phase, stop, db, serverVars, ntripVars, faults>>

WriterDies ==
  /\ con["writer"] = "run" /\ Fault
  /\ Raised("writer")
  /\ UNCHANGED <<phase, stop, db, serverVars, ntripVars>>

\* On stop it drains and returns, or wedges until it is cancelled.
WriterReturns ==
  /\ con["writer"] = "run" /\ stop
  /\ \/ Returned("writer") /\ UNCHANGED faults
     \/ con' = [con EXCEPT !["writer"] = "wedged"] /\ Fault
  /\ UNCHANGED <<phase, stop, db, serverVars, ntripVars>>

-----------------------------------------------------------------------------
(* "web": _serve_on_bind *)

\* The interface gets, changes or loses its address.
AddressMoves ==
  /\ moves < plan.moves /\ moves' = moves + 1
  /\ addr' \in {0, moves + 2}
  /\ addr' # addr
  /\ UNCHANGED <<phase, stop, db, con, bound, found, ntripVars, faults>>

\* `wait_for_bind` and the bind; the port may be taken.
WebBinds ==
  /\ con["web"] = "start" /\ ~stop /\ addr # 0
  /\ \/ con' = [con EXCEPT !["web"] = "run"] /\ bound' = addr /\ UNCHANGED faults
     \/ Raised("web") /\ Fault /\ UNCHANGED bound
  /\ UNCHANGED <<phase, stop, db, addr, found, moves, ntripVars>>

\* `wait_for_rebind` has something to return: no address is nowhere to move to.
Rebinds == addr # 0 /\ addr # bound

\* The watcher returns the new address, or fails, and sets `until`.
WatcherReturns ==
  /\ con["web"] = "run" /\ ~stop /\ Rebinds
  /\ found' = addr
  /\ con' = [con EXCEPT !["web"] = "winding"]
  /\ UNCHANGED <<phase, stop, db, addr, bound, moves, ntripVars, faults>>

WatcherFails ==
  /\ con["web"] = "run" /\ ~stop /\ Fault
  /\ con' = [con EXCEPT !["web"] = "failing"]
  /\ UNCHANGED <<phase, stop, db, serverVars, ntripVars>>

\* uvicorn dies while serving.
ServerDies ==
  /\ con["web"] = "run" /\ Fault
  /\ Raised("web") /\ bound' = 0
  /\ UNCHANGED <<phase, stop, db, addr, found, moves, ntripVars>>

\* Mutant of WatcherRaises: what the watcher raised is not raised again.
WatcherRaisesNot == Returned("web")

\* A failed watcher is the consumer's failure.
WatcherRaises == Raised("web")

\* The server has wound down (stop, a move or a failed watcher).
ServerWound ==
  /\ \/ con["web"] = "run" /\ stop /\ Returned("web")
     \/ con["web"] = "failing" /\ WatcherRaises
     \/ con["web"] = "winding" /\ stop /\ Returned("web")
     \/ con["web"] = "winding" /\ ~stop /\ con' = [con EXCEPT !["web"] = "noting"]
  /\ bound' = 0
  /\ UNCHANGED <<phase, stop, db, addr, found, moves, ntripVars, faults>>

\* The event is recorded; the new address is bound, if it is still there.
Moved ==
  /\ con["web"] = "noting"
  /\ found' = 0
  /\ IF stop THEN Returned("web") /\ UNCHANGED bound
     ELSE IF found = addr THEN con' = [con EXCEPT !["web"] = "run"] /\ bound' = addr
     ELSE Raised("web") /\ UNCHANGED bound
  /\ UNCHANGED <<phase, stop, db, addr, moves, ntripVars, faults>>

\* `wait_for_bind` returns None on stop (NeverStarts).

-----------------------------------------------------------------------------
(* "rover": _run_rover *)

\* Services are built and published; a client starts when there is a URL to
\* use (none of this awaits), or something raises and is torn down again.
RoverStarts ==
  /\ con["rover"] = "start" /\ ~stop
  /\ \/ /\ con' = [con EXCEPT !["rover"] = "run"] /\ rover' = TRUE
        /\ \/ task' = url /\ client' = [client EXCEPT ![url] = "run"]
           \/ UNCHANGED <<task, client>>
        /\ UNCHANGED faults
     \/ Raised("rover") /\ Fault /\ UNCHANGED <<rover, task, client>>
  /\ UNCHANGED <<phase, stop, db, serverVars, put, putLock, ntripLock, url, env>>

Cancel(u) == [client EXCEPT ![u] = IF @ = "run" THEN "cancelled" ELSE @]

\* The teardown: unpublished, the client taken and cancelled.
RoverTearsDown ==
  /\ con["rover"] = "run" /\ stop
  /\ rover' = FALSE /\ task' = "none"
  /\ client' = IF task = "none" THEN client ELSE Cancel(task)
  /\ con' = [con EXCEPT !["rover"] = "teardown"]
  /\ UNCHANGED <<phase, stop, db, serverVars, put, putLock, ntripLock, url, env, faults>>

\* The client has hung up, and the collector and the outputs have ended.
RoverEnds ==
  /\ con["rover"] = "teardown" /\ \A u \in Urls : client[u] # "cancelled"
  /\ Returned("rover")
  /\ UNCHANGED <<phase, stop, db, serverVars, ntripVars, faults>>

\* A client's supervisor ends when it is cancelled, or on stop by itself.
ClientEnds(u) ==
  /\ client[u] = "cancelled" \/ (client[u] = "run" /\ stop)
  /\ client' = [client EXCEPT ![u] = "ended"]
  /\ UNCHANGED <<phase, stop, db, con, serverVars, rover, task, put, putLock, ntripLock,
                 url, env, faults>>

-----------------------------------------------------------------------------
(* PUT /api/rover/ntrip *)

Put(p, at) == put' = [put EXCEPT ![p].at = at]

PutArrives(p) ==
  /\ put[p].at = "idle" /\ p \in plan.puts /\ rover
  /\ Put(p, "queued")
  /\ UNCHANGED <<phase, stop, db, con, serverVars, rover, task, client, putLock, ntripLock,
                 url, env, faults>>

\* `async with ctx.rover_ntrip_lock`.
TakesPutLock(p) == putLock = "free" /\ putLock' = p

PutSaves(p) ==
  /\ put[p].at = "queued" /\ TakesPutLock(p)
  /\ Put(p, "saving")
  /\ UNCHANGED <<phase, stop, db, con, serverVars, rover, task, client, ntripLock, url, env,
                 faults>>

\* apply_settings_change wrote .env; the running settings follow it.
PutSaved(p) ==
  /\ put[p].at = "saving"
  /\ env' = p /\ url' = p
  /\ put' = [put EXCEPT ![p] = [at |-> "asking", prev |-> url, old |-> "none"]]
  /\ UNCHANGED <<phase, stop, db, con, serverVars, rover, task, client, putLock, ntripLock, faults>>

PutRefused(p) ==
  /\ put[p].at = "saving" /\ Fault
  /\ Put(p, "failed") /\ putLock' = "free"
  /\ UNCHANGED <<phase, stop, db, con, serverVars, rover, task, client, ntripLock, url, env>>

\* `_restart_ntrip` up to its await: no rover is an error, an old client is
\* cancelled and left in place while it hangs up.
Restarts(p) ==
  /\ put[p].at = "asking" /\ ntripLock = "free"
  /\ IF ~rover
     THEN /\ Put(p, "failed") /\ url' = put[p].prev /\ putLock' = "free"
          /\ UNCHANGED <<task, client, ntripLock>>
     ELSE IF task = "none"
     THEN /\ task' = p /\ client' = [client EXCEPT ![p] = "run"]
          /\ Put(p, "ok") /\ putLock' = "free"
          /\ UNCHANGED <<url, ntripLock>>
     ELSE /\ client' = Cancel(task)
          /\ put' = [put EXCEPT ![p].at = "hangup", ![p].old = task]
          /\ ntripLock' = p
          /\ UNCHANGED <<task, url, putLock>>
  /\ UNCHANGED <<phase, stop, db, con, serverVars, rover, env, faults>>

\* Mutant of StillThere: a rover that tore down meanwhile is not noticed.
StillThereAlways == TRUE

\* `self.rover is rover`, after the old client hung up.
StillThere == rover

\* The old client is gone: the new one starts, unless the rover is gone too.
Restarted(p) ==
  /\ put[p].at = "hangup" /\ client[put[p].old] = "ended"
  /\ ntripLock' = "free" /\ putLock' = "free"
  /\ IF StillThere
     THEN /\ task' = p /\ client' = [client EXCEPT ![p] = "run"]
          /\ Put(p, "ok") /\ UNCHANGED url
     ELSE /\ task' = IF task = put[p].old THEN "none" ELSE task
          /\ UNCHANGED client
          /\ Put(p, "failed") /\ url' = put[p].prev
  /\ UNCHANGED <<phase, stop, db, con, serverVars, rover, env, faults>>

-----------------------------------------------------------------------------
(* run(): the end *)

\* SIGTERM, then the receiver's run returns; or it raises (a strict profile).
StopRequested ==
  /\ phase = "serve" /\ ~stop /\ stop' = TRUE
  /\ UNCHANGED <<phase, db, con, serverVars, ntripVars, faults>>

ReceiverReturns ==
  /\ phase = "serve" /\ stop /\ phase' = "loops"
  /\ UNCHANGED <<stop, db, con, serverVars, ntripVars, faults>>

\* A replay reached its end: the state loop publishes the last epoch before
\* the consumers are told to stop.
ReplayEnds ==
  /\ phase = "serve" /\ ~stop /\ phase' = "drain"
  /\ UNCHANGED <<stop, db, con, serverVars, ntripVars, faults>>

Drained ==
  /\ phase = "drain" /\ phase' = "loops" /\ stop' = TRUE
  /\ UNCHANGED <<db, con, serverVars, ntripVars, faults>>

LoopsEnd ==
  /\ phase = "loops" /\ phase' = "consumers"
  /\ UNCHANGED <<stop, db, con, serverVars, ntripVars, faults>>

AllDone == \A c \in Consumers : con[c] \in {"off", "done"}

\* A wedged consumer ends when it is cancelled.
CancelledEnd == [c \in Consumers |-> IF con[c] = "wedged" THEN "done" ELSE con[c]]

\* _stop_consumers: the grace is over for a consumer that wedged.
GraceEnds ==
  /\ phase = "consumers" /\ \E c \in Consumers : con[c] = "wedged"
  /\ con' = CancelledEnd
  /\ UNCHANGED <<phase, stop, db, serverVars, ntripVars, faults>>

ConsumersEnd ==
  /\ phase = "consumers" /\ AllDone /\ phase' = "jobs"
  /\ UNCHANGED <<stop, db, con, serverVars, ntripVars, faults>>

JobsShutdown ==
  /\ phase = "jobs" /\ phase' = "close"
  /\ UNCHANGED <<stop, db, con, serverVars, ntripVars, faults>>

CloseDatabase ==
  /\ phase = "close" /\ phase' = "ended" /\ db' = FALSE
  /\ UNCHANGED <<stop, con, serverVars, ntripVars, faults>>

Main == OpenDatabase \/ Launch \/ ReceiverReturns \/ Drained \/ LoopsEnd \/ GraceEnds
        \/ ConsumersEnd \/ JobsShutdown \/ CloseDatabase
WebSteps == WebBinds \/ WatcherReturns \/ ServerWound \/ Moved
RoverSteps == RoverStarts \/ RoverTearsDown \/ RoverEnds
WriterSteps == WriterStarts \/ WriterReturns
PutSteps(p) == PutSaves(p) \/ PutSaved(p) \/ Restarts(p) \/ Restarted(p)

Next ==
  /\ \/ Main \/ StartupFails \/ StopRequested \/ ReplayEnds
     \/ \E c \in Consumers : BackoffEnds(c) \/ NeverStarts(c)
     \/ WriterSteps \/ WriterDies
     \/ AddressMoves \/ WebSteps \/ WatcherFails \/ ServerDies
     \/ RoverSteps
     \/ \E u \in Urls : ClientEnds(u)
     \/ \E p \in Puts : PutArrives(p) \/ PutSteps(p) \/ PutRefused(p)
  /\ UNCHANGED plan

\* The event loop runs what is ready; a cancelled client hangs up; the port
\* and the interface are the outside's.
Fairness ==
  /\ WF_state(Main)
  /\ \A c \in Consumers : WF_state(BackoffEnds(c)) /\ WF_state(NeverStarts(c))
  /\ WF_state(WriterSteps) /\ WF_state(WebSteps) /\ WF_state(RoverSteps)
  /\ \A u \in Urls : WF_state(ClientEnds(u))
  /\ \A p \in Puts : WF_state(PutSteps(p))

Spec == Init /\ [][Next]_vars /\ Fairness

-----------------------------------------------------------------------------
(* Properties *)

\* Whatever order requests, hang-ups and the teardown come in, no NTRIP client
\* runs that the daemon would not cancel: a running one is _ntrip_task (so
\* there is one at most), and none runs once the rover has ended.
NoOrphanClient ==
  \A u \in Urls : client[u] = "run" => task = u /\ con["rover"] = "run"

\* "two requests interleaved could leave .env naming one caster and the
\* running client pulling from the other": when no PUT is in progress, the
\* client, the running settings and .env name one caster.
CasterAgrees ==
  (~stop /\ \A p \in Puts : put[p].at \in {"idle", "queued", "ok", "failed"}) =>
    /\ url = env
    /\ task # "none" => task = url

\* "a daemon that bound then would listen on a dead address for good": the
\* server comes to listen on the interface's address, through moves, binds
\* that fail and watchers that fail.
FollowsAddress ==
  \A a \in 1 .. MaxMoves + 1 :
    addr = a /\ phase = "serve" ~> bound = a \/ addr # a \/ stop \/ phase # "serve"

\* Once asked to stop the process ends, with the database closed after every
\* consumer and client is done, even when one wedges.
StopEnds ==
  /\ stop ~> phase = "ended"
  /\ [](phase = "ended" => ~db /\ AllDone /\ \A u \in Urls : client[u] # "run")

\* The client that runs is the daemon's own, on the caster that .env and the
\* settings name (set_ntrip_url and the rover's teardown).
ClientOwned == NoOrphanClient /\ CasterAgrees

\* The server follows its address for as long as it serves, and a stop ends
\* everything.
ServesThenEnds == FollowsAddress /\ StopEnds

=============================================================================
