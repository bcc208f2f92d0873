------------------------------ MODULE BaseMode ------------------------------
(***************************************************************************)
(* The base's TMODE (src/mtrtk/base/basemode.py) and the requests that     *)
(* move it (web/api/base.py, web/api/config.py, `mtrtk sites activate`).   *)
(*                                                                         *)
(* Five tasks of one event loop reach the receiver: the loop of run()      *)
(* ("loop"), the poll of the active row ("poll"), an API activation        *)
(* ("api"), a change of settings ("put") and a restart of the survey       *)
(* ("restart").  `_apply_lock` is a FIFO lock; the settings lock lets one  *)
(* "put" run at a time.  A step of the model runs from one await to the    *)
(* next; the reads of the database inside one helper are one step.         *)
(*                                                                         *)
(* A TMODE is a pair: Off, Svin or the identity <<name, edition>> of a     *)
(* site row, which stands for its coordinates.  A write is taken or        *)
(* refused by the receiver and answered, or its answer is lost.            *)
(***************************************************************************)
EXTENDS Naturals, Sequences, FiniteSets

CONSTANTS
  Names,        \* names of sites
  MaxEditions,  \* bound: rows ever made under one name
  Plans         \* the situations to check: how a run may start (starts), the kinds of
                \* request it makes (asks) and how many (requests), the settings a
                \* "put" may ask for (bodies), the faults it has (kinds, faults), how
                \* many connections are lost (drops) and how many broadcast frames
                \* run() has queued (inbox)

AllRequests == {"activate", "put", "restart", "cli_activate", "cli_delete", "add"}
NoName == "-"
Modes == {"off", "svin", "fixed"}

FaultKinds == {"nak", "timeout", "factory_reset"}

ASSUME BaseModeAssumption ==
  /\ NoName \notin Names /\ MaxEditions \in Nat
  /\ \A p \in Plans :
       /\ {p.requests, p.faults, p.drops, p.inbox} \subseteq Nat
       /\ p.asks \subseteq AllRequests /\ p.kinds \subseteq FaultKinds
       /\ p.bodies \subseteq [mode : Modes, site : Names \cup {NoName}, svin : BOOLEAN]
       /\ \A b \in p.bodies : b.site # NoName => b.mode = "fixed"
       /\ p.starts \subseteq [mode : Modes, site : Names \cup {NoName}, act : Names \cup {NoName}]

Off == <<"off", 0>>
Svin == <<"svin", 0>>
NoSite == <<NoName, 0>>
Kind(t) == IF t = Off THEN "off" ELSE IF t = Svin THEN "svin" ELSE "fixed"

\* What run() reads from its subscription besides a broadcast position.
Capabilities == <<"receiver.capabilities", 0>>
Surveyed == <<"surveyed", 0>>
NotTimeOnly == <<"state.fix", 0>>

Actors == {"loop", "poll", "api", "put", "restart"}
Idle == [at |-> "idle", w |-> NoSite, taken |-> "no"]
NoBody == [mode |-> "off", site |-> NoName, changed |-> {}]

VARIABLES
  plan,      \* the situation of this run; never changes
  rcv,       \* the TMODE the receiver is really in
  link,      \* "down", "open" (a link, not yet configured) or "ready"
  row,       \* row[n]: edition of the row named n, 0 when there is none
  made,      \* made[n]: rows made under n so far
  act,       \* name of the active row
  env,       \* BASE_MODE and ACTIVE_SITE of the .env file
  settings,  \* the same two keys of the running settings
  mode, siteName, applied, verify, deadline, nak, baseline, \* the manager
  inbox,     \* run()'s subscription
  op,        \* op[a]: where a task stands, what it writes, whether it landed
  queue,     \* _apply_lock: its holder, then those that wait
  body,      \* the settings change in progress
  used,      \* requests, faults and drops so far
  begun,     \* the first apply_mode() of run() read its baseline (history)
  fresh,     \* a row was activated since                      (history)
  owed,      \* row activated from the command line, not applied (history)
  doubt      \* the manager may not know the receiver's mode   (history)

world == <<rcv, link>>
rows == <<row, made, act>>
config == <<env, settings>>
verdict == <<applied, verify, deadline>>
manager == <<mode, siteName, verdict, nak, baseline>>
tasks == <<inbox, op, queue, body>>
history == <<begun, fresh, owed, doubt>>
vars == <<plan, world, rows, config, manager, tasks, used, history>>

Active == IF act = NoName THEN NoSite ELSE <<act, row[act]>>
Holder == IF queue = <<>> THEN "nobody" ELSE Head(queue)
Holds(a, at) == Holder = a /\ op[a].at = at

Init ==
  /\ plan \in Plans
  /\ \E s \in plan.starts :
       /\ act = s.act /\ mode = s.mode /\ siteName = s.site
       /\ env = [mode |-> s.mode, site |-> s.site]
       /\ settings = [mode |-> s.mode, site |-> s.site]
  /\ row = [n \in Names |-> 1] /\ made = [n \in Names |-> 1]
  /\ rcv \in {Off, Svin} /\ link = "down"
  /\ applied = NoSite /\ verify = "none" /\ deadline = "none"
  /\ nak = NoSite /\ baseline = NoSite
  /\ inbox = <<>> /\ queue = <<>> /\ body = NoBody
  /\ op = [a \in Actors |-> Idle]
  /\ used = [requests |-> 0, faults |-> 0, drops |-> 0]
  /\ begun = FALSE /\ fresh = FALSE /\ owed = NoSite
  /\ doubt = TRUE

-----------------------------------------------------------------------------
(* Helpers of the manager *)

ClearVerification ==
  /\ applied' = NoSite /\ verify' = "none" /\ deadline' = "none"

Release(a) ==
  /\ queue' = Tail(queue)
  /\ op' = [op EXCEPT ![a] = Idle]

Wait(a, w) ==
  /\ queue' = Append(queue, a)
  /\ op' = [op EXCEPT ![a] = [at |-> "wait", w |-> w, taken |-> "no"]]

\* A write that did not land leaves a doubt, unless it was one that changes
\* nothing before its answer: an offer of the poll or of an activation.
Doubtful(a, at) == at # "fixed" \/ a \in {"loop", "put"}

\* controller.apply_items(): with no link it raises, and the exception ends
\* the task's request with everything set before it still set.
Write(a, at, w) ==
  /\ IF link = "down"
     THEN /\ Release(a)
          /\ doubt' = (doubt \/ Doubtful(a, at))
     ELSE /\ op' = [op EXCEPT ![a] = [at |-> at, w |-> w, taken |-> "no"]]
          /\ UNCHANGED <<queue, doubt>>

ApplyTmode(a, at, w) == ClearVerification /\ Write(a, at, w)

ApplyFixed(a, s) == Write(a, "fixed", s) /\ UNCHANGED verdict

-----------------------------------------------------------------------------
(* apply_mode(), for the loop and for a settings change *)

ApplyMode(a) ==
  /\ a \in {"loop", "put"} /\ Holds(a, "wait")
  /\ nak' = NoSite
  /\ op' = [op EXCEPT ![a].at = IF mode = "fixed" THEN "resolve" ELSE "read"]
  /\ UNCHANGED <<world, rows, config, mode, siteName, verdict, baseline, inbox, queue, body, used, history>>

\* _resolve_site(): the configured site when it has a row, else the active one.
Resolved ==
  IF siteName # NoName /\ row[siteName] # 0 THEN <<siteName, row[siteName]>> ELSE Active

\* A settings change is the operator's latest word on the active row.
Superseded(a) == owed' = IF a = "put" THEN NoSite ELSE owed

ResolveSite(a) ==
  /\ Holds(a, "resolve")
  /\ LET s == Resolved IN
       /\ baseline' = s
       /\ IF s # NoSite
          THEN /\ act' = s[1]
               /\ ApplyFixed(a, s)
               /\ UNCHANGED mode
          ELSE /\ mode' = "svin"
               /\ ApplyTmode(a, "tmode", Svin)
               /\ UNCHANGED act
  /\ begun' = (begun \/ a = "loop") /\ fresh' = FALSE /\ Superseded(a)
  /\ UNCHANGED <<world, row, made, config, siteName, nak, inbox, body, used>>

\* The mode is read again here, after the await.
ReadActive(a) ==
  /\ Holds(a, "read")
  /\ baseline' = Active
  /\ ApplyTmode(a, "tmode", IF mode = "off" THEN Off ELSE Svin)
  /\ begun' = (begun \/ a = "loop") /\ fresh' = FALSE /\ Superseded(a)
  /\ UNCHANGED <<world, rows, config, mode, siteName, nak, inbox, body, used>>

-----------------------------------------------------------------------------
(* The other holders of the lock *)

\* activate_site(): the row first, in its own transaction, then the receiver.
\* An unknown name is a KeyError.
ActivateSite ==
  /\ Holds("api", "wait")
  /\ LET n == op["api"].w[1] IN
       IF row[n] = 0
       THEN Release("api") /\ UNCHANGED <<act, verdict, fresh, owed, doubt>>
       ELSE /\ act' = n /\ fresh' = TRUE /\ owed' = NoSite
            /\ ApplyFixed("api", <<n, row[n]>>)
  /\ UNCHANGED <<world, row, made, config, mode, siteName, nak, baseline, inbox, body, used, begun>>

\* What _poll_active_site() finds worth applying.
Offers ==
  /\ Active # NoSite /\ Active # nak
  /\ IF mode = "fixed" THEN applied # Active ELSE baseline # Active

PollOffers ==
  /\ Holds("poll", "wait")
  /\ Offers
  /\ ApplyFixed("poll", Active)
  /\ UNCHANGED <<world, rows, config, mode, siteName, nak, baseline, inbox, body, used, begun, fresh, owed>>

PollFindsNothing ==
  /\ Holds("poll", "wait")
  /\ ~Offers
  /\ Release("poll")
  /\ UNCHANGED <<world, rows, config, manager, inbox, body, used, history>>

\* restart_survey_in(): TMODE off first.
RestartStop ==
  /\ Holds("restart", "wait")
  /\ mode' = "off"
  /\ ApplyTmode("restart", "stop", Off)
  /\ UNCHANGED <<world, rows, config, siteName, nak, baseline, inbox, body, used, begun, fresh, owed>>

-----------------------------------------------------------------------------
(* The receiver and its answer *)

Writing(a) == Holder = a /\ op[a].at \in {"tmode", "fixed", "stop", "survey"}

\* The receiver takes the configuration it was sent.
ReceiverTakes(a) ==
  /\ Writing(a) /\ op[a].taken = "no"
  /\ rcv' = op[a].w
  /\ op' = [op EXCEPT ![a].taken = "yes"]
  /\ UNCHANGED <<link, rows, config, manager, inbox, queue, body, used, history>>

\* _activate() mirrors what the manager ended up in, refused or not.
Mirror(a, m) ==
  settings' = IF a = "api" THEN [mode |-> m, site |-> op[a].w[1]] ELSE settings

\* Mutant of AckFixed: the manager keeps the mode it was in.
AckFixedKeepsMode(a) ==
  /\ op[a].at = "fixed" /\ op[a].taken = "yes" /\ Writing(a)
  /\ applied' = op[a].w /\ verify' = "none" /\ deadline' = "running"
  /\ nak' = NoSite
  /\ owed' = IF owed = op[a].w THEN NoSite ELSE owed
  /\ doubt' = FALSE
  /\ Mirror(a, mode) /\ Release(a)
  /\ UNCHANGED <<world, rows, env, mode, siteName, baseline, inbox, body, used, begun, fresh>>

AckFixed(a) ==
  /\ op[a].at = "fixed" /\ op[a].taken = "yes" /\ Writing(a)
  /\ applied' = op[a].w /\ verify' = "none" /\ deadline' = "running"
  /\ mode' = "fixed" /\ nak' = NoSite
  /\ owed' = IF owed = op[a].w THEN NoSite ELSE owed
  /\ doubt' = FALSE
  /\ Mirror(a, "fixed") /\ Release(a)
  /\ UNCHANGED <<world, rows, env, siteName, baseline, inbox, body, used, begun, fresh>>

AckTmode(a) ==
  /\ op[a].at \in {"tmode", "survey"} /\ op[a].taken = "yes" /\ Writing(a)
  /\ doubt' = FALSE
  /\ Release(a)
  /\ UNCHANGED <<world, rows, config, manager, inbox, body, used, begun, fresh, owed>>

\* The stop landed: the survey-in goes out at once.
AckStop ==
  /\ op["restart"].at = "stop" /\ op["restart"].taken = "yes" /\ Writing("restart")
  /\ mode' = "svin"
  /\ ApplyTmode("restart", "survey", Svin)
  /\ UNCHANGED <<world, rows, config, siteName, nak, baseline, inbox, body, used, begun, fresh, owed>>

\* A refused or unanswered write.  The restart puts the mode where it takes
\* the receiver to be; the others leave it.
NotApplied(a) ==
  /\ mode' = CASE op[a].at = "stop" -> "svin" [] op[a].at = "survey" -> "off" [] OTHER -> mode
  /\ Mirror(a, mode)
  /\ Release(a)
  /\ UNCHANGED <<world, rows, env, siteName, verdict, baseline, inbox, body, begun, fresh>>

Nak(a) ==
  /\ "nak" \in plan.kinds /\ used.faults < plan.faults
  /\ Writing(a) /\ op[a].taken = "no"
  /\ nak' = IF op[a].at = "fixed" THEN op[a].w ELSE nak
  /\ owed' = IF op[a].at = "fixed" /\ owed = op[a].w THEN NoSite ELSE owed
  /\ doubt' = (doubt \/ Doubtful(a, op[a].at))
  /\ used' = [used EXCEPT !.faults = @ + 1]
  /\ NotApplied(a)

\* LinkTimeout: after a loss, or because the link was stopped under it.
Timeout(a) ==
  /\ Writing(a)
  /\ \/ op[a].taken = "dropped" /\ UNCHANGED used
     \/ /\ op[a].taken # "dropped"
        /\ "timeout" \in plan.kinds /\ used.faults < plan.faults
        /\ used' = [used EXCEPT !.faults = @ + 1]
  /\ doubt' = TRUE
  /\ NotApplied(a)
  /\ UNCHANGED <<nak, owed>>

-----------------------------------------------------------------------------
(* The connection *)

LinkOpens ==
  /\ link = "down"
  /\ link' = "open"
  /\ UNCHANGED <<rcv, rows, config, manager, tasks, used, history>>

\* The profile is in: `receiver.capabilities` is published.
Configured ==
  /\ link = "open"
  /\ link' = "ready"
  /\ inbox' = Append(inbox, Capabilities)
  /\ UNCHANGED <<rcv, rows, config, manager, op, queue, body, used, history>>

\* link.stop() fails the request in flight.  TMODE is in flash: the receiver
\* comes back in it, unless it was reset to its factory configuration.
LinkDrops ==
  /\ link # "down" /\ used.drops < plan.drops
  /\ link' = "down"
  /\ \/ UNCHANGED <<rcv, doubt>>
     \/ "factory_reset" \in plan.kinds /\ rcv' = Off /\ doubt' = TRUE
  /\ op' = [a \in Actors |-> IF Writing(a) THEN [op[a] EXCEPT !.taken = "dropped"] ELSE op[a]]
  /\ used' = [used EXCEPT !.drops = @ + 1]
  /\ UNCHANGED <<rows, config, manager, inbox, queue, body, begun, fresh, owed>>

\* A receiver on a fixed position broadcasts it; one that has finished its
\* survey-in broadcasts what it surveyed.
Broadcast ==
  /\ link # "down" /\ rcv # Off /\ Len(inbox) < plan.inbox
  /\ inbox' = Append(inbox, IF rcv = Svin THEN Surveyed ELSE rcv)
  /\ UNCHANGED <<world, rows, config, manager, op, queue, body, used, history>>

\* A fix that is not "time only": the receiver navigates, or has not settled
\* on its fixed position yet.
Navigates ==
  /\ link # "down" /\ inbox = <<>> /\ plan.inbox > 0
  /\ inbox' = <<NotTimeOnly>>
  /\ UNCHANGED <<world, rows, config, manager, op, queue, body, used, history>>

-----------------------------------------------------------------------------
(* run(): one message at a time; a handler that waits holds the queue up *)

HandleCapabilities ==
  /\ op["loop"] = Idle /\ inbox # <<>> /\ Head(inbox) = Capabilities
  /\ inbox' = Tail(inbox)
  /\ Wait("loop", NoSite)
  /\ UNCHANGED <<world, rows, config, manager, body, used, history>>

\* Mutant of On1005: a verdict once given is not given again.
On1005Once ==
  /\ op["loop"] = Idle /\ inbox # <<>> /\ Head(inbox) \notin {Capabilities, NotTimeOnly}
  /\ inbox' = Tail(inbox)
  /\ verify' = IF mode # "fixed" \/ applied = NoSite \/ verify # "none" THEN verify
               ELSE IF Head(inbox) = applied THEN "verified" ELSE "mismatched"
  /\ UNCHANGED <<world, rows, config, mode, siteName, applied, deadline, nak, baseline, op, queue, body, used, history>>

On1005 ==
  /\ op["loop"] = Idle /\ inbox # <<>> /\ Head(inbox) \notin {Capabilities, NotTimeOnly}
  /\ inbox' = Tail(inbox)
  /\ verify' = IF mode # "fixed" \/ applied = NoSite THEN verify
               ELSE IF Head(inbox) = applied THEN "verified" ELSE "mismatched"
  /\ UNCHANGED <<world, rows, config, mode, siteName, applied, deadline, nak, baseline, op, queue, body, used, history>>

OnFix ==
  /\ op["loop"] = Idle /\ inbox # <<>> /\ Head(inbox) = NotTimeOnly
  /\ inbox' = Tail(inbox)
  /\ verify' = IF mode = "fixed" /\ applied # NoSite /\ verify = "none" /\ deadline = "passed"
               THEN "mismatched" ELSE verify
  /\ UNCHANGED <<world, rows, config, mode, siteName, applied, deadline, nak, baseline, op, queue, body, used, history>>

\* VERIFY_DEADLINE_S go by.
DeadlinePasses ==
  /\ deadline = "running"
  /\ deadline' = "passed"
  /\ UNCHANGED <<world, rows, config, mode, siteName, applied, verify, nak, baseline, tasks, used, history>>

\* poll_s go by.
PollDue ==
  /\ op["poll"] = Idle
  /\ Wait("poll", NoSite)
  /\ UNCHANGED <<world, rows, config, manager, inbox, body, used, history>>

-----------------------------------------------------------------------------
(* Requests *)

Asks(kind) ==
  /\ kind \in plan.asks /\ used.requests < plan.requests
  /\ used' = [used EXCEPT !.requests = @ + 1]

\* POST /sites/{name}/activate; a survey frozen with `activate` ends here too.
AskActivate(n) ==
  /\ Asks("activate")
  /\ op["api"] = Idle /\ row[n] # 0
  /\ Wait("api", <<n, row[n]>>)
  /\ UNCHANGED <<world, rows, config, manager, inbox, body, history>>

\* POST /survey/restart: the mode is looked at before the lock.
AskRestart ==
  /\ Asks("restart")
  /\ op["restart"] = Idle /\ mode = "svin"
  /\ Wait("restart", NoSite)
  /\ UNCHANGED <<world, rows, config, manager, inbox, body, history>>

\* The keys of a PUT that differ from the running settings or from .env.
Changed(b) ==
  {k \in {"mode", "site", "svin"} :
     \/ k = "mode" /\ (b.mode # settings.mode \/ b.mode # env.mode)
     \/ k = "site" /\ b.site # NoName /\ (b.site # settings.site \/ env.site \notin {NoName, b.site})
     \/ k = "svin" /\ b.svin}

\* PUT /mode up to its write of .env; nothing to change is nothing done, and
\* `fixed` with no site to sit on is a 409.
AskPut(b) ==
  /\ Asks("put")
  /\ op["put"] = Idle /\ Changed(b) # {}
  /\ LET site == IF b.site # NoName THEN b.site ELSE settings.site IN
       /\ (b.mode = "fixed" /\ Changed(b) \cap {"mode", "site"} # {})
            => (site # NoName /\ row[site] # 0) \/ Active # NoSite
       /\ body' = [mode |-> b.mode, site |-> b.site, changed |-> Changed(b)]
  /\ op' = [op EXCEPT !["put"].at = "env"]
  /\ UNCHANGED <<world, rows, config, manager, inbox, queue, history>>

\* _already_applied()
AlreadyApplied(newMode, newSite) ==
  /\ newMode = mode
  /\ newMode = "fixed" => applied # NoSite /\ applied[1] = newSite
  /\ newMode = "svin" => "svin" \notin body.changed

\* The rest of apply_settings_change() and _apply_live(): the manager's mode
\* and site name are set without its lock.
PutLive ==
  /\ op["put"].at = "env"
  /\ env' = [mode |-> body.mode, site |-> IF body.site # NoName THEN body.site ELSE env.site]
  /\ settings' = [mode |-> IF "mode" \in body.changed THEN body.mode ELSE settings.mode,
                  site |-> IF "site" \in body.changed THEN body.site ELSE settings.site]
  /\ mode' = settings'.mode /\ siteName' = settings'.site
  /\ IF AlreadyApplied(mode', siteName')
     THEN op' = [op EXCEPT !["put"] = Idle] /\ UNCHANGED queue
     ELSE Wait("put", NoSite)
  /\ body' = NoBody
  /\ UNCHANGED <<world, rows, verdict, nak, baseline, inbox, used, history>>

\* `mtrtk sites activate`, another process: the row and nothing else.
CliActivate(n) ==
  /\ Asks("cli_activate")
  /\ row[n] # 0
  /\ act' = n /\ fresh' = TRUE
  /\ owed' = IF ~begun \/ <<n, row[n]>> \in {baseline, applied, nak} THEN NoSite ELSE <<n, row[n]>>
  /\ UNCHANGED <<world, row, made, config, manager, tasks, begun, doubt>>

\* SitesRepo.delete() refuses the active row.
CliDelete(n) ==
  /\ Asks("cli_delete")
  /\ row[n] # 0 /\ act # n
  /\ row' = [row EXCEPT ![n] = 0]
  /\ UNCHANGED <<world, made, act, config, manager, tasks, history>>

\* SitesRepo.add(), of a site entered by hand or frozen from a survey.
AddSite(n) ==
  /\ Asks("add")
  /\ row[n] = 0 /\ made[n] < MaxEditions
  /\ row' = [row EXCEPT ![n] = made[n] + 1]
  /\ made' = [made EXCEPT ![n] = @ + 1]
  /\ UNCHANGED <<world, act, config, manager, tasks, history>>

-----------------------------------------------------------------------------
Next ==
  /\ \/ \E a \in {"loop", "put"} : ApplyMode(a) \/ ResolveSite(a) \/ ReadActive(a)
     \/ ActivateSite \/ PollOffers \/ PollFindsNothing \/ RestartStop \/ AckStop
     \/ \E a \in Actors : ReceiverTakes(a) \/ AckFixed(a) \/ AckTmode(a) \/ Nak(a) \/ Timeout(a)
     \/ LinkOpens \/ Configured \/ LinkDrops \/ Broadcast \/ Navigates
     \/ HandleCapabilities \/ On1005 \/ OnFix \/ DeadlinePasses \/ PollDue
     \/ \E n \in Names : AskActivate(n) \/ CliActivate(n) \/ CliDelete(n) \/ AddSite(n)
     \/ AskRestart \/ PutLive
     \/ \E b \in plan.bodies : AskPut(b)
  /\ UNCHANGED plan

\* Every task that can go on does, the receiver takes what it is sent and its
\* answer arrives or is given up on, a lost connection is opened again and
\* configured, and the poll and the deadline are timers.  A broadcast is
\* disabled now and then by the bound on the inbox alone.
Fairness ==
  /\ \A a \in {"loop", "put"} :
       WF_vars((ApplyMode(a) \/ ResolveSite(a) \/ ReadActive(a)) /\ UNCHANGED plan)
  /\ WF_vars((ActivateSite \/ PollOffers \/ PollFindsNothing \/ RestartStop \/ AckStop) /\ UNCHANGED plan)
  /\ \A a \in Actors :
       WF_vars((ReceiverTakes(a) \/ AckFixed(a) \/ AckTmode(a) \/ Timeout(a)) /\ UNCHANGED plan)
  /\ WF_vars(LinkOpens /\ UNCHANGED plan) /\ WF_vars(Configured /\ UNCHANGED plan)
  /\ WF_vars((HandleCapabilities \/ On1005 \/ OnFix) /\ UNCHANGED plan)
  /\ WF_vars(DeadlinePasses /\ UNCHANGED plan) /\ WF_vars(PollDue /\ UNCHANGED plan)
  /\ WF_vars(PutLive /\ UNCHANGED plan)
  /\ SF_vars(Broadcast /\ UNCHANGED plan) /\ SF_vars(Navigates /\ UNCHANGED plan)

Spec == Init /\ [][Next]_vars /\ Fairness

-----------------------------------------------------------------------------
(* Properties *)

Quiet == queue = <<>> /\ \A a \in Actors : op[a] = Idle

\* When no request is in progress and the last write was acknowledged, the
\* mode and the site the manager reports are the ones the receiver is in,
\* whichever order activations, settings changes, restarts, polls and
\* reconnections came in (_apply_lock; _apply_fixed, _apply_tmode).
ModeMatchesReceiver ==
  Quiet /\ ~doubt => mode = Kind(rcv) /\ (mode = "fixed" => applied = rcv)

\* The poll ends a survey-in (or leaves TMODE off) only for a row somebody
\* activated after the mode was applied; the row that was active before is
\* left alone (_poll_baseline).  A poll that falls between the opening of the
\* link and the first apply_mode() has no baseline yet.
SurveyUndisturbed ==
  [][op["poll"].at = "wait" /\ op'["poll"].at = "fixed" /\ mode # "fixed" => fresh \/ ~begun]_vars

\* What the 1005 check says of the applied site comes to agree with what the
\* receiver broadcasts, whatever stale frames were queued when it was
\* applied (on_1005, on_fix).
VerdictCatchesUp ==
  []<>(plan.inbox > 0 /\ mode = "fixed" /\ applied # NoSite
         => verify = IF rcv = applied THEN "verified" ELSE "mismatched")

\* A row activated from the command line is applied by the poll, refused by
\* the receiver, or overtaken by a later request of the operator.  (After a
\* reconnection it may be taken for the poll's baseline instead.)
ActivationLands == plan.drops = 0 /\ owed # NoSite ~> owed = NoSite

\* The poll disturbs no survey, the 1005 check comes to agree with what is
\* broadcast, and an activation lands.
ModeFollows == SurveyUndisturbed /\ VerdictCatchesUp /\ ActivationLands

=============================================================================
