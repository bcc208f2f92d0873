------------------------------- MODULE Alerts -------------------------------
(***************************************************************************)
(* The alert engine (alerts.py) behind its two queues, beside the parts    *)
(* whose trouble it reports: the receiver's main link, the SBG Port B      *)
(* device with the task that holds it open (drivers/sbg/driver.py,         *)
(* drivers/factory.py), and sources of samples.                            *)
(* A handler runs alone (the _handling lock), so it is one action; a write *)
(* to the events table may fail at any of its emits and ends it there.     *)
(***************************************************************************)
EXTENDS Integers, Sequences, SequencesExt

CONSTANTS
  Plans,        \* [from, publish, ticks]: who publishes, how many messages, for how long
  EdgeQueue,    \* maxsize of the queue of edges
  SampleQueue,  \* SAMPLE_QUEUE
  HolderQueue,  \* maxsize of the Port B holder's subscription
  Grace,        \* the grace period of every sustained condition
  Dedup,        \* ONE_SHOT_DEDUP_S
  MaxFails

VARIABLES
  plan,
  edges, samples,   \* the engine's two subscriptions
  engine,           \* what AlertEngine remembers
  link, config,     \* the main link; the error of its session, or "none"
  outage,           \* _port_b_outage: the message last reported, or "none"
  failing, ready,   \* _port_b_failing, port_b_ready
  opened, reported, \* the holder's
  holder,           \* the holder's subscription
  last,             \* the last sample of each topic
  clock, published, fails, lost

engineVars == <<edges, samples, engine>>
portVars == <<outage, failing, ready, opened, reported>>
vars == <<plan, engineVars, link, config, portVars, holder, last, clock, published, fails, lost>>

Never == -1
Conditions ==
  {"receiver_disconnected", "receiver_error", "fix_lost", "jamming", "antenna_fault", "disk_low",
   "disk_warning", "temperature_high", "logger_backpressure", "sampler_failing", "site_mismatch",
   "ntrip_disconnected", "corrections_stale", "rtk_lost", "ins_not_aligned", "ins_gnss_lost",
   "imu_error", "ins_config_mismatch"}
Sustained == {"fix_lost", "jamming", "temperature_high", "rtk_lost", "ins_not_aligned",
              "ins_gnss_lost"}
Moments == {"log_pruned", "logger_error", "consumer_failed"}
PortB == {"open failed", "write failed"}   \* the messages that name the Port B device

Init ==
  /\ plan \in Plans
  /\ edges = <<>> /\ samples = <<>>
  /\ engine = [active |-> [k \in {} |-> ""], since |-> [k \in Sustained |-> Never],
               had |-> {}, behind |-> <<>>, shots |-> [k \in Moments |-> Never],
               survey |-> FALSE]
  /\ link = "none" /\ config = "none"
  /\ outage = "none" /\ failing = FALSE /\ ready = FALSE /\ opened = FALSE /\ reported = FALSE
  /\ holder = <<>> /\ last = [t \in {} |-> ""]
  /\ clock = 0 /\ published = 0 /\ fails = 0 /\ lost = FALSE

----------------------------------------------------------------------------
\* Rules.  A rule yields what it does to the engine, whether it writes an
\* event, and what is left of it when that write fails.
Quiet(e) == [to |-> e, emits |-> FALSE, failed |-> e]

Raise(e, kind, message) ==
  IF kind \in DOMAIN e.active THEN Quiet(e)
  ELSE [to |-> [e EXCEPT !.active = (kind :> message) @@ @], emits |-> TRUE, failed |-> e]

Clear(e, kind) ==
  LET without == [e EXCEPT !.active = [k \in DOMAIN @ \ {kind} |-> @[k]]] IN
  IF kind \notin DOMAIN e.active THEN Quiet(e)
  ELSE [to |-> without, emits |-> TRUE, failed |-> without]

OneShot(e, kind) ==
  LET marked == [e EXCEPT !.shots[kind] = clock] IN
  IF e.shots[kind] # Never /\ clock - e.shots[kind] < Dedup THEN Quiet(e)
  ELSE [to |-> marked, emits |-> TRUE, failed |-> marked]

\* A condition that holds while it is bad.
Level(e, kind, bad) == IF bad THEN Raise(e, kind, "") ELSE Clear(e, kind)

\* A condition raised by the first bad sample a grace period after the first.
Sustain(e, kind, bad) ==
  IF ~bad THEN Clear([e EXCEPT !.since[kind] = Never], kind)
  ELSE IF e.since[kind] = Never THEN Quiet([e EXCEPT !.since[kind] = clock])
  ELSE IF clock - e.since[kind] >= Grace THEN Raise(e, kind, "")
  ELSE Quiet(e)

\* Only what was once good can be lost.
Loses(e, kind, bad) ==
  IF ~bad THEN Sustain([e EXCEPT !.had = @ \cup {kind}], kind, FALSE)
  ELSE IF kind \in e.had THEN Sustain(e, kind, TRUE)
  ELSE Quiet(e)

\* Two thresholds: between them nothing changes.
Band(e, kind, value, raising, clearing) ==
  IF value = raising THEN Raise(e, kind, "")
  ELSE IF value = clearing THEN Clear(e, kind)
  ELSE Quiet(e)

\* A hot minute raises, a reading between the thresholds ends the minute.
Temperature(e, temp) ==
  IF temp = "none" THEN Quiet(e)
  ELSE IF temp = "hot" THEN Sustain(e, "temperature_high", TRUE)
  ELSE LET calm == [e EXCEPT !.since["temperature_high"] = Never] IN
       IF temp = "cool" THEN Clear(calm, "temperature_high") ELSE Quiet(calm)

\* survey_in_valid is said once per completion; a failed write says it again.
SurveyIn(e, valid) ==
  LET seen == [e EXCEPT !.survey = valid] IN
  IF valid /\ ~e.survey THEN [to |-> seen, emits |-> TRUE, failed |-> e] ELSE Quiet(seen)

\* Mutant: an error is forgotten while another one is active.
ErrorBehindNot(e, message) == e

\* receiver.error while another error holds the slot.
ErrorBehind(e, message) ==
  IF "receiver_error" \in DOMAIN e.active /\ e.active["receiver_error"] # message
  THEN [e EXCEPT !.behind = Append(SelectSeq(@, LAMBDA m : m # message), message)]
  ELSE e

Forget(e) == [e EXCEPT !.behind = <<>>]

Recovers(e) == "receiver_error" \in DOMAIN e.active /\ e.active["receiver_error"] \in PortB

\* After a Port B recovery: the newest error that is not Port B's.
RaiseBehind(e) ==
  LET others == SelectSeq(e.behind, LAMBDA m : m \notin PortB) IN
  IF others = <<>> THEN Quiet(Forget(e)) ELSE Raise(Forget(e), "receiver_error", Last(others))

\* The rules a message runs, in order: names, for Rule to apply.
Rules(topic, item) ==
  CASE topic = "receiver.disconnected" -> IF item = "source ended" THEN <<>> ELSE <<"down">>
    [] topic = "receiver.connected"    -> <<"align again", "up", "configured">>
    [] topic = "receiver.recovered"    -> <<"recovered", "behind">>
    [] topic = "receiver.capabilities" -> <<"configured">>
    [] topic = "state.hardware"        -> <<"jamming", "antenna_fault">>
    [] topic = "system.stats"          -> <<"disk_low", "disk_warning", "temperature">>
    [] topic = "state.rtk"             -> <<"corrections_stale", "rtk_lost">>
    [] topic = "state.ins"             -> <<"ins_not_aligned", "ins_gnss_lost", "imu_error">>
    [] OTHER                           -> <<topic>>

Rule(name, item, e) ==
  CASE name = "down"        -> Raise(e, "receiver_disconnected", "")
    [] name = "align again" -> Quiet([e EXCEPT !.since["ins_not_aligned"] = Never])
    [] name = "up"          -> Clear(e, "receiver_disconnected")
    [] name = "configured"  -> Clear(Forget(e), "receiver_error")
    [] name = "receiver.error" -> Raise(ErrorBehind(e, item), "receiver_error", item)
    [] name = "recovered"   -> IF Recovers(e) THEN Clear(e, "receiver_error") ELSE Quiet(e)
    [] name = "state.fix"   -> Loses(e, "fix_lost", item = "bad")
    [] name = "jamming"     -> Sustain(e, "jamming", item.jam)
    [] name = "antenna_fault" -> Level(e, "antenna_fault", item.antenna)
    [] name = "disk_low"    -> Band(e, "disk_low", item.free, "low", "ample")
    [] name = "disk_warning" -> Level(e, "disk_warning", item.free # "ample")
    [] name = "temperature" -> Temperature(e, item.temp)
    [] name = "corrections_stale" -> Band(e, "corrections_stale", item.age, "stale", "fresh")
    [] name = "rtk_lost"    -> Loses(e, "rtk_lost", ~item.fixed)
    [] name = "ins_not_aligned" ->
         IF item.mode = "none" THEN Quiet(e) ELSE Sustain(e, name, item.mode = "bad")
    [] name = "ins_gnss_lost" ->
         IF item.fix = "none" THEN Quiet(e) ELSE Loses(e, name, item.fix = "bad")
    [] name = "imu_error"   -> Band(e, "imu_error", item.imu, "bad", "good")
    [] name = "state.survey_in" -> SurveyIn(e, item)
    [] name = "logger_backpressure" -> Level(e, name, item = "backpressure")
    [] name = "sampler_failing" -> Level(e, name, item = "error")
    [] name = "site_mismatch" -> Level(e, name, item = "mismatch")
    [] name = "ntrip_disconnected" -> Band(e, name, item, "error", "connected")
    [] name = "ins_config_mismatch" -> Level(e, name, item = "mismatched")
    [] name \in Moments     -> OneShot(e, name)

\* A handler: its rules one after the other, until an event cannot be
\* written: `good` is how many of its events are.
Handle(topic, item, good) ==
  LET Next1(acc, name) ==
        LET r == IF name = "behind"
                 THEN IF acc.cleared THEN RaiseBehind(acc.e) ELSE Quiet(acc.e)
                 ELSE Rule(name, item, acc.e)
            dies == r.emits /\ acc.left = 0
        IN IF acc.dead THEN acc
           ELSE [e |-> IF dies THEN r.failed ELSE r.to, dead |-> dies,
                 left |-> IF r.emits /\ ~dies THEN acc.left - 1 ELSE acc.left,
                 cleared |-> Recovers(acc.e)]
  IN FoldLeft(Next1, [e |-> engine, dead |-> FALSE, left |-> good, cleared |-> FALSE],
              Rules(topic, item))

----------------------------------------------------------------------------
\* The bus: a full subscription loses its oldest message.
Into(queue, size, message) ==
  IF Len(queue) < size THEN Append(queue, message) ELSE Append(Tail(queue), message)

Publish(messages) ==
  /\ published + Len(messages) <= plan.publish
  /\ published' = published + Len(messages)
  /\ edges' = FoldLeft(LAMBDA q, m : Into(q, EdgeQueue, m), edges, messages)
  /\ lost' = (lost \/ Len(edges) + Len(messages) > EdgeQueue)
  /\ holder' = FoldLeft(LAMBDA q, m : Into(q, HolderQueue, m), holder,
                        SelectSeq(messages,
                          LAMBDA m : m[1] \in {"receiver.connected", "receiver.capabilities"}))

\* The main link, as Receiver and the INS controller publish it.
Connects ==
  /\ "link" \in plan.from /\ link \in {"none", "down"}
  /\ link' = "up" /\ config' = "none"
  /\ Publish(<<<<"receiver.connected", "">>>>)
  /\ UNCHANGED <<plan, samples, engine, portVars, last, clock, fails>>

Disconnects(reason) ==
  /\ "link" \in plan.from /\ link = "up"
  /\ link' = IF reason = "source ended" THEN "ended" ELSE "down"
  /\ Publish(<<<<"receiver.disconnected", reason>>>>)
  /\ UNCHANGED <<plan, samples, engine, config, portVars, last, clock, fails>>

ConfigFails(message) ==
  /\ "link" \in plan.from /\ link = "up"
  /\ config' = message
  /\ Publish(<<<<"receiver.error", message>>>>)
  /\ UNCHANGED <<plan, samples, engine, link, portVars, last, clock, fails>>

Configured ==
  /\ "link" \in plan.from /\ link = "up"
  /\ config' = "none"
  /\ Publish(<<<<"receiver.capabilities", "">>>>)
  /\ UNCHANGED <<plan, samples, engine, link, portVars, last, clock, fails>>

\* hold_port_b: one attempt to open the device.
OpenPortB ==
  /\ "port b" \in plan.from /\ ~opened
  /\ \/ /\ opened' = TRUE /\ reported' = FALSE /\ ready' = TRUE /\ failing' = FALSE
        /\ UNCHANGED <<outage, edges, holder, published, lost>>
     \/ /\ ~reported
        /\ reported' = TRUE /\ outage' = "open failed"
        /\ Publish(<<<<"receiver.error", "open failed">>>>)
        /\ UNCHANGED <<opened, ready, failing>>
  /\ UNCHANGED <<plan, samples, engine, link, config, last, clock, fails>>

\* hold_port_b: the driver found the device failing.
ClosePortB ==
  /\ "port b" \in plan.from /\ opened /\ failing
  /\ ready' = FALSE /\ opened' = FALSE
  /\ UNCHANGED <<plan, edges, samples, engine, link, config, outage, failing, reported, holder, last,
                 clock, published, fails, lost>>

\* hold_port_b's watcher: an edge that cleared receiver_error.
ReassertOutage == IF outage = "none" THEN <<>> ELSE <<<<"receiver.error", outage>>>>

Reassert ==
  /\ holder # <<>>
  /\ IF ReassertOutage = <<>>
     THEN holder' = Tail(holder) /\ UNCHANGED <<edges, published, lost>>
     ELSE /\ published < plan.publish
          /\ published' = published + 1
          /\ edges' = Into(edges, EdgeQueue, ReassertOutage[1])
          /\ lost' = (lost \/ Len(edges) = EdgeQueue)
          /\ holder' = Tail(holder)
  /\ UNCHANGED <<plan, samples, engine, link, config, portVars, last, clock, fails>>

\* inject_rtcm, to a Port B that is open.
Recovered == <<<<"receiver.recovered", "Port B">>>>

InjectRtcm ==
  /\ "port b" \in plan.from /\ ready
  /\ \/ /\ failing' = FALSE /\ outage' = "none"
        /\ IF outage = "none" THEN UNCHANGED <<edges, holder, published, lost>>
           ELSE Publish(Recovered)
     \/ /\ failing' = TRUE
        /\ IF outage = "none"
           THEN outage' = "write failed" /\ Publish(<<<<"receiver.error", "write failed">>>>)
           ELSE UNCHANGED <<outage, edges, holder, published, lost>>
  /\ UNCHANGED <<plan, samples, engine, link, config, ready, opened, reported, last, clock, fails>>

\* The other publishers of edges, and the last thing each of them said.
Says(topic, item) ==
  /\ topic \in plan.from
  /\ Publish(<<<<topic, item>>>>)
  /\ last' = (topic :> item) @@ last
  /\ UNCHANGED <<plan, samples, engine, link, config, portVars, clock, fails>>

Edge ==
  \/ \E item \in {"backpressure", "drained"} : Says("logger_backpressure", item)
  \/ \E item \in {"error", "recovered"} : Says("sampler_failing", item)
  \/ \E item \in {"mismatch", "verified"} : Says("site_mismatch", item)
  \/ \E item \in {"error", "connecting", "connected"} : Says("ntrip_disconnected", item)
  \/ \E item \in {"mismatched", "matches"} : Says("ins_config_mismatch", item)
  \/ \E item \in [free : {"low", "warning", "ample"}, temp : {"none", "hot", "warm", "cool"}] :
       Says("system.stats", item)
  \/ \E kind \in Moments : Says(kind, "")

\* A sample supersedes the one before it.
Sample(topic, item) ==
  /\ topic \in plan.from /\ published < plan.publish
  /\ samples' = Into(samples, SampleQueue, <<topic, item>>)
  /\ published' = published + 1
  /\ last' = (topic :> item) @@ last
  /\ UNCHANGED <<plan, edges, engine, link, config, portVars, holder, clock, fails, lost>>

Samples ==
  \/ \E item \in {"good", "bad"} : Sample("state.fix", item)
  \/ \E item \in [jam : BOOLEAN, antenna : BOOLEAN] : Sample("state.hardware", item)
  \/ \E item \in BOOLEAN : Sample("state.survey_in", item)
  \/ \E item \in [age : {"none", "stale", "fresh"}, fixed : BOOLEAN] : Sample("state.rtk", item)
  \/ \E item \in [mode : {"none", "bad", "good"}, fix : {"none", "bad", "good"},
                  imu : {"none", "bad", "good"}] : Sample("state.ins", item)

Tick ==
  /\ clock < plan.ticks /\ clock' = clock + 1
  /\ UNCHANGED <<plan, engineVars, link, config, portVars, holder, last, published, fails, lost>>

----------------------------------------------------------------------------
\* _consume: the next message of one of the two queues.
Consume(queue) ==
  \E good \in 0..3 :
    LET done == Handle(queue[1][1], queue[1][2], good) IN
    /\ done.dead => fails < MaxFails
    /\ ~done.dead => good = 3   \* every event is written
    /\ engine' = done.e
    /\ fails' = IF done.dead THEN fails + 1 ELSE fails
    /\ lost' = (lost \/ done.dead)
    /\ UNCHANGED <<plan, link, config, portVars, holder, last, clock, published>>

ConsumeEdge ==
  /\ edges # <<>> /\ edges' = Tail(edges) /\ UNCHANGED samples
  /\ Consume(edges)

ConsumeSample ==
  /\ samples # <<>> /\ samples' = Tail(samples) /\ UNCHANGED edges
  /\ Consume(samples)

Next ==
  \/ Connects \/ Configured
  \/ \E reason \in {"lost", "source ended"} : Disconnects(reason)
  \/ \E message \in {"c", "d"} : ConfigFails(message)
  \/ OpenPortB \/ ClosePortB \/ Reassert \/ InjectRtcm
  \/ Edge \/ Samples \/ Tick
  \/ ConsumeEdge \/ ConsumeSample

----------------------------------------------------------------------------
Drained == edges = <<>> /\ samples = <<>> /\ holder = <<>>

Said(topic, items) == topic \in DOMAIN last /\ last[topic] \in items

\* Once the engine has caught up, and if neither an edge nor an event was
\* lost on the way, `active` names what is wrong now: the link that is down,
\* the configuration error of this session or the open Port B outage (each
\* even after the other came, went or took the one slot), and for the other
\* conditions nothing that the last word of their publisher denies.  A sample
\* may be dropped for a newer one: that leaves no condition behind.
ActiveIsTruth ==
  (Drained /\ ~lost) =>
    /\ "receiver_disconnected" \in DOMAIN engine.active <=> link = "down"
    /\ "receiver_error" \in DOMAIN engine.active <=> (config # "none" \/ outage # "none")
    /\ \A t \in {"logger_backpressure", "sampler_failing", "site_mismatch", "ntrip_disconnected",
                 "ins_config_mismatch"} :
         Said(t, {"backpressure", "error", "mismatch", "mismatched"})
           => t \in DOMAIN engine.active
    /\ \A t \in {"logger_backpressure", "sampler_failing", "site_mismatch", "ntrip_disconnected",
                 "ins_config_mismatch"} :
         Said(t, {"drained", "recovered", "verified", "connected", "matches"})
           => t \notin DOMAIN engine.active
    /\ Said("state.fix", {"good"}) => "fix_lost" \notin DOMAIN engine.active
    /\ "state.rtk" \in DOMAIN last =>
         /\ last["state.rtk"].fixed => "rtk_lost" \notin DOMAIN engine.active
         /\ last["state.rtk"].age = "stale" => "corrections_stale" \in DOMAIN engine.active
=============================================================================
