---------------------------- MODULE MC_Exchanges ----------------------------
(***************************************************************************)
(* What the daemon says to a peer and makes of what it hears: the NTRIP    *)
(* client and a caster, the u-blox receiver's configuration and those of   *)
(* the two INS families, the INS capture, the framer, the state store and  *)
(* the alert engine, checked in one run. They share no variable: `part`    *)
(* chooses which of them a behaviour is about, and the others rest.        *)
(***************************************************************************)
EXTENDS NtripClient, Sequences, Configures

CONSTANTS
  SbgUnits, VnUnits,                        \* the units of SbgConfig and VnConfig
  MaxFaults, MaxRestarts, MaxCuts, Retries, \* of both
  MaxFrames, MaxTime, MaxCrashes, Hour, PendingCap, BackstepHold, SidecarEvery \* of RawCapture

VARIABLES
  part,       \* what the behaviour is about; never changes
  link, writer, req, inbox, faults, restarts, cuts, unit, sbgRam, flash, applyConf,
  marker, savedRun, saves, job, promised,
  vnLink, vnWriter, vnReq, vnInbox, vnFaults, vnRestarts, vnCuts, vnUnit, vnRam,
  vnFlash, vnApplyConf, vnMarker, vnSavedRun, vnJob, glitch,
  now, next, utc, utcMono, backSince, source, hour, capturePending, buffered, counts,
  dumped, disk, side, lost, torn, crashes,
  stream, fed, a, b,
  epochs, mode, epochsSource, queue, delivered, epochsLink, store, published, epochsCuts,
  alertsPlan, edges, samples, engine, alertsLink, config, outage, failing, ready,
  opened, reported, holder, last, clock, alertsPublished, fails, alertsLost

sbgVars == <<link, writer, req, inbox, faults, restarts, cuts, unit, sbgRam, flash,
             applyConf, marker, savedRun, saves, job, promised>>
vnVars == <<vnLink, vnWriter, vnReq, vnInbox, vnFaults, vnRestarts, vnCuts, vnUnit,
            vnRam, vnFlash, vnApplyConf, vnMarker, vnSavedRun, vnJob, glitch>>
captureVars == <<now, next, utc, utcMono, backSince, source, hour, capturePending,
                 buffered, counts, dumped, disk, side, lost, torn, crashes>>
framerVars == <<stream, fed, a, b>>
epochsVars == <<epochs, mode, epochsSource, queue, delivered, epochsLink, store,
                published, epochsCuts>>
alertsVars == <<alertsPlan, edges, samples, engine, alertsLink, config, outage, failing,
                ready, opened, reported, holder, last, clock, alertsPublished, fails,
                alertsLost>>
hostVars == <<caster, at, v2, v1_retry, sticky, streamed, backoff, status, stable, gga,
              error, stop, pub, events, tries, refused>>
allVars == <<part, hostVars, cfgVars, sbgVars, vnVars, captureVars, framerVars,
             epochsVars, alertsVars>>

\* The configuration: four core keys, one signal, three features.
MCCore == <<"c1", "c2", "c3", "c4">>
MCSignals == <<"s1">>
MCFeatures == <<"o1", "o2", "o3">>

ConfigPlan(st, od, lo, la, sy, ro) ==
  [strict |-> st, odd |-> od, lost |-> lo, late |-> la, stray |-> sy, rounds |-> ro]

Quiet == ConfigPlan(FALSE, 3, 0, 0, 0, 1)
ThreeFeatures == ConfigPlan(FALSE, 1, 0, 2, 0, 2)
ConfigPlans ==
  { \* any firmware with an odd key, an answer lost, one late, one mistaken
    ConfigPlan(FALSE, 1, 1, 1, 1, 1),
    \* two configures of a strict daemon and a link that fails often
    ConfigPlan(TRUE, 0, 3, 0, 1, 2),
    \* three odd keys
    Quiet,
    \* three features, one that the firmware lacks, and answers that come late
    ThreeFeatures }

Ellipse(event, motion, carries) ==
  [nav |-> "takes", event |-> event, motion |-> motion, carries |-> carries]
Ellipses ==
  { Ellipse("takes", "takes", TRUE), Ellipse("keeps", "refuses", TRUE),
    Ellipse("absent", "keeps", TRUE), Ellipse("takes", "takes", FALSE) }

SbgConfig == INSTANCE SbgConfig WITH Units <- SbgUnits, ram <- sbgRam

Vn(takes, here, binary, ascii) ==
  [takes |-> takes, here |-> here,
   first |-> [binary |-> binary, ascii |-> ascii, other |-> FALSE]]
Vns ==
  { Vn({"raw", "sat", "bare"}, TRUE, "off", TRUE), Vn({"bare"}, TRUE, "other", FALSE),
    Vn({"sat", "bare"}, FALSE, "sat", TRUE), Vn({}, TRUE, "other", TRUE) }

VnConfig == INSTANCE VnConfig WITH
  Units <- VnUnits, link <- vnLink, writer <- vnWriter, req <- vnReq, inbox <- vnInbox, faults <- vnFaults,
  restarts <- vnRestarts, cuts <- vnCuts, unit <- vnUnit, ram <- vnRam, flash <- vnFlash,
  applyConf <- vnApplyConf, marker <- vnMarker, savedRun <- vnSavedRun, job <- vnJob

RawCapture == INSTANCE RawCapture WITH pending <- capturePending

\* Before mtrtk speaks to a unit it has registers.
ASSUME VnAssumption ==
  \A u \in VnUnits :
    u.first \in [binary : {"off", "other", "raw", "sat", "bare"}, ascii : BOOLEAN, other : BOOLEAN]

\* A question is sent a number of times.
ASSUME RetriesAssumption == Retries \in Nat

\* An hour lasts, and so does the day.
ASSUME CaptureAssumption == MaxFrames \in Nat /\ MaxTime \in Nat \ {0} /\ Hour \in Nat \ {0}

\* Bytes of the three protocols, in Framer's alphabet: whole frames, some with
\* the start of another inside, frames whose checksum or length is wrong, and
\* noise.  A stream is three of them.
Pieces ==
  {<<>>, <<5, 6>>, <<7>>, <<8>>, <<1, 10>>, <<5, 6, 2, 1, 2, 0>>, <<5, 6, 2, 5, 6, 3>>,
   <<7, 1, 8, 1>>, <<8, 7, 1, 9, 3, 10>>, <<5, 6, 3, 1>>, <<5, 6, 2, 7, 1, 2, 2>>}
ByteStreams == {x \o y \o z : x, y, z \in Pieces}

Framer == INSTANCE Framer WITH
  Streams <- ByteStreams, UbxMax <- 4, NmeaMax <- 7

Whole == <<"PVT", "SAT", "SIG", "DOP", "EOE">>
NoEoe == <<"PVT", "SAT", "SIG", "DOP">>

\* Three epochs with messages lost, or four of a receiver with or without NAV-EOE.
Recordings ==
  [1..3 -> {<<"PVT", "SIG", "EOE">>, <<"SAT", "DOP">>, <<"EOE">>, NoEoe}]
  \union [1..4 -> {Whole, NoEoe}]

Epochs == INSTANCE Epochs WITH
  Recordings <- Recordings, Modes <- {"live", "replay", "loop"}, MaxChunk <- 4,
  EoeMissedLimit <- 2, MaxCuts <- 1, MaxPasses <- 2, MaxQueued <- 0, source <- epochsSource,
  link <- epochsLink, cuts <- epochsCuts

AlertPlan(from, publish, ticks) == [from |-> from, publish |-> publish, ticks |-> ticks]

\* Who publishes in a behaviour: the two ports, or what one alert is made of.
AlertPlans ==
  { AlertPlan({"link", "port b"}, 5, 0), AlertPlan({"state.ins"}, 2, 1),
    AlertPlan({"system.stats"}, 2, 1), AlertPlan({"state.fix", "state.survey_in"}, 3, 2),
    AlertPlan({"state.hardware"}, 3, 2), AlertPlan({"state.rtk"}, 3, 2),
    AlertPlan({"logger_backpressure", "log_pruned", "logger_error", "consumer_failed"}, 3, 2),
    AlertPlan({"ntrip_disconnected", "ins_config_mismatch", "sampler_failing", "site_mismatch"}, 3, 0) }

Alerts == INSTANCE Alerts WITH
  Plans <- AlertPlans, EdgeQueue <- 4, SampleQueue <- 2, HolderQueue <- 3, Grace <- 1,
  Dedup <- 2, MaxFails <- 1, plan <- alertsPlan, link <- alertsLink,
  published <- alertsPublished, lost <- alertsLost

Parts == {"client", "configure", "sbg", "vn", "capture", "framer", "epochs", "alerts"}

\* The parts a behaviour is not about stand still in one of their states.
MCInit ==
  /\ part \in Parts
  /\ IF part = "client" THEN TRUE ELSE caster = CHOOSE c \in Casters : TRUE
  /\ Init
  /\ IF part = "configure" THEN TRUE ELSE
       /\ cfgPlan = Quiet
       /\ fw = [k \in Cfg!Keys |-> "ok"]
       /\ ram = [k \in Cfg!Keys |-> k \in {"o2", "o3"}]
  /\ Cfg!Init
  \* What a plan is not about is as the profile has it.
  /\ \A k \in IF cfgPlan = ThreeFeatures THEN Cfg!Required ELSE {"o2", "o3"} :
       fw[k] = "ok" /\ ram[k]
  /\ IF part = "sbg" THEN TRUE ELSE unit = Ellipse("takes", "takes", TRUE) /\ applyConf = FALSE
  /\ SbgConfig!Init
  /\ IF part = "vn" THEN TRUE ELSE vnUnit = Vn({}, TRUE, "other", TRUE) /\ vnApplyConf = FALSE
  /\ VnConfig!Init
  /\ RawCapture!Init
  /\ IF part = "framer" THEN TRUE ELSE stream = <<>>
  /\ Framer!Init
  /\ IF part = "epochs" THEN TRUE ELSE epochs = <<Whole, Whole, Whole, Whole>> /\ mode = "live"
  /\ Epochs!Init
  /\ IF part = "alerts" THEN TRUE ELSE alertsPlan = CHOOSE p \in AlertPlans : TRUE
  /\ Alerts!Init

MCNext ==
  /\ UNCHANGED part
  /\ \/ /\ part = "client" /\ Next
        /\ UNCHANGED <<cfgVars, sbgVars, vnVars, captureVars, framerVars,
                       epochsVars, alertsVars>>
     \/ /\ part = "configure" /\ Cfg!Next
        /\ UNCHANGED <<hostVars, sbgVars, vnVars, captureVars, framerVars, epochsVars,
                       alertsVars>>
     \/ /\ part = "sbg" /\ SbgConfig!Next
        /\ UNCHANGED <<hostVars, cfgVars, vnVars, captureVars, framerVars,
                       epochsVars, alertsVars>>
     \/ /\ part = "vn" /\ VnConfig!Next
        /\ UNCHANGED <<hostVars, cfgVars, sbgVars, captureVars, framerVars,
                       epochsVars, alertsVars>>
     \/ /\ part = "capture" /\ RawCapture!Next
        /\ UNCHANGED <<hostVars, cfgVars, sbgVars, vnVars, framerVars, epochsVars,
                       alertsVars>>
     \/ /\ part = "framer" /\ Framer!Next
        /\ UNCHANGED <<hostVars, cfgVars, sbgVars, vnVars, captureVars,
                       epochsVars, alertsVars>>
     \/ /\ part = "epochs" /\ Epochs!Next
        /\ UNCHANGED <<hostVars, cfgVars, sbgVars, vnVars, captureVars,
                       framerVars, alertsVars>>
     \/ /\ part = "alerts" /\ Alerts!Next
        /\ UNCHANGED <<hostVars, cfgVars, sbgVars, vnVars, captureVars,
                       framerVars, epochsVars>>

MCSpec == MCInit /\ [][MCNext]_allVars

\* SbgConfig: what a report calls applied is in the unit's RAM and is in its flash, or
\* is remembered on disk so that a later run saves it, until the unit restarts or a
\* save went unconfirmed.
AppliedIsKept == part = "sbg" => SbgConfig!AppliedIsKept

\* VnConfig: mtrtk never silences the unit on its own port: neither in RAM nor in flash
\* is ASCII output off while binary output 1 goes nowhere mtrtk hears it, whatever was
\* refused, garbled, late or lost on the way.
NeverMute == VnConfig!NeverMute

\* RawCapture: a frame is filed once or known to be lost, and the sidecar of an hour
\* that is not open counts what its file holds: bytes and frames, or the bytes alone
\* where a crash cut the hour and a later run took it up again.
CaptureCounts == RawCapture!CaptureCounts

\* Framer: how a port cuts the stream does not matter, unless a sentence is just too
\* long: fed in chunks, the framer finds the same frames, the same garbage and the same
\* errors as fed at once.
ChunksDoNotMatter == part = "framer" => Framer!ChunksDoNotMatter

\* Epochs: every epoch is published at most once and in order.
EpochsWhole == part = "epochs" => Epochs!EpochsWhole

\* Alerts: once the engine has caught up, and if neither an edge nor an event was lost
\* on the way, `active` names what is wrong now: the link that is down, the
\* configuration error of this session or the open Port B outage (each even after the
\* other came, went or took the one slot), and for the other conditions nothing that
\* the last word of their publisher denies.
ActiveIsTruth == part = "alerts" => Alerts!ActiveIsTruth

=============================================================================
