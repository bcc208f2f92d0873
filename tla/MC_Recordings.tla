--------------------------- MODULE MC_Recordings ----------------------------
(***************************************************************************)
(* What is kept on disk and what is made of it: the raw log, RINEX         *)
(* exports, PPK runs and uploads, the serial output, the settings file and *)
(* what module Stores puts together, checked in one run. They share no     *)
(* variable: `part` chooses which of them a behaviour is about, and the    *)
(* others rest.                                                            *)
(***************************************************************************)
EXTENDS RawLog, Stores

VARIABLES
  part,       \* what the behaviour is about; never changes
  serialAt, serialPending, kernel, turn, last, tailless, headless,
  lines, running, daemonUp, setLock, settingsReq, answered, crashes,
  uploadsAt, declared, size, checked, uploadsDisk, folder, uploadsAge, inFlight, late,
  left, uploadsFaults

serialVars == <<serialAt, serialPending, kernel, turn, last, tailless, headless>>
settingsVars == <<lines, running, daemonUp, setLock, settingsReq, answered, crashes>>
uploadsVars == <<uploadsAt, declared, size, checked, uploadsDisk, folder, uploadsAge,
                 inFlight, late, left, uploadsFaults>>
hostVars == <<plan, up, utc, age, closedHour, frozen, pending, current, mem, hasher,
              buf, unlinked, files, disk, synced, sides, patch, victims, deleting, n, readings,
              stops, patches, prunes, reading, moved, ticked, gone, crashed, torn,
              overtaken, emptied, marked>>
allVars == <<part, hostVars, exportVars, ppkVars, pointsVars, serialVars, databaseVars,
             samplerVars, settingsVars, uploadsVars, backupVars>>

ExportBy(kind, overwrite, id) == [kind |-> kind, overwrite |-> overwrite, run |-> id]
ExportPlans ==
  { {ExportBy("cli", FALSE, 1), ExportBy("cli", TRUE, 2)},
    {ExportBy("cli", FALSE, 1), ExportBy("job", FALSE, 3)},
    {ExportBy("job", FALSE, 3), ExportBy("sync", FALSE, 4)} }

OneHour == <<1>>

Run(rover, base, nav, site) == [rover |-> rover, base |-> base, nav |-> nav, site |-> site]
Logs(kind) == [kind |-> kind, fmt |-> "raw", at |-> "else"]
Upload(fmt, where) == [kind |-> "upload", fmt |-> fmt, at |-> where]

\* Runs in one directory: logs of here and of a remote base, uploads, and files of
\* an earlier run used again.
PpkRuns ==
  { <<Run(Logs("local"), Logs("local"), "none", "none"),
      Run(Upload("obs", "rover"), Upload("obs", "else"), "none", "xyz")>>,
    <<Run(Upload("raw", "else"), Upload("obs", "else"), "else", "none"),
      Run(Upload("obs", "rover"), Upload("obs", "base"), "base_MN", "A")>>,
    <<Run(Logs("local"), Upload("raw", "else"), "none", "B"),
      Run(Upload("obs", "base"), Logs("local"), "none", "xyz")>>,
    <<Run(Logs("local"), Logs("remote"), "none", "none")>> }

\* The base moved after the first hour of the window.
MovedBase == [h \in 0..2 |-> CASE h = 1 -> "A" [] h = 2 -> "B" [] OTHER -> "none"]

\* The values of Stores' constants that are not numbers.
CollectCalls ==
  { [id |-> 1, epochs |-> 2, fixedOnly |-> FALSE], [id |-> 2, epochs |-> 1, fixedOnly |-> TRUE] }

SerialSink == INSTANCE SerialSink WITH
  Payloads <- {<<2>>, <<3, 3>>, <<4>>, <<3, 5>>}, KernelSize <- 4, BacklogLimit <- 5,
  at <- serialAt, pending <- serialPending

Line(k, v) == [key |-> k, value |-> v]
FirstFile ==
  <<Line("web_password", "p"), Line("#", "note"), Line("ntrip_url", <<"h", "p">>),
    Line("web_password", "q")>>

Settings == INSTANCE Settings WITH
  Clients <- {"a", "b"}, MaxCrashes <- 1,
  Bodies <- {[web_bind |-> "lan", web_password |-> "p"], [ntrip_url |-> <<"i", "q">>], [web_password |-> "none"]},
  FirstFile <- FirstFile, req <- settingsReq

Uploads == INSTANCE Uploads WITH
  Requests <- {"a", "b"}, Lengths <- {0, 2}, Limit <- 2, Stretch <- 2, Room <- 5,
  Reserve <- 2, MaxFaults <- 1, at <- uploadsAt, disk <- uploadsDisk, age <- uploadsAge,
  faults <- uploadsFaults

LogPlan(fr, re, st, pa, pr, fa) ==
  [frames |-> fr, readings |-> re, stops |-> st, patches |-> pa, prunes |-> pr, faults |-> fa]

LogPlans ==
  { \* any clock; and with a stop or a power cut
    LogPlan(3, 3, 0, 0, 0, {}),
    LogPlan(2, 3, 1, 0, 0, {"power_cut"}),
    \* a kill inside a rotation, twice a stop
    LogPlan(2, 2, 2, 0, 0, {"kill_in_rotate"}),
    \* retention of more than one hour, and when the clock goes back
    LogPlan(3, 1, 0, 0, 1, {}),
    LogPlan(2, 2, 0, 0, 1, {}),
    \* a PATCH or a DELETE while hours are closed and opened again
    LogPlan(2, 2, 0, 1, 0, {}),
    \* a PATCH and a DELETE of one hour; either and retention; all with deaths
    LogPlan(1, 1, 1, 2, 0, {"power_cut", "kill_in_delete"}),
    LogPlan(2, 1, 1, 1, 1, FaultKinds) }

Parts == {"raw_log", "export", "ppk", "points", "serial", "database", "sampler",
          "settings", "uploads", "backup"}

\* The parts a behaviour is not about stand still in one of their states.
MCInit ==
  /\ part \in Parts
  /\ IF part = "raw_log" THEN TRUE ELSE plan = CHOOSE p \in LogPlans : TRUE
  /\ Init
  /\ Export!Init /\ (part # "export" => exportAt[ExportBy("sync", FALSE, 4)] = "ended")
  /\ IF part = "ppk" THEN TRUE ELSE
       /\ ppkPlan = <<Run(Logs("local"), Logs("remote"), "none", "none")>>
       /\ active = "A"
  /\ Ppk!Init
  /\ Points!Init
  /\ SerialSink!Init
  /\ Database!Init
  /\ Sampler!Init
  /\ Settings!Init
  /\ Uploads!Init
  /\ Backup!Init

MCNext ==
  /\ UNCHANGED part
  /\ \/ /\ part = "raw_log" /\ Next
        /\ UNCHANGED <<exportVars, ppkVars, pointsVars, serialVars, databaseVars,
                       samplerVars, settingsVars, uploadsVars, backupVars>>
     \/ /\ part = "export" /\ Export!Next
        /\ UNCHANGED <<hostVars, ppkVars, pointsVars, serialVars, databaseVars,
                       samplerVars, settingsVars, uploadsVars, backupVars>>
     \/ /\ part = "ppk" /\ Ppk!Next
        /\ UNCHANGED <<hostVars, exportVars, pointsVars, serialVars, databaseVars,
                       samplerVars, settingsVars, uploadsVars, backupVars>>
     \/ /\ part = "points" /\ Points!Next
        /\ UNCHANGED <<hostVars, exportVars, ppkVars, serialVars, databaseVars,
                       samplerVars, settingsVars, uploadsVars, backupVars>>
     \/ /\ part = "serial" /\ SerialSink!Next
        /\ UNCHANGED <<hostVars, exportVars, ppkVars, pointsVars, databaseVars,
                       samplerVars, settingsVars, uploadsVars, backupVars>>
     \/ /\ part = "database" /\ Database!Next
        /\ UNCHANGED <<hostVars, exportVars, ppkVars, pointsVars, serialVars,
                       samplerVars, settingsVars, uploadsVars, backupVars>>
     \/ /\ part = "sampler" /\ Sampler!Next
        /\ UNCHANGED <<hostVars, exportVars, ppkVars, pointsVars, serialVars,
                       databaseVars, settingsVars, uploadsVars, backupVars>>
     \/ /\ part = "settings" /\ Settings!Next
        /\ UNCHANGED <<hostVars, exportVars, ppkVars, pointsVars, serialVars,
                       databaseVars, samplerVars, uploadsVars, backupVars>>
     \/ /\ part = "uploads" /\ Uploads!Next
        /\ UNCHANGED <<hostVars, exportVars, ppkVars, pointsVars, serialVars,
                       databaseVars, samplerVars, settingsVars, backupVars>>
     \/ /\ part = "backup" /\ Backup!Next
        /\ UNCHANGED <<hostVars, exportVars, ppkVars, pointsVars, serialVars,
                       databaseVars, samplerVars, settingsVars, uploadsVars>>

MCSpec == MCInit /\ [][MCNext]_allVars

\* PPK runs alone, and the serial output alone.
PpkSpec == (part = "ppk" /\ MCInit) /\ [][MCNext]_allVars
SerialSpec == (part = "serial" /\ MCInit) /\ [][MCNext]_allVars

\* SerialSink: a reader never gets the rest of a sentence whose start was discarded,
\* and between two epochs the bytes held back stay within the limit, whatever mixture
\* of short writes, full queues and discards it reads through.
TailFollowsHead == part = "serial" => SerialSink!TailFollowsHead

\* SerialSink: "a reader never sees two sentences spliced together" (SerialSink).
NeverSpliced == SerialSink!NeverSpliced

\* Ppk: "Hours logged at two sites mean the base moved inside the window: no one
\* position is right for all of it" (_one_site): the run is placed where all its hours
\* were logged.
PlacedWhereLogged == Ppk!PlacedWhereLogged

\* Settings: what was asked of the settings is what they become, secrets included.
SettingsKept == part = "settings" => Settings!SettingsKept

\* Uploads: uploads that arrive at once never promise the same space twice: after all
\* that declared uploads in flight have still to write, the reserve for the raw logs is
\* free but for less than a stretch per upload without a length (a stretch while it is
\* refused, or when the daemon died then.
UploadsFit == part = "uploads" => Uploads!UploadsFit

=============================================================================
