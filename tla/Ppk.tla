--------------------------------- MODULE Ppk --------------------------------
(***************************************************************************)
(* PPK runs (ppk/pipeline.py, post.py and the requests of web/api/ppk.py). *)
(* A run clears an earlier one's outputs from its directory, converts or   *)
(* copies the two sides, places the base, runs rnx2rtkp, writes the track  *)
(* in a child process and, last, the summary.  The directory may be used   *)
(* again, with the files in it as inputs.  Meanwhile the base's host,      *)
(* this one or a remote one, prunes hours and edits its sites.             *)
(***************************************************************************)
EXTENDS Naturals, Sequences, FiniteSets

CONSTANTS
  Plans,      \* sequences of requests for one directory
  LoggedAt,   \* hour -> site its sidecar names, "none"; hour 0 is the lead hour
  Sites,      \* sites of the base's host at first
  MaxFaults   \* runs that fail or are cancelled at some step

VARIABLES
  plan,       \* requests still to come
  req,        \* request of the current or last run
  run,        \* its number
  at,         \* its step
  outcome,    \* "none", "done", "refused" (ended before its directory was clear), "failed"
  out,        \* output name -> [by: run that wrote it, data: it holds anything]
  given,      \* the directory when the run began
  used,       \* base hours in the run's observations
  seen,       \* base hours whose sites the run read
  logged,     \* site they name
  remoteSite, \* site a remote base answered
  place,      \* where the track is placed
  hours, sites, active,   \* the base's host
  faults

ppkVars == <<plan, req, run, at, outcome, out, given, used, seen, logged, remoteSite, place,
             hours, sites, active, faults>>

Outputs ==
  <<"rover", "rover_MN", "base", "base_MN", "conf", "pos", "track", "events", "log", "summary">>
Names == {Outputs[i] : i \in 1..Len(Outputs)}
Pos(n) == CHOOSE i \in 1..Len(Outputs) : Outputs[i] = n

Absent == [by |-> 0, data |-> FALSE]
Written(d) == [by |-> run, data |-> d]

\* An upload is raw data or RINEX observations, kept "else"where or under an
\* output's name; a log is this host's, a remote base's is fetched.
File(fmt, where) == [kind |-> "upload", fmt |-> fmt, at |-> where]
Log(kind) == [kind |-> kind, fmt |-> "raw", at |-> "else"]
NoRequest == [rover |-> Log("local"), base |-> Log("local"), nav |-> "none", site |-> "none"]

Init ==
  /\ plan \in Plans /\ req = NoRequest /\ run = 0 /\ at = "idle" /\ outcome = "none"
  /\ out = [n \in Names |-> Absent] /\ given = out
  /\ used = {} /\ seen = {} /\ logged = "none" /\ remoteSite = "none" /\ place = "none"
  /\ hours = DOMAIN LoggedAt /\ sites = Sites /\ active \in Sites \union {"none"}
  /\ faults = 0

host == <<hours, sites, active>>
position == <<used, seen, logged, remoteSite, place>>

End(how) == at' = "idle" /\ outcome' = how

\* _in_place: RINEX inputs used under the output names they already have.
Keep(r) ==
  (IF r.rover.fmt = "obs" /\ r.rover.at = "rover" THEN {"rover", "rover_MN"} ELSE {})
  \union (IF r.base.fmt = "obs" /\ r.base.at = "base"
          THEN {"base"} \union (IF r.nav = "none" THEN {"base_MN"} ELSE {}) ELSE {})
  \union (IF r.nav = "base_MN" THEN {"base_MN"} ELSE {})

Inputs(r) == {r.rover.at, r.base.at, r.nav} \intersect Names

\* A run begins when the one before has ended.
Start ==
  /\ at = "idle" /\ plan # <<>>
  /\ req' = Head(plan) /\ plan' = Tail(plan) /\ run' = run + 1
  /\ at' = "clear" /\ outcome' = "none" /\ given' = out
  /\ used' = {} /\ seen' = {} /\ logged' = "none" /\ remoteSite' = "none" /\ place' = "none"
  /\ UNCHANGED <<out, host, faults>>

\* _clear_outputs: name by name; an input that an output would replace ends
\* the run there.
Clash == {n \in Inputs(req) \ Keep(req) : out[n].by # 0}

\* The directory once the names before the k-th were taken.
Cleared(k) ==
  [n \in Names |->
     IF n \in Keep(req) \/ Pos(n) >= k \/ \E c \in Clash : Pos(c) <= Pos(n) THEN out[n] ELSE Absent]

Clear ==
  /\ at = "clear" /\ out' = Cleared(Len(Outputs) + 1)
  /\ IF Clash = {} THEN at' = "rover" /\ UNCHANGED outcome ELSE End("refused")
  /\ UNCHANGED <<plan, req, run, given, position, host, faults>>

\* A name that cannot be removed ends it too, or a cancellation, whose thread
\* goes on to the end.
ClearFails ==
  /\ at = "clear" /\ faults < MaxFaults /\ faults' = faults + 1
  /\ \E k \in 1..Len(Outputs) + 1 : out' = Cleared(k)
  /\ End("refused")
  /\ UNCHANGED <<plan, req, run, given, position, host>>

\* _rinex_in_place: a RINEX file is copied, or used where it is; its
\* navigation file is the one given, the one beside it, or an empty one.
InPlace(obs, mn, file, nav, navData) ==
  [n \in Names |->
     CASE n = obs /\ file.at # obs -> Written(TRUE)
       [] n = mn /\ nav \notin {"none", mn} -> Written(navData)
       [] n = mn /\ nav = "none" /\ (file.at # obs \/ out[mn].by = 0) -> Written(FALSE)
       [] OTHER -> out[n]]

\* run_convbin: observations, and a navigation file that may be empty.
Converted(obs, mn, navData) ==
  [out EXCEPT ![obs] = Written(TRUE), ![mn] = Written(navData)]

RoverSide ==
  /\ at = "rover"
  /\ \E navData \in BOOLEAN :
       out' = IF req.rover.fmt = "obs" THEN InPlace("rover", "rover_MN", req.rover, "none", FALSE)
              ELSE Converted("rover", "rover_MN", navData)
  /\ at' = IF req.base.kind = "upload" THEN "convert" ELSE "fetch"
  /\ UNCHANGED <<plan, req, run, outcome, given, position, host, faults>>

InWindow(hs) == hs \ {0}

\* splice_window, or the chunks of _fetch_remote: a lead hour alone is no data
\* for the first; the second looks at the bytes later.
Fetch ==
  /\ at = "fetch"
  /\ used' = hours
  /\ IF req.base.kind = "local"
     THEN IF InWindow(hours) = {} THEN End("failed") ELSE at' = "convert" /\ UNCHANGED outcome
     ELSE at' = "sites" /\ UNCHANGED outcome
  /\ UNCHANGED <<plan, req, run, out, given, seen, logged, remoteSite, place, host, faults>>

BaseSide ==
  /\ at = "convert"
  /\ \E navData \in BOOLEAN :
       out' = IF req.base.fmt = "obs" THEN InPlace("base", "base_MN", req.base, req.nav, TRUE)
              ELSE Converted("base", "base_MN", navData)
  /\ at' = IF req.base.kind = "local" THEN "sites" ELSE "place"
  /\ UNCHANGED <<plan, req, run, outcome, given, position, host, faults>>

Logged(hs) == {LoggedAt[h] : h \in InWindow(hs)} \ {"none"}

\* _one_site: the site the hours were logged at.  Hours of two sites are
\* refused unless the request gives the position itself.
OneSiteAny(hs) == TRUE
OneSite(hs) == Cardinality(Logged(hs)) <= 1 \/ req.site # "none"

SiteOf(hs) == IF Cardinality(Logged(hs)) = 1 THEN CHOOSE s \in Logged(hs) : TRUE ELSE "none"

\* _remote_site: the logged site when the remote still has it, else its
\* active one.
RemoteSite(s) == IF s \in sites THEN s ELSE active

\* The sites are read from the hours there are now; a remote's listing, and
\* its sites, may be unreadable.
ReadSites ==
  /\ at = "sites"
  /\ \E hs \in {hours} \union (IF req.base.kind = "remote" THEN {{}} ELSE {}) :
       /\ seen' = hs /\ logged' = SiteOf(hs)
       /\ \E site \in {RemoteSite(SiteOf(hs)), "none"} :
            remoteSite' = IF req.base.kind = "remote" /\ req.site = "none" THEN site ELSE "none"
       /\ IF ~OneSite(hs) \/ (req.base.kind = "remote" /\ used = {}) THEN End("failed")
          ELSE at' = (IF req.base.kind = "remote" THEN "convert" ELSE "place") /\ UNCHANGED outcome
  /\ UNCHANGED <<plan, req, run, out, given, used, place, host, faults>>

\* _base_xyz: the position of the request, of the remote's answer, of this
\* host's logged or active site, or of the base's RINEX header.
Position ==
  LET none == req.site = "none"
  IN  CASE req.site \in Sites -> IF req.site \in sites THEN req.site ELSE "none"
        [] req.site = "xyz" -> "xyz"
        [] none /\ req.base.kind = "remote" -> remoteSite
        [] none /\ req.base.kind = "local" ->
             IF logged = "none" THEN active ELSE IF logged \in sites THEN logged ELSE "none"
        [] none /\ req.base.kind = "upload" ->
             IF req.base.fmt = "obs" THEN "header" ELSE "none"

HasNav == out["rover_MN"].data \/ out["base_MN"].data

\* The option file is written, and neither side without ephemerides is run.
Place ==
  /\ at = "place"
  /\ place' = Position
  /\ IF Position = "none" THEN End("failed") /\ UNCHANGED out
     ELSE /\ out' = [out EXCEPT !["conf"] = Written(TRUE)]
          /\ IF HasNav THEN at' = "solve" /\ UNCHANGED outcome ELSE End("failed")
  /\ UNCHANGED <<plan, req, run, given, used, seen, logged, remoteSite, host, faults>>

\* _run_rnx2rtkp: an earlier attempt's solution is removed first.  An empty
\* combined solution is tried once more, forward only.
Solve(step, after) ==
  /\ at = step
  /\ \E epochs \in BOOLEAN :
       /\ out' = [out EXCEPT !["pos"] = Written(epochs), !["log"] = Written(TRUE),
                             !["conf"] = Written(TRUE)]
       /\ IF epochs THEN at' = "post" /\ UNCHANGED outcome
          ELSE IF after = "failed" THEN End("failed") ELSE at' = after /\ UNCHANGED outcome
  /\ UNCHANGED <<plan, req, run, given, position, host, faults>>

\* _postprocess, in a child: the track, and the events of a raw rover.
Post ==
  /\ at = "post"
  /\ \E marks \in BOOLEAN :
       out' = [out EXCEPT !["track"] = Written(TRUE),
                          !["events"] = IF marks /\ req.rover.fmt = "raw" THEN Written(TRUE) ELSE @]
  /\ at' = "summary"
  /\ UNCHANGED <<plan, req, run, outcome, given, position, host, faults>>

\* summary.json is written in a thread; then the end is reported, and the
\* scratch directory goes.
Summarise ==
  /\ at = "summary" /\ at' = "report"
  /\ out' = [out EXCEPT !["summary"] = Written(TRUE)]
  /\ UNCHANGED <<plan, req, run, outcome, given, position, host, faults>>

Report ==
  /\ at = "report" /\ End("done")
  /\ UNCHANGED <<plan, req, run, out, given, position, host, faults>>

StepWrites ==
  [rover |-> {"rover", "rover_MN"}, fetch |-> {}, convert |-> {"base", "base_MN"}, sites |-> {},
   place |-> {"conf"}, solve |-> {"pos", "log"}, again |-> {"conf", "pos", "log"},
   post |-> {"track", "events"}, summary |-> {"summary"}, report |-> {}]

\* A step fails, times out or is cancelled: some of its files are written, in
\* part when the card is full, to the end by a thread that was cancelled.
Fails ==
  /\ at \in DOMAIN StepWrites /\ faults < MaxFaults /\ faults' = faults + 1
  /\ \E some \in SUBSET (StepWrites[at] \ Keep(req)) : \E whole \in SUBSET some :
       out' = [n \in Names |-> IF n \in whole THEN Written(TRUE)
                               ELSE IF n \in some THEN Written(FALSE) ELSE out[n]]
  /\ End("failed")
  /\ UNCHANGED <<plan, req, run, given, position, host>>

\* The base's host: retention prunes its oldest hour, a site is deleted or
\* another one made active.
HostPrunes ==
  /\ hours # {} /\ hours' = hours \ {CHOOSE h \in hours : \A g \in hours : h <= g}
  /\ UNCHANGED <<plan, req, run, at, outcome, out, given, position, sites, active, faults>>

HostEdits ==
  /\ \/ \E s \in sites \ {active} : sites' = sites \ {s} /\ UNCHANGED active
     \/ active' \in sites /\ UNCHANGED sites
  /\ UNCHANGED <<plan, req, run, at, outcome, out, given, position, hours, faults>>

Next ==
  \/ Start \/ Clear \/ ClearFails \/ RoverSide \/ Fetch \/ BaseSide \/ ReadSites \/ Place
  \/ Solve("solve", "again") \/ Solve("again", "failed") \/ Post \/ Summarise \/ Report
  \/ Fails \/ HostPrunes \/ HostEdits

Spec == Init /\ [][Next]_ppkVars

TypeOK ==
  /\ at \in DOMAIN StepWrites \union {"idle", "clear"}
  /\ outcome \in {"none", "done", "refused", "failed"}
  /\ out \in [Names -> [by : Nat, data : BOOLEAN]]
  /\ place \in Sites \union {"none", "xyz", "header"} /\ sites \subseteq Sites

\* Placed on the one site the hours were logged at; a remote that no longer
\* has it stands in with its active one.
PlacedWhereLogged ==
  outcome = "done" /\ req.base.kind # "upload" /\ req.site = "none" =>
    \A s \in Logged(used) :
      Logged(used) = {s} /\ (place = s \/ (req.base.kind = "remote" /\ s \notin sites))

\* What a directory shows is one run's: inputs are never altered; once it is
\* clear nothing of an earlier run is left but inputs used in place, however
\* the run goes on; a summary, whole or not, stands only over this run's own
\* solution and track, and a run that is done has a whole one; and without a
\* position given, its track is placed where the base's hours were logged,
\* unless an hour went before its site was read (_clear_outputs,
\* _rinex_in_place, _one_site and _base_xyz over runs, failures and a host
\* that changes).  A failed run may have a summary: it is written before the
\* last step that can fail.
TrackIsItsOwn ==
  /\ run > 0 => \A n \in Inputs(req) : given[n].by # 0 => out[n] = given[n]
  /\ run > 0 /\ at # "clear" /\ outcome # "refused" =>
       /\ \A n \in Names \ Keep(req) : out[n].by \in {0, run}
       /\ out["summary"].by # 0 => out["pos"] = Written(TRUE) /\ out["track"] = Written(TRUE)
  /\ outcome = "done" => out["summary"] = Written(TRUE)
  /\ InWindow(used) \subseteq seen => PlacedWhereLogged

=============================================================================
