------------------------------ MODULE Settings ------------------------------
(***************************************************************************)
(* The settings write path (src/mtrtk/web/api/config.py) and the .env file *)
(* it keeps (src/mtrtk/web/envfile.py): requests that overlap, forms that  *)
(* post back the masked page they were shown, a daemon that dies and is    *)
(* started again from the file.                                            *)
(*                                                                         *)
(* Three keys stand for all, none of them live: web_bind, a plain value    *)
(* that the validation ties to web_password, a secret, and ntrip_url, a    *)
(* host and the password inside the URL.  The live keys are in BaseMode.   *)
(***************************************************************************)
EXTENDS Naturals, Sequences, SequencesExt, Functions

CONSTANTS
  Clients,    \* browsers and scripts, each with one request to make
  Bodies,     \* values posted, key by key
  FirstFile,  \* the lines of .env at the first start
  MaxCrashes  \* bound: times the daemon dies

Keys == {"web_bind", "web_password", "ntrip_url"}
Url(host, password) == <<host, password>>
Mask == "***"
None == "none"
Defaults == [web_bind |-> "tailscale", web_password |-> None, ntrip_url |-> Url("h", None)]

VARIABLES
  lines,      \* the lines of .env: [key, value], a comment has the key "#"
  running,    \* the Settings of the process
  daemonUp,   \* it runs: "up", "down", or "refused" its own .env
  setLock,    \* settings_lock
  req,        \* req[c]: where a request stands and what it works with
  answered,   \* history: per key, the value the last answered request asked for
  crashes

state == <<lines, running, daemonUp, setLock, req, answered, crashes>>

-----------------------------------------------------------------------------
(* envfile.py *)

Comment == "#"

\* `read_env`: the last occurrence of a key wins.
ReadEnv(f) ==
  LET bound == {f[i].key : i \in DOMAIN f} \ {Comment}
  IN [k \in bound |-> f[CHOOSE i \in DOMAIN f : f[i].key = k
                            /\ \A j \in DOMAIN f : f[j].key = k => j <= i].value]

\* `update_env`: the last occurrence is rewritten in place, earlier ones are
\* dropped, new keys are appended; everything else stays where it is.
UpdateEnv(f, u) ==
  LET last(i) == \A j \in (i + 1)..Len(f) : f[j].key # f[i].key
      kept == SelectSeq([i \in DOMAIN f |-> [line |-> f[i], last |-> last(i)]],
                        LAMBDA e : e.line.key \in DOMAIN u => e.last)
      added == SetToSeq({k \in DOMAIN u : \A i \in DOMAIN f : f[i].key # k})
  IN [i \in DOMAIN kept |-> IF kept[i].line.key \in DOMAIN u
                            THEN [kept[i].line EXCEPT !.value = u[kept[i].line.key]]
                            ELSE kept[i].line]
     \o [i \in DOMAIN added |-> [key |-> added[i], value |-> u[added[i]]]]

\* What a start reads: the file over the defaults.
Loaded(f) == [k \in Keys |-> IF k \in DOMAIN ReadEnv(f) THEN ReadEnv(f)[k] ELSE Defaults[k]]

\* `_cross_checks`: a bind outside the tailnet needs a password.
Valid(s) == s.web_bind = "tailscale" \/ s.web_password # None

-----------------------------------------------------------------------------
(* Masks *)

MaskUrl(u) == IF u[2] = None THEN u ELSE Url(u[1], Mask)

\* `_masked`: the page GET shows.
Page(s) ==
  [s EXCEPT !.web_password = IF @ = None THEN @ ELSE Mask, !.ntrip_url = MaskUrl(@)]

\* `unmask_url_password`: a masked password is the stored one, or none.
UnmaskUrl(u, now) == IF u[2] = Mask THEN Url(u[1], now[2]) ELSE u

\* `strip_masks`: a secret that comes back masked was not edited.
StripMasks(s, body) ==
  LET kept == {k \in DOMAIN body : ~(k = "web_password" /\ body[k] = Mask)}
  IN [k \in kept |-> IF k = "ntrip_url" THEN UnmaskUrl(body[k], s.ntrip_url) ELSE body[k]]

-----------------------------------------------------------------------------

Idle == [at |-> "idle", page |-> <<>>, updates |-> <<>>, copy |-> <<>>]

Init ==
  /\ lines = FirstFile /\ running = Loaded(FirstFile) /\ daemonUp = "up"
  /\ setLock = None /\ req = [c \in Clients |-> Idle]
  /\ answered = [k \in Keys |-> Loaded(FirstFile)[k]] /\ crashes = 0

\* GET /api/config, for a form.
GetConfig(c) ==
  /\ daemonUp = "up" /\ req[c].at = "idle"
  /\ req' = [req EXCEPT ![c] = [Idle EXCEPT !.at = "shown", !.page = Page(running)]]
  /\ UNCHANGED <<lines, running, daemonUp, setLock, answered, crashes>>

Posts(c, body) ==
  req' = [req EXCEPT ![c] = [@ EXCEPT !.at = "posted", !.updates = StripMasks(running, body)]]

\* PUT /api/config: a few values, or the page shown with some of them edited.
\* The masks are undone before the request waits for the lock.
PutConfig(c) ==
  /\ daemonUp = "up"
  /\ \/ req[c].at = "idle" /\ \E body \in Bodies : Posts(c, body)
     \/ req[c].at = "shown" /\ \E body \in Bodies \union {<<>>} : Posts(c, body @@ req[c].page)
  /\ UNCHANGED <<lines, running, daemonUp, setLock, answered, crashes>>

Ends(c, how) ==
  /\ req' = [req EXCEPT ![c] = [Idle EXCEPT !.at = how]]
  /\ setLock' = None

\* The settings the request asks for, judged against the running ones.
Candidate(c) == req[c].updates @@ running

\* Mutant of LockFree: the requests do not queue.
LockFreeNot == TRUE

LockFree == setLock = None

\* `apply_settings_change` up to the thread that reads the file: 422 for a
\* candidate that does not validate.
TakeLock(c) ==
  /\ req[c].at = "posted" /\ LockFree
  /\ IF Valid(Candidate(c))
     THEN setLock' = c /\ req' = [req EXCEPT ![c].at = "reads"]
     ELSE Ends(c, "refused")
  /\ UNCHANGED <<lines, running, daemonUp, answered, crashes>>

Answer(c) == answered' = req[c].updates @@ answered

\* The file was read: what changed against the process or the file, and the
\* values the file does not hold yet.  `update_env` reads the lines it rewrites.
Decide(c) ==
  LET u == req[c].updates
      disk == ReadEnv(lines)
      changed == {k \in DOMAIN u : u[k] # running[k] \/ (k \in DOMAIN disk /\ disk[k] # u[k])}
      toWrite == {k \in DOMAIN u : k \notin DOMAIN disk \/ disk[k] # u[k]}
  IN /\ req[c].at = "reads"
     /\ IF changed = {} \/ toWrite = {}
        THEN Ends(c, "answered") /\ Answer(c)
        ELSE /\ req' = [req EXCEPT ![c] = [@ EXCEPT !.at = "writes",
                                            !.copy = UpdateEnv(lines, Restrict(u, toWrite))]]
             /\ UNCHANGED <<setLock, answered>>
     /\ UNCHANGED <<lines, running, daemonUp, crashes>>

\* `_atomic_write`: the temporary file replaces .env.
ReplaceFile(c) ==
  /\ req[c].at = "writes"
  /\ lines' = req[c].copy
  /\ Ends(c, "answered") /\ Answer(c)
  /\ UNCHANGED <<running, daemonUp, crashes>>

\* The process dies, or POST /api/restart stops it: requests go unanswered, a
\* temporary file is left behind, .env stays whole.
Dies ==
  /\ daemonUp = "up" /\ crashes < MaxCrashes /\ crashes' = crashes + 1
  /\ daemonUp' = "down" /\ setLock' = None
  /\ req' = [c \in Clients |-> IF req[c].at \in {"posted", "reads", "writes"}
                               THEN [Idle EXCEPT !.at = "lost"] ELSE req[c]]
  /\ UNCHANGED <<lines, running, answered>>

\* The supervisor starts it again.
Boots ==
  /\ daemonUp = "down"
  /\ daemonUp' = IF Valid(Loaded(lines)) THEN "up" ELSE "refused"
  /\ running' = Loaded(lines)
  /\ UNCHANGED <<lines, setLock, req, answered, crashes>>

Next ==
  \/ \E c \in Clients : GetConfig(c) \/ PutConfig(c) \/ TakeLock(c) \/ Decide(c) \/ ReplaceFile(c)
  \/ Dies \/ Boots

Spec == Init /\ [][Next]_state

-----------------------------------------------------------------------------

\* "two concurrent PUTs cannot lose one another's changes": what the last
\* answered request asked of a key is what the next start reads for it,
\* through overlapping requests, duplicate lines and a daemon that dies.
ChangesSurvive ==
  \A k \in Keys : Loaded(lines)[k] = answered[k] \/ \E c \in Clients : req[c].at = "writes"

\* A mask is never stored, whatever page a form posts back and however old.
NoMaskStored ==
  LET s == Loaded(lines) IN s.web_password # Mask /\ s.ntrip_url[2] # Mask

\* What was asked of the settings is what they become, secrets included
\* (apply_settings_change, unmask and the .env writer).
SettingsKept == ChangesSurvive /\ NoMaskStored

=============================================================================
