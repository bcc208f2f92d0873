------------------------------ MODULE Uploads ------------------------------
(***************************************************************************)
(* PPK uploads (web/api/ppk.py): each request makes a folder, reserves     *)
(* what it declared, writes the body a chunk at a time while it checks the *)
(* card, and renames the hidden partial file when the body is whole.       *)
(* Sizes count chunks.  Every step but the parser's runs in a worker       *)
(* thread, so the steps of several uploads interleave; a cancelled step's  *)
(* thread runs on, which matters for the two that reserve.                 *)
(***************************************************************************)
EXTENDS Integers, FiniteSetsExt

CONSTANTS
  Requests,     \* upload requests
  Lengths,      \* declared lengths, NoLength among them
  Limit,        \* MAX_UPLOAD
  Stretch,      \* FREE_CHECK_BYTES
  Room,         \* what the card can hold
  Reserve,      \* _reserve: what must stay free
  MaxFaults     \* bound: requests cancelled and deaths of the daemon

NoLength == 0

VARIABLES
  at,         \* step of each request
  declared,   \* its Content-Length
  size,       \* bytes the parser has queued
  checked,    \* size at the last free-space check
  disk,       \* bytes it holds on the card, unlinked but open ones too
  folder,     \* "none", "part", "done" or "gone" (pruned under its writer)
  age,        \* of the folder: 1 is past STALE_PART_S, 2 past UPLOAD_TTL_S
  inFlight,   \* _IN_FLIGHT: bytes still to arrive
  late,       \* cancelled requests whose reserving thread still runs
  left,       \* requests whose handler ended without its own clean-up
  faults      \* cancelled requests and deaths so far

uploadVars == <<at, declared, size, checked, disk, folder, age, inFlight, late, left,
                faults>>
form == <<declared, size, checked>>
card == <<disk, folder, age>>

\* The handler has the partial file open; it knows the folder.
Open(u) == at[u] \in {"body", "write", "check", "discard"}
InHand(u) == Open(u) \/ at[u] \in {"rename", "detect"}
Total(f) == MapThenSumSet(LAMBDA u : f[u], Requests)

Init ==
  /\ at = [u \in Requests |-> "idle"]
  /\ declared = [u \in Requests |-> NoLength]
  /\ size = [u \in Requests |-> 0] /\ checked = [u \in Requests |-> 0]
  /\ disk = [u \in Requests |-> 0] /\ folder = [u \in Requests |-> "none"]
  /\ age = [u \in Requests |-> 0] /\ inFlight = [u \in Requests |-> 0]
  /\ late = {} /\ left = {} /\ faults = 0

Step(u, from, to) == at[u] = from /\ at' = [at EXCEPT ![u] = to]

\* upload up to _make_folder: the length is read from the request.
Begin(u) ==
  /\ Step(u, "idle", "prune")
  /\ \E d \in Lengths : declared' = [declared EXCEPT ![u] = d]
  /\ UNCHANGED <<size, checked, card, inFlight, late, left, faults>>

\* _prune: folders past their time, and stale ones without a finished file; a
\* file that is still open keeps its space.
Expired(v) ==
  /\ folder[v] \in {"part", "done"}
  /\ age[v] = 2 \/ (folder[v] = "part" /\ age[v] = 1)
Prune(u) ==
  /\ Step(u, "prune", "reserve")
  /\ folder' = [v \in Requests |->
                  IF ~Expired(v) THEN folder[v] ELSE IF InHand(v) THEN "gone" ELSE "none"]
  /\ disk' = [v \in Requests |-> IF Expired(v) /\ ~Open(v) THEN 0 ELSE disk[v]]
  /\ UNCHANGED <<form, age, inFlight, late, left, faults>>

Free == Room - Total(disk)
ClaimedNothing == 0
Claimed == Total(inFlight)

HasRoom(need) == Free - Claimed - need >= Reserve

\* The locked part of _make_folder.
Reserves(u) ==
  /\ HasRoom(declared[u])
  /\ folder' = [folder EXCEPT ![u] = "part"] /\ age' = [age EXCEPT ![u] = 0]
  /\ inFlight' = [inFlight EXCEPT ![u] = declared[u]]
MakeFolder(u) ==
  /\ Step(u, "reserve", "body") /\ Reserves(u)
  /\ UNCHANGED <<form, disk, late, left, faults>>
NoFolder(u) ==
  /\ Step(u, "reserve", "ended") /\ ~HasRoom(declared[u])
  /\ UNCHANGED <<form, card, inFlight, late, left, faults>>

\* on_part_data: a chunk is queued for flush(), or is past the limit.
Arrives(u) == declared[u] # NoLength => size[u] < declared[u]
Chunk(u) ==
  /\ Step(u, "body", "write") /\ Arrives(u) /\ size[u] < Limit
  /\ size' = [size EXCEPT ![u] = @ + 1]
  /\ UNCHANGED <<declared, checked, card, inFlight, late, left, faults>>
TooLarge(u) ==
  /\ Step(u, "body", "discard") /\ Arrives(u) /\ size[u] = Limit
  /\ UNCHANGED <<form, card, inFlight, late, left, faults>>

\* flush: the first write also creates the file; every Stretch the card is
\* looked at again.
Due(u) == size[u] - checked[u] >= Stretch
Flush(u) ==
  /\ Step(u, "write", IF Due(u) THEN "check" ELSE "body")
  /\ Free > 0 /\ (folder[u] = "gone" => disk[u] > 0)
  /\ disk' = [disk EXCEPT ![u] = @ + 1]
  /\ checked' = [checked EXCEPT ![u] = IF Due(u) THEN size[u] ELSE @]
  /\ UNCHANGED <<declared, size, folder, age, inFlight, late, left, faults>>
FlushFails(u) ==
  /\ Step(u, "write", "discard")
  /\ Free = 0 \/ (folder[u] = "gone" /\ disk[u] = 0)
  /\ UNCHANGED <<form, card, inFlight, late, left, faults>>

\* _check_free: the reservation shrinks to what is still to come, then the
\* card is asked; a pruned folder cannot be asked.
StillToCome(u) == IF declared[u] > size[u] THEN declared[u] - size[u] ELSE 0
Shrunk(u) == [inFlight EXCEPT ![u] = StillToCome(u)]
CheckFree(u) ==
  /\ Step(u, "check", IF folder[u] = "part" /\ Free - Total(Shrunk(u)) >= Reserve
                      THEN "body" ELSE "discard")
  /\ inFlight' = Shrunk(u)
  /\ UNCHANGED <<form, card, late, left, faults>>

\* The body ends: whole and well formed, or refused (no closing boundary, a
\* wrong or missing field, a parse error), or the client hung up.
BodyWhole(u) ==
  /\ Step(u, "body", "rename") /\ size[u] > 0
  /\ UNCHANGED <<form, card, inFlight, late, left, faults>>
BodyRefused(u) ==
  /\ Step(u, "body", "discard")
  /\ UNCHANGED <<form, card, inFlight, late, left, faults>>

Renamed(u) ==
  /\ folder[u] = "part"
  /\ folder' = [folder EXCEPT ![u] = "done"] /\ age' = [age EXCEPT ![u] = 0]
Rename(u) ==
  /\ Step(u, "rename", "detect") /\ Renamed(u)
  /\ UNCHANGED <<form, disk, inFlight, late, left, faults>>
RenameFails(u) ==
  /\ Step(u, "rename", "discard") /\ folder[u] = "gone"
  /\ UNCHANGED <<form, card, inFlight, late, left, faults>>

\* _detect reads the file: UBX or RINEX is kept, anything else, or a file
\* that was pruned meanwhile, is not.
Detect(u) ==
  /\ \/ Step(u, "detect", "release") /\ folder[u] = "done"
     \/ Step(u, "detect", "discard")
  /\ UNCHANGED <<form, card, inFlight, late, left, faults>>

\* _discard: the file is closed and the folder removed.
Discard(u) ==
  /\ Step(u, "discard", "release")
  /\ folder' = [folder EXCEPT ![u] = "none"] /\ disk' = [disk EXCEPT ![u] = 0]
  /\ UNCHANGED <<form, age, inFlight, late, left, faults>>

Release(u) ==
  /\ Step(u, "release", "ended")
  /\ inFlight' = [inFlight EXCEPT ![u] = 0]
  /\ UNCHANGED <<form, card, late, left, faults>>

\* The request is cancelled at an await.  Before upload() holds the folder's
\* name there is nothing to discard or release, and the thread that makes it
\* may have started and runs on; so may the one that checks.
Cancel(u) ==
  /\ faults < MaxFaults /\ faults' = faults + 1
  /\ \/ /\ \/ Step(u, "prune", "ended") /\ late' = late
           \/ Step(u, "reserve", "ended") /\ late' = late \cup {u}
        /\ left' = left \cup {u}
     \/ /\ \/ \E s \in {"body", "write", "check", "rename", "detect"} :
                Step(u, s, "discard") /\ late' = late
           \/ Step(u, "check", "discard") /\ late' = late \cup {u}
        /\ UNCHANGED left
  /\ UNCHANGED <<form, card, inFlight>>
LateMake(u) ==
  /\ u \in late /\ u \in left /\ late' = late \ {u}
  /\ \/ Reserves(u)
     \/ ~HasRoom(declared[u]) /\ UNCHANGED <<folder, age, inFlight>>
  /\ UNCHANGED <<at, form, disk, left, faults>>
LateCheck(u) ==
  /\ u \in late \ left /\ late' = late \ {u}
  /\ inFlight' = Shrunk(u)
  /\ left' = IF at[u] = "ended" THEN left \cup {u} ELSE left
  /\ UNCHANGED <<at, form, card, faults>>

\* Time passes for a folder.
Ages(u) ==
  /\ folder[u] \in {"part", "done"} /\ age[u] < 2
  /\ age' = [age EXCEPT ![u] = @ + 1]
  /\ UNCHANGED <<at, form, disk, folder, inFlight, late, left, faults>>

\* The daemon dies: reservations go with it, folders stay for a later _prune.
Dies ==
  /\ faults < MaxFaults /\ faults' = faults + 1
  /\ left' = left \cup {u \in Requests : at[u] \notin {"idle", "ended"}}
  /\ at' = [u \in Requests |-> IF at[u] = "idle" THEN "idle" ELSE "ended"]
  /\ inFlight' = [u \in Requests |-> 0] /\ late' = {}
  /\ disk' = [u \in Requests |-> IF folder[u] = "gone" THEN 0 ELSE disk[u]]
  /\ folder' = [u \in Requests |-> IF folder[u] = "gone" THEN "none" ELSE folder[u]]
  /\ UNCHANGED <<form, age>>

Next ==
  \/ Dies
  \/ \E u \in Requests :
       \/ Begin(u) \/ Prune(u) \/ MakeFolder(u) \/ NoFolder(u)
       \/ Chunk(u) \/ TooLarge(u) \/ Flush(u) \/ FlushFails(u) \/ CheckFree(u)
       \/ BodyWhole(u) \/ BodyRefused(u) \/ Rename(u) \/ RenameFails(u) \/ Detect(u)
       \/ Discard(u) \/ Release(u) \/ Cancel(u) \/ LateMake(u) \/ LateCheck(u) \/ Ages(u)

Spec == Init /\ [][Next]_uploadVars

-----------------------------------------------------------------------------
\* _upload_file: what a PPK job is given for an upload's id.
Resolves(u) == folder[u] = "done"

\* What declared uploads have still to write, and how far those without a
\* length may have gone past their last check.
ToCome(u) ==
  IF at[u] \in {"body", "write", "check"} /\ declared[u] # NoLength
  THEN declared[u] - disk[u] ELSE 0
Past(u) ==
  IF declared[u] # NoLength \/ disk[u] = 0 THEN 0
  ELSE IF at[u] \in {"check", "discard"} \/ u \in left THEN Stretch
  ELSE Stretch - 1

\* Uploads that arrive at once never promise the same space twice: after all
\* that declared uploads in flight have still to write, the reserve for the
\* raw logs is free but for less than a stretch per upload without a length (a
\* stretch while it is refused, or when the daemon died then; _make_folder,
\* _check_free).  A file a job can be given is whole, a request that ended
\* without one leaves nothing, and no reservation outlives its request, unless
\* the daemon died or a thread outlived its cancelled request.
UploadsFit ==
  /\ Free - MapThenSumSet(ToCome, Requests) >= Reserve - MapThenSumSet(Past, Requests)
  /\ \A u \in Requests :
       /\ Resolves(u) => disk[u] = size[u] /\ size[u] > 0
       /\ at[u] = "ended" /\ u \notin left =>
            /\ inFlight[u] = 0
            /\ folder[u] \in {"none", "done"} /\ (folder[u] = "none" => disk[u] = 0)
=============================================================================
