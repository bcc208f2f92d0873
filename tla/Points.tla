------------------------------- MODULE Points -------------------------------
(***************************************************************************)
(* Survey points and sessions (rover/points.py, rover/sessions.py and      *)
(* web/api/rover.py).  A collection averages the epochs of one point and   *)
(* saves it; requests start and cancel it, open and close sessions and     *)
(* delete points, each giving way at its database calls.  The clock the    *)
(* sessions are stamped with may step back.                                *)
(***************************************************************************)
EXTENDS Integers, Sequences, FiniteSets

CONSTANTS
  Requests,     \* POST /api/rover/collect calls: [id, epochs, fixedOnly]
  SkipFactor,   \* ABORT_SKIP_FACTOR
  QueueSize,    \* epochs the collector's subscription holds
  MaxEpochs,    \* epochs published
  MaxSessions,  \* sessions opened
  MaxTime,      \* clock readings
  MaxFaults     \* database calls that fail

VARIABLES
  call,       \* request -> "idle", "asked" (awaiting the session), "ended"
  read,       \* request -> session it read
  state,      \* collector: "idle", "collecting", "done", "aborted"
  cur,        \* request being collected
  owner,      \* session of the point being collected
  taken,      \* epochs accepted for it
  skipped,
  saving,     \* "no", "asked", "stored" (committed, not read back)
  row,        \* the point _finish built and is saving
  cancelled,  \* requests cancel() aborted
  points,     \* points ever committed
  alive,      \* those not deleted
  sessions,   \* sequence of [from, to]; to = Open while it is open
  clock,
  queue, published, faults

pointVars == <<call, read, state, cur, owner, taken, skipped, saving, row, cancelled, points, alive,
               sessions, clock, queue, published, faults>>

Open == -1
NoRequest == [id |-> 0, epochs |-> 0, fixedOnly |-> FALSE]
NoRow == [request |-> NoRequest, session |-> 0, epochs |-> <<>>, carr |-> "fixed"]
Quality == {"none", "float", "fixed"}

Init ==
  /\ call = [r \in Requests |-> "idle"] /\ read = [r \in Requests |-> 0]
  /\ state = "idle" /\ cur = NoRequest /\ owner = 0 /\ taken = <<>> /\ skipped = 0 /\ saving = "no"
  /\ row = NoRow /\ cancelled = {}
  /\ points = {} /\ alive = {} /\ sessions = <<>> /\ clock = 0
  /\ queue = <<>> /\ published = 0 /\ faults = 0

collection == <<state, cur, owner, taken, skipped, saving, row, cancelled>>
store == <<points, alive, sessions>>
requests == <<call, read>>

\* SessionsRepo.current: the newest open one.
Current ==
  LET opened == {i \in 1..Len(sessions) : sessions[i].to = Open}
  IN  IF opened = {} THEN 0 ELSE CHOOSE i \in opened : \A j \in opened : j <= i

\* PointCollector.start: refused while a point is collected, before it reads
\* the session and after.
StartAsk(r) ==
  /\ call[r] = "idle"
  /\ IF state = "collecting" THEN call' = [call EXCEPT ![r] = "ended"] /\ UNCHANGED read
     ELSE call' = [call EXCEPT ![r] = "asked"] /\ read' = [read EXCEPT ![r] = Current]
  /\ UNCHANGED <<collection, store, clock, queue, published, faults>>

StartGo(r) ==
  /\ call[r] = "asked" /\ call' = [call EXCEPT ![r] = "ended"]
  /\ IF state # "collecting"
     THEN /\ state' = "collecting" /\ cur' = r /\ owner' = read[r]
          /\ taken' = <<>> /\ skipped' = 0 /\ UNCHANGED <<saving, row, cancelled>>
     ELSE UNCHANGED collection
  /\ UNCHANGED <<read, store, clock, queue, published, faults>>

\* cancel: too late once the point is being saved.
CancelAllowedLate == state = "collecting"
CancelAllowed == state = "collecting" /\ saving = "no"

Cancel ==
  /\ CancelAllowed
  /\ state' = "aborted" /\ cancelled' = cancelled \union {cur}
  /\ UNCHANGED <<requests, cur, owner, taken, skipped, saving, row, store, clock, queue, published, faults>>

\* The receiver's epochs; one whose NAV-PVT was lost repeats the last one's
\* time.  The subscription drops its oldest.
Publish ==
  /\ published < MaxEpochs
  /\ published' = published + 1
  /\ \E q \in Quality, n \in {published, published + 1} \ {0} :
       queue' = IF Len(queue) < QueueSize THEN Append(queue, [n |-> n, q |-> q])
                ELSE Append(Tail(queue), [n |-> n, q |-> q])
  /\ UNCHANGED <<requests, collection, store, clock, faults>>

Repeats(e) == taken # <<>> /\ taken[Len(taken)].n = e.n
Usable(e) == e.q # "none" /\ (cur.fixedOnly => e.q = "fixed") /\ ~Repeats(e)

\* on_epoch, for the epochs that come while nothing is saved.
Ignore ==
  /\ queue # <<>> /\ saving = "no" /\ state # "collecting"
  /\ queue' = Tail(queue)
  /\ UNCHANGED <<requests, collection, store, clock, published, faults>>

Skip ==
  /\ queue # <<>> /\ saving = "no" /\ state = "collecting" /\ ~Usable(Head(queue))
  /\ queue' = Tail(queue) /\ skipped' = skipped + 1
  /\ state' = IF skipped' >= SkipFactor * cur.epochs THEN "aborted" ELSE state
  /\ UNCHANGED <<requests, cur, owner, taken, saving, row, cancelled, store, clock, published, faults>>

\* _track_quality: the worst of the epochs.
Worst(epochs) == IF \E i \in 1..Len(epochs) : epochs[i].q = "float" THEN "float" ELSE "fixed"

\* The row _finish builds before it awaits the database.
Point(epochs) == [request |-> cur, session |-> owner, epochs |-> epochs, carr |-> Worst(epochs)]

Accept ==
  /\ queue # <<>> /\ saving = "no" /\ state = "collecting" /\ Usable(Head(queue))
  /\ queue' = Tail(queue) /\ taken' = Append(taken, Head(queue))
  /\ IF Len(taken') >= cur.epochs THEN saving' = "asked" /\ row' = Point(taken')
     ELSE UNCHANGED <<saving, row>>
  /\ UNCHANGED <<requests, state, cur, owner, skipped, cancelled, store, clock, published, faults>>

\* PointsRepo.add: insert and commit, then the row is read back.
Insert ==
  /\ saving = "asked" /\ saving' = "stored"
  /\ points' = points \union {row} /\ alive' = alive \union {row}
  /\ UNCHANGED <<requests, state, cur, owner, taken, skipped, row, cancelled, sessions, clock, queue,
                 published, faults>>

Saved ==
  /\ saving = "stored" /\ saving' = "no"
  /\ state' = IF row \in alive THEN "done" ELSE "aborted"
  /\ UNCHANGED <<requests, cur, owner, taken, skipped, row, cancelled, store, clock, queue, published,
                 faults>>

\* A call that fails: the collection ends, it is never saved again.
SaveFails ==
  /\ saving # "no" /\ faults < MaxFaults /\ faults' = faults + 1
  /\ saving' = "no" /\ state' = "aborted"
  /\ UNCHANGED <<requests, cur, owner, taken, skipped, row, cancelled, store, clock, queue, published>>

DeletePoint ==
  /\ \E p \in alive : alive' = alive \ {p}
  /\ UNCHANGED <<requests, collection, points, sessions, clock, queue, published, faults>>

\* session_clock: the receiver's UTC, or the host's, which may be apart.
ClockReads ==
  /\ clock' \in 0..MaxTime \ {clock}
  /\ UNCHANGED <<requests, collection, store, queue, published, faults>>

\* _end: an end is never before its start.
EndStamp(from) == IF from > clock THEN from ELSE clock

\* SessionsRepo.start: in one transaction the open session ends.
OpenSession ==
  /\ Len(sessions) < MaxSessions
  /\ sessions' = Append([i \in 1..Len(sessions) |->
                           IF i = Current THEN [sessions[i] EXCEPT !.to = EndStamp(sessions[i].from)]
                           ELSE sessions[i]], [from |-> clock, to |-> Open])
  /\ UNCHANGED <<requests, collection, points, alive, clock, queue, published, faults>>

CloseSession ==
  /\ Current # 0
  /\ sessions' = [sessions EXCEPT ![Current].to = EndStamp(sessions[Current].from)]
  /\ UNCHANGED <<requests, collection, points, alive, clock, queue, published, faults>>

Next ==
  \/ \E r \in Requests : StartAsk(r) \/ StartGo(r)
  \/ Cancel \/ Publish \/ Ignore \/ Skip \/ Accept \/ Insert \/ Saved \/ SaveFails \/ DeletePoint
  \/ ClockReads \/ OpenSession \/ CloseSession

Spec == Init /\ [][Next]_pointVars

TypeOK ==
  /\ state \in {"idle", "collecting", "done", "aborted"} /\ saving \in {"no", "asked", "stored"}
  /\ Len(queue) <= QueueSize /\ alive \subseteq points

\* A point is what was asked for: a request stores at most one, of exactly
\* the epochs asked for, in their order, none twice and none worse than it
\* says; a request that was told it is cancelled never stores one, one that
\* still collects has stored none, one that is done has; and sessions end no
\* earlier than they start, at most one open (PointCollector and SessionsRepo
\* over requests that race, a database that fails and a clock that steps).
PointIsAsAsked ==
  /\ \A p \in points :
       /\ Len(p.epochs) = p.request.epochs
       /\ \A i, j \in 1..Len(p.epochs) : i < j => p.epochs[i].n < p.epochs[j].n
       /\ \A i \in 1..Len(p.epochs) :
            p.epochs[i].q = "fixed" \/ (p.carr = "float" /\ ~p.request.fixedOnly)
       /\ \A q \in points : q.request = p.request => q = p
       /\ p.request \notin cancelled
  /\ state = "collecting" /\ saving # "stored" => \A p \in points : p.request # cur
  /\ state = "done" => \E p \in points : p.request = cur
  /\ \A i \in 1..Len(sessions) :
       IF sessions[i].to = Open THEN i = Len(sessions) ELSE sessions[i].to >= sessions[i].from

=============================================================================
