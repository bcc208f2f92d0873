---------------------------- MODULE NtripCaster ----------------------------
(***************************************************************************)
(* The base's NTRIP caster (src/mtrtk/base/ntrip_caster.py): one handler   *)
(* task per connected rover with its own bounded queue, the task that      *)
(* feeds them the receiver's RTCM frames, and stop().                      *)
(*                                                                         *)
(* A frame is its number in the feed; the queue's sentinel, the empty      *)
(* frame, is End.  A step of a handler ends where it awaits.  The rows of  *)
(* ntrip_clients_log are written by a database that may fail or hang.      *)
(***************************************************************************)
EXTENDS Naturals, Sequences, FiniteSets

CONSTANTS
  Rovers,
  V2,           \* the rovers that speak NTRIP v2
  QMax,         \* CLIENT_QUEUE_FRAMES, at least 2
  Grace,        \* SLOW_CLIENT_GRACE_S, in polls of a blocked write
  Plans         \* the instances of a run: the rovers there are, max_clients,
                \* how many frames are fed (a bound), what the database does

End == 0
Kinds == {"1005", "1230", "msm"}

VARIABLES
  plan,       \* the instance, chosen once
  feed,       \* kinds of the frames fed so far
  last,       \* last[k]: the cached frame of kind k, or End
  conns,      \* the registered clients (_conns and clients)
  at,         \* at[r]: where r's handler stands
  queue, dropped, stop_reason, slow,  \* its _Client
  gga,        \* gga[r]: its GGA reader runs
  reason,     \* why its stream ended
  peer,       \* peer[r]: the rover reads, has stalled or is gone
  row, log_row,       \* its row in the log, and whether the handler knows it
  stopping,   \* _stopping
  stopper,    \* where stop() stands
  waited,     \* the handlers stop() waits for
  wire,       \* wire[r]: what was written after the response     (history)
  offered,    \* offered[r]: the frames its queue was offered      (history)
  joined      \* joined[r]: frames fed before r was registered     (history)

client == <<queue, dropped, stop_reason, slow, offered>>
reg == <<conns, joined>>
rows == <<row, log_row>>
stops == <<stopping, stopper, waited>>
fed == <<feed, last>>
vars == <<plan, fed, conns, at, client, gga, reason, peer, rows, stops, wire, joined>>

Running(r) == at[r] \notin {"out", "gone"}

Init ==
  /\ plan \in Plans
  /\ feed = <<>> /\ last = [k \in {"1005", "1230"} |-> End]
  /\ conns = {} /\ at = [r \in Rovers |-> "out"]
  /\ queue = [r \in Rovers |-> <<>>] /\ dropped = [r \in Rovers |-> 0]
  /\ stop_reason = [r \in Rovers |-> "none"] /\ slow = [r \in Rovers |-> 0]
  /\ gga = [r \in Rovers |-> FALSE] /\ reason = [r \in Rovers |-> "none"]
  /\ peer = [r \in Rovers |-> "reads"]
  /\ row = [r \in Rovers |-> "none"] /\ log_row = [r \in Rovers |-> FALSE]
  /\ stopping = FALSE /\ stopper = "idle" /\ waited = {}
  /\ wire = [r \in Rovers |-> <<>>] /\ offered = [r \in Rovers |-> <<>>]
  /\ joined = [r \in Rovers |-> 0]

-----------------------------------------------------------------------------
(* _offer and _end, for every client in S *)

Put(q, f) == Append(IF Len(q) < QMax THEN q ELSE Tail(q), f)

Offered(S, f) ==
  /\ queue' = [r \in Rovers |-> IF r \in S THEN Put(queue[r], f) ELSE queue[r]]
  /\ dropped' = [r \in Rovers |->
                   IF r \in S /\ Len(queue[r]) >= QMax THEN dropped[r] + 1 ELSE dropped[r]]
  /\ offered' = [r \in Rovers |->
                   IF r \in S /\ f # End THEN Append(offered[r], f) ELSE offered[r]]

EndReason(S, why) ==
  stop_reason' = [r \in Rovers |->
    IF r \in S /\ stop_reason[r] = "none" THEN why ELSE stop_reason[r]]

Ended(S, why) == EndReason(S, why) /\ Offered(S, End)

-----------------------------------------------------------------------------
(* _feed and _on_frame *)

Feed(k) ==
  LET f == Len(feed) + 1
  IN  /\ ~stopping /\ f <= plan.frames
      /\ feed' = Append(feed, k)
      /\ last' = IF k \in DOMAIN last THEN [last EXCEPT ![k] = f] ELSE last
      /\ Offered(conns, f)
      /\ UNCHANGED <<reg, at, stop_reason, slow, gga, reason, peer, rows, stops, wire>>

-----------------------------------------------------------------------------
(* _handle_conn *)

Connects(r) ==
  /\ at[r] = "out" /\ r \in plan.rovers /\ stopper \in {"idle", "feed"}
  /\ at' = [at EXCEPT ![r] = "head"]
  /\ UNCHANGED <<fed, reg, client, gga, reason, peer, rows, stops, wire>>

(* A bad or late head, another verb or mountpoint, the sourcetable, a      *)
(* refused login: an answer, and the connection is closed.                 *)
Refuses(r) ==
  /\ at[r] = "head"
  /\ at' = [at EXCEPT ![r] = "gone"]
  /\ UNCHANGED <<fed, reg, client, gga, reason, peer, rows, stops, wire>>

AtCap == Cardinality(conns) >= plan.max

TooMany(r) ==
  /\ at[r] = "head" /\ AtCap
  /\ at' = [at EXCEPT ![r] = "gone"]
  /\ UNCHANGED <<fed, reg, client, gga, reason, peer, rows, stops, wire>>

(* The cached frame of kind k, if one was fed. *)
LastOf(k) == IF last[k] = End THEN <<>> ELSE <<last[k]>>

(* Mutant of Cached: the other order. *)
Cached1230First == LastOf("1230") \o LastOf("1005")

(* The last 1005, then the last 1230. *)
Cached == LastOf("1005") \o LastOf("1230")

(* _serve_stream to its first await: the response, the cached frames, the  *)
(* registration.  (Its drain() of the response does not suspend.)          *)
Serves(r) ==
  /\ at[r] = "head" /\ ~AtCap
  /\ conns' = conns \cup {r} /\ joined' = [joined EXCEPT ![r] = Len(feed)]
  /\ queue' = [queue EXCEPT ![r] = IF stopping THEN Put(Cached, End) ELSE Cached]
  /\ dropped' = [dropped EXCEPT ![r] = IF stopping /\ Len(Cached) >= QMax THEN 1 ELSE 0]
  /\ stop_reason' = [stop_reason EXCEPT ![r] = IF stopping THEN "caster stopped" ELSE "none"]
  /\ offered' = [offered EXCEPT ![r] = Cached]
  /\ at' = [at EXCEPT ![r] = "logging"]
  /\ UNCHANGED <<fed, slow, gga, reason, peer, rows, stops, wire>>

(* _log_connected answers, and the GGA reader is started. *)
LogConnected(r) ==
  /\ at[r] = "logging"
  /\ \/ row' = [row EXCEPT ![r] = "open"] /\ log_row' = [log_row EXCEPT ![r] = TRUE]
     \/ "db_fails" \in plan.faults /\ UNCHANGED rows
  /\ gga' = [gga EXCEPT ![r] = TRUE]
  /\ at' = [at EXCEPT ![r] = "stream"]
  /\ UNCHANGED <<fed, reg, client, reason, peer, stops, wire>>

-----------------------------------------------------------------------------
(* _write_loop and _finish_stream *)

Leaves(r, why) ==
  /\ at' = [at EXCEPT ![r] = "teardown"]
  /\ reason' = [reason EXCEPT ![r] = why]

(* What is queued is dropped; an empty frame closes a v2 body. *)
FinishStream(r) ==
  /\ queue' = [queue EXCEPT ![r] = <<>>]
  /\ wire' = IF r \in V2 THEN [wire EXCEPT ![r] = Append(@, End)] ELSE wire
  /\ at' = [at EXCEPT ![r] = "finish"]

Writes(r) ==
  LET f == Head(queue[r])
  IN  /\ at[r] = "stream" /\ queue[r] # <<>>
      /\ \/ /\ stop_reason[r] # "none"
            /\ FinishStream(r)
            /\ UNCHANGED reason
         \/ /\ stop_reason[r] = "none"
            /\ queue' = [queue EXCEPT ![r] = Tail(@)]
            /\ wire' = [wire EXCEPT ![r] = Append(@, f)]
            /\ \/ at' = [at EXCEPT ![r] = "drain"] /\ UNCHANGED reason
               \/ peer[r] = "gone" /\ Leaves(r, "client closed")
      /\ UNCHANGED <<fed, reg, dropped, stop_reason, slow, offered, gga, peer, rows, stops>>

(* Less is unsent than marks a slow rover. *)
Drained(r) ==
  /\ at[r] = "drain"
  /\ slow' = [slow EXCEPT ![r] = 0]
  /\ at' = [at EXCEPT ![r] = "stream"]
  /\ UNCHANGED <<fed, reg, queue, dropped, stop_reason, offered, gga, reason, peer, rows,
                 stops, wire>>

(* _end, then _finish_stream *)
SlowEnds(r) ==
  /\ stop_reason' = [stop_reason EXCEPT ![r] = IF @ = "none" THEN "slow client" ELSE @]
  /\ FinishStream(r)
  /\ UNCHANGED reason

(* The poll of a write to a rover that does not read. *)
SlowPoll(r) ==
  /\ at[r] = "drain" /\ peer[r] = "stalled"
  /\ slow' = [slow EXCEPT ![r] = @ + 1]
  /\ \/ /\ slow[r] < Grace
        /\ at' = [at EXCEPT ![r] = "stream"]
        /\ UNCHANGED <<queue, stop_reason, reason, wire>>
     \/ /\ slow[r] >= Grace
        /\ SlowEnds(r)
  /\ UNCHANGED <<fed, reg, dropped, offered, gga, peer, rows, stops>>

DrainFails(r) ==
  /\ at[r] = "drain" /\ peer[r] = "gone"
  /\ Leaves(r, "ConnectionResetError")
  /\ UNCHANGED <<fed, reg, client, gga, peer, rows, stops, wire>>

Finished(r) ==
  /\ at[r] = "finish"
  /\ Leaves(r, stop_reason[r])
  /\ UNCHANGED <<fed, reg, client, gga, peer, rows, stops, wire>>

-----------------------------------------------------------------------------
(* _teardown, shielded, and _log_disconnected *)

Teardown(r) ==
  /\ at[r] = "teardown"
  /\ gga' = [gga EXCEPT ![r] = FALSE]
  /\ IF gga[r] THEN Ended({r}, "client closed") ELSE UNCHANGED <<queue, dropped, stop_reason, offered>>
  /\ conns' = conns \ {r}
  /\ at' = [at EXCEPT ![r] = IF log_row[r] THEN "row" ELSE "gone"]
  /\ UNCHANGED <<fed, joined, slow, reason, peer, rows, stops, wire>>

LogDisconnected(r) ==
  /\ at[r] = "row" /\ stopper # "stopped"
  /\ \/ row' = [row EXCEPT ![r] = "closed"]
     \/ "db_fails" \in plan.faults /\ UNCHANGED row
  /\ at' = [at EXCEPT ![r] = "gone"]
  /\ UNCHANGED <<fed, reg, client, gga, reason, peer, log_row, stops, wire>>

-----------------------------------------------------------------------------
(* _read_gga: the rover's end of the socket *)

GgaEnds(r) ==
  /\ gga[r] /\ peer[r] = "gone"
  /\ gga' = [gga EXCEPT ![r] = FALSE]
  /\ Ended({r}, "client closed")
  /\ UNCHANGED <<fed, reg, at, slow, reason, peer, rows, stops, wire>>

PeerChanges(r, p) ==
  /\ Running(r) /\ peer[r] \notin {"gone", p}
  /\ peer' = [peer EXCEPT ![r] = p]
  /\ UNCHANGED <<fed, reg, at, client, gga, reason, rows, stops, wire>>

-----------------------------------------------------------------------------
(* stop() *)

StopBegins ==
  /\ stopper = "idle"
  /\ stopping' = TRUE /\ stopper' = "feed"
  /\ UNCHANGED <<fed, reg, at, client, gga, reason, peer, rows, waited, wire>>

(* The feed task is over: close the server, end every client. *)
StopEnds ==
  /\ stopper = "feed"
  /\ Ended(conns, "caster stopped")
  /\ waited' = {r \in Rovers : Running(r)}
  /\ stopper' = "grace"
  /\ UNCHANGED <<fed, reg, at, slow, gga, reason, peer, rows, stopping, wire>>

(* A handler that has not ended waits for something outside the caster:    *)
(* the writes of a stream that ends are bounded by polls, well within the  *)
(* grace.                                                                  *)
Hangs(r) ==
  \/ at[r] = "head"
  \/ at[r] \in {"logging", "row"} /\ "db_hangs" \in plan.faults

(* SHUTDOWN_GRACE_S is over: what hangs is cancelled, teardown excepted;   *)
(* an insert of the row that has begun (a row of I) ends without it.       *)
GraceOver(I) ==
  LET late == {r \in waited : Running(r)}
      logs == {r \in late : at[r] = "logging"}
  IN  /\ stopper = "grace" /\ late # {} /\ \A r \in late : Hangs(r)
      /\ I \subseteq logs
      /\ row' = [r \in Rovers |-> IF r \in I THEN "open" ELSE row[r]]
      /\ reason' = [r \in Rovers |-> IF r \in logs THEN "cancelled" ELSE reason[r]]
      /\ at' = [r \in Rovers |-> IF r \in logs THEN "teardown"
                             ELSE IF r \in late /\ at[r] = "head" THEN "gone"
                             ELSE at[r]]
      /\ waited' = late
      /\ stopper' = "teardown"
      /\ UNCHANGED <<fed, reg, client, gga, peer, log_row, stopping, wire>>

StopDone ==
  /\ stopper \in {"grace", "teardown"} /\ \A r \in waited : ~Running(r)
  /\ stopper' = "stopped"
  /\ UNCHANGED <<fed, reg, at, client, gga, reason, peer, rows, stopping, waited, wire>>

(* Mutant of StopGivesUp: stop() waits for as long as it takes. *)
StopGivesUpNever ==
  /\ stopper = "teardown" /\ ~stopping
  /\ UNCHANGED vars

(* TEARDOWN_GRACE_S is over: one wedged row must not hold the daemon. *)
StopGivesUp ==
  /\ stopper = "teardown" /\ \E r \in waited : Running(r)
  /\ \A r \in waited : Running(r) => Hangs(r)
  /\ stopper' = "stopped"
  /\ UNCHANGED <<fed, reg, at, client, gga, reason, peer, rows, stopping, waited, wire>>

Next ==
  /\ \/ \E k \in Kinds : Feed(k)
     \/ \E r \in Rovers : Connects(r) \/ Refuses(r) \/ TooMany(r) \/ Serves(r)
     \/ \E r \in Rovers : LogConnected(r) \/ LogDisconnected(r)
     \/ \E r \in Rovers : Writes(r) \/ Drained(r) \/ SlowPoll(r) \/ DrainFails(r) \/ Finished(r)
     \/ \E r \in Rovers : Teardown(r) \/ GgaEnds(r)
     \/ \E r \in Rovers, p \in {"reads", "stalled", "gone"} : PeerChanges(r, p)
     \/ StopBegins \/ StopEnds \/ StopDone \/ StopGivesUp
     \/ \E I \in SUBSET Rovers : GraceOver(I)
  /\ UNCHANGED plan

Spec == Init /\ [][Next]_vars

(* A rover's handler is one task, its GGA reader another. *)
Handler(r) ==
  \/ Refuses(r) \/ TooMany(r) \/ Serves(r)
  \/ Writes(r) \/ Drained(r) \/ SlowPoll(r) \/ DrainFails(r) \/ Finished(r) \/ Teardown(r)
  \/ "db_hangs" \notin plan.faults /\ (LogConnected(r) \/ LogDisconnected(r))

(* Tasks are scheduled, every write and every wait of a stream has a       *)
(* deadline, a request head times out; the database answers unless it      *)
(* hangs.  Frames, rovers and the stop need not come.                      *)
Fairness ==
  /\ \A r \in Rovers :
       WF_vars(Handler(r) /\ UNCHANGED plan) /\ WF_vars(GgaEnds(r) /\ UNCHANGED plan)
  /\ WF_vars((StopEnds \/ StopDone \/ StopGivesUp) /\ UNCHANGED plan)
  /\ WF_vars((\E I \in SUBSET Rovers : GraceOver(I)) /\ UNCHANGED plan)
FairSpec == Spec /\ Fairness

-----------------------------------------------------------------------------

(* A rover that joins between two cycles of 1005 is sent the last one      *)
(* before any other frame, unless it was too slow for its queue            *)
(* (_serve_stream).                                                        *)
JoinsWith1005 ==
  \A r \in Rovers :
    LET before == {f \in 1 .. joined[r] : feed[f] = "1005"}
    IN  before # {} /\ dropped[r] = 0 /\ wire[r] # <<>> /\ wire[r][1] # End =>
          wire[r][1] \in before /\ \A f \in before : f <= wire[r][1]

(* While a stream is up, what a slow rover misses is the oldest, and the   *)
(* count of dropped frames is what it misses (_offer).                     *)
DropsOldest ==
  \A r \in conns : stop_reason[r] = "none" =>
    /\ queue[r] = SubSeq(offered[r], Len(offered[r]) - Len(queue[r]) + 1, Len(offered[r]))
    /\ Len(wire[r]) + Len(queue[r]) + dropped[r] = Len(offered[r])

(* A handler that is over has left nothing behind: no registration that    *)
(* would count against the cap or be fed for ever, and no open row in the  *)
(* log, since "each one still logs its disconnect from its own shielded    *)
(* teardown" (stop).  The database may fail to, and a handler that stop()  *)
(* cancels while its row is inserted does not know the row.                *)
LeavesNothing ==
  \A r \in Rovers : at[r] = "gone" =>
    /\ r \notin conns
    /\ row[r] = "open" => "db_fails" \in plan.faults \/ reason[r] = "cancelled"

(* A client that is asked to end ends, whatever its queue dropped          *)
(* meanwhile (_end).                                                       *)
EndedLeaves ==
  \A r \in Rovers :
    (r \in conns /\ stop_reason[r] # "none" /\ "db_hangs" \notin plan.faults) ~> at[r] = "gone"

(* stop() returns, whatever a rover or the database does. *)
StopReturns == stopping ~> stopper = "stopped"

(* A rover's stream starts with the base's position and misses only what   *)
(* was counted, and a rover that is gone has left nothing behind.          *)
RoversServed == JoinsWith1005 /\ DropsOldest /\ LeavesNothing

(* A stream that is asked to end does, and stop() returns. *)
StreamsEnd == EndedLeaves /\ StopReturns

=============================================================================
