------------------------------ MODULE UbxLink ------------------------------
(***************************************************************************)
(* The request/answer correlation of src/mtrtk/core/link.py.  A request    *)
(* registers one waiter per acceptable answer, writes, and takes the first *)
(* answer that arrives.  An ACK carries nothing but the class and id of    *)
(* what it acknowledges, so the answer to a request that already gave up   *)
(* looks like the answer to the next one: a request that retires           *)
(* unanswered books a credit (`_stale`), spent on the next answer for that *)
(* key, and a request that stood waiting while a credit was spent is       *)
(* `robbed` and books none.                                                *)
(*                                                                         *)
(* A caller has at most one request in progress, so the waiter it has      *)
(* under a key is named by the caller.  All times are ticks left to run.   *)
(* The receiver and the serial line answer in order; losing, delaying or   *)
(* failing to send something is a fault, and faults are bounded.           *)
(***************************************************************************)
EXTENDS Naturals, Sequences, FiniteSets, SequencesExt

CONSTANTS
  Callers,      \* the tasks that use the link
  Plans,        \* the situations to check; a plan says what each caller asks for
                \* (does), the lock it holds while it does (lock), how many faults
                \* of a kind may happen (faults) and how many periodic samples the
                \* receiver sends (samples)
  Timeout,      \* ticks a request waits for its answer
  Retries,      \* attempts of one valset
  MaxOps        \* bound: requests started in a run

Kinds == {"valset", "valget", "poll"}
FaultKinds == {"lost", "late", "write", "cancel"}

ASSUME LinkAssumption ==
  /\ \A p \in Plans : /\ p.does \in [Callers -> SUBSET Kinds]
                      /\ DOMAIN p.lock = Callers
                      /\ p.faults \in [FaultKinds -> Nat]
                      /\ p.samples \in Nat
  /\ Timeout \in Nat \ {0, 1}
  /\ Retries \in Nat \ {0}
  /\ MaxOps \in Nat

\* The acceptable answers of a request, in order of preference: the frame
\* that carries the data, then the bare ACK or NAK.
KeysOf(kind) == CASE kind = "valset" -> <<"ack:valset">>
                  [] kind = "valget" -> <<"CFG-VALGET", "ack:valget">>
                  [] kind = "poll"   -> <<"MON", "ack:poll">>

AckKeys == {"ack:valset", "ack:valget", "ack:poll"}
AllKeys == AckKeys \cup {"CFG-VALGET", "MON"}

\* A frame on its way from the receiver: the request it answers (0 for a
\* periodic sample) and the ticks until it arrives.
Frame(key, op, due) == [key |-> key, op |-> op, due |-> due]

VARIABLES
  plan,      \* the situation of this run; never changes
  pc,        \* pc[c]: "idle", "writing" or "waiting"
  kind,      \* kind[c]: what c asks for
  op,        \* op[c]: number of the request c makes, kept over the retries of a valset
  attempt,   \* attempt[c]: of a valset, from 1
  left,      \* left[c]: ticks until asyncio.wait times out
  fut,       \* fut[c][k]: "pending", "done", "failed" (link stopped) or "none"
  from,      \* from[c][k]: the request whose answer resolved that future
  robbed,    \* robbed[c][k]: _Waiter.robbed
  waiters,   \* waiters[k]: UbxLink._waiters, in order of registration
  writers,   \* the callers inside `write`, in the order the lock serves them
  stale,     \* stale[k]: UbxLink._stale, ticks until each credit lapses
  inflight,  \* frames on their way from the receiver, in order
  stopped,   \* UbxLink.stop ran
  result,    \* result[c]: how the last request of c ended
  ops,       \* requests started
  faults,    \* faults[kind]: faults of that kind so far
  timeouts,  \* attempts that timed out so far
  samples    \* periodic samples so far

wait == <<pc, kind, op, attempt, left, fut, from, robbed, waiters, writers>>
vars == <<plan, wait, stale, inflight, stopped, result, ops, faults, timeouts, samples>>

None == [outcome |-> "none", op |-> 0, from |-> 0]

Init ==
  /\ plan \in Plans
  /\ pc = [c \in Callers |-> "idle"]
  /\ kind = [c \in Callers |-> "valset"]
  /\ op = [c \in Callers |-> 0]
  /\ attempt = [c \in Callers |-> 0]
  /\ left = [c \in Callers |-> 0]
  /\ fut = [c \in Callers |-> [k \in AllKeys |-> "none"]]
  /\ from = [c \in Callers |-> [k \in AllKeys |-> 0]]
  /\ robbed = [c \in Callers |-> [k \in AllKeys |-> FALSE]]
  /\ waiters = [k \in AllKeys |-> <<>>]
  /\ writers = <<>>
  /\ stale = [k \in AckKeys |-> <<>>]
  /\ inflight = <<>>
  /\ stopped = FALSE
  /\ result = [c \in Callers |-> None]
  /\ ops = 0
  /\ faults = [f \in FaultKinds |-> 0]
  /\ timeouts = 0
  /\ samples = 0

\* A fault of that kind happens, if the plan has one left.
Fault(f) == faults[f] < plan.faults[f] /\ faults' = [faults EXCEPT ![f] = @ + 1]

Keys(c) == ToSet(KeysOf(kind[c]))

-----------------------------------------------------------------------------
(* Registration and the write                                              *)

\* The head of `_request`: a future and a waiter under every key, then the
\* write lock.  ws is the waiter queues it registers in.
Register(c, knd, ws) ==
  LET ks == ToSet(KeysOf(knd))
  IN /\ pc' = [pc EXCEPT ![c] = "writing"]
     /\ fut' = [fut EXCEPT ![c] = [k \in AllKeys |-> IF k \in ks THEN "pending" ELSE "none"]]
     /\ from' = [from EXCEPT ![c] = [k \in AllKeys |-> 0]]
     /\ robbed' = [robbed EXCEPT ![c] = [k \in AllKeys |-> FALSE]]
     /\ waiters' = [k \in AllKeys |-> IF k \in ks THEN Append(ws[k], c) ELSE ws[k]]

\* The callers of one lock make one request at a time.
MayStart(c) == \A d \in Callers : plan.lock[d] = plan.lock[c] => pc[d] = "idle"

\* `valset`, `valget` or `poll` is called.
Request(c, knd) ==
  /\ ops < MaxOps
  /\ MayStart(c)
  /\ knd \in plan.does[c]
  /\ Register(c, knd, waiters)
  /\ kind' = [kind EXCEPT ![c] = knd]
  /\ op' = [op EXCEPT ![c] = ops + 1]
  /\ attempt' = [attempt EXCEPT ![c] = 1]
  /\ left' = [left EXCEPT ![c] = 0]
  /\ writers' = Append(writers, c)
  /\ ops' = ops + 1
  /\ UNCHANGED <<stale, inflight, stopped, result, faults, timeouts, samples>>

\* What the receiver sends back: the data frame of a read and then its ACK,
\* or a bare NAK; a plain poll has no ACK.
Answers(knd) == CASE knd = "valset" -> {<<"ack:valset">>}
                  [] knd = "valget" -> {<<"CFG-VALGET", "ack:valget">>, <<"ack:valget">>}
                  [] knd = "poll"   -> {<<"MON">>, <<"ack:poll">>}

\* The line keeps the order of frames: nothing overtakes the last one.
Behind(due) == IF inflight = <<>> THEN due
               ELSE IF due >= inflight[Len(inflight)].due THEN due
               ELSE inflight[Len(inflight)].due

\* What is left of an answer of one or two frames when some are lost.
Remains(ans) == {ans, <<>>} \cup {<<ans[i]>> : i \in DOMAIN ans}

\* The write goes out and the receiver answers: in time (less than Timeout),
\* late (but before the credit the request leaves has lapsed), or in part or
\* not at all because frames are lost.
Write(c) ==
  /\ writers # <<>> /\ Head(writers) = c
  /\ writers' = Tail(writers)
  /\ pc' = [pc EXCEPT ![c] = "waiting"]
  /\ left' = [left EXCEPT ![c] = Timeout]
  /\ \E due \in 0 .. 2 * Timeout - 1, ans \in Answers(kind[c]) : \E sent \in Remains(ans) :
       /\ due >= Timeout => sent = ans
       /\ IF sent # ans THEN Fault("lost")
          ELSE IF due >= Timeout THEN Fault("late")
          ELSE UNCHANGED faults
       /\ inflight' = inflight \o [i \in DOMAIN sent |-> Frame(sent[i], op[c], Behind(due))]
  /\ UNCHANGED <<kind, op, attempt, fut, from, robbed, waiters, stale, stopped, result, ops,
                 timeouts, samples>>

-----------------------------------------------------------------------------
(* Answers                                                                 *)

\* A message the receiver sends on its own, with the identity of a polled one.
Sample ==
  /\ samples < plan.samples
  /\ samples' = samples + 1
  /\ inflight' = Append(inflight, Frame("MON", 0, Behind(0)))
  /\ UNCHANGED <<wait, stale, stopped, result, ops, faults, timeouts>>

\* `_purge`: credits that have lapsed leave, from the oldest on; these stay.
Lapsed(k) ==
  CHOOSE n \in 0 .. Len(stale[k]) :
    /\ \A i \in 1 .. n : stale[k][i] = 0
    /\ n < Len(stale[k]) => stale[k][n + 1] > 0
Live(k) == SubSeq(stale[k], Lapsed(k) + 1, Len(stale[k]))

\* Mutant of SpendStale: credits are ignored.
SpendStaleNever(k) == FALSE

\* `_spend_stale`: this answer is owed to a request that gave up.
SpendStale(k) == k \in AckKeys /\ Live(k) # <<>>

\* A credit is spent while a request waits: its waiter is robbed.
Rob(k) == IF waiters[k] = <<>> THEN robbed ELSE [robbed EXCEPT ![Head(waiters[k])][k] = TRUE]

\* `_deliver`, for the next frame of the bus.  After `stop` the dispatch task
\* is gone and frames reach nobody.
Deliver ==
  /\ inflight # <<>> /\ Head(inflight).due = 0
  /\ inflight' = Tail(inflight)
  /\ LET f == Head(inflight)
         k == f.key
     IN IF stopped THEN UNCHANGED <<stale, robbed, waiters, fut, from>>
        ELSE /\ stale' = IF k \notin AckKeys THEN stale
                         ELSE [stale EXCEPT ![k] = IF SpendStale(k) THEN Tail(Live(k)) ELSE Live(k)]
             /\ IF SpendStale(k)
                THEN robbed' = Rob(k) /\ UNCHANGED <<waiters, fut, from>>
                ELSE IF waiters[k] = <<>> THEN UNCHANGED <<robbed, waiters, fut, from>>
                ELSE LET w == Head(waiters[k])
                     IN /\ waiters' = [waiters EXCEPT ![k] = Tail(@)]
                        /\ fut' = [fut EXCEPT ![w][k] = "done"]
                        /\ from' = [from EXCEPT ![w][k] = f.op]
                        /\ UNCHANGED robbed
  /\ UNCHANGED <<pc, kind, op, attempt, left, writers, stopped, result, ops, faults, timeouts,
                 samples>>

-----------------------------------------------------------------------------
(* The end of a request                                                    *)

Done(c) == {k \in Keys(c) : fut[c][k] = "done"}
Pending(c) == {k \in Keys(c) : fut[c][k] = "pending"}

\* The ACK keys on which `_retire` books a credit.
Credited(c) == IF Done(c) # {} THEN {} ELSE {k \in Pending(c) \cap AckKeys : ~robbed[c][k]}

\* `queue.remove`, of what is in the queue once or not at all.
Without(q, c) ==
  IF \E i \in DOMAIN q : q[i] = c THEN RemoveAt(q, CHOOSE i \in DOMAIN q : q[i] = c) ELSE q

\* The waiter queues without those of c.
Unregistered(c) == [k \in AllKeys |-> Without(waiters[k], c)]

\* `_retire`: what c leaves behind.
Retire(c) ==
  stale' = [k \in AckKeys |-> IF k \in Credited(c) THEN Append(Live(k), Timeout) ELSE stale[k]]

End(c, outcome, answer) ==
  /\ pc' = [pc EXCEPT ![c] = "idle"]
  /\ fut' = [fut EXCEPT ![c] = [k \in AllKeys |-> "none"]]
  /\ from' = [from EXCEPT ![c] = [k \in AllKeys |-> 0]]
  /\ robbed' = [robbed EXCEPT ![c] = [k \in AllKeys |-> FALSE]]
  /\ waiters' = Unregistered(c)
  /\ left' = [left EXCEPT ![c] = 0]
  /\ attempt' = [attempt EXCEPT ![c] = 0]
  /\ result' = [result EXCEPT ![c] = [outcome |-> outcome, op |-> op[c], from |-> answer]]
  /\ writers' = Without(writers, c)

MayRetry(c) == kind[c] = "valset" /\ attempt[c] < Retries

\* Mutant of Woken: the wait has no deadline.
WokenByAnswer(c) == Pending(c) # Keys(c)

\* `asyncio.wait` returns: a future is done or failed, or the time is up.
Woken(c) == left[c] = 0 \/ Pending(c) # Keys(c)

\* The first future that is done or failed, if there is one.
Preferred(c) ==
  LET ks == KeysOf(kind[c])
  IN  IF fut[c][ks[1]] \in {"done", "failed"} THEN ks[1] ELSE ks[Len(ks)]

\* The request task resumes: a future is done, or the deadline has passed.
\* The answer is the preferred one of those that are done; the exception of a
\* stopped link is a LinkTimeout, and a valset is retried on either.
Wake(c) ==
  /\ pc[c] = "waiting"
  /\ Woken(c)
  /\ Retire(c)
  /\ UNCHANGED <<kind, op, inflight, stopped, ops, faults, samples>>
  /\ IF fut[c][Preferred(c)] = "done"
     THEN End(c, "answered", from[c][Preferred(c)]) /\ UNCHANGED timeouts
     ELSE /\ timeouts' = timeouts + 1
          /\ IF MayRetry(c)
             THEN /\ Register(c, "valset", Unregistered(c))
                  /\ attempt' = [attempt EXCEPT ![c] = @ + 1]
                  /\ left' = [left EXCEPT ![c] = 0]
                  /\ writers' = Append(writers, c)
                  /\ UNCHANGED result
             ELSE End(c, "timeout", 0)

\* `source.write` raises: the request retires without having been sent.
WriteFails(c) ==
  /\ Fault("write")
  /\ writers # <<>> /\ Head(writers) = c
  /\ Retire(c)
  /\ End(c, "error", 0)
  /\ UNCHANGED <<kind, op, inflight, stopped, ops, timeouts, samples>>

\* The caller is cancelled while it waits for its answer.
Cancel(c) ==
  /\ Fault("cancel")
  /\ pc[c] = "waiting"
  /\ Retire(c)
  /\ End(c, "cancelled", 0)
  /\ UNCHANGED <<kind, op, inflight, stopped, ops, timeouts, samples>>

\* `stop`: every waiter that is left fails, and nothing is owed any more.
Stop ==
  /\ ~stopped
  /\ stopped' = TRUE
  /\ fut' = [c \in Callers |-> [k \in AllKeys |->
       IF c \in ToSet(waiters[k]) /\ fut[c][k] = "pending" THEN "failed" ELSE fut[c][k]]]
  /\ waiters' = [k \in AllKeys |-> <<>>]
  /\ stale' = [k \in AckKeys |-> <<>>]
  /\ UNCHANGED <<pc, kind, op, attempt, left, from, robbed, writers, inflight, result, ops,
                 faults, timeouts, samples>>

\* One tick passes.  A frame that is due and a deadline that has passed are
\* dealt with first, in either order.
Tick ==
  /\ \/ \E c \in Callers : pc[c] = "waiting"
     \/ inflight # <<>>
     \/ \E k \in AckKeys : Live(k) # <<>>
  /\ \A i \in 1 .. Len(inflight) : inflight[i].due > 0
  /\ \A c \in Callers : pc[c] = "waiting" => left[c] > 0 /\ Pending(c) = Keys(c)
  /\ writers = <<>>
  /\ inflight' = [i \in 1 .. Len(inflight) |-> [inflight[i] EXCEPT !.due = @ - 1]]
  /\ left' = [c \in Callers |-> IF left[c] > 0 THEN left[c] - 1 ELSE 0]
  /\ stale' = [k \in AckKeys |-> [i \in 1 .. Len(stale[k]) |->
                 IF stale[k][i] > 0 THEN stale[k][i] - 1 ELSE 0]]
  /\ UNCHANGED <<pc, kind, op, attempt, fut, from, robbed, waiters, writers, stopped, result,
                 ops, faults, timeouts, samples>>

Next ==
  /\ \/ \E c \in Callers :
          \/ \E knd \in Kinds : Request(c, knd)
          \/ Write(c) \/ Wake(c) \/ WriteFails(c) \/ Cancel(c)
     \/ Deliver \/ Sample \/ Tick \/ Stop
  /\ UNCHANGED plan

\* The event loop runs every task that is ready, frames that arrived are
\* dispatched, and time passes.
Fairness ==
  /\ \A c \in Callers : WF_vars(Write(c) /\ UNCHANGED plan) /\ WF_vars(Wake(c) /\ UNCHANGED plan)
  /\ WF_vars(Deliver /\ UNCHANGED plan) /\ WF_vars(Tick /\ UNCHANGED plan)

Spec == Init /\ [][Next]_vars

FairSpec == Spec /\ Fairness

-----------------------------------------------------------------------------
(* Properties *)

\* A valset is answered by the receiver's verdict on that very valset, never
\* by the verdict on another one that was late.
OwnVerdict ==
  \A c \in Callers : result[c].outcome = "answered" /\ kind[c] = "valset" /\ pc[c] = "idle"
                       => result[c].from = result[c].op

\* The callers hold one lock, so that one request is in progress at a time.
Serial == \A c, d \in Callers : plan.lock[c] = plan.lock[d]

Happened == faults["lost"] + faults["late"] + faults["write"] + faults["cancel"]

\* "One lost ACK costs at most one extra timeout ... and the loss cannot
\* chain from request to request" (the comment on `_stale`), for requests that
\* are made one at a time.
LossDoesNotChain ==
  ~stopped /\ Serial /\ faults["late"] = 0 => timeouts <= 2 * Happened

\* The three attempts of a valset outlast one fault: it does not end with a
\* LinkTimeout while the link runs.
ValsetSurvivesOneFault ==
  Happened <= 1 /\ ~stopped =>
    \A c \in Callers : ~(pc[c] = "idle" /\ kind[c] = "valset" /\ result[c].outcome = "timeout")

\* Every request ends: answered, timed out, failed or cancelled.
EveryRequestEnds == \A c \in Callers : pc[c] # "idle" ~> pc[c] = "idle"

\* What a caller is told is about its own request, and a fault costs what the
\* retries were made for and no more (request, valset and _stale, over lost
\* and late answers, failed writes and cancelled callers).
VerdictsStand == OwnVerdict /\ LossDoesNotChain /\ ValsetSurvivesOneFault

=============================================================================
