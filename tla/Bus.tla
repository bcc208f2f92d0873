-------------------------------- MODULE Bus --------------------------------
(***************************************************************************)
(* The in-process publish/subscribe bus (src/mtrtk/core/bus.py): every     *)
(* consumer of the daemon reads its own queue, which `publish` fills       *)
(* without ever waiting.  A live consumer's queue drops its oldest item    *)
(* when it is full; the raw logger's is unbounded and drops nothing.       *)
(* `unsubscribe` closes a queue by putting one sentinel behind what is     *)
(* still queued, and the consumer's `async for` ends when it reads it.     *)
(*                                                                         *)
(* An item is the number of its publication, so published[n] is its topic. *)
(***************************************************************************)
EXTENDS Naturals, Sequences

CONSTANTS
  Topics,        \* the topics anybody publishes on
  Subs,          \* the Subscription objects a run may create
  Unbounded,     \* those with Policy.UNBOUNDED; the others are DROP_OLDEST
  MaxSize,       \* queue size of a DROP_OLDEST subscription
  HighWater,     \* high-water mark of an UNBOUNDED one
  Matches,       \* Matches[s]: the topics the patterns of s match
  MaxPublish     \* bound: publications in a run

ASSUME BusAssumption ==
  /\ Unbounded \subseteq Subs
  /\ MaxSize \in Nat \ {0}
  /\ HighWater \in Nat \ {0}
  /\ Matches \in [Subs -> SUBSET Topics]
  /\ MaxPublish \in Nat

VARIABLES
  published,      \* history: the topics published, in order
  status,         \* status[s]: "none", "open" (in Bus._subs) or "closed"
  queue,          \* queue[s]: what the consumer of s has not read yet
  dropped,        \* dropped[s]: Subscription.dropped
  highWaterHits,  \* highWaterHits[s]: Subscription.high_water_hits
  offered,        \* history: the items s was offered while open
  got,            \* history: the items the consumer of s has read
  ended           \* ended[s]: its `async for` raised StopAsyncIteration

vars == <<published, status, queue, dropped, highWaterHits, offered, got, ended>>

\* The sentinel `_CLOSED`: no publication has this number.
CLOSED == 0

Init ==
  /\ published = <<>>
  /\ status = [s \in Subs |-> "none"]
  /\ queue = [s \in Subs |-> <<>>]
  /\ dropped = [s \in Subs |-> 0]
  /\ highWaterHits = [s \in Subs |-> 0]
  /\ offered = [s \in Subs |-> <<>>]
  /\ got = [s \in Subs |-> <<>>]
  /\ ended = [s \in Subs |-> FALSE]

\* Mutant of Full: one item too many.
FullOffByOne(s) == s \notin Unbounded /\ Len(queue[s]) > MaxSize

Full(s) == s \notin Unbounded /\ Len(queue[s]) >= MaxSize

\* `put_nowait`, after `_evict_one` when the queue is full.
Put(s, item) ==
  IF Full(s) THEN Append(Tail(queue[s]), item) ELSE Append(queue[s], item)

\* `dropped` after one more offer.
Evictions(s) == IF Full(s) THEN dropped[s] + 1 ELSE dropped[s]

Subscribe(s) ==
  /\ status[s] = "none"
  /\ status' = [status EXCEPT ![s] = "open"]
  /\ UNCHANGED <<published, queue, dropped, highWaterHits, offered, got, ended>>

\* Mutant of Receives: items follow the sentinel (no early return in `offer`
\* and the list kept by `unsubscribe`).
ReceivesAfterClose(s, topic) == status[s] \in {"open", "closed"} /\ topic \in Matches[s]

\* The subscriptions one `publish` reaches.  A closed one is no longer in
\* Bus._subs, and `offer` returns early on it besides.
Receives(s, topic) == status[s] = "open" /\ topic \in Matches[s]

\* With one more item the unbounded queue of s stands at its mark.
HighWaterReached(s) == s \in Unbounded /\ Len(queue[s]) + 1 >= HighWater

Publish(topic) ==
  LET item == Len(published) + 1
      R == {s \in Subs : Receives(s, topic)}
  IN /\ Len(published) < MaxPublish
     /\ published' = Append(published, topic)
     /\ queue' = [s \in Subs |-> IF s \in R THEN Put(s, item) ELSE queue[s]]
     /\ dropped' = [s \in Subs |-> IF s \in R THEN Evictions(s) ELSE dropped[s]]
     /\ highWaterHits' = [s \in Subs |->
          IF s \in R /\ HighWaterReached(s)
          THEN highWaterHits[s] + 1 ELSE highWaterHits[s]]
     /\ offered' = [s \in Subs |-> IF s \in R THEN Append(offered[s], item) ELSE offered[s]]
     /\ UNCHANGED <<status, got, ended>>

\* `unsubscribe`: the sentinel takes the place of the oldest item when the
\* queue is full, and that eviction is not counted in `dropped`.
Unsubscribe(s) ==
  /\ status[s] = "open"
  /\ status' = [status EXCEPT ![s] = "closed"]
  /\ queue' = [queue EXCEPT ![s] = Put(s, CLOSED)]
  /\ UNCHANGED <<published, dropped, highWaterHits, offered, got, ended>>

\* One step of the consumer's `async for`: `__anext__` waits for an item.
Anext(s) ==
  /\ queue[s] # <<>>
  /\ ~ended[s]
  /\ queue' = [queue EXCEPT ![s] = Tail(@)]
  /\ IF Head(queue[s]) = CLOSED
     THEN ended' = [ended EXCEPT ![s] = TRUE] /\ UNCHANGED got
     ELSE got' = [got EXCEPT ![s] = Append(@, Head(queue[s]))] /\ UNCHANGED ended
  /\ UNCHANGED <<published, status, dropped, highWaterHits, offered>>

Next ==
  \/ \E topic \in Topics : Publish(topic)
  \/ \E s \in Subs : Subscribe(s) \/ Unsubscribe(s) \/ Anext(s)

\* A task that waits in `queue.get` is woken by the put and runs.
Fairness == \A s \in Subs : WF_vars(Anext(s))

Spec == Init /\ [][Next]_vars

FairSpec == Spec /\ Fairness

-----------------------------------------------------------------------------
(* Properties *)

\* The queued items, without the sentinel that is the last entry of a queue
\* closed and not yet read to its end.
NQ(s) == IF status[s] = "closed" /\ ~ended[s] THEN Len(queue[s]) - 1 ELSE Len(queue[s])
Queued(s) == SubSeq(queue[s], 1, NQ(s))

TypeOK ==
  /\ published \in Seq(Topics)
  /\ status \in [Subs -> {"none", "open", "closed"}]
  /\ queue \in [Subs -> Seq(Nat)]
  /\ dropped \in [Subs -> Nat]
  /\ highWaterHits \in [Subs -> Nat]
  /\ offered \in [Subs -> Seq(Nat)]
  /\ got \in [Subs -> Seq(Nat)]
  /\ ended \in [Subs -> BOOLEAN]

\* The raw logger's promise (Policy.UNBOUNDED, "never drop"): what its
\* consumer has read, followed by what is queued, is exactly what was
\* published to it, in order, also after unsubscribe.
UnboundedLosesNothing ==
  \A s \in Unbounded : got[s] \o Queued(s) = offered[s]

\* A DROP_OLDEST queue holds the newest items offered, in order, never more
\* than its size, so a slow consumer misses old items and never new ones.
DropOldestKeepsNewest ==
  \A s \in Subs \ Unbounded :
    /\ Len(queue[s]) <= MaxSize
    /\ NQ(s) <= Len(offered[s])
    /\ \A i \in 1 .. NQ(s) : queue[s][i] = offered[s][Len(offered[s]) - NQ(s) + i]

\* `dropped` accounts for every item the consumer will never see: an open
\* subscription misses exactly `dropped` items; closing a full queue evicts
\* one more that `close` does not count.
DroppedAccountsForLoss ==
  \A s \in Subs :
    LET missing == Len(offered[s]) - Len(got[s]) - NQ(s)
    IN IF status[s] = "open" THEN missing = dropped[s]
       ELSE missing \in {dropped[s], dropped[s] + 1}

\* What a consumer is offered reaches it in order, but for the oldest items a
\* DROP_OLDEST queue gave up and counted (Subscription.offer and close, over
\* slow consumers and unsubscribe).
DeliveredExactly ==
  UnboundedLosesNothing /\ DropOldestKeepsNewest /\ DroppedAccountsForLoss

\* `unsubscribe` ends the consumer, however full the queue was: the sentinel
\* stays behind everything queued and is never evicted.
CloseEndsConsumer == \A s \in Subs : status[s] = "closed" ~> ended[s]

=============================================================================
