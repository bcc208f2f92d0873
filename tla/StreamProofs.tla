----------------------------- MODULE StreamProofs -----------------------------
(***************************************************************************)
(* Proofs about Bus, for every set of subscriptions, every queue size and  *)
(* every number of publications, and about NtripCaster, for every set of   *)
(* rovers, every queue size and every plan.                                *)
(*                                                                         *)
(* The queue of a subscription, or of a rover, is always the tail end of   *)
(* what it was offered (SuffixOf); together with the shape of a closed     *)
(* queue and the ledger of read, queued and dropped items this is          *)
(* inductive, and the properties follow from it.                           *)
(***************************************************************************)
EXTENDS MC_Live, WellFoundedInduction, TLAPS

\* A queue that was closed and not read to its end has the sentinel last.
ShapeInv(s) ==
  /\ status[s] # "closed" => ~ended[s]
  /\ status[s] = "closed" /\ ~ended[s] =>
       Len(queue[s]) > 0 /\ queue[s][Len(queue[s])] = CLOSED
  /\ ended[s] => queue[s] = <<>>

\* Offers are numbered publications, never the sentinel.
OfferInv(s) ==
  /\ \A i \in 1 .. Len(offered[s]) : offered[s][i] > 0

\* The first k entries of q are the last k entries of o.
SuffixOf(q, k, o) ==
  /\ k <= Len(o)
  /\ \A i \in 1 .. k : q[i] = o[Len(o) - k + i]

\* What is queued is the newest part of what was offered.
SuffixInv(s) == SuffixOf(queue[s], NQ(s), offered[s])

\* Every item offered has been read, is queued, or was evicted: the ledger of
\* lengths lo (offered), lg (got), nq (queued items), lq (queue) and d (dropped).
Ledger(closed, unbounded, lo, lg, nq, lq, d) ==
  /\ ~closed => lo = lg + nq + d
  /\ lo - lg - nq \in {d, d + 1}
  /\ unbounded => lo = lg + nq
  /\ ~unbounded => lq <= MaxSize

LedgerInv(s) ==
  Ledger(status[s] = "closed", s \in Unbounded, Len(offered[s]), Len(got[s]), NQ(s),
         Len(queue[s]), dropped[s])

\* An unbounded subscription's consumer has read exactly the first offers.
CopyInv(s) ==
  s \in Unbounded => \A i \in 1 .. Len(got[s]) : got[s][i] = offered[s][i]

BusInv(s) ==
  /\ ShapeInv(s)
  /\ OfferInv(s)
  /\ SuffixInv(s)
  /\ LedgerInv(s)
  /\ CopyInv(s)

IInv == TypeOK /\ \A s \in Subs : BusInv(s)

-----------------------------------------------------------------------------

\* What `get` does to a non-empty queue.
LEMMA TailFacts ==
  ASSUME NEW q \in Seq(Nat), q # <<>>
  PROVE  /\ Len(q) \in Nat \ {0}
         /\ Head(q) = q[1] /\ Head(q) \in Nat
         /\ Tail(q) \in Seq(Nat) /\ Len(Tail(q)) = Len(q) - 1
         /\ \A i \in 1 .. Len(q) - 1 : Tail(q)[i] = q[i + 1]
OBVIOUS

\* What `put_nowait` does to a queue.
LEMMA AppendFacts ==
  ASSUME NEW q \in Seq(Nat), NEW e \in Nat
  PROVE  /\ Append(q, e) \in Seq(Nat) /\ Len(Append(q, e)) = Len(q) + 1
         /\ Len(q) \in Nat
         /\ \A i \in 1 .. Len(q) : Append(q, e)[i] = q[i]
         /\ Append(q, e)[Len(q) + 1] = e
OBVIOUS

\* Only the empty queue has length zero.
LEMMA EmptyFacts ==
  ASSUME NEW q \in Seq(Nat), Len(q) = 0
  PROVE  q = <<>>
OBVIOUS

\* Every step of the bus keeps its variables well typed.
LEMMA TypeStep ==
  ASSUME TypeOK, [Next]_vars
  PROVE  TypeOK'
<1> USE BusAssumption DEF TypeOK, CLOSED
<1>1. ASSUME NEW topic \in Topics, Publish(topic) PROVE TypeOK'
  <2> DEFINE item == Len(published) + 1
  <2>1. item \in Nat /\ published' \in Seq(Topics)
    BY <1>1 DEF Publish
  <2>2. ASSUME NEW s \in Subs PROVE Put(s, item) \in Seq(Nat)
    BY <2>1, <2>2 DEF Put, Full
  <2>3. queue' \in [Subs -> Seq(Nat)]
    BY <1>1, <2>2 DEF Publish
  <2>4. dropped' \in [Subs -> Nat]
    BY <1>1 DEF Publish, Evictions
  <2>5. highWaterHits' \in [Subs -> Nat]
    BY <1>1 DEF Publish
  <2>6. offered' \in [Subs -> Seq(Nat)]
    BY <1>1, <2>1 DEF Publish
  <2>7. QED
    BY <1>1, <2>1, <2>3, <2>4, <2>5, <2>6 DEF Publish
<1>2. ASSUME NEW s \in Subs, Subscribe(s) PROVE TypeOK'
  BY <1>2 DEF Subscribe
<1>3. ASSUME NEW s \in Subs, Unsubscribe(s) PROVE TypeOK'
  BY <1>3 DEF Unsubscribe, Put, Full
<1>4. ASSUME NEW s \in Subs, Anext(s) PROVE TypeOK'
  <2>1. queue[s] \in Seq(Nat) /\ queue[s] # <<>>
    BY <1>4 DEF Anext
  <2>2. Head(queue[s]) \in Nat /\ Tail(queue[s]) \in Seq(Nat)
    BY <2>1, TailFacts
  <2>3. queue' \in [Subs -> Seq(Nat)]
    BY <1>4, <2>2 DEF Anext
  <2>4. CASE Head(queue[s]) = CLOSED
    BY <1>4, <2>3, <2>4 DEF Anext
  <2>5. CASE Head(queue[s]) # CLOSED
    <3>1. Append(got[s], Head(queue[s])) \in Seq(Nat)
      BY <2>2
    <3>2. QED
      BY <1>4, <2>3, <2>5, <3>1 DEF Anext
  <2>6. QED
    BY <2>4, <2>5
<1>5. CASE UNCHANGED vars
  BY <1>5 DEF vars
<1>6. QED
  BY <1>1, <1>2, <1>3, <1>4, <1>5 DEF Next

\* Bus keeps its variables well typed.
THEOREM TypeCorrect == Spec => []TypeOK
<1>1. Init => TypeOK
  BY DEF Init, TypeOK
<1>2. TypeOK /\ [Next]_vars => TypeOK'
  BY TypeStep
<1>3. QED
  BY <1>1, <1>2, PTL DEF Spec

\* A publication that fits: both the queue and the offers grow by it.
LEMMA SuffixGrows ==
  ASSUME NEW q \in Seq(Nat), NEW o \in Seq(Nat), NEW n \in Nat, SuffixOf(q, Len(q), o)
  PROVE  SuffixOf(Append(q, n), Len(q) + 1, Append(o, n))
<1> DEFINE p == Append(q, n)
           r == Append(o, n)
<1>1. /\ Len(r) = Len(o) + 1 /\ Len(q) \in Nat /\ Len(o) \in Nat /\ Len(q) <= Len(o)
      /\ r[Len(o) + 1] = n /\ p[Len(q) + 1] = n
      /\ \A i \in 1 .. Len(o) : r[i] = o[i]
      /\ \A i \in 1 .. Len(q) : p[i] = q[i]
      /\ \A i \in 1 .. Len(q) : q[i] = o[Len(o) - Len(q) + i]
  BY DEF SuffixOf
<1> HIDE DEF p, r
<1>2. ASSUME NEW i \in 1 .. Len(q) + 1
      PROVE  p[i] = r[Len(r) - (Len(q) + 1) + i]
  <2>1. CASE i = Len(q) + 1
    <3>1. Len(r) - (Len(q) + 1) + i = Len(o) + 1
      BY <1>1, <2>1
    <3>2. QED
      BY <1>1, <2>1, <3>1
  <2>2. CASE i \in 1 .. Len(q)
    <3>1. /\ Len(r) - (Len(q) + 1) + i = Len(o) - Len(q) + i
          /\ Len(o) - Len(q) + i \in 1 .. Len(o)
      BY <1>1, <2>2
    <3>2. QED
      BY <1>1, <2>2, <3>1
  <2>3. QED
    BY <1>1, <2>1, <2>2
<1>3. SuffixOf(p, Len(q) + 1, r)
  BY <1>1, <1>2 DEF SuffixOf
<1>4. QED
  BY <1>3 DEF p, r

\* A publication that evicts the oldest entry: the queue slides by one.
LEMMA SuffixSlides ==
  ASSUME NEW q \in Seq(Nat), NEW o \in Seq(Nat), NEW n \in Nat, SuffixOf(q, Len(q), o), q # <<>>
  PROVE  SuffixOf(Append(Tail(q), n), Len(q), Append(o, n))
<1> DEFINE p == Append(Tail(q), n)
           r == Append(o, n)
<1>1. /\ Len(r) = Len(o) + 1 /\ Len(q) \in Nat \ {0} /\ Len(o) \in Nat /\ Len(q) <= Len(o)
      /\ r[Len(o) + 1] = n /\ p[Len(q)] = n
      /\ \A i \in 1 .. Len(o) : r[i] = o[i]
      /\ \A i \in 1 .. Len(q) - 1 : p[i] = q[i + 1]
      /\ \A i \in 1 .. Len(q) : q[i] = o[Len(o) - Len(q) + i]
  <2>1. /\ Len(q) \in Nat \ {0} /\ Tail(q) \in Seq(Nat) /\ Len(Tail(q)) = Len(q) - 1
        /\ \A i \in 1 .. Len(q) - 1 : Tail(q)[i] = q[i + 1]
    BY TailFacts
  <2>2. /\ Len(p) = Len(q)
        /\ p[Len(q)] = n
        /\ \A i \in 1 .. Len(q) - 1 : p[i] = Tail(q)[i]
    BY <2>1, AppendFacts
  <2>3. QED
    BY <2>1, <2>2, AppendFacts DEF SuffixOf
<1> HIDE DEF p, r
<1>2. ASSUME NEW i \in 1 .. Len(q)
      PROVE  p[i] = r[Len(r) - Len(q) + i]
  <2>1. CASE i = Len(q)
    <3>1. Len(r) - Len(q) + i = Len(o) + 1
      BY <1>1, <2>1
    <3>2. QED
      BY <1>1, <2>1, <3>1
  <2>2. CASE i \in 1 .. Len(q) - 1
    <3>1. /\ Len(r) - Len(q) + i = Len(o) - Len(q) + (i + 1)
          /\ Len(o) - Len(q) + (i + 1) \in 1 .. Len(o)
          /\ i + 1 \in 1 .. Len(q)
      BY <1>1, <2>2
    <3>2. QED
      BY <1>1, <2>2, <3>1
  <2>3. QED
    BY <1>1, <2>1, <2>2
<1>3. SuffixOf(p, Len(q), r)
  BY <1>1, <1>2 DEF SuffixOf
<1>4. QED
  BY <1>3 DEF p, r

\* A read from the head leaves the tail end.
LEMMA SuffixRead ==
  ASSUME NEW q \in Seq(Nat), NEW o \in Seq(Nat), NEW k \in Nat \ {0}, k <= Len(q),
         SuffixOf(q, k, o)
  PROVE  SuffixOf(Tail(q), k - 1, o)
<1>1. q # <<>> /\ Len(q) \in Nat /\ Len(o) \in Nat
  OBVIOUS
<1>2. \A i \in 1 .. Len(q) - 1 : Tail(q)[i] = q[i + 1]
  BY <1>1, TailFacts
<1>3. ASSUME NEW i \in 1 .. k - 1 PROVE Tail(q)[i] = o[Len(o) - (k - 1) + i]
  <2>1. i + 1 \in 1 .. k /\ Len(o) - k + (i + 1) = Len(o) - (k - 1) + i
    BY <1>1
  <2>2. i \in 1 .. Len(q) - 1
    BY <1>1
  <2>3. q[i + 1] = o[Len(o) - k + (i + 1)]
    BY <2>1 DEF SuffixOf
  <2>4. QED
    BY <1>2, <2>1, <2>2, <2>3
<1>4. QED
  BY <1>1, <1>3 DEF SuffixOf

\* The sentinel goes behind what is queued, with or without an eviction.
LEMMA SuffixClosed ==
  ASSUME NEW q \in Seq(Nat), NEW o \in Seq(Nat), NEW n \in Nat, SuffixOf(q, Len(q), o)
  PROVE  /\ SuffixOf(Append(q, n), Len(q), o)
         /\ q # <<>> => SuffixOf(Append(Tail(q), n), Len(q) - 1, o)
<1>1. SuffixOf(Append(q, n), Len(q), o)
  BY DEF SuffixOf
<1>2. ASSUME q # <<>> PROVE SuffixOf(Append(Tail(q), n), Len(q) - 1, o)
  <2>1. /\ Tail(q) \in Seq(Nat) /\ Len(Tail(q)) = Len(q) - 1 /\ Len(q) \in Nat \ {0}
    BY <1>2, TailFacts
  <2>2. SuffixOf(Tail(q), Len(q) - 1, o)
    BY <2>1, SuffixRead
  <2>3. \A i \in 1 .. Len(q) - 1 : Append(Tail(q), n)[i] = Tail(q)[i]
    BY <2>1, AppendFacts
  <2>4. QED
    BY <2>2, <2>3 DEF SuffixOf
<1>3. QED
  BY <1>1, <1>2

\* The types of one subscription's part of the state.
LEMMA SubTypes ==
  ASSUME IInv, NEW s \in Subs
  PROVE  /\ TypeOK /\ BusInv(s)
         /\ queue[s] \in Seq(Nat) /\ offered[s] \in Seq(Nat) /\ got[s] \in Seq(Nat)
         /\ Len(queue[s]) \in Nat /\ Len(offered[s]) \in Nat /\ Len(got[s]) \in Nat
         /\ dropped[s] \in Nat
BY DEF IInv, TypeOK

\* The arithmetic of the ledger when a publication or the sentinel fits.
LEMMA LedgerPut ==
  ASSUME NEW u, NEW lo \in Nat, NEW lg \in Nat, NEW lq \in Nat, NEW d \in Nat,
         Ledger(FALSE, u, lo, lg, lq, lq, d), ~u => lq + 1 <= MaxSize
  PROVE  /\ Ledger(FALSE, u, lo + 1, lg, lq + 1, lq + 1, d)
         /\ Ledger(TRUE, u, lo, lg, lq, lq + 1, d)
BY BusAssumption DEF Ledger

\* A full queue: the oldest entry is evicted, counted by a publication only.
LEMMA LedgerEvict ==
  ASSUME NEW u, NEW lo \in Nat, NEW lg \in Nat, NEW lq \in Nat, NEW d \in Nat,
         Ledger(FALSE, u, lo, lg, lq, lq, d), ~u
  PROVE  /\ Ledger(FALSE, u, lo + 1, lg, lq, lq, d + 1)
         /\ Ledger(TRUE, u, lo, lg, lq - 1, lq, d)
BY BusAssumption DEF Ledger

\* A read moves one entry from the queue to the consumer.
LEMMA LedgerRead ==
  ASSUME NEW u, NEW c, NEW lo \in Nat, NEW lg \in Nat, NEW nq \in Nat,
         NEW lq \in Nat \ {0}, NEW d \in Nat, Ledger(c, u, lo, lg, nq, lq, d)
  PROVE  /\ Ledger(c, u, lo, lg + 1, nq - 1, lq - 1, d)
         /\ Ledger(c, u, lo, lg, nq, lq - 1, d)
BY BusAssumption DEF Ledger

\* A publication keeps the invariant of every subscription, whether it
\* reaches it or not.
LEMMA PublishStep ==
  ASSUME IInv, NEW topic \in Topics, Publish(topic), NEW s \in Subs
  PROVE  BusInv(s)'
<1> DEFINE n == Len(published) + 1
<1>0. n \in Nat /\ n > 0
  BY SubTypes DEF TypeOK
<1>1. status' = status /\ got' = got /\ ended' = ended
  BY DEF Publish
<1>2. CASE ~Receives(s, topic)
  <2>1. queue'[s] = queue[s] /\ offered'[s] = offered[s] /\ dropped'[s] = dropped[s]
    BY <1>2, SubTypes DEF Publish
  <2>2. QED
    BY <1>1, <2>1, SubTypes
       DEF BusInv, ShapeInv, OfferInv, SuffixInv, LedgerInv, CopyInv, NQ
<1>3. CASE Receives(s, topic)
  <2>1. /\ queue'[s] = Put(s, n)
        /\ offered'[s] = Append(offered[s], n)
        /\ dropped'[s] = IF Full(s) THEN dropped[s] + 1 ELSE dropped[s]
    BY <1>3, SubTypes DEF Publish, Evictions
  <2> HIDE DEF n
  <2>2. status[s] = "open" /\ ~ended[s]
    BY <1>3, SubTypes DEF Receives, BusInv, ShapeInv
  <2>3. NQ(s) = Len(queue[s]) /\ SuffixOf(queue[s], Len(queue[s]), offered[s])
    BY <2>2, SubTypes DEF NQ, BusInv, SuffixInv
  <2>4. /\ Len(offered'[s]) = Len(offered[s]) + 1
        /\ \A i \in 1 .. Len(offered[s]) : offered'[s][i] = offered[s][i]
        /\ offered'[s][Len(offered[s]) + 1] = n
    BY <1>0, <2>1, SubTypes, AppendFacts
  <2>5. Ledger(FALSE, s \in Unbounded, Len(offered[s]), Len(got[s]), Len(queue[s]),
               Len(queue[s]), dropped[s])
    BY <2>2, <2>3, SubTypes DEF BusInv, LedgerInv
  <2>6. ShapeInv(s)'
    BY <1>1, <2>2 DEF ShapeInv
  <2>7. OfferInv(s)'
    <3>1. ASSUME NEW i \in 1 .. Len(offered'[s]) PROVE offered'[s][i] > 0
      <4>1. CASE i = Len(offered[s]) + 1
        BY <1>0, <2>4, <4>1
      <4>2. CASE i \in 1 .. Len(offered[s])
        BY <2>4, <4>2, SubTypes DEF OfferInv, BusInv
      <4>3. QED
        BY <2>4, <4>1, <4>2, SubTypes
    <3>2. QED
      BY <3>1 DEF OfferInv
  <2>8. CopyInv(s)'
    <3> SUFFICES ASSUME s \in Unbounded, NEW i \in 1 .. Len(got[s])
                 PROVE  got[s][i] = offered'[s][i]
      BY <1>1 DEF CopyInv
    <3>1. i \in 1 .. Len(offered[s])
      <4> DEFINE lo == Len(offered[s])
                 lg == Len(got[s])
                 lq == Len(queue[s])
      <4>1. lo \in Nat /\ lg \in Nat /\ lq \in Nat /\ lo = lg + lq /\ i \in 1 .. lg
        BY <2>5, SubTypes DEF Ledger
      <4> HIDE DEF lo, lg, lq
      <4>2. i \in 1 .. lo
        BY <4>1
      <4>3. QED
        BY <4>2 DEF lo
    <3>2. QED
      BY <2>4, <3>1, SubTypes DEF BusInv, CopyInv
  <2>9. CASE Full(s)
    <3>1. queue'[s] = Append(Tail(queue[s]), n) /\ queue[s] # <<>> /\ s \notin Unbounded
      BY <2>1, <2>9, SubTypes, BusAssumption DEF Put, Full
    <3>2. Len(queue'[s]) = Len(queue[s])
      BY <3>1, <1>0, SubTypes
    <3>3. NQ(s)' = Len(queue[s])
      BY <1>1, <2>2, <3>2 DEF NQ
    <3>4. SuffixOf(queue'[s], Len(queue[s]), offered'[s])
      BY <1>0, <2>1, <2>3, <3>1, SubTypes, SuffixSlides
    <3>5. Ledger(FALSE, s \in Unbounded, Len(offered[s]) + 1, Len(got[s]), Len(queue[s]),
                 Len(queue[s]), dropped[s] + 1)
      BY <2>5, <3>1, SubTypes, LedgerEvict
    <3>6. QED
      BY <1>1, <2>1, <2>2, <2>4, <2>6, <2>7, <2>8, <2>9, <3>2, <3>3, <3>4, <3>5
         DEF BusInv, SuffixInv, LedgerInv
  <2>10. CASE ~Full(s)
    <3>1. /\ queue'[s] = Append(queue[s], n)
          /\ s \notin Unbounded => Len(queue[s]) + 1 <= MaxSize
      BY <2>1, <2>10, SubTypes, BusAssumption DEF Put, Full
    <3>2. Len(queue'[s]) = Len(queue[s]) + 1
      BY <3>1, <1>0, SubTypes
    <3>3. NQ(s)' = Len(queue[s]) + 1
      BY <1>1, <2>2, <3>2 DEF NQ
    <3>4. SuffixOf(queue'[s], Len(queue[s]) + 1, offered'[s])
      BY <1>0, <2>1, <2>3, <3>1, SubTypes, SuffixGrows
    <3>5. Ledger(FALSE, s \in Unbounded, Len(offered[s]) + 1, Len(got[s]),
                 Len(queue[s]) + 1, Len(queue[s]) + 1, dropped[s])
      BY <2>5, <3>1, SubTypes, LedgerPut
    <3>6. QED
      BY <1>1, <2>1, <2>2, <2>4, <2>6, <2>7, <2>8, <2>10, <3>2, <3>3, <3>4, <3>5
         DEF BusInv, SuffixInv, LedgerInv
  <2>11. QED
    BY <2>9, <2>10
<1>4. QED
  BY <1>2, <1>3

\* What an action on one subscription leaves alone for the others.
LEMMA OthersKept ==
  ASSUME IInv, NEW s \in Subs, status'[s] = status[s], queue'[s] = queue[s],
         dropped'[s] = dropped[s], offered'[s] = offered[s], got'[s] = got[s],
         ended'[s] = ended[s]
  PROVE  BusInv(s)'
BY SubTypes DEF BusInv, ShapeInv, OfferInv, SuffixInv, LedgerInv, CopyInv, NQ

\* `unsubscribe` keeps the invariant: the sentinel is last, whatever it evicts.
LEMMA UnsubscribeStep ==
  ASSUME IInv, NEW s \in Subs, Unsubscribe(s), NEW r \in Subs
  PROVE  BusInv(r)'
<1>1. CASE r # s
  BY <1>1, SubTypes, OthersKept DEF Unsubscribe, TypeOK
<1>2. CASE r = s
  <2>1. /\ status[s] = "open" /\ status'[s] = "closed" /\ queue'[s] = Put(s, CLOSED)
        /\ dropped' = dropped /\ offered' = offered /\ got' = got /\ ended' = ended
    BY SubTypes DEF Unsubscribe, TypeOK
  <2>2. ~ended[s] /\ ~ended'[s] /\ CLOSED \in Nat
    BY <2>1, SubTypes DEF BusInv, ShapeInv, CLOSED
  <2>3. NQ(s) = Len(queue[s]) /\ SuffixOf(queue[s], Len(queue[s]), offered[s])
    BY <2>1, SubTypes DEF NQ, BusInv, SuffixInv
  <2>4. Ledger(FALSE, s \in Unbounded, Len(offered[s]), Len(got[s]), Len(queue[s]),
               Len(queue[s]), dropped[s])
    BY <2>1, <2>3, SubTypes DEF BusInv, LedgerInv
  <2>5. OfferInv(s)' /\ CopyInv(s)'
    BY <2>1, SubTypes DEF OfferInv, CopyInv, BusInv
  <2>6. CASE Full(s)
    <3>1. queue'[s] = Append(Tail(queue[s]), CLOSED) /\ queue[s] # <<>> /\ s \notin Unbounded
      BY <2>1, <2>6, SubTypes, BusAssumption DEF Put, Full
    <3>2. /\ Len(queue'[s]) = Len(queue[s]) /\ Len(queue[s]) > 0
          /\ queue'[s][Len(queue[s])] = CLOSED
      BY <2>2, <3>1, SubTypes
    <3>3. NQ(s)' = Len(queue[s]) - 1
      BY <2>1, <2>2, <3>2 DEF NQ
    <3>4. SuffixOf(queue'[s], Len(queue[s]) - 1, offered[s])
      BY <2>2, <2>3, <3>1, SubTypes, SuffixClosed
    <3>5. Ledger(TRUE, s \in Unbounded, Len(offered[s]), Len(got[s]), Len(queue[s]) - 1,
                 Len(queue[s]), dropped[s])
      BY <2>4, <3>1, SubTypes, LedgerEvict
    <3>6. ShapeInv(s)'
      BY <2>1, <2>2, <3>2 DEF ShapeInv
    <3>7. QED
      BY <1>2, <2>1, <2>5, <3>2, <3>3, <3>4, <3>5, <3>6 DEF BusInv, SuffixInv, LedgerInv
  <2>7. CASE ~Full(s)
    <3>1. /\ queue'[s] = Append(queue[s], CLOSED)
          /\ s \notin Unbounded => Len(queue[s]) + 1 <= MaxSize
      BY <2>1, <2>7, SubTypes, BusAssumption DEF Put, Full
    <3>2. /\ Len(queue'[s]) = Len(queue[s]) + 1
          /\ queue'[s][Len(queue[s]) + 1] = CLOSED
      BY <2>2, <3>1, SubTypes
    <3>3. NQ(s)' = Len(queue[s])
      BY <2>1, <2>2, <3>2, SubTypes DEF NQ
    <3>4. SuffixOf(queue'[s], Len(queue[s]), offered[s])
      BY <2>2, <2>3, <3>1, SubTypes, SuffixClosed
    <3>5. Ledger(TRUE, s \in Unbounded, Len(offered[s]), Len(got[s]), Len(queue[s]),
                 Len(queue[s]) + 1, dropped[s])
      BY <2>4, <3>1, SubTypes, LedgerPut
    <3>6. ShapeInv(s)'
      BY <2>1, <2>2, <3>2, SubTypes DEF ShapeInv
    <3>7. QED
      BY <1>2, <2>1, <2>5, <3>2, <3>3, <3>4, <3>5, <3>6 DEF BusInv, SuffixInv, LedgerInv
  <2>8. QED
    BY <2>6, <2>7
<1>3. QED
  BY <1>1, <1>2

\* The consumer's step keeps the invariant: it reads the sentinel only when no
\* item is queued, because every offer has a number above CLOSED.
LEMMA AnextStep ==
  ASSUME IInv, NEW s \in Subs, Anext(s), NEW r \in Subs
  PROVE  BusInv(r)'
<1>1. CASE r # s
  BY <1>1, SubTypes, OthersKept DEF Anext, TypeOK
<1>2. CASE r = s
  <2>1. /\ queue[s] # <<>> /\ ~ended[s] /\ queue'[s] = Tail(queue[s])
        /\ dropped' = dropped /\ offered' = offered /\ status' = status
    BY SubTypes DEF Anext, TypeOK
  <2>2. /\ Len(queue[s]) \in Nat \ {0} /\ Head(queue[s]) = queue[s][1]
        /\ Tail(queue[s]) \in Seq(Nat) /\ Len(Tail(queue[s])) = Len(queue[s]) - 1
        /\ \A i \in 1 .. Len(queue[s]) - 1 : Tail(queue[s])[i] = queue[s][i + 1]
    BY <2>1, SubTypes, TailFacts
  <2>3. NQ(s) \in Nat /\ NQ(s) <= Len(queue[s])
    BY <2>2, SubTypes DEF NQ
  <2>4. ASSUME NQ(s) > 0 PROVE queue[s][1] > 0 /\ queue[s][1] = offered[s][Len(offered[s]) - NQ(s) + 1]
    <3>1. 1 \in 1 .. NQ(s) /\ Len(offered[s]) - NQ(s) + 1 \in 1 .. Len(offered[s])
      <4>1. NQ(s) <= Len(offered[s])
        <5>1. SuffixInv(s)
          BY SubTypes DEF BusInv
        <5>2. QED
          BY <5>1 DEF SuffixInv, SuffixOf
      <4>2. Len(offered[s]) \in Nat
        BY SubTypes
      <4>3. QED
        BY <2>3, <2>4, <4>1, <4>2
    <3>2. QED
      BY <3>1, SubTypes DEF BusInv, SuffixInv, SuffixOf, OfferInv
  <2>5. OfferInv(s)'
    BY <2>1, SubTypes DEF BusInv, OfferInv
  <2>6. CASE Head(queue[s]) = CLOSED
    <3>1. NQ(s) = 0
      BY <2>2, <2>3, <2>4, <2>6 DEF CLOSED
    <3>2. Len(queue[s]) = 1 /\ status[s] = "closed"
      BY <2>1, <2>2, <3>1 DEF NQ
    <3>3. ended'[s] = TRUE /\ got' = got /\ queue'[s] = <<>> /\ Len(queue'[s]) = 0
      <4>1. ended'[s] = TRUE /\ got' = got
        BY <2>6, SubTypes DEF Anext, TypeOK
      <4>2. Len(Tail(queue[s])) = 0
        BY <2>2, <3>2
      <4>3. Tail(queue[s]) = <<>>
        BY <2>2, <4>2, EmptyFacts
      <4>4. QED
        BY <2>1, <4>1, <4>2, <4>3
    <3>4. NQ(s)' = 0
      BY <3>3 DEF NQ
    <3>5. SuffixInv(s)'
      BY <2>1, <3>1, <3>4, SubTypes DEF SuffixInv, SuffixOf, BusInv
    <3>6. LedgerInv(s)'
      <4>1. Ledger(status[s] = "closed", s \in Unbounded, Len(offered[s]), Len(got[s]), NQ(s),
                   Len(queue[s]) - 1, dropped[s])
        BY <2>2, <2>3, SubTypes, LedgerRead DEF BusInv, LedgerInv
      <4>2. Len(queue[s]) - 1 = 0
        BY <3>2
      <4>3. QED
        BY <2>1, <3>1, <3>3, <3>4, <4>1, <4>2 DEF LedgerInv
    <3>7. ShapeInv(s)' /\ CopyInv(s)'
      BY <2>1, <3>2, <3>3, SubTypes DEF ShapeInv, CopyInv, BusInv
    <3>8. QED
      BY <1>2, <2>5, <3>5, <3>6, <3>7 DEF BusInv
  <2>7. CASE Head(queue[s]) # CLOSED
    <3>1. ended' = ended /\ got'[s] = Append(got[s], queue[s][1])
      BY <2>2, <2>7, SubTypes DEF Anext, TypeOK
    <3>2. NQ(s) > 0
      <4>1. CASE status[s] = "closed"
        <5>1. Len(queue[s]) # 1
          BY <2>1, <2>2, <2>7, <4>1, SubTypes DEF BusInv, ShapeInv
        <5>2. NQ(s) = Len(queue[s]) - 1
          BY <2>1, <4>1 DEF NQ
        <5>3. NQ(s) # 0
          BY <2>2, <5>1, <5>2
        <5>4. QED
          BY <2>3, <5>3
      <4>2. CASE status[s] # "closed"
        BY <2>2, <4>2 DEF NQ
      <4>3. QED
        BY <4>1, <4>2
    <3>3. NQ(s)' = NQ(s) - 1 /\ Len(queue'[s]) = Len(queue[s]) - 1
      BY <2>1, <2>2, <3>1 DEF NQ
    <3>4. SuffixInv(s)'
      <4>1. SuffixOf(Tail(queue[s]), NQ(s) - 1, offered[s])
        BY <2>3, <3>2, SubTypes, SuffixRead DEF BusInv, SuffixInv
      <4>2. QED
        BY <2>1, <3>3, <4>1 DEF SuffixInv
    <3>5. /\ Len(got'[s]) = Len(got[s]) + 1
          /\ \A i \in 1 .. Len(got[s]) : got'[s][i] = got[s][i]
          /\ got'[s][Len(got[s]) + 1] = queue[s][1]
      BY <2>2, <3>1, SubTypes
    <3>6. LedgerInv(s)'
      <4>1. Ledger(status[s] = "closed", s \in Unbounded, Len(offered[s]), Len(got[s]) + 1,
                   NQ(s) - 1, Len(queue[s]) - 1, dropped[s])
        BY <2>2, <2>3, SubTypes, LedgerRead DEF BusInv, LedgerInv
      <4>2. QED
        BY <2>1, <3>3, <3>5, <4>1 DEF LedgerInv
    <3>7. CopyInv(s)'
      <4> SUFFICES ASSUME s \in Unbounded, NEW i \in 1 .. Len(got[s]) + 1
                   PROVE  got'[s][i] = offered[s][i]
        BY <2>1, <3>5 DEF CopyInv
      <4>1. CASE i \in 1 .. Len(got[s])
        BY <3>5, <4>1, SubTypes DEF BusInv, CopyInv
      <4>2. CASE i = Len(got[s]) + 1
        <5> DEFINE lo == Len(offered[s])
                   lg == Len(got[s])
                   nq == NQ(s)
        <5>1. lo \in Nat /\ lg \in Nat /\ nq \in Nat /\ lo = lg + nq
          BY <2>3, SubTypes DEF BusInv, LedgerInv, Ledger
        <5> HIDE DEF lo, lg, nq
        <5>2. lo - nq + 1 = lg + 1
          BY <5>1
        <5> USE DEF lo, lg, nq
        <5>3. QED
          BY <2>4, <3>2, <3>5, <4>2, <5>2
      <4>3. i \in 1 .. Len(got[s]) \/ i = Len(got[s]) + 1
        <5> DEFINE lg == Len(got[s])
        <5>1. lg \in Nat /\ i \in 1 .. lg + 1
          BY SubTypes
        <5> HIDE DEF lg
        <5>2. i \in 1 .. lg \/ i = lg + 1
          BY <5>1
        <5>3. QED
          BY <5>2 DEF lg
      <4>4. QED
        BY <4>1, <4>2, <4>3
    <3>8. ShapeInv(s)'
      <4>1. ASSUME status[s] = "closed"
            PROVE  Len(queue'[s]) > 0 /\ queue'[s][Len(queue'[s])] = CLOSED
        <5>1. Len(queue[s]) > 1 /\ queue[s][Len(queue[s])] = CLOSED
          BY <2>1, <2>2, <3>2, <4>1, SubTypes DEF NQ, BusInv, ShapeInv
        <5>2. Len(queue[s]) - 1 \in 1 .. Len(queue[s]) - 1 /\ (Len(queue[s]) - 1) + 1 = Len(queue[s])
          BY <5>1, <2>2
        <5>3. QED
          BY <2>1, <2>2, <3>3, <5>1, <5>2
      <4>2. QED
        BY <2>1, <3>1, <4>1 DEF ShapeInv
    <3>9. QED
      BY <1>2, <2>5, <3>4, <3>6, <3>7, <3>8 DEF BusInv
  <2>8. QED
    BY <2>6, <2>7
<1>3. QED
  BY <1>1, <1>2

\* The invariant is inductive.
LEMMA InvStep ==
  ASSUME IInv, [Next]_vars
  PROVE  IInv'
<1>1. TypeOK'
  BY TypeStep DEF IInv
<1>2. ASSUME NEW topic \in Topics, Publish(topic), NEW r \in Subs PROVE BusInv(r)'
  BY <1>2, PublishStep
<1>3. ASSUME NEW s \in Subs, Subscribe(s), NEW r \in Subs PROVE BusInv(r)'
  <2>1. CASE r # s
    BY <1>3, <2>1, SubTypes, OthersKept DEF Subscribe, TypeOK
  <2>2. CASE r = s
    BY <1>3, <2>2, SubTypes
       DEF Subscribe, TypeOK, BusInv, ShapeInv, OfferInv, SuffixInv, LedgerInv, CopyInv, NQ
  <2>3. QED
    BY <2>1, <2>2
<1>4. ASSUME NEW s \in Subs, Unsubscribe(s), NEW r \in Subs PROVE BusInv(r)'
  BY <1>4, UnsubscribeStep
<1>5. ASSUME NEW s \in Subs, Anext(s), NEW r \in Subs PROVE BusInv(r)'
  BY <1>5, AnextStep
<1>6. ASSUME UNCHANGED vars, NEW r \in Subs PROVE BusInv(r)'
  BY <1>6, OthersKept DEF vars
<1>7. QED
  BY <1>1, <1>2, <1>3, <1>4, <1>5, <1>6 DEF Next, IInv

\* The invariant holds of every reachable state.
THEOREM InvCorrect == Spec => []IInv
<1>1. Init => IInv
  <2> SUFFICES ASSUME Init PROVE IInv
    OBVIOUS
  <2>1. TypeOK
    BY DEF Init, TypeOK
  <2>2. ASSUME NEW s \in Subs PROVE BusInv(s)
    <3>1. /\ status[s] = "none" /\ queue[s] = <<>> /\ offered[s] = <<>> /\ got[s] = <<>>
          /\ ended[s] = FALSE /\ dropped[s] = 0
      BY DEF Init
    <3>2. NQ(s) = 0 /\ Len(queue[s]) = 0 /\ Len(offered[s]) = 0 /\ Len(got[s]) = 0
      BY <3>1 DEF NQ
    <3>3. ShapeInv(s) /\ OfferInv(s) /\ CopyInv(s)
      BY <3>1, <3>2 DEF ShapeInv, OfferInv, CopyInv
    <3>4. SuffixInv(s)
      BY <3>2 DEF SuffixInv, SuffixOf
    <3>5. LedgerInv(s)
      BY <3>1, <3>2, BusAssumption DEF LedgerInv, Ledger
    <3>6. QED
      BY <3>3, <3>4, <3>5 DEF BusInv
  <2>3. QED
    BY <2>1, <2>2 DEF IInv
<1>2. IInv /\ [Next]_vars => IInv'
  BY InvStep
<1>3. QED
  BY <1>1, <1>2, PTL DEF Spec

\* A live consumer's queue never grows past its size and always holds the
\* newest items offered, for every size and every interleaving.
THEOREM KeepsNewest == Spec => []DropOldestKeepsNewest
<1>1. IInv => DropOldestKeepsNewest
  <2> SUFFICES ASSUME IInv, NEW s \in Subs \ Unbounded
               PROVE  /\ Len(queue[s]) <= MaxSize
                      /\ NQ(s) <= Len(offered[s])
                      /\ \A i \in 1 .. NQ(s) :
                           queue[s][i] = offered[s][Len(offered[s]) - NQ(s) + i]
    BY DEF DropOldestKeepsNewest
  <2>1. QED
    BY SubTypes DEF BusInv, SuffixInv, SuffixOf, LedgerInv, Ledger
<1>2. QED
  BY <1>1, InvCorrect, PTL

\* `dropped` counts every item an open subscription has lost.
THEOREM DroppedExact == Spec => []DroppedAccountsForLoss
<1>1. IInv => DroppedAccountsForLoss
  <2> SUFFICES ASSUME IInv, NEW s \in Subs
               PROVE  LET missing == Len(offered[s]) - Len(got[s]) - NQ(s)
                      IN IF status[s] = "open" THEN missing = dropped[s]
                         ELSE missing \in {dropped[s], dropped[s] + 1}
    BY DEF DroppedAccountsForLoss
  <2> DEFINE lo == Len(offered[s])
             lg == Len(got[s])
             nq == NQ(s)
             d == dropped[s]
  <2>1. lo \in Nat /\ lg \in Nat /\ nq \in Nat /\ d \in Nat
    BY SubTypes DEF NQ, BusInv, ShapeInv
  <2>2. Ledger(status[s] = "closed", s \in Unbounded, lo, lg, nq, Len(queue[s]), d)
    BY SubTypes DEF BusInv, LedgerInv
  <2> HIDE DEF lo, lg, nq, d
  <2>3. IF status[s] = "open" THEN lo - lg - nq = d ELSE lo - lg - nq \in {d, d + 1}
    BY <2>1, <2>2 DEF Ledger
  <2>4. QED
    BY <2>3 DEF lo, lg, nq, d
<1>2. QED
  BY <1>1, InvCorrect, PTL

\* What concatenation returns.
LEMMA ConcatFacts ==
  ASSUME NEW g \in Seq(Nat), NEW r \in Seq(Nat)
  PROVE  /\ g \o r \in Seq(Nat) /\ Len(g \o r) = Len(g) + Len(r)
         /\ \A i \in 1 .. Len(g) : (g \o r)[i] = g[i]
         /\ \A i \in Len(g) + 1 .. Len(g) + Len(r) : (g \o r)[i] = r[i - Len(g)]
OBVIOUS

\* g followed by the first k entries of q is o, when g is the beginning of o
\* and those k entries are the rest of it.
LEMMA ConcatIs ==
  ASSUME NEW g \in Seq(Nat), NEW q \in Seq(Nat), NEW o \in Seq(Nat), NEW k \in Nat,
         k <= Len(q), Len(o) = Len(g) + k, SuffixOf(q, k, o),
         \A i \in 1 .. Len(g) : g[i] = o[i]
  PROVE  g \o SubSeq(q, 1, k) = o
<1> DEFINE r == SubSeq(q, 1, k)
           c == g \o r
<1>1. r \in Seq(Nat) /\ Len(r) = k /\ \A i \in 1 .. k : r[i] = q[i]
  OBVIOUS
<1>2. /\ c \in Seq(Nat) /\ Len(c) = Len(g) + k
      /\ \A i \in 1 .. Len(g) : c[i] = g[i]
      /\ \A i \in Len(g) + 1 .. Len(g) + k : c[i] = r[i - Len(g)]
  <2> HIDE DEF r
  <2>1. QED
    BY <1>1, ConcatFacts
<1> HIDE DEF r
<1> HIDE DEF c
<1>3. ASSUME NEW i \in 1 .. Len(o) PROVE c[i] = o[i]
  <2>1. CASE i \in 1 .. Len(g)
    BY <1>2, <2>1
  <2>2. CASE i \in Len(g) + 1 .. Len(g) + k
    <3>1. i - Len(g) \in 1 .. k /\ Len(o) - k + (i - Len(g)) = i
      BY <2>2
    <3>2. q[i - Len(g)] = o[Len(o) - k + (i - Len(g))]
      BY <3>1 DEF SuffixOf
    <3>3. QED
      BY <1>1, <1>2, <2>2, <3>1, <3>2
  <2>3. QED
    BY <2>1, <2>2
<1>4. c = o
  BY <1>2, <1>3
<1>5. QED
  BY <1>4 DEF c, r

\* The raw logger's queue loses nothing: what its consumer has read and what
\* is queued is what was published to it, in order.
THEOREM LosesNothing == Spec => []UnboundedLosesNothing
<1>1. IInv => UnboundedLosesNothing
  <2> SUFFICES ASSUME IInv, NEW s \in Unbounded
               PROVE  got[s] \o Queued(s) = offered[s]
    BY DEF UnboundedLosesNothing
  <2>1. s \in Subs
    BY BusAssumption
  <2>2. NQ(s) \in Nat /\ NQ(s) <= Len(queue[s])
    BY <2>1, SubTypes DEF NQ, BusInv, ShapeInv
  <2>3. Len(offered[s]) = Len(got[s]) + NQ(s)
    BY <2>1, SubTypes DEF BusInv, LedgerInv, Ledger
  <2>4. /\ SuffixOf(queue[s], NQ(s), offered[s])
        /\ \A i \in 1 .. Len(got[s]) : got[s][i] = offered[s][i]
        /\ got[s] \in Seq(Nat) /\ queue[s] \in Seq(Nat) /\ offered[s] \in Seq(Nat)
    BY <2>1, SubTypes DEF BusInv, SuffixInv, CopyInv
  <2>5. got[s] \o SubSeq(queue[s], 1, NQ(s)) = offered[s]
    BY <2>2, <2>3, <2>4, ConcatIs
  <2>6. QED
    BY <2>5 DEF Queued
<1>2. QED
  BY <1>1, InvCorrect, PTL

(* DeliveredExactly: the three promises of the two queue policies together *)
(* (Subscription.offer and close).                                         *)
THEOREM DeliveryExact == Spec => []DeliveredExactly
<1>1. UnboundedLosesNothing /\ DropOldestKeepsNewest /\ DroppedAccountsForLoss => DeliveredExactly
  BY DEF DeliveredExactly
<1> QED
  BY <1>1, LosesNothing, KeepsNewest, DroppedExact, PTL

-----------------------------------------------------------------------------
(* NtripCaster *)

\* Where a handler of the caster can be.
Places == {"out", "head", "logging", "stream", "drain", "finish", "teardown", "row", "gone"}

\* Why a stream is asked to end.
Ends == {"none", "caster stopped", "slow client", "client closed"}

CasterTypes ==
  /\ feed \in Seq(NtripCaster!Kinds) /\ last \in [{"1005", "1230"} -> Nat]
  /\ conns \subseteq Rovers /\ at \in [Rovers -> Places]
  /\ casterQueue \in [Rovers -> Seq(Nat)] /\ casterDropped \in [Rovers -> Nat]
  /\ casterOffered \in [Rovers -> Seq(Nat)] /\ wire \in [Rovers -> Seq(Nat)]
  /\ joined \in [Rovers -> Nat]
  /\ stop_reason \in [Rovers -> Ends]
  /\ reason \in [Rovers -> Ends \cup {"cancelled", "ConnectionResetError"}]
  /\ row \in [Rovers -> {"none", "open", "closed"}] /\ log_row \in [Rovers -> BOOLEAN]

\* f is the last 1005 among the first n frames of a feed.
LastBase(s, n, f) ==
  /\ f \in 1 .. n /\ s[f] = "1005"
  /\ \A g \in 1 .. n : s[g] = "1005" => g <= f

\* The cache holds the last 1005 fed.
LastInv ==
  IF last["1005"] = 0 THEN \A f \in 1 .. Len(feed) : feed[f] # "1005"
  ELSE LastBase(feed, Len(feed), last["1005"])

\* Where a handler stands, and what it has registered, written and logged by then: a
\* row that is open is known to the handler that will close it, or was inserted while
\* stop() cancelled it.
PlaceInv(r) ==
  /\ r \in conns => at[r] \in {"logging", "stream", "drain", "finish", "teardown"}
  /\ at[r] \in {"out", "head", "logging"} => wire[r] = <<>> /\ row[r] = "none" /\ ~log_row[r]
  /\ row[r] = "open" =>
       \/ log_row[r] /\ at[r] # "gone"
       \/ at[r] \in {"teardown", "gone"} /\ reason[r] = "cancelled"
       \/ at[r] = "gone" /\ "db_fails" \in plan.faults

\* The queue of a stream that is up is the newest part of what it was offered, and the
\* rest of that was written or counted as dropped.
StreamInv(r) ==
  r \in conns /\ stop_reason[r] = "none" =>
    /\ SuffixOf(casterQueue[r], Len(casterQueue[r]), casterOffered[r])
    /\ Len(wire[r]) + Len(casterQueue[r]) + casterDropped[r] = Len(casterOffered[r])

\* The base's position is the first frame written, and until then the first queued,
\* unless it was evicted.
StartInv(r) ==
  /\ joined[r] <= Len(feed)
  /\ \A f \in 1 .. joined[r] :
       LastBase(feed, joined[r], f) /\ casterDropped[r] = 0 =>
         /\ wire[r] # <<>> => wire[r][1] \in {f, 0}
         /\ wire[r] = <<>> /\ at[r] \in {"logging", "stream", "drain"} =>
              casterQueue[r] # <<>> /\ casterQueue[r][1] = f

RoverInv(r) == PlaceInv(r) /\ StreamInv(r) /\ StartInv(r)

CasterInv == CasterTypes /\ LastInv /\ \A r \in Rovers : RoverInv(r)

\* What _offer does to a queue.
LEMMA OfferFacts ==
  ASSUME NEW q \in Seq(Nat), NEW f \in Nat
  PROVE  /\ NtripCaster!Put(q, f) \in Seq(Nat) /\ NtripCaster!Put(q, f) # <<>>
         /\ Len(q) < QMax => NtripCaster!Put(q, f) = Append(q, f)
         /\ Len(q) >= QMax => q # <<>> /\ NtripCaster!Put(q, f) = Append(Tail(q), f)
         /\ Len(q) < QMax /\ q # <<>> => NtripCaster!Put(q, f)[1] = q[1]
<1>1. Len(q) \in Nat /\ (Len(q) >= QMax => q # <<>>)
  BY CasterAssumption
<1>2. Append(q, f) \in Seq(Nat) /\ Append(q, f) # <<>>
      /\ (q # <<>> => Append(q, f)[1] = q[1])
  OBVIOUS
<1>3. q # <<>> => Append(Tail(q), f) \in Seq(Nat) /\ Append(Tail(q), f) # <<>>
  <2>1. \A p \in Seq(Nat) : Append(p, f) \in Seq(Nat) /\ Append(p, f) # <<>>
    OBVIOUS
  <2>2. QED
    BY <2>1, TailFacts
<1>4. QED
  BY <1>1, <1>2, <1>3, CasterAssumption DEF NtripCaster!Put

\* A frame offered to a stream: its queue stays the newest part of its offers, and
\* what is evicted is counted.
LEMMA OfferedOn ==
  ASSUME NEW q \in Seq(Nat), NEW o \in Seq(Nat), NEW f \in Nat, SuffixOf(q, Len(q), o)
  PROVE  LET p == NtripCaster!Put(q, f)
         IN  /\ SuffixOf(p, Len(p), Append(o, f))
             /\ Len(p) = IF Len(q) >= QMax THEN Len(q) ELSE Len(q) + 1
             /\ Len(Append(o, f)) = Len(o) + 1
<1>1. Len(q) \in Nat /\ QMax \in Nat
  BY CasterAssumption
<1>2. CASE Len(q) < QMax
  <2>1. SuffixOf(Append(q, f), Len(q) + 1, Append(o, f))
    BY SuffixGrows
  <2>2. NtripCaster!Put(q, f) = Append(q, f)
    BY <1>2, OfferFacts
  <2>3. Len(Append(q, f)) = Len(q) + 1 /\ Len(Append(o, f)) = Len(o) + 1
    BY AppendFacts
  <2>4. ~(Len(q) >= QMax)
    BY <1>1, <1>2
  <2>5. QED
    BY <2>1, <2>2, <2>3, <2>4
<1>3. CASE Len(q) >= QMax
  <2>1. q # <<>>
    BY <1>3, OfferFacts
  <2>2. SuffixOf(Append(Tail(q), f), Len(q), Append(o, f))
    BY <2>1, SuffixSlides
  <2>3. Len(Append(Tail(q), f)) = Len(q)
    BY <2>1, TailFacts, AppendFacts
  <2>4. QED
    BY <1>1, <1>3, <2>2, <2>3, AppendFacts, OfferFacts
<1>4. QED
  BY <1>1, <1>2, <1>3

\* The types of one rover's part of the state.
LEMMA RoverTypes ==
  ASSUME CasterTypes, NEW r \in Rovers
  PROVE  /\ casterQueue[r] \in Seq(Nat) /\ casterOffered[r] \in Seq(Nat) /\ wire[r] \in Seq(Nat)
         /\ Len(casterQueue[r]) \in Nat /\ Len(casterOffered[r]) \in Nat /\ Len(wire[r]) \in Nat
         /\ casterDropped[r] \in Nat /\ joined[r] \in Nat /\ Len(feed) \in Nat
         /\ at[r] \in Places
BY DEF CasterTypes

\* The variables a rover's part of the invariant is about, but for the place of its
\* handler, its row and why its stream ended.
Streams(r) == <<casterQueue[r], casterDropped[r], casterOffered[r], stop_reason[r], wire[r], joined[r]>>

\* A handler that moves on, writing nothing.
LEMMA Moves ==
  ASSUME CasterInv, NEW r \in Rovers, UNCHANGED <<feed, Streams(r)>>, r \in conns' => r \in conns,
         at'[r] \in {"logging", "stream", "drain"} => at[r] \in {"logging", "stream", "drain"},
         PlaceInv(r)'
  PROVE  RoverInv(r)'
<1>1. PlaceInv(r) /\ StreamInv(r) /\ StartInv(r)
  BY DEF CasterInv, RoverInv
<1>2. /\ casterQueue'[r] = casterQueue[r] /\ casterDropped'[r] = casterDropped[r]
      /\ casterOffered'[r] = casterOffered[r] /\ stop_reason'[r] = stop_reason[r]
      /\ wire'[r] = wire[r] /\ joined'[r] = joined[r] /\ feed' = feed
  BY DEF Streams
<1>3. StreamInv(r)'
  BY <1>1, <1>2 DEF StreamInv, SuffixOf
<1>4. StartInv(r)'
  BY <1>1, <1>2 DEF StartInv, LastBase
<1>5. QED
  BY <1>3, <1>4 DEF RoverInv

\* A rover no step is about.
LEMMA Aside ==
  ASSUME CasterInv, NEW r \in Rovers, UNCHANGED <<feed, plan, Streams(r)>>,
         r \in conns' => r \in conns,
         at'[r] = at[r], row'[r] = row[r], log_row'[r] = log_row[r], reason'[r] = reason[r]
  PROVE  RoverInv(r)'
<1>1. PlaceInv(r)
  BY DEF CasterInv, RoverInv
<1>2. wire'[r] = wire[r] /\ plan' = plan
  BY DEF Streams
<1>3. PlaceInv(r)'
  BY <1>1, <1>2 DEF PlaceInv
<1>4. QED
  BY <1>3, Moves

\* The handler's steps that neither write nor queue.
LEMMA HandlerMoves ==
  ASSUME CasterInv, UNCHANGED plan, NEW r \in Rovers,
         \/ NtripCaster!Connects(r) \/ NtripCaster!Refuses(r) \/ NtripCaster!TooMany(r)
         \/ NtripCaster!LogConnected(r) \/ NtripCaster!LogDisconnected(r)
         \/ NtripCaster!Drained(r) \/ NtripCaster!DrainFails(r) \/ NtripCaster!Finished(r)
  PROVE  CasterInv'
<1> USE DEF NtripCaster!fed, NtripCaster!reg, NtripCaster!client, NtripCaster!rows, NtripCaster!stops
<1>1. UNCHANGED <<feed, last, conns, joined, casterQueue, casterDropped, casterOffered, stop_reason, wire>>
  BY DEF NtripCaster!Connects, NtripCaster!Refuses, NtripCaster!TooMany, NtripCaster!LogConnected,
         NtripCaster!LogDisconnected, NtripCaster!Drained, NtripCaster!DrainFails, NtripCaster!Finished
<1>2. /\ \E p \in Places : at' = [at EXCEPT ![r] = p]
      /\ \/ reason' = reason
         \/ \E w \in Ends \cup {"ConnectionResetError"} : reason' = [reason EXCEPT ![r] = w]
      /\ \/ row' = row
         \/ \E w \in {"open", "closed"} : row' = [row EXCEPT ![r] = w]
      /\ log_row' = log_row \/ log_row' = [log_row EXCEPT ![r] = TRUE]
  BY DEF CasterInv, CasterTypes, Places, Ends, NtripCaster!Connects, NtripCaster!Refuses, NtripCaster!TooMany,
         NtripCaster!LogConnected, NtripCaster!LogDisconnected, NtripCaster!Drained, NtripCaster!DrainFails,
         NtripCaster!Finished, NtripCaster!Leaves
<1>3. CasterTypes'
  <2>1. at' \in [Rovers -> Places]
    BY <1>2 DEF CasterInv, CasterTypes
  <2>2. reason' \in [Rovers -> Ends \cup {"cancelled", "ConnectionResetError"}]
    <3>1. reason \in [Rovers -> Ends \cup {"cancelled", "ConnectionResetError"}]
      BY DEF CasterInv, CasterTypes
    <3>2. QED
      BY <1>2, <3>1
  <2>3. row' \in [Rovers -> {"none", "open", "closed"}]
    BY <1>2 DEF CasterInv, CasterTypes
  <2>4. log_row' \in [Rovers -> BOOLEAN]
    BY <1>2 DEF CasterInv, CasterTypes
  <2>5. QED
    BY <1>1, <2>1, <2>2, <2>3, <2>4 DEF CasterInv, CasterTypes
<1>4. LastInv'
  BY <1>1 DEF CasterInv, LastInv, LastBase
<1>5. ASSUME NEW q \in Rovers, q # r PROVE RoverInv(q)'
  <2>1. at'[q] = at[q] /\ row'[q] = row[q] /\ log_row'[q] = log_row[q] /\ reason'[q] = reason[q]
    BY <1>2, <1>5 DEF CasterInv, CasterTypes
  <2>2. QED
    BY <1>1, <2>1, Aside DEF Streams
<1>6. PlaceInv(r)' /\ (at'[r] \in {"logging", "stream", "drain"} => at[r] \in {"logging", "stream", "drain"})
  <2>1. PlaceInv(r) /\ plan' = plan /\ wire' = wire /\ conns' = conns
    BY <1>1 DEF CasterInv, RoverInv
  <2>2. r \in DOMAIN at /\ r \in DOMAIN row /\ r \in DOMAIN reason /\ r \in DOMAIN log_row
    BY DEF CasterInv, CasterTypes
  <2>3. CASE NtripCaster!Connects(r) \/ NtripCaster!Refuses(r) \/ NtripCaster!TooMany(r)
    BY <2>1, <2>2, <2>3 DEF PlaceInv, NtripCaster!Connects, NtripCaster!Refuses, NtripCaster!TooMany
  <2>4. CASE NtripCaster!LogConnected(r)
    BY <2>1, <2>2, <2>4 DEF PlaceInv, NtripCaster!LogConnected
  <2>5. CASE NtripCaster!LogDisconnected(r)
    BY <2>1, <2>2, <2>5 DEF PlaceInv, NtripCaster!LogDisconnected
  <2>6. CASE NtripCaster!Drained(r)
    BY <2>1, <2>2, <2>6 DEF PlaceInv, NtripCaster!Drained
  <2>7. CASE NtripCaster!DrainFails(r) \/ NtripCaster!Finished(r)
    BY <2>1, <2>2, <2>7 DEF PlaceInv, NtripCaster!DrainFails, NtripCaster!Finished, NtripCaster!Leaves
  <2>8. QED
    BY <2>3, <2>4, <2>5, <2>6, <2>7
<1>7. RoverInv(r)'
  BY <1>1, <1>6, Moves DEF Streams
<1>8. QED
  BY <1>3, <1>4, <1>5, <1>7 DEF CasterInv

\* The steps of stop() and of a rover that touch no handler's stream.
LEMMA OutsideMoves ==
  ASSUME CasterInv, UNCHANGED plan,
         \/ NtripCaster!StopBegins \/ NtripCaster!StopDone \/ NtripCaster!StopGivesUp
         \/ \E r \in Rovers, p \in {"reads", "stalled", "gone"} : NtripCaster!PeerChanges(r, p)
  PROVE  CasterInv'
<1>1. UNCHANGED <<feed, last, conns, joined, at, casterQueue, casterDropped, casterOffered, stop_reason,
                  reason, row, log_row, wire, plan>>
  BY DEF NtripCaster!StopBegins, NtripCaster!StopDone, NtripCaster!StopGivesUp, NtripCaster!PeerChanges,
         NtripCaster!fed, NtripCaster!reg, NtripCaster!client, NtripCaster!rows
<1>2. ASSUME NEW r \in Rovers PROVE RoverInv(r)'
  BY <1>1, Aside DEF Streams
<1>3. CasterTypes' /\ LastInv'
  BY <1>1 DEF CasterInv, CasterTypes, LastInv, LastBase
<1>4. QED
  BY <1>2, <1>3 DEF CasterInv

\* SHUTDOWN_GRACE_S is over for the handlers that hang.
LEMMA GraceStep ==
  ASSUME CasterInv, UNCHANGED plan, NEW I \in SUBSET Rovers, NtripCaster!GraceOver(I)
  PROVE  CasterInv'
<1> DEFINE late == {r \in waited : NtripCaster!Running(r)}
           logs == {r \in late : at[r] = "logging"}
<1>1. /\ I \subseteq logs
      /\ row' = [r \in Rovers |-> IF r \in I THEN "open" ELSE row[r]]
      /\ reason' = [r \in Rovers |-> IF r \in logs THEN "cancelled" ELSE reason[r]]
      /\ at' = [r \in Rovers |-> IF r \in logs THEN "teardown"
                             ELSE IF r \in late /\ at[r] = "head" THEN "gone"
                             ELSE at[r]]
  BY DEF NtripCaster!GraceOver
<1>2. UNCHANGED <<feed, last, conns, joined, casterQueue, casterDropped, casterOffered, stop_reason,
                  log_row, wire, plan>>
  BY DEF NtripCaster!GraceOver, NtripCaster!fed, NtripCaster!reg, NtripCaster!client
<1>3. \A r \in logs : at[r] = "logging"
  OBVIOUS
<1> HIDE DEF late, logs
<1>4. CasterTypes'
  <2>1. at' \in [Rovers -> Places]
    BY <1>1 DEF CasterInv, CasterTypes, Places
  <2>2. row' \in [Rovers -> {"none", "open", "closed"}]
    BY <1>1 DEF CasterInv, CasterTypes
  <2>3. reason' \in [Rovers -> Ends \cup {"cancelled", "ConnectionResetError"}]
    BY <1>1 DEF CasterInv, CasterTypes
  <2>4. QED
    BY <1>2, <2>1, <2>2, <2>3 DEF CasterInv, CasterTypes
<1>5. LastInv'
  BY <1>2 DEF CasterInv, LastInv, LastBase
<1>6. ASSUME NEW r \in Rovers PROVE RoverInv(r)'
  <2>1. PlaceInv(r)
    BY DEF CasterInv, RoverInv
  <2>2. \/ r \in logs /\ at[r] = "logging" /\ at'[r] = "teardown" /\ reason'[r] = "cancelled"
        \/ r \notin logs /\ at[r] = "head" /\ at'[r] = "gone" /\ row'[r] = row[r]
        \/ at'[r] = at[r] /\ row'[r] = row[r] /\ reason'[r] = reason[r]
    BY <1>1, <1>3
  <2>3. PlaceInv(r)' /\ (at'[r] \in {"logging", "stream", "drain"} => at[r] \in {"logging", "stream", "drain"})
    BY <1>2, <2>1, <2>2 DEF PlaceInv
  <2>4. QED
    BY <1>2, <2>3, Moves DEF Streams
<1>7. QED
  BY <1>4, <1>5, <1>6 DEF CasterInv

\* What _end does to the clients it ends, and that it leaves the others alone.
LEMMA EndFacts ==
  ASSUME CasterTypes, NEW S \in SUBSET Rovers, NEW why \in Ends \ {"none"}, NtripCaster!Ended(S, why)
  PROVE  /\ casterQueue' \in [Rovers -> Seq(Nat)] /\ casterDropped' \in [Rovers -> Nat]
         /\ stop_reason' \in [Rovers -> Ends] /\ casterOffered' = casterOffered
         /\ \A r \in S : /\ stop_reason'[r] # "none"
                         /\ casterDropped'[r] = 0 => casterDropped[r] = 0
                         /\ casterDropped'[r] = 0 /\ casterQueue[r] # <<>> =>
                              casterQueue'[r] # <<>> /\ casterQueue'[r][1] = casterQueue[r][1]
         /\ \A r \in Rovers \ S : /\ casterQueue'[r] = casterQueue[r]
                                  /\ casterDropped'[r] = casterDropped[r]
                                  /\ stop_reason'[r] = stop_reason[r]
<1>1. /\ casterQueue' = [r \in Rovers |-> IF r \in S THEN NtripCaster!Put(casterQueue[r], 0) ELSE casterQueue[r]]
      /\ casterDropped' = [r \in Rovers |->
                   IF r \in S /\ Len(casterQueue[r]) >= QMax THEN casterDropped[r] + 1 ELSE casterDropped[r]]
      /\ casterOffered' = [r \in Rovers |-> casterOffered[r]]
      /\ stop_reason' = [r \in Rovers |-> IF r \in S /\ stop_reason[r] = "none" THEN why ELSE stop_reason[r]]
  <2>1. \A r \in Rovers : ~(r \in S /\ NtripCaster!End # NtripCaster!End)
    OBVIOUS
  <2>2. QED
    BY <2>1 DEF NtripCaster!Ended, NtripCaster!Offered, NtripCaster!EndReason, NtripCaster!End
<1>2. casterOffered' = casterOffered
  BY <1>1 DEF CasterTypes
<1>3. \A r \in Rovers : NtripCaster!Put(casterQueue[r], 0) \in Seq(Nat)
  BY RoverTypes, OfferFacts
<1>4. casterQueue' \in [Rovers -> Seq(Nat)]
  BY <1>1, <1>3 DEF CasterTypes
<1>5. casterDropped' \in [Rovers -> Nat] /\ stop_reason' \in [Rovers -> Ends]
  BY <1>1 DEF CasterTypes
<1>6. ASSUME NEW r \in S
      PROVE  /\ stop_reason'[r] # "none"
             /\ casterDropped'[r] = 0 => casterDropped[r] = 0
             /\ casterDropped'[r] = 0 /\ casterQueue[r] # <<>> =>
                  casterQueue'[r] # <<>> /\ casterQueue'[r][1] = casterQueue[r][1]
  <2>1. /\ casterDropped[r] \in Nat /\ Len(casterQueue[r]) \in Nat /\ QMax \in Nat
        /\ casterQueue[r] \in Seq(Nat)
    BY RoverTypes, CasterAssumption
  <2>2. /\ stop_reason'[r] = IF stop_reason[r] = "none" THEN why ELSE stop_reason[r]
        /\ casterDropped'[r] = IF Len(casterQueue[r]) >= QMax THEN casterDropped[r] + 1 ELSE casterDropped[r]
        /\ casterQueue'[r] = NtripCaster!Put(casterQueue[r], 0)
    BY <1>1
  <2>3. casterDropped'[r] = 0 => casterDropped[r] = 0 /\ Len(casterQueue[r]) < QMax
    BY <2>1, <2>2
  <2>4. PICK q \in Seq(Nat) : q = casterQueue[r]
    BY <2>1
  <2>5. /\ NtripCaster!Put(q, 0) # <<>>
        /\ Len(q) < QMax /\ q # <<>> => NtripCaster!Put(q, 0)[1] = q[1]
    BY OfferFacts
  <2>6. QED
    BY <2>2, <2>3, <2>4, <2>5
<1>7. QED
  BY <1>1, <1>2, <1>4, <1>5, <1>6

\* A rover's stream that was asked to end, if its handler moves on to no other stream.
LEMMA EndedRover ==
  ASSUME CasterInv, NEW S \in SUBSET Rovers, NEW why \in Ends \ {"none"}, NtripCaster!Ended(S, why),
         UNCHANGED <<feed, wire, joined>>, NEW r \in Rovers, r \in conns' => r \in conns,
         at'[r] \in {"logging", "stream", "drain"} => at[r] \in {"logging", "stream", "drain"},
         PlaceInv(r)'
  PROVE  RoverInv(r)'
<1>1. StreamInv(r) /\ StartInv(r) /\ CasterTypes
  BY DEF CasterInv, RoverInv
<1>2. CASE r \in S
  <2>1. StreamInv(r)'
    BY <1>1, <1>2, EndFacts DEF StreamInv
  <2>2. StartInv(r)'
    BY <1>1, <1>2, EndFacts DEF StartInv, LastBase
  <2>3. QED
    BY <2>1, <2>2 DEF RoverInv
<1>3. CASE r \notin S
  BY <1>1, <1>3, EndFacts, Moves DEF Streams
<1>4. QED
  BY <1>2, <1>3

\* The GGA reader's end, the start of stop(), and a teardown.
LEMMA EndSteps ==
  ASSUME CasterInv, UNCHANGED plan,
         \/ NtripCaster!StopEnds
         \/ \E r \in Rovers : NtripCaster!GgaEnds(r) \/ NtripCaster!Teardown(r)
  PROVE  CasterInv'
<1> USE DEF NtripCaster!fed, NtripCaster!reg, NtripCaster!client, NtripCaster!rows, NtripCaster!stops
<1>t. CasterTypes /\ LastInv /\ \A q \in Rovers : PlaceInv(q)
  BY DEF CasterInv, RoverInv
<1>1. CASE NtripCaster!StopEnds
  <2>1. NtripCaster!Ended(conns, "caster stopped") /\ conns \in SUBSET Rovers
        /\ "caster stopped" \in Ends \ {"none"}
    BY <1>1, <1>t DEF NtripCaster!StopEnds, Ends, CasterTypes
  <2>2. UNCHANGED <<feed, last, conns, joined, at, reason, row, log_row, wire, plan>>
    BY <1>1 DEF NtripCaster!StopEnds
  <2>3. CasterTypes' /\ LastInv'
    BY <1>t, <2>1, <2>2, EndFacts DEF CasterTypes, LastInv, LastBase
  <2>4. ASSUME NEW r \in Rovers PROVE RoverInv(r)'
    <3>1. PlaceInv(r)'
      BY <1>t, <2>2 DEF PlaceInv
    <3>2. QED
      BY <2>1, <2>2, <3>1, EndedRover
  <2>5. QED
    BY <2>3, <2>4 DEF CasterInv
<1>2. ASSUME NEW r \in Rovers, NtripCaster!GgaEnds(r) PROVE CasterInv'
  <2>1. NtripCaster!Ended({r}, "client closed") /\ {r} \in SUBSET Rovers
        /\ "client closed" \in Ends \ {"none"}
    BY <1>2 DEF NtripCaster!GgaEnds, Ends
  <2>2. UNCHANGED <<feed, last, conns, joined, at, reason, row, log_row, wire, plan>>
    BY <1>2 DEF NtripCaster!GgaEnds
  <2>3. CasterTypes' /\ LastInv'
    BY <1>t, <2>1, <2>2, EndFacts DEF CasterTypes, LastInv, LastBase
  <2>4. ASSUME NEW q \in Rovers PROVE RoverInv(q)'
    <3>1. PlaceInv(q)'
      BY <1>t, <2>2 DEF PlaceInv
    <3>2. QED
      BY <2>1, <2>2, <3>1, EndedRover
  <2>5. QED
    BY <2>3, <2>4 DEF CasterInv
<1>3. ASSUME NEW r \in Rovers, NtripCaster!Teardown(r) PROVE CasterInv'
  <2>1. /\ at[r] = "teardown" /\ conns' = conns \ {r}
        /\ at' = [at EXCEPT ![r] = IF log_row[r] THEN "row" ELSE "gone"]
        /\ UNCHANGED <<feed, last, joined, reason, row, log_row, wire, plan>>
    BY <1>3 DEF NtripCaster!Teardown
  <2>2. {r} \in SUBSET Rovers /\ "client closed" \in Ends \ {"none"}
    BY DEF Ends
  <2>3. at' \in [Rovers -> Places] /\ conns' \subseteq Rovers
    BY <1>t, <2>1 DEF CasterTypes, Places
  <2>4. ASSUME NEW q \in Rovers
        PROVE  PlaceInv(q)' /\ (at'[q] \in {"logging", "stream", "drain"} => at[q] \in {"logging", "stream", "drain"})
    <3>1. CASE q = r
      <4>1. at'[r] = IF log_row[r] THEN "row" ELSE "gone"
        BY <1>t, <2>1 DEF CasterTypes
      <4>2. QED
        BY <1>t, <2>1, <3>1, <4>1 DEF PlaceInv
    <3>2. CASE q # r
      <4>1. at'[q] = at[q]
        BY <1>t, <2>1, <3>2 DEF CasterTypes
      <4>2. QED
        BY <1>t, <2>1, <3>2, <4>1 DEF PlaceInv
    <3>3. QED
      BY <3>1, <3>2
  <2>5. CASE gga[r]
    <3>1. NtripCaster!Ended({r}, "client closed")
      BY <1>3, <2>5 DEF NtripCaster!Teardown
    <3>2. CasterTypes' /\ LastInv'
      BY <1>t, <2>1, <2>2, <2>3, <3>1, EndFacts DEF CasterTypes, LastInv, LastBase
    <3>3. \A q \in Rovers : RoverInv(q)'
      BY <2>1, <2>2, <2>4, <3>1, EndedRover
    <3>4. QED
      BY <3>2, <3>3 DEF CasterInv
  <2>6. CASE ~gga[r]
    <3>1. UNCHANGED <<casterQueue, casterDropped, stop_reason, casterOffered>>
      BY <1>3, <2>6 DEF NtripCaster!Teardown
    <3>2. CasterTypes' /\ LastInv'
      BY <1>t, <2>1, <2>3, <3>1 DEF CasterTypes, LastInv, LastBase
    <3>3. \A q \in Rovers : RoverInv(q)'
      BY <2>1, <2>4, <3>1, Moves DEF Streams
    <3>4. QED
      BY <3>2, <3>3 DEF CasterInv
  <2>7. QED
    BY <2>5, <2>6
<1>4. QED
  BY <1>1, <1>2, <1>3

\* A frame that was written, or the end of a v2 body: what it does to the wire.
LEMMA WrittenFacts ==
  ASSUME NEW w \in Seq(Nat), NEW f \in Nat
  PROVE  /\ Append(w, f) \in Seq(Nat) /\ Append(w, f) # <<>> /\ Len(Append(w, f)) = Len(w) + 1
         /\ w # <<>> => Append(w, f)[1] = w[1]
         /\ w = <<>> => Append(w, f)[1] = f
<1>1. Len(w) \in Nat /\ (w = <<>> => Len(w) = 0) /\ (w # <<>> => 1 \in 1 .. Len(w))
  BY EmptyFacts
<1>2. Append(w, f) # <<>>
  OBVIOUS
<1>3. QED
  BY <1>1, <1>2, AppendFacts

\* The empty queue is one.
LEMMA NothingQueued == <<>> \in Seq(Nat)
OBVIOUS

\* A handler that ends its stream: what is queued is dropped, and at most the end of a v2
\* body is written.
LEMMA FinishStep ==
  ASSUME CasterInv, UNCHANGED plan, NEW r \in Rovers, at[r] \in {"stream", "drain"},
         NtripCaster!FinishStream(r),
         \/ stop_reason[r] # "none" /\ stop_reason' = stop_reason
         \/ stop_reason' = [stop_reason EXCEPT ![r] = IF @ = "none" THEN "slow client" ELSE @],
         UNCHANGED <<feed, last, conns, joined, casterDropped, casterOffered, reason, row, log_row>>
  PROVE  CasterInv'
<1>t. CasterTypes /\ LastInv /\ \A q \in Rovers : RoverInv(q)
  BY DEF CasterInv
<1>1. /\ casterQueue' = [casterQueue EXCEPT ![r] = <<>>]
      /\ at' = [at EXCEPT ![r] = "finish"]
      /\ wire' = [wire EXCEPT ![r] = Append(@, 0)] \/ wire' = wire
  BY DEF NtripCaster!FinishStream, NtripCaster!End
<1>2. Append(wire[r], 0) \in Seq(Nat)
  BY <1>t, RoverTypes, WrittenFacts
<1>3. /\ casterQueue' \in [Rovers -> Seq(Nat)] /\ at' \in [Rovers -> Places]
      /\ wire' \in [Rovers -> Seq(Nat)]
  <2>1. casterQueue' \in [Rovers -> Seq(Nat)]
    BY <1>t, <1>1, NothingQueued DEF CasterTypes
  <2>2. at' \in [Rovers -> Places]
    BY <1>t, <1>1 DEF CasterTypes, Places
  <2>3. wire' \in [Rovers -> Seq(Nat)]
    <3>1. wire \in [Rovers -> Seq(Nat)]
      BY <1>t DEF CasterTypes
    <3>2. CASE wire' = wire
      BY <3>1, <3>2
    <3>3. CASE wire' = [wire EXCEPT ![r] = Append(@, 0)]
      BY <1>2, <3>1, <3>3
    <3>4. QED
      BY <1>1, <3>2, <3>3
  <2>4. QED
    BY <2>1, <2>2, <2>3
<1>4. stop_reason' \in [Rovers -> Ends] /\ stop_reason'[r] # "none"
  BY <1>t DEF CasterTypes, Ends
<1>5. CasterTypes' /\ LastInv'
  BY <1>t, <1>3, <1>4 DEF CasterTypes, LastInv, LastBase
<1>6. ASSUME NEW q \in Rovers, q # r PROVE RoverInv(q)'
  <2>1. at'[q] = at[q] /\ casterQueue'[q] = casterQueue[q] /\ wire'[q] = wire[q]
        /\ stop_reason'[q] = stop_reason[q]
    BY <1>t, <1>1, <1>6 DEF CasterTypes
  <2>2. QED
    BY <2>1, Aside DEF Streams
<1>7. RoverInv(r)'
  <2>1. at'[r] = "finish"
    BY <1>t, <1>1 DEF CasterTypes
  <2>2. PlaceInv(r)'
    BY <1>t, <2>1 DEF RoverInv, PlaceInv
  <2>3. StreamInv(r)'
    BY <1>4 DEF StreamInv
  <2>4. StartInv(r)'
    <3>1. wire[r] \in Seq(Nat) /\ (wire'[r] = wire[r] \/ wire'[r] = Append(wire[r], 0))
      BY <1>t, <1>1, RoverTypes DEF CasterTypes
    <3>2. wire'[r] # <<>> => wire'[r][1] = 0 \/ (wire[r] # <<>> /\ wire'[r][1] = wire[r][1])
      <4>1. PICK w \in Seq(Nat) : w = wire[r]
        BY <3>1
      <4>2. (w # <<>> => Append(w, 0)[1] = w[1]) /\ (w = <<>> => Append(w, 0)[1] = 0)
        BY WrittenFacts
      <4>3. QED
        BY <3>1, <4>1, <4>2
    <3>3. StartInv(r)
      BY <1>t DEF RoverInv
    <3>4. QED
      BY <2>1, <3>2, <3>3 DEF StartInv, LastBase
  <2>5. QED
    BY <2>2, <2>3, <2>4 DEF RoverInv
<1>8. QED
  BY <1>5, <1>6, <1>7 DEF CasterInv

\* A frame is taken from the queue and written.
LEMMA WriteStep ==
  ASSUME CasterInv, UNCHANGED plan, NEW r \in Rovers, NtripCaster!Writes(r)
  PROVE  CasterInv'
<1> USE DEF NtripCaster!fed, NtripCaster!reg, NtripCaster!rows, NtripCaster!stops
<1>t. CasterTypes /\ LastInv /\ \A q \in Rovers : RoverInv(q)
  BY DEF CasterInv
<1>1. /\ at[r] = "stream" /\ casterQueue[r] # <<>>
      /\ UNCHANGED <<feed, last, conns, joined, casterDropped, stop_reason, casterOffered, row, log_row>>
  BY DEF NtripCaster!Writes
<1>2. CASE stop_reason[r] # "none"
  <2>1. NtripCaster!FinishStream(r) /\ reason' = reason
    BY <1>2 DEF NtripCaster!Writes
  <2>2. QED
    BY <1>1, <1>2, <2>1, FinishStep
<1>3. CASE stop_reason[r] = "none"
  <2> DEFINE f == Head(casterQueue[r])
  <2>1. /\ casterQueue' = [casterQueue EXCEPT ![r] = Tail(casterQueue[r])]
        /\ wire' = [wire EXCEPT ![r] = Append(wire[r], f)]
        /\ \/ at' = [at EXCEPT ![r] = "drain"] /\ reason' = reason
           \/ at' = [at EXCEPT ![r] = "teardown"] /\ reason' = [reason EXCEPT ![r] = "client closed"]
    BY <1>3 DEF NtripCaster!Writes, NtripCaster!Leaves
  <2>2. /\ casterQueue[r] \in Seq(Nat) /\ wire[r] \in Seq(Nat) /\ casterOffered[r] \in Seq(Nat)
        /\ Len(casterOffered[r]) \in Nat /\ Len(wire[r]) \in Nat /\ casterDropped[r] \in Nat
    BY <1>t, RoverTypes
  <2>3. /\ Len(casterQueue[r]) \in Nat \ {0} /\ f = casterQueue[r][1] /\ f \in Nat
        /\ Tail(casterQueue[r]) \in Seq(Nat) /\ Len(Tail(casterQueue[r])) = Len(casterQueue[r]) - 1
    BY <1>1, <2>2, TailFacts
  <2> HIDE DEF f
  <2>4. /\ Append(wire[r], f) \in Seq(Nat) /\ Append(wire[r], f) # <<>>
        /\ Len(Append(wire[r], f)) = Len(wire[r]) + 1
        /\ wire[r] # <<>> => Append(wire[r], f)[1] = wire[r][1]
        /\ wire[r] = <<>> => Append(wire[r], f)[1] = f
    BY <2>2, <2>3, WrittenFacts
  <2>5. /\ casterQueue' \in [Rovers -> Seq(Nat)] /\ wire' \in [Rovers -> Seq(Nat)]
        /\ casterQueue'[r] = Tail(casterQueue[r]) /\ wire'[r] = Append(wire[r], f)
        /\ \A q \in Rovers : q # r => casterQueue'[q] = casterQueue[q] /\ wire'[q] = wire[q]
    BY <1>t, <2>1, <2>3, <2>4 DEF CasterTypes
  <2>6. /\ at' \in [Rovers -> Places]
        /\ reason' \in [Rovers -> Ends \cup {"cancelled", "ConnectionResetError"}]
        /\ at'[r] = "teardown" \/ (at'[r] = "drain" /\ reason' = reason)
        /\ \A q \in Rovers : q # r => at'[q] = at[q] /\ reason'[q] = reason[q]
    BY <1>t, <2>1 DEF CasterTypes, Places, Ends
  <2>7. CasterTypes' /\ LastInv'
    BY <1>t, <1>1, <2>5, <2>6 DEF CasterTypes, LastInv, LastBase
  <2>8. ASSUME NEW q \in Rovers, q # r PROVE RoverInv(q)'
    BY <1>1, <2>5, <2>6, <2>8, Aside DEF Streams
  <2>9. PlaceInv(r)'
    BY <1>t, <1>1, <2>6 DEF RoverInv, PlaceInv
  <2>10. StreamInv(r)'
    <3>1. ASSUME r \in conns
          PROVE  /\ SuffixOf(Tail(casterQueue[r]), Len(casterQueue[r]) - 1, casterOffered[r])
                 /\ Len(wire[r]) + Len(casterQueue[r]) + casterDropped[r] = Len(casterOffered[r])
      <4>1. /\ SuffixOf(casterQueue[r], Len(casterQueue[r]), casterOffered[r])
            /\ Len(wire[r]) + Len(casterQueue[r]) + casterDropped[r] = Len(casterOffered[r])
        BY <1>t, <1>3, <3>1 DEF RoverInv, StreamInv
      <4>2. PICK k \in Nat \ {0} : k = Len(casterQueue[r])
        BY <2>3
      <4>3. PICK q \in Seq(Nat), o \in Seq(Nat) : q = casterQueue[r] /\ o = casterOffered[r]
        BY <2>2
      <4>4. SuffixOf(Tail(q), k - 1, o)
        BY <4>1, <4>2, <4>3, SuffixRead
      <4>5. QED
        BY <4>1, <4>2, <4>3, <4>4
    <3>2. SUFFICES ASSUME r \in conns'
                   PROVE  /\ SuffixOf(casterQueue'[r], Len(casterQueue'[r]), casterOffered'[r])
                          /\ Len(wire'[r]) + Len(casterQueue'[r]) + casterDropped'[r] = Len(casterOffered'[r])
      BY DEF StreamInv, SuffixOf
    <3>3. r \in conns /\ casterOffered'[r] = casterOffered[r] /\ casterDropped'[r] = casterDropped[r]
      BY <1>1, <3>2
    <3>4. Len(casterQueue'[r]) = Len(casterQueue[r]) - 1 /\ Len(wire'[r]) = Len(wire[r]) + 1
      BY <2>3, <2>4, <2>5
    <3>5. SuffixOf(casterQueue'[r], Len(casterQueue'[r]), casterOffered'[r])
      BY <2>5, <3>1, <3>3, <3>4
    <3>6. Len(wire'[r]) + Len(casterQueue'[r]) + casterDropped'[r] = Len(casterOffered'[r])
      <4>1. PICK lw \in Nat, lq \in Nat, d \in Nat :
              lw = Len(wire[r]) /\ lq = Len(casterQueue[r]) /\ d = casterDropped[r]
        BY <2>2, <2>3
      <4>2. lw + lq + d = Len(casterOffered[r])
        BY <3>1, <3>3, <4>1
      <4>3. (lw + 1) + (lq - 1) + d = Len(casterOffered[r])
        BY <4>2
      <4>4. QED
        BY <3>3, <3>4, <4>1, <4>3
    <3>7. QED
      BY <3>5, <3>6
  <2>11. StartInv(r)'
    <3>1. StartInv(r)
      BY <1>t DEF RoverInv
    <3>2. QED
      BY <1>1, <2>3, <2>4, <2>5, <2>6, <3>1 DEF StartInv, LastBase
  <2>12. QED
    BY <2>7, <2>8, <2>9, <2>10, <2>11 DEF CasterInv, RoverInv
<1>4. QED
  BY <1>2, <1>3

\* The poll of a blocked write.
LEMMA PollStep ==
  ASSUME CasterInv, UNCHANGED plan, NEW r \in Rovers, NtripCaster!SlowPoll(r)
  PROVE  CasterInv'
<1> USE DEF NtripCaster!fed, NtripCaster!reg, NtripCaster!rows, NtripCaster!stops
<1>t. CasterTypes /\ LastInv /\ \A q \in Rovers : RoverInv(q)
  BY DEF CasterInv
<1>1. /\ at[r] = "drain" /\ reason' = reason
      /\ UNCHANGED <<feed, last, conns, joined, casterDropped, casterOffered, row, log_row>>
  BY DEF NtripCaster!SlowPoll, NtripCaster!SlowEnds
<1>2. CASE at' = [at EXCEPT ![r] = "stream"] /\ UNCHANGED <<casterQueue, stop_reason, wire>>
  <2>1. /\ at' \in [Rovers -> Places] /\ at'[r] = "stream"
        /\ \A q \in Rovers : q # r => at'[q] = at[q]
    BY <1>t, <1>2 DEF CasterTypes, Places
  <2>2. CasterTypes' /\ LastInv'
    BY <1>t, <1>1, <1>2, <2>1 DEF CasterTypes, LastInv, LastBase
  <2>3. ASSUME NEW q \in Rovers, q # r PROVE RoverInv(q)'
    BY <1>1, <1>2, <2>1, <2>3, Aside DEF Streams
  <2>4. PlaceInv(r)'
    BY <1>t, <1>1, <1>2, <2>1 DEF RoverInv, PlaceInv
  <2>5. RoverInv(r)'
    BY <1>1, <1>2, <2>4, Moves DEF Streams
  <2>6. QED
    BY <2>2, <2>3, <2>5 DEF CasterInv
<1>3. CASE NtripCaster!SlowEnds(r)
  BY <1>1, <1>3, FinishStep DEF NtripCaster!SlowEnds
<1>4. QED
  BY <1>2, <1>3 DEF NtripCaster!SlowPoll

\* A frame is fed to every client.
LEMMA FeedStep ==
  ASSUME CasterInv, UNCHANGED plan, NEW k \in NtripCaster!Kinds, NtripCaster!Feed(k)
  PROVE  CasterInv'
<1> USE DEF NtripCaster!reg, NtripCaster!rows, NtripCaster!stops
<1> DEFINE f == Len(feed) + 1
<1>t. CasterTypes /\ LastInv /\ \A q \in Rovers : RoverInv(q)
  BY DEF CasterInv
<1>1. /\ feed' = Append(feed, k)
      /\ last' = IF k \in DOMAIN last THEN [last EXCEPT ![k] = f] ELSE last
      /\ NtripCaster!Offered(conns, f)
      /\ UNCHANGED <<conns, joined, at, stop_reason, reason, row, log_row, wire, plan>>
  BY DEF NtripCaster!Feed
<1>2. f \in Nat \ {0}
  BY <1>t, RoverTypes DEF CasterTypes
<1>3. /\ casterQueue' = [r \in Rovers |-> IF r \in conns THEN NtripCaster!Put(casterQueue[r], f) ELSE casterQueue[r]]
      /\ casterDropped' = [r \in Rovers |->
           IF r \in conns /\ Len(casterQueue[r]) >= QMax THEN casterDropped[r] + 1 ELSE casterDropped[r]]
      /\ casterOffered' = [r \in Rovers |-> IF r \in conns THEN Append(casterOffered[r], f) ELSE casterOffered[r]]
  BY <1>1, <1>2 DEF NtripCaster!Offered, NtripCaster!End
<1>4. /\ feed' \in Seq(NtripCaster!Kinds) /\ Len(feed') = f
      /\ \A g \in 1 .. Len(feed) : feed'[g] = feed[g]
      /\ feed'[f] = k
  <2>1. \A s \in Seq(NtripCaster!Kinds) :
          /\ Append(s, k) \in Seq(NtripCaster!Kinds) /\ Len(Append(s, k)) = Len(s) + 1
          /\ \A g \in 1 .. Len(s) : Append(s, k)[g] = s[g]
          /\ Append(s, k)[Len(s) + 1] = k
    OBVIOUS
  <2>2. QED
    BY <1>t, <1>1, <2>1 DEF CasterTypes
<1>5. Len(feed) \in Nat /\ f = Len(feed) + 1
  BY <1>t DEF CasterTypes
<1> HIDE DEF f
<1>6. CasterTypes'
  <2>1. \A r \in Rovers : NtripCaster!Put(casterQueue[r], f) \in Seq(Nat)
    BY <1>2, <1>t, RoverTypes, OfferFacts
  <2>2. casterQueue' \in [Rovers -> Seq(Nat)]
    BY <1>t, <1>3, <2>1 DEF CasterTypes
  <2>3. casterDropped' \in [Rovers -> Nat]
    BY <1>t, <1>3 DEF CasterTypes
  <2>4. \A r \in Rovers : Append(casterOffered[r], f) \in Seq(Nat)
    BY <1>2, <1>t, RoverTypes, AppendFacts
  <2>5. casterOffered' \in [Rovers -> Seq(Nat)]
    BY <1>t, <1>3, <2>4 DEF CasterTypes
  <2>6. last' \in [{"1005", "1230"} -> Nat]
    BY <1>t, <1>1, <1>2 DEF CasterTypes
  <2>7. QED
    BY <1>t, <1>1, <1>4, <2>2, <2>3, <2>5, <2>6 DEF CasterTypes
<1>7. LastInv'
  <2>1. DOMAIN last = {"1005", "1230"}
    BY <1>t DEF CasterTypes
  <2>2. CASE k = "1005"
    <3>1. last'["1005"] = f
      BY <1>1, <2>1, <2>2
    <3>2. QED
      BY <1>2, <1>4, <1>5, <2>2, <3>1 DEF LastInv, LastBase
  <2>3. CASE k # "1005"
    <3>1. last'["1005"] = last["1005"]
      BY <1>1, <2>1, <2>3
    <3>2. \A g \in 1 .. Len(feed') : feed'[g] = "1005" => g \in 1 .. Len(feed) /\ feed[g] = "1005"
      BY <1>4, <1>5, <2>3
    <3>3. QED
      BY <1>t, <1>4, <1>5, <3>1, <3>2 DEF LastInv, LastBase
  <2>4. QED
    BY <2>2, <2>3
<1>8. ASSUME NEW r \in Rovers PROVE RoverInv(r)'
  <2>t. RoverInv(r)
    BY <1>t
  <2>1. PlaceInv(r)'
    BY <1>1, <2>t DEF RoverInv, PlaceInv
  <2>2. PICK q \in Seq(Nat), o \in Seq(Nat), w \in Seq(Nat), d \in Nat :
          q = casterQueue[r] /\ o = casterOffered[r] /\ w = wire[r] /\ d = casterDropped[r]
    BY <1>t, RoverTypes
  <2>3. Len(q) \in Nat /\ Len(o) \in Nat /\ Len(w) \in Nat /\ QMax \in Nat
    BY CasterAssumption
  <2>4. /\ r \in conns => /\ casterQueue'[r] = NtripCaster!Put(q, f) /\ casterOffered'[r] = Append(o, f)
                          /\ casterDropped'[r] = IF Len(q) >= QMax THEN d + 1 ELSE d
        /\ r \notin conns => casterQueue'[r] = q /\ casterOffered'[r] = o /\ casterDropped'[r] = d
    BY <1>3, <2>2
  <2>5. StreamInv(r)'
    <3>1. SUFFICES ASSUME r \in conns, stop_reason[r] = "none"
                   PROVE  /\ SuffixOf(casterQueue'[r], Len(casterQueue'[r]), casterOffered'[r])
                          /\ Len(wire'[r]) + Len(casterQueue'[r]) + casterDropped'[r] = Len(casterOffered'[r])
      BY <1>1 DEF StreamInv, SuffixOf
    <3>2. SuffixOf(q, Len(q), o) /\ Len(w) + Len(q) + d = Len(o)
      BY <2>t, <2>2, <3>1 DEF RoverInv, StreamInv
    <3>3. PICK p : p = NtripCaster!Put(q, f)
      OBVIOUS
    <3>4. /\ SuffixOf(p, Len(p), Append(o, f))
          /\ Len(p) = IF Len(q) >= QMax THEN Len(q) ELSE Len(q) + 1
          /\ Len(Append(o, f)) = Len(o) + 1
      BY <1>2, <3>2, <3>3, OfferedOn
    <3>5. SuffixOf(casterQueue'[r], Len(casterQueue'[r]), casterOffered'[r])
      BY <2>4, <3>1, <3>3, <3>4
    <3>6. wire'[r] = w
      BY <1>1, <2>2
    <3>7. Len(w) + Len(p) + (IF Len(q) >= QMax THEN d + 1 ELSE d) = Len(Append(o, f))
      BY <2>3, <3>2, <3>4
    <3>8. /\ casterQueue'[r] = p /\ casterOffered'[r] = Append(o, f)
          /\ casterDropped'[r] = IF Len(q) >= QMax THEN d + 1 ELSE d
      BY <2>4, <3>1, <3>3
    <3>9. QED
      BY <3>5, <3>6, <3>7, <3>8
  <2>6. StartInv(r)'
    <3>1. joined[r] \in Nat /\ joined[r] <= Len(feed) /\ joined' = joined /\ at' = at /\ wire' = wire
      BY <1>t, <1>1, <2>t, RoverTypes DEF RoverInv, StartInv
    <3>2. \A g \in 1 .. joined[r] : feed'[g] = feed[g]
      <4>1. \A g \in 1 .. joined[r] : g \in 1 .. Len(feed)
        BY <1>5, <3>1
      <4>2. QED
        BY <1>4, <4>1
    <3>3. casterDropped'[r] = 0 => /\ casterDropped[r] = 0
                                   /\ q # <<>> => casterQueue'[r] # <<>> /\ casterQueue'[r][1] = q[1]
      <4>1. PICK p : p = NtripCaster!Put(q, f)
        OBVIOUS
      <4>2. p # <<>> /\ (Len(q) < QMax /\ q # <<>> => p[1] = q[1])
        BY <1>2, <4>1, OfferFacts
      <4>3. casterDropped'[r] = 0 => d = 0 /\ (r \in conns => Len(q) < QMax)
        BY <2>3, <2>4
      <4>4. QED
        BY <2>2, <2>4, <4>1, <4>2, <4>3
    <3>4. ASSUME NEW g \in 1 .. joined[r], LastBase(feed', joined[r], g), casterDropped'[r] = 0
          PROVE  /\ wire[r] # <<>> => wire[r][1] \in {g, 0}
                 /\ wire[r] = <<>> /\ at[r] \in {"logging", "stream", "drain"} =>
                      casterQueue'[r] # <<>> /\ casterQueue'[r][1] = g
      <4>1. LastBase(feed, joined[r], g)
        BY <3>2, <3>4 DEF LastBase
      <4>2. QED
        BY <2>t, <2>2, <3>3, <3>4, <4>1 DEF RoverInv, StartInv
    <3>5. joined[r] <= Len(feed')
      BY <1>4, <1>5, <3>1
    <3>6. QED
      BY <3>1, <3>4, <3>5 DEF StartInv
  <2>7. QED
    BY <2>1, <2>5, <2>6 DEF RoverInv
<1>9. QED
  BY <1>6, <1>7, <1>8 DEF CasterInv

\* What a rover is sent first: the cached 1005, if there is one, and then the cached 1230.
LEMMA CachedFacts ==
  ASSUME CasterTypes
  PROVE  /\ NtripCaster!Cached \in Seq(Nat)
         /\ last["1005"] # 0 => NtripCaster!Cached # <<>> /\ NtripCaster!Cached[1] = last["1005"]
<1>1. last["1005"] \in Nat /\ last["1230"] \in Nat
  BY DEF CasterTypes
<1>2. NtripCaster!LastOf("1005") \in Seq(Nat) /\ NtripCaster!LastOf("1230") \in Seq(Nat)
  BY <1>1 DEF NtripCaster!LastOf
<1>3. last["1005"] # 0 =>
        Len(NtripCaster!LastOf("1005")) = 1 /\ NtripCaster!LastOf("1005")[1] = last["1005"]
  BY DEF NtripCaster!LastOf, NtripCaster!End
<1>4. \A g, h \in Seq(Nat) : g \o h \in Seq(Nat) /\ (Len(g) = 1 => g \o h # <<>> /\ (g \o h)[1] = g[1])
  <2>1. ASSUME NEW g \in Seq(Nat), NEW h \in Seq(Nat), Len(g) = 1 PROVE g \o h # <<>>
    BY <2>1, ConcatFacts
  <2>2. QED
    BY <2>1, ConcatFacts
<1>5. QED
  BY <1>2, <1>3, <1>4 DEF NtripCaster!Cached

\* A rover is registered with the cached frames.
LEMMA ServeStep ==
  ASSUME CasterInv, UNCHANGED plan, NEW r \in Rovers, NtripCaster!Serves(r)
  PROVE  CasterInv'
<1> USE DEF NtripCaster!fed, NtripCaster!rows, NtripCaster!stops
<1>t. CasterTypes /\ LastInv /\ \A q \in Rovers : RoverInv(q)
  BY DEF CasterInv
<1>1. PICK c \in Seq(Nat) : c = NtripCaster!Cached
  BY <1>t, CachedFacts
<1>2. /\ at[r] = "head"
      /\ conns' = conns \cup {r} /\ joined' = [joined EXCEPT ![r] = Len(feed)]
      /\ casterQueue' = [casterQueue EXCEPT ![r] = IF stopping THEN NtripCaster!Put(c, 0) ELSE c]
      /\ casterDropped' = [casterDropped EXCEPT ![r] = IF stopping /\ Len(c) >= QMax THEN 1 ELSE 0]
      /\ stop_reason' = [stop_reason EXCEPT ![r] = IF stopping THEN "caster stopped" ELSE "none"]
      /\ casterOffered' = [casterOffered EXCEPT ![r] = c]
      /\ at' = [at EXCEPT ![r] = "logging"]
      /\ UNCHANGED <<feed, last, reason, row, log_row, wire, plan>>
  BY <1>1 DEF NtripCaster!Serves, NtripCaster!End
<1>3. NtripCaster!Put(c, 0) \in Seq(Nat)
  BY OfferFacts
<1>4. CasterTypes'
  <2>1. casterQueue' \in [Rovers -> Seq(Nat)]
    BY <1>t, <1>2, <1>3 DEF CasterTypes
  <2>2. casterDropped' \in [Rovers -> Nat]
    BY <1>t, <1>2 DEF CasterTypes
  <2>3. casterOffered' \in [Rovers -> Seq(Nat)] /\ joined' \in [Rovers -> Nat]
    BY <1>t, <1>2, RoverTypes DEF CasterTypes
  <2>4. stop_reason' \in [Rovers -> Ends] /\ at' \in [Rovers -> Places] /\ conns' \subseteq Rovers
    BY <1>t, <1>2 DEF CasterTypes, Ends, Places
  <2>5. QED
    BY <1>t, <1>2, <2>1, <2>2, <2>3, <2>4 DEF CasterTypes
<1>5. LastInv'
  BY <1>t, <1>2 DEF LastInv, LastBase
<1>6. ASSUME NEW q \in Rovers, q # r PROVE RoverInv(q)'
  <2>1. /\ at'[q] = at[q] /\ casterQueue'[q] = casterQueue[q] /\ casterDropped'[q] = casterDropped[q]
        /\ casterOffered'[q] = casterOffered[q] /\ stop_reason'[q] = stop_reason[q] /\ joined'[q] = joined[q]
        /\ q \in conns' => q \in conns
    BY <1>t, <1>2, <1>6 DEF CasterTypes
  <2>2. QED
    BY <1>2, <2>1, Aside DEF Streams
<1>7. RoverInv(r)'
  <2>1. at'[r] = "logging" /\ joined'[r] = Len(feed) /\ casterOffered'[r] = c
    BY <1>t, <1>2 DEF CasterTypes
  <2>b. \/ /\ casterQueue'[r] = NtripCaster!Put(c, 0) /\ stop_reason'[r] = "caster stopped"
           /\ Len(c) >= QMax => casterDropped'[r] = 1
        \/ casterQueue'[r] = c /\ casterDropped'[r] = 0 /\ stop_reason'[r] = "none"
    BY <1>t, <1>2 DEF CasterTypes
  <2>2. PlaceInv(r)' /\ wire'[r] = <<>>
    BY <1>t, <1>2, <2>1 DEF RoverInv, PlaceInv
  <2>3. StreamInv(r)'
    <3>1. SuffixOf(c, Len(c), c) /\ Len(wire'[r]) = 0 /\ Len(c) \in Nat
      BY <2>2 DEF SuffixOf
    <3>2. SUFFICES ASSUME stop_reason'[r] = "none"
                   PROVE  /\ SuffixOf(casterQueue'[r], Len(casterQueue'[r]), casterOffered'[r])
                          /\ Len(wire'[r]) + Len(casterQueue'[r]) + casterDropped'[r] = Len(casterOffered'[r])
      BY DEF StreamInv, SuffixOf
    <3>3. casterQueue'[r] = c /\ casterDropped'[r] = 0 /\ casterOffered'[r] = c
      BY <2>1, <2>b, <3>2
    <3>4. QED
      BY <3>1, <3>3
  <2>4. StartInv(r)'
    <3>1. joined'[r] <= Len(feed')
      <4>1. Len(feed) \in Nat
        BY <1>t, RoverTypes
      <4>2. feed' = feed
        BY <1>2
      <4>3. QED
        BY <2>1, <4>1, <4>2
    <3>2. ASSUME NEW f \in 1 .. Len(feed), LastBase(feed, Len(feed), f), casterDropped'[r] = 0
          PROVE  casterQueue'[r] # <<>> /\ casterQueue'[r][1] = f
      <4>1. Len(feed) \in Nat /\ Len(c) \in Nat /\ QMax \in Nat
        BY <1>t, RoverTypes, CasterAssumption
      <4>2. last["1005"] = f /\ f # 0
        BY <1>t, <3>2, <4>1 DEF LastInv, LastBase
      <4>3. c # <<>> /\ c[1] = f
        BY <1>t, <1>1, <4>2, CachedFacts
      <4>4. PICK p : p = NtripCaster!Put(c, 0)
        OBVIOUS
      <4>5. p # <<>> /\ (Len(c) < QMax /\ c # <<>> => p[1] = c[1])
        BY <4>4, OfferFacts
      <4>6. casterQueue'[r] = c \/ (casterQueue'[r] = p /\ Len(c) < QMax)
        <5>1. CASE casterQueue'[r] = c
          BY <5>1
        <5>2. CASE casterQueue'[r] = NtripCaster!Put(c, 0) /\ (Len(c) >= QMax => casterDropped'[r] = 1)
          <6>1. ~(Len(c) >= QMax)
            BY <3>2, <5>2
          <6>2. QED
            BY <4>1, <4>4, <5>2, <6>1
        <5>3. QED
          BY <2>b, <5>1, <5>2
      <4>7. QED
        BY <4>3, <4>5, <4>6
    <3>3. QED
      BY <1>2, <2>1, <2>2, <3>1, <3>2 DEF StartInv
  <2>5. QED
    BY <2>2, <2>3, <2>4 DEF RoverInv
<1>8. QED
  BY <1>4, <1>5, <1>6, <1>7 DEF CasterInv

\* Where handlers stand, what they have registered, queued and written, and what the
\* cache holds (_on_frame, _serve_stream, _write_loop, _teardown, stop).
THEOREM CasterInvariant == NtripCaster!Spec => []CasterInv
<1>1. NtripCaster!Init => CasterInv
  <2>1. SUFFICES ASSUME NtripCaster!Init PROVE CasterInv
    OBVIOUS
  <2>2. feed = <<>> /\ feed \in Seq(NtripCaster!Kinds) /\ Len(feed) = 0
    BY <2>1 DEF NtripCaster!Init
  <2>3. CasterTypes
    BY <2>1, <2>2, NothingQueued DEF CasterTypes, NtripCaster!Init, NtripCaster!End, Places, Ends
  <2>4. LastInv
    BY <2>1, <2>2 DEF NtripCaster!Init, NtripCaster!End, LastInv
  <2>5. ASSUME NEW r \in Rovers PROVE RoverInv(r)
    BY <2>1, <2>2 DEF NtripCaster!Init, RoverInv, PlaceInv, StreamInv, StartInv
  <2>6. QED
    BY <2>3, <2>4, <2>5 DEF CasterInv
<1>2. CasterInv /\ [NtripCaster!Next]_(NtripCaster!vars) => CasterInv'
  <2>1. SUFFICES ASSUME CasterInv, [NtripCaster!Next]_(NtripCaster!vars) PROVE CasterInv'
    OBVIOUS
  <2>2. CASE UNCHANGED NtripCaster!vars
    <3>1. UNCHANGED <<feed, last, conns, joined, at, casterQueue, casterDropped, casterOffered, stop_reason,
                      reason, row, log_row, wire, plan>>
      BY <2>2 DEF NtripCaster!vars, NtripCaster!fed, NtripCaster!client, NtripCaster!rows, NtripCaster!stops
    <3>2. ASSUME NEW r \in Rovers PROVE RoverInv(r)'
      BY <2>1, <3>1, Aside DEF Streams
    <3>3. CasterTypes' /\ LastInv'
      BY <2>1, <3>1 DEF CasterInv, CasterTypes, LastInv, LastBase
    <3>4. QED
      BY <3>2, <3>3 DEF CasterInv
  <2>3. CASE NtripCaster!Next
    <3>1. plan' = plan
      BY <2>3 DEF NtripCaster!Next
    <3>2. CASE \E k \in NtripCaster!Kinds : NtripCaster!Feed(k)
      BY <2>1, <3>1, <3>2, FeedStep
    <3>3. CASE \E r \in Rovers : NtripCaster!Serves(r)
      BY <2>1, <3>1, <3>3, ServeStep
    <3>4. CASE \E r \in Rovers :
                 \/ NtripCaster!Connects(r) \/ NtripCaster!Refuses(r) \/ NtripCaster!TooMany(r)
                 \/ NtripCaster!LogConnected(r) \/ NtripCaster!LogDisconnected(r)
                 \/ NtripCaster!Drained(r) \/ NtripCaster!DrainFails(r) \/ NtripCaster!Finished(r)
      BY <2>1, <3>1, <3>4, HandlerMoves
    <3>5. CASE \E r \in Rovers : NtripCaster!Writes(r)
      BY <2>1, <3>1, <3>5, WriteStep
    <3>6. CASE \E r \in Rovers : NtripCaster!SlowPoll(r)
      BY <2>1, <3>1, <3>6, PollStep
    <3>7. CASE \/ NtripCaster!StopEnds
               \/ \E r \in Rovers : NtripCaster!GgaEnds(r) \/ NtripCaster!Teardown(r)
      BY <2>1, <3>1, <3>7, EndSteps
    <3>8. CASE \/ NtripCaster!StopBegins \/ NtripCaster!StopDone \/ NtripCaster!StopGivesUp
               \/ \E r \in Rovers, p \in {"reads", "stalled", "gone"} : NtripCaster!PeerChanges(r, p)
      BY <2>1, <3>1, <3>8, OutsideMoves
    <3>9. CASE \E I \in SUBSET Rovers : NtripCaster!GraceOver(I)
      BY <2>1, <3>1, <3>9, GraceStep
    <3>10. QED
      BY <2>3, <3>2, <3>3, <3>4, <3>5, <3>6, <3>7, <3>8, <3>9 DEF NtripCaster!Next
  <2>4. QED
    BY <2>1, <2>2, <2>3
<1>3. QED
  BY <1>1, <1>2, PTL DEF NtripCaster!Spec

\* Sequences of one length with the same entries are the same.
LEMMA SameSequence ==
  ASSUME NEW g \in Seq(Nat), NEW h \in Seq(Nat), Len(g) = Len(h),
         \A i \in 1 .. Len(h) : g[i] = h[i]
  PROVE  g = h
OBVIOUS

\* A suffix, as a subsequence.
LEMMA SuffixIs ==
  ASSUME NEW q \in Seq(Nat), NEW o \in Seq(Nat), SuffixOf(q, Len(q), o)
  PROVE  q = SubSeq(o, Len(o) - Len(q) + 1, Len(o))
<1>1. Len(q) \in Nat /\ Len(o) \in Nat /\ Len(q) <= Len(o)
  BY DEF SuffixOf
<1>2. PICK m : m = Len(o) - Len(q) + 1
  OBVIOUS
<1>r. m \in 1 .. Len(o) + 1
  BY <1>1, <1>2
<1> DEFINE t == SubSeq(o, m, Len(o))
<1>3. t \in Seq(Nat) /\ Len(t) = Len(o) - m + 1 /\ \A i \in 1 .. Len(o) - m + 1 : t[i] = o[m + i - 1]
  BY <1>1, <1>r
<1> HIDE DEF t
<1>4. Len(t) = Len(q)
  BY <1>1, <1>2, <1>3
<1>5. ASSUME NEW i \in 1 .. Len(q) PROVE t[i] = q[i]
  <2>1. q[i] = o[Len(o) - Len(q) + i]
    BY DEF SuffixOf
  <2>2. Len(o) - Len(q) + i = m + i - 1 /\ i \in 1 .. Len(o) - m + 1
    BY <1>1, <1>2
  <2>3. QED
    BY <1>3, <2>1, <2>2
<1>6. t = q
  BY <1>3, <1>4, <1>5, SameSequence
<1>7. QED
  BY <1>2, <1>6 DEF t

\* Among frames with a 1005 there is a last one.
LEMMA LastExists ==
  ASSUME NEW s, NEW n \in Nat, {g \in 1 .. n : s[g] = "1005"} # {}
  PROVE  \E f \in 1 .. n : LastBase(s, n, f)
<1> DEFINE away == {k \in Nat : k < n /\ s[n - k] = "1005"}
<1>1. away # {} /\ away \subseteq Nat
  <2>1. PICK g \in 1 .. n : s[g] = "1005"
    OBVIOUS
  <2>2. n - g \in Nat /\ n - g < n /\ n - (n - g) = g
    BY <2>1
  <2>3. QED
    BY <2>1, <2>2
<1>2. PICK k \in away : \A m \in away : <<m, k>> \notin OpToRel(<, Nat)
  BY <1>1, NatLessThanWellFounded, WFMin
<1>3. n - k \in 1 .. n /\ s[n - k] = "1005"
  OBVIOUS
<1>4. ASSUME NEW g \in 1 .. n, s[g] = "1005" PROVE g <= n - k
  <2>1. n - g \in Nat /\ n - g < n /\ n - (n - g) = g /\ k \in Nat
    OBVIOUS
  <2>2. n - g \in away
    BY <1>4, <2>1
  <2>3. ~(n - g < k)
    BY <1>2, <2>1, <2>2 DEF OpToRel
  <2>4. QED
    BY <2>1, <2>3
<1>5. QED
  BY <1>3, <1>4 DEF LastBase

\* A rover that joins between two cycles of 1005 gets the last one first, what a slow
\* one misses is the oldest and is counted, and a handler that is over has left no
\* registration and no open row (RoversServed).
THEOREM RoversAlwaysServed == NtripCaster!Spec => []RoversServed
<1>1. CasterInv => RoversServed
  <2>1. SUFFICES ASSUME CasterInv PROVE RoversServed
    OBVIOUS
  <2>2. \A r \in Rovers : RoverInv(r) /\ CasterTypes
    BY <2>1 DEF CasterInv
  <2>3. NtripCaster!JoinsWith1005
    <3>1. SUFFICES ASSUME NEW r \in Rovers, {g \in 1 .. joined[r] : feed[g] = "1005"} # {},
                          casterDropped[r] = 0, wire[r] # <<>>, wire[r][1] # 0
                   PROVE  LastBase(feed, joined[r], wire[r][1])
      BY DEF NtripCaster!JoinsWith1005, NtripCaster!End, LastBase
    <3>2. joined[r] \in Nat
      BY <2>2, RoverTypes
    <3>3. PICK f \in 1 .. joined[r] : LastBase(feed, joined[r], f)
      BY <3>1, <3>2, LastExists
    <3>4. wire[r][1] \in {f, 0}
      BY <2>2, <3>1, <3>3 DEF RoverInv, StartInv
    <3>5. QED
      BY <3>1, <3>3, <3>4
  <2>4. NtripCaster!DropsOldest
    <3>1. SUFFICES ASSUME NEW r \in conns, stop_reason[r] = "none"
                   PROVE  /\ casterQueue[r] = SubSeq(casterOffered[r], Len(casterOffered[r]) - Len(casterQueue[r]) + 1,
                                                     Len(casterOffered[r]))
                          /\ Len(wire[r]) + Len(casterQueue[r]) + casterDropped[r] = Len(casterOffered[r])
      BY DEF NtripCaster!DropsOldest
    <3>2. r \in Rovers
      BY <2>1 DEF CasterInv, CasterTypes
    <3>3. PICK q \in Seq(Nat), o \in Seq(Nat) : q = casterQueue[r] /\ o = casterOffered[r]
      BY <2>2, <3>2, RoverTypes
    <3>4. SuffixOf(q, Len(q), o) /\ Len(wire[r]) + Len(q) + casterDropped[r] = Len(o)
      BY <2>2, <3>1, <3>2, <3>3 DEF RoverInv, StreamInv
    <3>5. q = SubSeq(o, Len(o) - Len(q) + 1, Len(o))
      BY <3>4, SuffixIs
    <3>6. QED
      BY <3>3, <3>4, <3>5
  <2>5. NtripCaster!LeavesNothing
    BY <2>2 DEF RoverInv, PlaceInv, NtripCaster!LeavesNothing
  <2>6. QED
    BY <2>3, <2>4, <2>5 DEF RoversServed, NtripCaster!RoversServed
<1>2. QED
  BY <1>1, CasterInvariant, PTL

=============================================================================
