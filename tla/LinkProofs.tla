----------------------------- MODULE LinkProofs -----------------------------
(***************************************************************************)
(* Proofs about UbxLink, for every set of callers, every plan, timeout and *)
(* bound: what a caller is told is about its own request, and a loss costs *)
(* what the retries were made for and no more.                             *)
(*                                                                         *)
(* LinkInv is the inductive invariant.  Its parts say who stands in which  *)
(* queue (FuturesInv, AloneInv), how late a frame may be (DueInv), what a  *)
(* fault has cost so far and may still cost (LossInv, AttemptInv), and     *)
(* which verdicts on valsets are on the line: at most one whose valset     *)
(* gave up, which a credit covers, and that of the valset in progress      *)
(* (VerdictInv).  All but the types and UnaskedInv are about callers that  *)
(* hold one lock (Serial).                                                 *)
(***************************************************************************)
EXTENDS UbxLink, SequenceTheorems, WellFoundedInduction, TLAPS

Verdict == "ack:valset"
Frames == [key : AllKeys, op : Nat, due : Nat]
Results == [outcome : {"none", "answered", "timeout", "error", "cancelled"}, op : Nat, from : Nat]

LinkTypes ==
  /\ plan \in Plans
  /\ pc \in [Callers -> {"idle", "writing", "waiting"}]
  /\ kind \in [Callers -> Kinds]
  /\ op \in [Callers -> Nat] /\ attempt \in [Callers -> Nat] /\ left \in [Callers -> 0 .. Timeout]
  /\ fut \in [Callers -> [AllKeys -> {"none", "pending", "done", "failed"}]]
  /\ from \in [Callers -> [AllKeys -> Nat]]
  /\ robbed \in [Callers -> [AllKeys -> BOOLEAN]]
  /\ waiters \in [AllKeys -> Seq(Callers)] /\ writers \in Seq(Callers)
  /\ stale \in [AckKeys -> Seq(Nat)] /\ inflight \in Seq(Frames)
  /\ stopped \in BOOLEAN
  /\ result \in [Callers -> Results]
  /\ ops \in Nat /\ faults \in [FaultKinds -> Nat] /\ \A f \in FaultKinds : faults[f] <= plan.faults[f]
  /\ timeouts \in Nat /\ samples \in Nat

\* A request has a number and futures under its keys, and no others.
FuturesInv ==
  \A c \in Callers :
    /\ pc[c] # "idle" => op[c] > 0 /\ attempt[c] > 0
    /\ \A k \in AllKeys : fut[c][k] = "none" <=> pc[c] = "idle" \/ k \notin Keys(c)
    /\ \A k \in AllKeys : fut[c][k] = "failed" => stopped

\* One request at a time: it alone is inside `write`, and in the queues of its
\* keys as long as nobody answered it.
OneBusy == \A c, d \in Callers : pc[c] # "idle" /\ pc[d] # "idle" => c = d
Awaited(c, k) == pc[c] # "idle" /\ fut[c][k] = "pending"
AloneInv ==
  /\ OneBusy
  /\ \A c \in Callers : pc[c] = "writing" => writers = <<c>>
  /\ writers # <<>> => \E c \in Callers : pc[c] = "writing"
  /\ \A k \in AllKeys : /\ \A c \in Callers : Awaited(c, k) => waiters[k] = <<c>>
                        /\ waiters[k] # <<>> => \E c \in Callers : Awaited(c, k)

\* A frame arrives before t; a sample may come at any time.
InTime(f, t) == f.due < t \/ (f.op = 0 /\ f.due = 0)
AllInTime(t) == \A i \in 1 .. Len(inflight) : InTime(inflight[i], t)
NobodyWaits == \A c \in Callers : pc[c] # "waiting"

\* What is on its way arrives before the request in progress times out.
Punctual ==
  /\ NobodyWaits => AllInTime(Timeout)
  /\ \A c \in Callers : pc[c] = "waiting" => AllInTime(left[c])

\* No frame is later than a credit for it lasts.
NotTooLate ==
  /\ \A i \in 1 .. Len(inflight) : inflight[i].due < 2 * Timeout
  /\ \A c \in Callers : pc[c] = "waiting" =>
       \A i \in 1 .. Len(inflight) : inflight[i].due < left[c] + Timeout

\* None is late without a fault.
DueInv == NotTooLate /\ (faults["late"] = 0 => Punctual)

-----------------------------------------------------------------------------
\* The loss: what timed out, what is owed and what will time out for it.
NoAnswer(c) == \A k \in AllKeys : fut[c][k] # "done"
Expects(c) == \E i \in 1 .. Len(inflight) :
  inflight[i].op > 0 /\ inflight[i].key \in Keys(c) /\ inflight[i].due < left[c]
Doomed(c) == pc[c] = "waiting" /\ NoAnswer(c) /\ ~Expects(c)
Robbed(c) == \E k \in AckKeys \cap Keys(c) : robbed[c][k]
Risk ==
  IF ~Punctual THEN 2
  ELSE IF \E c \in Callers : Doomed(c) /\ ~Robbed(c) THEN 2
  ELSE IF \E c \in Callers : Doomed(c) THEN 1 ELSE 0
Owed == Len(stale["ack:valset"]) + Len(stale["ack:valget"]) + Len(stale["ack:poll"])

Counts == ~stopped /\ (faults["late"] = 0 \/ Happened <= 1)
LossInv == Counts => timeouts + Owed + Risk <= 2 * Happened

\* What an attempt that failed has cost.
AttemptInv ==
  \A c \in Callers :
    /\ attempt[c] <= timeouts + 1
    /\ pc[c] = "idle" /\ kind[c] = "valset" /\ result[c].outcome = "timeout" => timeouts >= Retries

-----------------------------------------------------------------------------
\* The verdicts on their way: first one whose valset gave up, covered by a
\* credit, then that of the valset in progress.
Strays == faults["late"] + faults["cancel"]
Mine(f) == \E c \in Callers :
  pc[c] = "waiting" /\ kind[c] = "valset" /\ fut[c][Verdict] = "pending" /\ op[c] = f.op
Credit(due) == stale[Verdict] # <<>> /\ stale[Verdict][Len(stale[Verdict])] > due
RobbedOfVerdict == \E c \in Callers : kind[c] = "valset" /\ pc[c] # "idle" /\ robbed[c][Verdict]

Line(s, o) ==
  /\ s \in 0 .. Len(inflight) /\ o \in 0 .. Len(inflight)
  /\ \A i \in 1 .. Len(inflight) : inflight[i].key = Verdict <=> i = s \/ i = o
  /\ s > 0 => Credit(inflight[s].due) /\ Strays = 1 /\ Punctual /\ (o > 0 => s < o)
  /\ o > 0 => Mine(inflight[o])
  /\ RobbedOfVerdict /\ (o > 0 \/ NobodyWaits) => Strays = 1 /\ Punctual

\* A valset that is still to be written is not answered yet.
Unanswered ==
  \A c \in Callers : pc[c] = "writing" /\ kind[c] = "valset" => fut[c][Verdict] = "pending"

\* A verdict is taken by the valset it is about.
OwnAnswers == \A c \in Callers :
  /\ fut[c][Verdict] = "done" => from[c][Verdict] = op[c]
  /\ pc[c] = "idle" /\ kind[c] = "valset" /\ result[c].outcome = "answered"
       => result[c].from = result[c].op

VerdictInv ==
  /\ Strays = 0 => Punctual
  /\ Strays <= 1 /\ ~stopped => Unanswered /\ \E s, o \in 0 .. Len(inflight) : Line(s, o)
  /\ Strays <= 1 => OwnAnswers

\* No valset is asked for.
NoValset == \A c \in Callers : "valset" \notin plan.does[c]
UnaskedInv ==
  NoValset => /\ \A c \in Callers : kind[c] = "valset" => pc[c] = "idle" /\ result[c] = None
              /\ \A i \in 1 .. Len(writers) : kind[writers[i]] # "valset"

LinkInv ==
  /\ LinkTypes /\ UnaskedInv
  /\ Serial => FuturesInv /\ AloneInv /\ AttemptInv /\ DueInv /\ LossInv /\ VerdictInv

Covered == NoValset \/ (Serial /\ plan.faults["late"] + plan.faults["cancel"] <= 1)

-----------------------------------------------------------------------------
(* Queues *)

LEMMA TailOf ==
  ASSUME NEW S, NEW q \in Seq(S), q # <<>>
  PROVE  /\ Len(q) \in Nat \ {0} /\ Head(q) = q[1] /\ Head(q) \in S
         /\ Tail(q) \in Seq(S) /\ Len(Tail(q)) = Len(q) - 1
         /\ \A i \in 1 .. Len(q) - 1 : Tail(q)[i] = q[i + 1]
OBVIOUS

\* What `queue.remove` leaves.
LEMMA RemoveLeaves ==
  ASSUME NEW S, NEW q \in Seq(S), NEW c
  PROVE  /\ Without(q, c) \in Seq(S)
         /\ q = <<>> \/ q = <<c>> => Without(q, c) = <<>>
         /\ \A i \in 1 .. Len(Without(q, c)) : \E j \in 1 .. Len(q) : Without(q, c)[i] = q[j]
<1>1. CASE \E i \in DOMAIN q : q[i] = c
  <2>1. PICK n \in 1 .. Len(q) : Without(q, c) = SubSeq(q, 1, n - 1) \o SubSeq(q, n + 1, Len(q))
    <3>1. PICK n \in 1 .. Len(q) : n = CHOOSE i \in DOMAIN q : q[i] = c
      BY <1>1
    <3>2. Without(q, c) = RemoveAt(q, n)
      BY <1>1, <3>1 DEF Without
    <3> QED
      BY <3>2 DEF RemoveAt
  <2>2. PICK a \in Seq(S), b \in Seq(S) :
          /\ a = SubSeq(q, 1, n - 1) /\ Len(a) = n - 1 /\ \A i \in 1 .. n - 1 : a[i] = q[i]
          /\ b = SubSeq(q, n + 1, Len(q)) /\ Len(b) = Len(q) - n
          /\ \A i \in 1 .. Len(q) - n : b[i] = q[n + i]
    <3>1. SubSeq(q, 1, n - 1) \in Seq(S) /\ SubSeq(q, n + 1, Len(q)) \in Seq(S)
      OBVIOUS
    <3>2. Len(SubSeq(q, 1, n - 1)) = n - 1 /\ \A i \in 1 .. n - 1 : SubSeq(q, 1, n - 1)[i] = q[i]
      OBVIOUS
    <3>3. /\ Len(SubSeq(q, n + 1, Len(q))) = Len(q) - n
          /\ \A i \in 1 .. Len(q) - n : SubSeq(q, n + 1, Len(q))[i] = q[n + i]
      OBVIOUS
    <3> QED
      BY <3>1, <3>2, <3>3
  <2>3. q = <<c>> => a = <<>> /\ b = <<>>
    BY <2>2
  <2>4. q # <<>>
    BY <1>1
  <2>5. ASSUME NEW i \in 1 .. Len(a \o b) PROVE \E j \in 1 .. Len(q) : (a \o b)[i] = q[j]
    <3>1. CASE i <= Len(a)
      <4>1. i \in 1 .. n - 1 /\ i \in 1 .. Len(q) /\ (a \o b)[i] = a[i]
        BY <2>2, <3>1
      <4> QED
        BY <2>2, <4>1
    <3>2. CASE i > Len(a)
      <4>1. Len(a \o b) = Len(a) + Len(b) /\ Len(a) = n - 1 /\ Len(b) = Len(q) - n
        BY <2>2
      <4>2. PICK j \in 1 .. Len(q) - n : j = i - Len(a)
        BY <3>2, <4>1
      <4>3. (a \o b)[i] = b[j]
        BY <3>2, <4>1, <4>2
      <4>4. n + j \in 1 .. Len(q) /\ b[j] = q[n + j]
        BY <2>2
      <4> QED
        BY <4>3, <4>4
    <3> QED
      BY <3>1, <3>2
  <2>6. Without(q, c) = a \o b
    BY <2>1, <2>2
  <2>7. a \o b \in Seq(S)
    BY <2>2
  <2>8. q = <<c>> => a \o b = <<>>
    BY <2>3
  <2> QED
    BY <2>4, <2>5, <2>6, <2>7, <2>8
<1>2. CASE ~ \E i \in DOMAIN q : q[i] = c
  <2>1. Without(q, c) = q
    BY <1>2 DEF Without
  <2>2. q # <<c>>
    BY <1>2
  <2> QED
    BY <2>1, <2>2
<1> QED
  BY <1>1, <1>2

\* What `_purge` leaves: the newest credits, the newest of all if it has not lapsed.
LEMMA PurgeLeaves ==
  ASSUME LinkTypes, NEW k \in AckKeys
  PROVE  /\ Live(k) \in Seq(Nat) /\ Len(Live(k)) <= Len(stale[k])
         /\ stale[k] # <<>> /\ stale[k][Len(stale[k])] > 0 =>
              Live(k) # <<>> /\ Live(k)[Len(Live(k))] = stale[k][Len(stale[k])]
<1> DEFINE q == stale[k]
           First(n) == /\ \A i \in 1 .. n : q[i] = 0
                       /\ n < Len(q) => q[n + 1] > 0
<1>1. q \in Seq(Nat) /\ Len(q) \in Nat
  BY DEF LinkTypes
<1>2. \E n \in 0 .. Len(q) : First(n)
  <2> DEFINE on == {i \in 1 .. Len(q) : q[i] > 0}
  <2>1. CASE on = {}
    <3>1. First(Len(q))
      BY <1>1, <2>1
    <3> QED
      BY <1>1, <3>1
  <2>2. CASE on # {}
    <3>1. PICK m \in on : \A i \in on : ~ <<i, m>> \in OpToRel(<, Nat)
      <4>1. on \subseteq Nat
        BY <1>1
      <4> HIDE DEF on
      <4> QED
        BY <2>2, <4>1, NatLessThanWellFounded, WFMin
    <3>2. m \in 1 .. Len(q) /\ q[m] > 0 /\ m \in Nat
      BY <1>1
    <3>3. \A i \in on : ~ i < m
      <4>1. on \subseteq Nat
        BY <1>1
      <4>2. \A i, j \in Nat : i < j => <<i, j>> \in OpToRel(<, Nat)
        BY DEF OpToRel
      <4> QED
        BY <3>1, <3>2, <4>1, <4>2
    <3>4. \A i \in 1 .. m - 1 : q[i] = 0
      BY <1>1, <3>2, <3>3
    <3>5. First(m - 1) /\ m - 1 \in 0 .. Len(q)
      BY <1>1, <3>2, <3>4
    <3> QED
      BY <3>5
  <2> QED
    BY <2>1, <2>2
<1>3. Lapsed(k) \in 0 .. Len(q) /\ First(Lapsed(k))
  BY <1>2 DEF Lapsed
<1>4. PICK n \in 0 .. Len(q) : n = Lapsed(k)
  BY <1>3
<1>5. Live(k) = SubSeq(q, n + 1, Len(q))
  BY <1>4 DEF Live
<1>6. /\ Live(k) \in Seq(Nat) /\ Len(Live(k)) = Len(q) - n
      /\ \A i \in 1 .. Len(q) - n : Live(k)[i] = q[n + i]
  BY <1>1, <1>5
<1>7. ASSUME q # <<>>, q[Len(q)] > 0 PROVE Live(k) # <<>> /\ Live(k)[Len(Live(k))] = q[Len(q)]
  <2>1. Len(q) > 0
    BY <1>1, <1>7
  <2>2. n < Len(q)
    BY <1>1, <1>3, <1>4, <1>7, <2>1
  <2>3. PICK l \in Nat : l = Len(q)
    BY <1>1
  <2>4. PICK m \in Nat : m = l - n
    BY <2>2, <2>3
  <2>5. m \in 1 .. m /\ n + m = Len(q)
    BY <2>2, <2>3, <2>4
  <2>6. Live(k)[m] = q[n + m] /\ Len(Live(k)) = m
    BY <1>6, <2>3, <2>4, <2>5
  <2> QED
    BY <1>1, <1>6, <2>5, <2>6
<1> QED
  BY <1>1, <1>6, <1>7

-----------------------------------------------------------------------------
(* Keys *)

LEMMA KeysAre ==
  /\ ToSet(KeysOf("valset")) = {"ack:valset"}
  /\ ToSet(KeysOf("valget")) = {"CFG-VALGET", "ack:valget"}
  /\ ToSet(KeysOf("poll")) = {"MON", "ack:poll"}
<1>1. ASSUME NEW a, NEW b PROVE ToSet(<<a, b>>) = {a, b}
  BY DEF ToSet
<1>2. ASSUME NEW a PROVE ToSet(<<a>>) = {a}
  BY DEF ToSet
<1> QED
  BY <1>1, <1>2 DEF KeysOf

LEMMA KeysKnown ==
  ASSUME LinkTypes, NEW c \in Callers
  PROVE  /\ Keys(c) \subseteq AllKeys
         /\ Verdict \in Keys(c) <=> kind[c] = "valset"
         /\ \E k \in AckKeys : Keys(c) \cap AckKeys = {k}
         /\ AckKeys \subseteq AllKeys
<1>1. kind[c] \in Kinds
  BY DEF LinkTypes
<1> QED
  BY <1>1, KeysAre DEF Keys, Kinds, AllKeys, AckKeys, Verdict

\* The answer a request returns, if it has one.
LEMMA PreferredIs ==
  ASSUME LinkTypes, NEW c \in Callers
  PROVE  /\ Preferred(c) \in Keys(c)
         /\ fut[c][Preferred(c)] # "done" =>
              \/ \A k \in Keys(c) : fut[c][k] # "done"
              \/ \E k \in Keys(c) : fut[c][k] = "failed"
<1>1. kind[c] \in Kinds
  BY DEF LinkTypes
<1>2. CASE kind[c] = "valset"
  BY <1>2, KeysAre DEF Keys, KeysOf, Preferred
<1>3. CASE kind[c] = "valget"
  BY <1>3, KeysAre DEF Keys, KeysOf, Preferred
<1>4. CASE kind[c] = "poll"
  BY <1>4, KeysAre DEF Keys, KeysOf, Preferred
<1> QED
  BY <1>1, <1>2, <1>3, <1>4 DEF Kinds

-----------------------------------------------------------------------------
(* Types *)

LEMMA AnswersTyped ==
  ASSUME NEW knd \in Kinds, NEW ans \in Answers(knd), NEW sent \in Remains(ans)
  PROVE  /\ sent \in Seq(AllKeys) /\ Len(sent) <= 2
         /\ ans \in Seq(AllKeys) /\ ans # <<>>
<1>1. ans \in Seq(AllKeys) /\ Len(ans) <= 2 /\ ans # <<>>
  <2>1. \A a, b \in AllKeys : /\ <<a>> \in Seq(AllKeys) /\ Len(<<a>>) <= 2
                             /\ <<a, b>> \in Seq(AllKeys) /\ Len(<<a, b>>) <= 2
                             /\ <<a>> # <<>> /\ <<a, b>> # <<>>
    OBVIOUS
  <2>2. \E a, b \in AllKeys : ans = <<a>> \/ ans = <<a, b>>
    BY DEF Answers, Kinds, AllKeys, AckKeys
  <2> QED
    BY <2>1, <2>2
<1>2. \A i \in DOMAIN ans : <<ans[i]>> \in Seq(AllKeys) /\ Len(<<ans[i]>>) <= 2
  BY <1>1
<1>3. <<>> \in Seq(AllKeys) /\ Len(<<>>) <= 2
  OBVIOUS
<1>4. sent = ans \/ sent = <<>> \/ \E i \in DOMAIN ans : sent = <<ans[i]>>
  BY DEF Remains
<1>5. CASE sent = ans
  BY <1>1, <1>5
<1>6. CASE sent = <<>>
  BY <1>1, <1>3, <1>6
<1>7. ASSUME NEW i \in DOMAIN ans, sent = <<ans[i]>> PROVE sent \in Seq(AllKeys) /\ Len(sent) <= 2
  BY <1>2, <1>7
<1> QED
  BY <1>1, <1>4, <1>5, <1>6, <1>7

LEMMA BehindIs ==
  ASSUME LinkTypes, NEW due \in Nat
  PROVE  /\ Behind(due) \in Nat /\ Behind(due) >= due
         /\ inflight = <<>> => Behind(due) = due
         /\ inflight # <<>> => Behind(due) = due \/ Behind(due) = inflight[Len(inflight)].due
<1>1. CASE inflight = <<>>
  BY <1>1 DEF Behind
<1>2. CASE inflight # <<>>
  <2>1. inflight \in Seq(Frames) /\ Len(inflight) \in 1 .. Len(inflight)
    BY <1>2 DEF LinkTypes
  <2>2. inflight[Len(inflight)] \in Frames
    BY <2>1
  <2>3. PICK d \in Nat : d = inflight[Len(inflight)].due
    BY <2>2 DEF Frames
  <2> QED
    BY <1>2, <2>3 DEF Behind
<1> QED
  BY <1>1, <1>2

\* The frames of an answer, behind those that are on their way.
LEMMA SentBehind ==
  ASSUME LinkTypes, NEW sent \in Seq(AllKeys), NEW n \in Nat, NEW due \in Nat
  PROVE  LET q == inflight \o [i \in DOMAIN sent |-> Frame(sent[i], n, due)]
         IN  /\ q \in Seq(Frames) /\ Len(q) = Len(inflight) + Len(sent)
             /\ \A i \in 1 .. Len(inflight) : q[i] = inflight[i]
             /\ \A i \in 1 .. Len(sent) : q[Len(inflight) + i] = Frame(sent[i], n, due)
             /\ \A i \in 1 .. Len(q) : i > Len(inflight) =>
                  /\ i - Len(inflight) \in 1 .. Len(sent)
                  /\ q[i] = Frame(sent[i - Len(inflight)], n, due)
<1> DEFINE t == [i \in DOMAIN sent |-> Frame(sent[i], n, due)]
<1>1. inflight \in Seq(Frames)
  BY DEF LinkTypes
<1>2. t \in Seq(Frames) /\ Len(t) = Len(sent) /\ \A i \in 1 .. Len(sent) : t[i] = Frame(sent[i], n, due)
  <2>1. \A i \in 1 .. Len(sent) : Frame(sent[i], n, due) \in Frames
    BY DEF Frame, Frames
  <2>2. DOMAIN t = 1 .. Len(sent)
    OBVIOUS
  <2> QED
    BY <2>1, <2>2
<1> HIDE DEF t
<1>3. inflight \o t \in Seq(Frames) /\ Len(inflight \o t) = Len(inflight) + Len(sent)
  BY <1>1, <1>2
<1>4. \A i \in 1 .. Len(inflight) : (inflight \o t)[i] = inflight[i]
  BY <1>1, <1>2
<1>5. \A i \in 1 .. Len(inflight) + Len(sent) : i > Len(inflight) =>
        i - Len(inflight) \in 1 .. Len(sent) /\ (inflight \o t)[i] = t[i - Len(inflight)]
  BY <1>1, <1>2
<1>6. \A i \in 1 .. Len(sent) : (inflight \o t)[Len(inflight) + i] = t[i]
  BY <1>1, <1>2
<1> QED
  BY <1>2, <1>3, <1>4, <1>5, <1>6 DEF t

LEMMA OneBehind ==
  ASSUME LinkTypes, NEW f \in Frames
  PROVE  /\ Append(inflight, f) \in Seq(Frames) /\ Len(Append(inflight, f)) = Len(inflight) + 1
         /\ \A i \in 1 .. Len(inflight) : Append(inflight, f)[i] = inflight[i]
         /\ Append(inflight, f)[Len(inflight) + 1] = f
BY DEF LinkTypes

LEMMA RegisterTypes ==
  ASSUME LinkTypes, NEW c \in Callers, NEW knd, NEW ws \in [AllKeys -> Seq(Callers)],
         Register(c, knd, ws)
  PROVE  /\ pc' \in [Callers -> {"idle", "writing", "waiting"}]
         /\ fut' \in [Callers -> [AllKeys -> {"none", "pending", "done", "failed"}]]
         /\ from' \in [Callers -> [AllKeys -> Nat]]
         /\ robbed' \in [Callers -> [AllKeys -> BOOLEAN]]
         /\ waiters' \in [AllKeys -> Seq(Callers)]
<1>1. pc' \in [Callers -> {"idle", "writing", "waiting"}]
  BY DEF Register, LinkTypes
<1>2. fut' \in [Callers -> [AllKeys -> {"none", "pending", "done", "failed"}]]
  BY DEF Register, LinkTypes
<1>3. from' \in [Callers -> [AllKeys -> Nat]]
  BY DEF Register, LinkTypes
<1>4. robbed' \in [Callers -> [AllKeys -> BOOLEAN]]
  BY DEF Register, LinkTypes
<1>5. waiters' \in [AllKeys -> Seq(Callers)]
  <2>1. \A k \in AllKeys : ws[k] \in Seq(Callers) /\ Append(ws[k], c) \in Seq(Callers)
    OBVIOUS
  <2> QED
    BY <2>1 DEF Register
<1> QED
  BY <1>1, <1>2, <1>3, <1>4, <1>5

LEMMA UnregisteredTyped ==
  ASSUME LinkTypes, NEW c \in Callers
  PROVE  Unregistered(c) \in [AllKeys -> Seq(Callers)] /\ Without(writers, c) \in Seq(Callers)
<1>1. \A k \in AllKeys : Without(waiters[k], c) \in Seq(Callers)
  BY RemoveLeaves DEF LinkTypes
<1>2. Without(writers, c) \in Seq(Callers)
  BY RemoveLeaves DEF LinkTypes
<1> QED
  BY <1>1, <1>2 DEF Unregistered

LEMMA EndTypes ==
  ASSUME LinkTypes, NEW c \in Callers, NEW outcome \in {"answered", "timeout", "error", "cancelled"},
         NEW answer \in Nat, End(c, outcome, answer)
  PROVE  /\ pc' \in [Callers -> {"idle", "writing", "waiting"}]
         /\ attempt' \in [Callers -> Nat] /\ left' \in [Callers -> 0 .. Timeout]
         /\ fut' \in [Callers -> [AllKeys -> {"none", "pending", "done", "failed"}]]
         /\ from' \in [Callers -> [AllKeys -> Nat]]
         /\ robbed' \in [Callers -> [AllKeys -> BOOLEAN]]
         /\ waiters' \in [AllKeys -> Seq(Callers)] /\ writers' \in Seq(Callers)
         /\ result' \in [Callers -> Results]
<1>1. waiters' \in [AllKeys -> Seq(Callers)] /\ writers' \in Seq(Callers)
  BY UnregisteredTyped DEF End
<1>2. result' \in [Callers -> Results]
  <2>1. [outcome |-> outcome, op |-> op[c], from |-> answer] \in Results
    BY DEF LinkTypes, Results
  <2> QED
    BY <2>1 DEF End, LinkTypes
<1>3. pc' \in [Callers -> {"idle", "writing", "waiting"}]
  BY DEF End, LinkTypes
<1>4. attempt' \in [Callers -> Nat] /\ left' \in [Callers -> 0 .. Timeout]
  BY LinkAssumption DEF End, LinkTypes
<1>5. fut' \in [Callers -> [AllKeys -> {"none", "pending", "done", "failed"}]]
  BY DEF End, LinkTypes
<1>6. from' \in [Callers -> [AllKeys -> Nat]]
  BY DEF End, LinkTypes
<1>7. robbed' \in [Callers -> [AllKeys -> BOOLEAN]]
  BY DEF End, LinkTypes
<1> QED
  BY <1>1, <1>2, <1>3, <1>4, <1>5, <1>6, <1>7

LEMMA RetireTypes ==
  ASSUME LinkTypes, NEW c \in Callers, Retire(c)
  PROVE  stale' \in [AckKeys -> Seq(Nat)]
<1>1. \A k \in AckKeys : stale[k] \in Seq(Nat) /\ Append(Live(k), Timeout) \in Seq(Nat)
  BY PurgeLeaves, LinkAssumption DEF LinkTypes
<1> QED
  BY <1>1 DEF Retire

LEMMA FaultTypes ==
  ASSUME LinkTypes, NEW f \in FaultKinds, Fault(f), plan' = plan
  PROVE  /\ faults' \in [FaultKinds -> Nat] /\ \A g \in FaultKinds : faults'[g] <= plan'.faults[g]
         /\ faults'[f] = faults[f] + 1 /\ \A g \in FaultKinds : g # f => faults'[g] = faults[g]
<1>1. plan.faults \in [FaultKinds -> Nat]
  BY LinkAssumption DEF LinkTypes
<1> QED
  BY <1>1 DEF Fault, LinkTypes

\* Every step keeps the types, `stop`, faults and the plan in place.
LEMMA RequestTypes ==
  ASSUME LinkTypes, NEW c \in Callers, NEW knd \in Kinds, Request(c, knd), plan' = plan
  PROVE  LinkTypes'
<1>1. waiters \in [AllKeys -> Seq(Callers)] /\ Register(c, knd, waiters)
  BY DEF LinkTypes, Request
<1>2. /\ pc' \in [Callers -> {"idle", "writing", "waiting"}]
      /\ fut' \in [Callers -> [AllKeys -> {"none", "pending", "done", "failed"}]]
      /\ from' \in [Callers -> [AllKeys -> Nat]]
      /\ robbed' \in [Callers -> [AllKeys -> BOOLEAN]]
      /\ waiters' \in [AllKeys -> Seq(Callers)]
  BY <1>1, RegisterTypes
<1>3. /\ kind' \in [Callers -> Kinds] /\ op' \in [Callers -> Nat] /\ attempt' \in [Callers -> Nat]
      /\ left' \in [Callers -> 0 .. Timeout] /\ writers' \in Seq(Callers) /\ ops' \in Nat
  BY LinkAssumption DEF LinkTypes, Request
<1>4. UNCHANGED <<stale, inflight, stopped, result, faults, timeouts, samples>>
  BY DEF Request
<1> QED
  BY <1>2, <1>3, <1>4 DEF LinkTypes

LEMMA WriteTypes ==
  ASSUME LinkTypes, NEW c \in Callers, Write(c), plan' = plan
  PROVE  LinkTypes'
<1>1. /\ pc' \in [Callers -> {"idle", "writing", "waiting"}] /\ left' \in [Callers -> 0 .. Timeout]
      /\ writers' \in Seq(Callers)
  BY LinkAssumption, TailOf DEF LinkTypes, Write
<1>2. PICK due \in 0 .. 2 * Timeout - 1, ans \in Answers(kind[c]) : \E sent \in Remains(ans) :
       /\ IF sent # ans THEN Fault("lost")
          ELSE IF due >= Timeout THEN Fault("late")
          ELSE UNCHANGED faults
       /\ inflight' = inflight \o [i \in DOMAIN sent |-> Frame(sent[i], op[c], Behind(due))]
  BY DEF Write
<1>3. PICK sent \in Remains(ans) :
       /\ IF sent # ans THEN Fault("lost")
          ELSE IF due >= Timeout THEN Fault("late")
          ELSE UNCHANGED faults
       /\ inflight' = inflight \o [i \in DOMAIN sent |-> Frame(sent[i], op[c], Behind(due))]
  BY <1>2
<1>4. kind[c] \in Kinds /\ op[c] \in Nat /\ due \in Nat
  BY LinkAssumption DEF LinkTypes
<1>5. sent \in Seq(AllKeys) /\ Behind(due) \in Nat
  BY <1>4, AnswersTyped, BehindIs
<1>6. inflight' \in Seq(Frames)
  <2>1. PICK n \in Nat, d \in Nat : n = op[c] /\ d = Behind(due)
    BY <1>4, <1>5
  <2>2. inflight' = inflight \o [i \in DOMAIN sent |-> Frame(sent[i], n, d)]
    BY <1>3, <2>1
  <2> QED
    BY <1>5, <2>2, SentBehind
<1>7. faults' \in [FaultKinds -> Nat] /\ \A f \in FaultKinds : faults'[f] <= plan'.faults[f]
  <2>1. CASE Fault("lost")
    BY <2>1, FaultTypes DEF FaultKinds
  <2>2. CASE Fault("late")
    BY <2>2, FaultTypes DEF FaultKinds
  <2>3. CASE UNCHANGED faults
    BY <2>3 DEF LinkTypes
  <2> QED
    BY <1>3, <2>1, <2>2, <2>3
<1>8. UNCHANGED <<kind, op, attempt, fut, from, robbed, waiters, stale, stopped, result, ops,
                 timeouts, samples>>
  BY DEF Write
<1> QED
  BY <1>1, <1>6, <1>7, <1>8 DEF LinkTypes

LEMMA SampleTypes ==
  ASSUME LinkTypes, Sample, plan' = plan
  PROVE  LinkTypes'
<1>1. Frame("MON", 0, Behind(0)) \in Frames
  BY BehindIs DEF Frame, Frames, AllKeys
<1>2. inflight' \in Seq(Frames) /\ samples' \in Nat
  BY <1>1, OneBehind DEF Sample, LinkTypes
<1>3. UNCHANGED <<wait, stale, stopped, result, ops, faults, timeouts>>
  BY DEF Sample
<1> QED
  BY <1>2, <1>3 DEF LinkTypes, wait

LEMMA DeliverTypes ==
  ASSUME LinkTypes, Deliver, plan' = plan
  PROVE  LinkTypes'
<1>1. inflight' \in Seq(Frames) /\ Head(inflight) \in Frames
  BY TailOf DEF Deliver, LinkTypes
<1>2. PICK k \in AllKeys, n \in Nat : k = Head(inflight).key /\ n = Head(inflight).op
  BY <1>1 DEF Frames
<1>3. stale' \in [AckKeys -> Seq(Nat)]
  <2>1. k \in AckKeys => Live(k) \in Seq(Nat) /\ (SpendStale(k) => Tail(Live(k)) \in Seq(Nat))
    BY PurgeLeaves, TailOf DEF SpendStale
  <2>2. \/ stale' = stale
        \/ k \in AckKeys /\ stale' = [stale EXCEPT ![k] = IF SpendStale(k) THEN Tail(Live(k)) ELSE Live(k)]
    BY <1>2 DEF Deliver
  <2> QED
    BY <2>1, <2>2 DEF LinkTypes
<1>4. robbed' \in [Callers -> [AllKeys -> BOOLEAN]]
  <2>1. robbed' = robbed \/ robbed' = Rob(k)
    BY <1>2 DEF Deliver
  <2>2. CASE robbed' = robbed
    BY <2>2 DEF LinkTypes
  <2>3. CASE waiters[k] # <<>> /\ robbed' = [robbed EXCEPT ![Head(waiters[k])][k] = TRUE]
    <3>1. waiters[k] \in Seq(Callers)
      BY DEF LinkTypes
    <3>2. PICK w \in Callers : w = Head(waiters[k])
      BY <2>3, <3>1, TailOf
    <3> QED
      BY <2>3, <3>2 DEF LinkTypes
  <2> QED
    BY <2>1, <2>2, <2>3 DEF Rob
<1>5. /\ waiters' \in [AllKeys -> Seq(Callers)]
      /\ fut' \in [Callers -> [AllKeys -> {"none", "pending", "done", "failed"}]]
      /\ from' \in [Callers -> [AllKeys -> Nat]]
  <2>1. CASE UNCHANGED <<waiters, fut, from>>
    BY <2>1 DEF LinkTypes
  <2>2. CASE ~ UNCHANGED <<waiters, fut, from>>
    <3>1. /\ waiters[k] # <<>>
          /\ waiters' = [waiters EXCEPT ![k] = Tail(@)]
          /\ fut' = [fut EXCEPT ![Head(waiters[k])][k] = "done"]
          /\ from' = [from EXCEPT ![Head(waiters[k])][k] = n]
      BY <1>2, <2>2 DEF Deliver
    <3>2. waiters[k] \in Seq(Callers)
      BY DEF LinkTypes
    <3>3. PICK w \in Callers : w = Head(waiters[k]) /\ Tail(waiters[k]) \in Seq(Callers)
      BY <3>1, <3>2, TailOf
    <3> QED
      BY <3>1, <3>3 DEF LinkTypes
  <2> QED
    BY <2>1, <2>2
<1>6. UNCHANGED <<pc, kind, op, attempt, left, writers, stopped, result, ops, faults, timeouts,
                 samples>>
  BY DEF Deliver
<1> QED
  BY <1>1, <1>3, <1>4, <1>5, <1>6 DEF LinkTypes

\* The three ways a request ends with an outcome.
LEMMA WakeTypes ==
  ASSUME LinkTypes, NEW c \in Callers, Wake(c), plan' = plan
  PROVE  LinkTypes'
<1>1. stale' \in [AckKeys -> Seq(Nat)] /\ UNCHANGED <<kind, op, inflight, stopped, ops, faults, samples>>
  BY RetireTypes DEF Wake
<1>2. PICK k \in AllKeys, n \in Nat : k = Preferred(c) /\ n = from[c][k]
  <2>1. Preferred(c) \in AllKeys
    BY PreferredIs, KeysKnown
  <2> QED
    BY <2>1 DEF LinkTypes
<1>3. ASSUME NEW outcome \in {"answered", "timeout"}, NEW answer \in Nat, End(c, outcome, answer),
             timeouts' \in Nat
      PROVE  LinkTypes'
  <2>1. /\ pc' \in [Callers -> {"idle", "writing", "waiting"}]
        /\ attempt' \in [Callers -> Nat] /\ left' \in [Callers -> 0 .. Timeout]
        /\ fut' \in [Callers -> [AllKeys -> {"none", "pending", "done", "failed"}]]
        /\ from' \in [Callers -> [AllKeys -> Nat]]
        /\ robbed' \in [Callers -> [AllKeys -> BOOLEAN]]
        /\ waiters' \in [AllKeys -> Seq(Callers)] /\ writers' \in Seq(Callers)
        /\ result' \in [Callers -> Results]
    BY <1>3, EndTypes
  <2> QED
    BY <1>1, <1>3, <2>1 DEF LinkTypes
<1>4. CASE End(c, "answered", n) /\ UNCHANGED timeouts
  BY <1>3, <1>4 DEF LinkTypes
<1>5. CASE End(c, "timeout", 0) /\ timeouts' = timeouts + 1
  <2>1. timeouts' \in Nat /\ 0 \in Nat
    BY <1>5 DEF LinkTypes
  <2> QED
    BY <1>3, <1>5, <2>1
<1>6. CASE /\ Register(c, "valset", Unregistered(c))
           /\ attempt' = [attempt EXCEPT ![c] = @ + 1]
           /\ left' = [left EXCEPT ![c] = 0]
           /\ writers' = Append(writers, c)
           /\ UNCHANGED result
           /\ timeouts' = timeouts + 1
  <2>1. /\ pc' \in [Callers -> {"idle", "writing", "waiting"}]
        /\ fut' \in [Callers -> [AllKeys -> {"none", "pending", "done", "failed"}]]
        /\ from' \in [Callers -> [AllKeys -> Nat]]
        /\ robbed' \in [Callers -> [AllKeys -> BOOLEAN]]
        /\ waiters' \in [AllKeys -> Seq(Callers)]
    BY <1>6, UnregisteredTyped, RegisterTypes
  <2>2. /\ attempt' \in [Callers -> Nat] /\ left' \in [Callers -> 0 .. Timeout]
        /\ writers' \in Seq(Callers) /\ timeouts' \in Nat
    BY <1>6, LinkAssumption DEF LinkTypes
  <2> QED
    BY <1>1, <1>6, <2>1, <2>2 DEF LinkTypes
<1> QED
  BY <1>2, <1>4, <1>5, <1>6 DEF Wake

LEMMA BrokenOffTypes ==
  ASSUME LinkTypes, NEW c \in Callers, WriteFails(c) \/ Cancel(c), plan' = plan
  PROVE  LinkTypes'
<1>1. /\ Retire(c) /\ (Fault("write") \/ Fault("cancel"))
      /\ End(c, "error", 0) \/ End(c, "cancelled", 0)
      /\ UNCHANGED <<kind, op, inflight, stopped, ops, timeouts, samples>>
  BY DEF WriteFails, Cancel
<1>2. /\ pc' \in [Callers -> {"idle", "writing", "waiting"}]
      /\ attempt' \in [Callers -> Nat] /\ left' \in [Callers -> 0 .. Timeout]
      /\ fut' \in [Callers -> [AllKeys -> {"none", "pending", "done", "failed"}]]
      /\ from' \in [Callers -> [AllKeys -> Nat]]
      /\ robbed' \in [Callers -> [AllKeys -> BOOLEAN]]
      /\ waiters' \in [AllKeys -> Seq(Callers)] /\ writers' \in Seq(Callers)
      /\ result' \in [Callers -> Results]
  BY <1>1, EndTypes
<1>3. faults' \in [FaultKinds -> Nat] /\ \A f \in FaultKinds : faults'[f] <= plan'.faults[f]
  BY <1>1, FaultTypes DEF FaultKinds
<1>4. stale' \in [AckKeys -> Seq(Nat)]
  BY <1>1, RetireTypes
<1> QED
  BY <1>1, <1>2, <1>3, <1>4 DEF LinkTypes

LEMMA StopTypes ==
  ASSUME LinkTypes, Stop, plan' = plan
  PROVE  LinkTypes'
<1>1. fut' \in [Callers -> [AllKeys -> {"none", "pending", "done", "failed"}]]
  BY DEF Stop, LinkTypes
<1>2. waiters' \in [AllKeys -> Seq(Callers)] /\ stale' \in [AckKeys -> Seq(Nat)] /\ stopped' \in BOOLEAN
  BY DEF Stop
<1>3. UNCHANGED <<pc, kind, op, attempt, left, from, robbed, writers, inflight, result, ops,
                 faults, timeouts, samples>>
  BY DEF Stop
<1> QED
  BY <1>1, <1>2, <1>3 DEF LinkTypes

\* A tick shortens every delay by one.
LEMMA TickLeaves ==
  ASSUME LinkTypes, Tick
  PROVE  /\ inflight' \in Seq(Frames) /\ Len(inflight') = Len(inflight)
         /\ \A i \in 1 .. Len(inflight) :
              /\ inflight'[i].key = inflight[i].key /\ inflight'[i].op = inflight[i].op
              /\ inflight[i].due > 0 /\ inflight'[i].due = inflight[i].due - 1
         /\ stale' \in [AckKeys -> Seq(Nat)]
         /\ \A k \in AckKeys : /\ Len(stale'[k]) = Len(stale[k])
                               /\ \A i \in 1 .. Len(stale[k]) :
                                    stale'[k][i] = IF stale[k][i] > 0 THEN stale[k][i] - 1 ELSE 0
<1>1. inflight \in Seq(Frames)
  BY DEF LinkTypes
<1>2. \A i \in 1 .. Len(inflight) :
        /\ inflight[i] \in Frames /\ inflight[i].due > 0
        /\ [inflight[i] EXCEPT !.due = @ - 1] \in Frames
        /\ [inflight[i] EXCEPT !.due = @ - 1].key = inflight[i].key
        /\ [inflight[i] EXCEPT !.due = @ - 1].op = inflight[i].op
        /\ [inflight[i] EXCEPT !.due = @ - 1].due = inflight[i].due - 1
  <2>1. \A i \in 1 .. Len(inflight) : inflight[i] \in Frames /\ inflight[i].due > 0
    BY <1>1 DEF Tick
  <2>2. ASSUME NEW f \in Frames, f.due > 0
        PROVE  /\ [f EXCEPT !.due = @ - 1] \in Frames
               /\ [f EXCEPT !.due = @ - 1].key = f.key /\ [f EXCEPT !.due = @ - 1].op = f.op
               /\ [f EXCEPT !.due = @ - 1].due = f.due - 1
    BY <2>2 DEF Frames
  <2> QED
    BY <2>1, <2>2
<1>3. inflight' = [i \in 1 .. Len(inflight) |-> [inflight[i] EXCEPT !.due = @ - 1]]
  BY DEF Tick
<1>4. inflight' \in Seq(Frames) /\ Len(inflight') = Len(inflight)
  BY <1>1, <1>2, <1>3
<1>5. ASSUME NEW k \in AckKeys
      PROVE  /\ stale'[k] \in Seq(Nat) /\ Len(stale'[k]) = Len(stale[k])
             /\ \A i \in 1 .. Len(stale[k]) :
                  stale'[k][i] = IF stale[k][i] > 0 THEN stale[k][i] - 1 ELSE 0
  <2>1. PICK q \in Seq(Nat) : q = stale[k]
    BY DEF LinkTypes
  <2>2. stale'[k] = [i \in 1 .. Len(q) |-> IF q[i] > 0 THEN q[i] - 1 ELSE 0]
    BY <2>1 DEF Tick
  <2>3. \A i \in 1 .. Len(q) : (IF q[i] > 0 THEN q[i] - 1 ELSE 0) \in Nat
    BY <2>1
  <2> QED
    BY <2>1, <2>2, <2>3
<1>6. stale' \in [AckKeys -> Seq(Nat)]
  <2>1. stale' = [k \in AckKeys |-> stale'[k]]
    BY DEF Tick
  <2> QED
    BY <1>5, <2>1
<1> QED
  BY <1>2, <1>3, <1>4, <1>5, <1>6

LEMMA TickTypes ==
  ASSUME LinkTypes, Tick, plan' = plan
  PROVE  LinkTypes'
<1>1. left' \in [Callers -> 0 .. Timeout]
  BY LinkAssumption DEF Tick, LinkTypes
<1>2. UNCHANGED <<pc, kind, op, attempt, fut, from, robbed, waiters, writers, stopped, result,
                 ops, faults, timeouts, samples>>
  BY DEF Tick
<1> QED
  BY <1>1, <1>2, TickLeaves DEF LinkTypes

-----------------------------------------------------------------------------

(* Futures *)

\* What a request that registers has: pending futures under its keys.
LEMMA RegisterDoes ==
  ASSUME LinkTypes, NEW c \in Callers, NEW knd \in Kinds, NEW ws,
         Register(c, knd, ws), kind' = [kind EXCEPT ![c] = knd]
  PROVE  /\ pc'[c] = "writing" /\ kind'[c] = knd
         /\ \A k \in AllKeys : /\ fut'[c][k] = IF k \in ToSet(KeysOf(kind'[c])) THEN "pending" ELSE "none"
                               /\ from'[c][k] = 0 /\ robbed'[c][k] = FALSE
<1>1. kind'[c] = knd
  BY DEF LinkTypes
<1> QED
  BY <1>1 DEF Register, LinkTypes

LEMMA EndDoes ==
  ASSUME LinkTypes, NEW c \in Callers, NEW outcome, NEW answer, End(c, outcome, answer),
         kind' = kind
  PROVE  /\ pc'[c] = "idle" /\ attempt'[c] = 0 /\ left'[c] = 0
         /\ result'[c] = [outcome |-> outcome, op |-> op[c], from |-> answer]
         /\ \A k \in AllKeys : fut'[c][k] = "none" /\ from'[c][k] = 0 /\ robbed'[c][k] = FALSE
         /\ waiters' = Unregistered(c) /\ writers' = Without(writers, c)
BY DEF End, LinkTypes

\* How the three steps that end an attempt do it.
LEMMA WakeDoes ==
  ASSUME LinkTypes, FuturesInv, NEW c \in Callers, Wake(c)
  PROVE  /\ Retire(c) /\ pc[c] = "waiting" /\ Woken(c)
         /\ UNCHANGED <<kind, op, inflight, stopped, ops, faults, samples>>
         /\ \/ /\ End(c, "answered", from[c][Preferred(c)]) /\ timeouts' = timeouts
               /\ fut[c][Preferred(c)] = "done" /\ Preferred(c) \in Keys(c)
            \/ /\ kind[c] = "valset" /\ attempt[c] < Retries /\ timeouts' = timeouts + 1
               /\ Register(c, "valset", Unregistered(c)) /\ kind' = [kind EXCEPT ![c] = "valset"]
               /\ attempt' = [attempt EXCEPT ![c] = attempt[c] + 1]
               /\ left' = [left EXCEPT ![c] = 0] /\ writers' = Append(writers, c)
               /\ result' = result
               /\ ~stopped => \A k \in Keys(c) : fut[c][k] = "pending"
            \/ /\ ~MayRetry(c) /\ End(c, "timeout", 0) /\ timeouts' = timeouts + 1
               /\ ~stopped => \A k \in Keys(c) : fut[c][k] = "pending"
<1>1. /\ Retire(c) /\ pc[c] = "waiting" /\ Woken(c)
      /\ UNCHANGED <<kind, op, inflight, stopped, ops, faults, samples>>
  BY DEF Wake
<1>2. Preferred(c) \in Keys(c)
  BY PreferredIs
<1>3. fut[c][Preferred(c)] # "done" /\ ~stopped => \A k \in Keys(c) : fut[c][k] = "pending"
  <2>1. \A k \in Keys(c) : /\ fut[c][k] \in {"none", "pending", "done", "failed"}
                           /\ fut[c][k] # "none" /\ (fut[c][k] = "failed" => stopped)
    BY <1>1, KeysKnown DEF FuturesInv, LinkTypes
  <2> QED
    BY <2>1, PreferredIs
<1>4. kind[c] = "valset" => kind' = [kind EXCEPT ![c] = "valset"]
  BY <1>1 DEF LinkTypes
<1> QED
  BY <1>1, <1>2, <1>3, <1>4 DEF Wake, MayRetry

LEMMA BrokenOffDoes ==
  ASSUME LinkTypes, NEW c \in Callers, WriteFails(c) \/ Cancel(c), plan' = plan
  PROVE  /\ Retire(c) /\ UNCHANGED <<kind, op, inflight, stopped, ops, timeouts, samples>>
         /\ End(c, "error", 0) \/ End(c, "cancelled", 0)
         /\ Happened' = Happened + 1
         /\ \/ writers # <<>> /\ Head(writers) = c /\ Strays' = Strays /\ faults'["late"] = faults["late"]
            \/ pc[c] = "waiting" /\ Strays' = Strays + 1 /\ faults'["late"] = faults["late"]
<1>1. CASE WriteFails(c)
  <2>1. /\ faults'["write"] = faults["write"] + 1
        /\ \A g \in FaultKinds : faults[g] \in Nat /\ (g # "write" => faults'[g] = faults[g])
    BY <1>1, FaultTypes DEF WriteFails, FaultKinds, LinkTypes
  <2>2. /\ faults'["lost"] = faults["lost"] /\ faults'["late"] = faults["late"]
        /\ faults'["cancel"] = faults["cancel"]
        /\ faults["lost"] \in Nat /\ faults["late"] \in Nat /\ faults["write"] \in Nat
        /\ faults["cancel"] \in Nat
    BY <2>1 DEF FaultKinds
  <2>3. Happened' = Happened + 1 /\ Strays' = Strays
    BY <2>1, <2>2 DEF Happened, Strays
  <2> QED
    BY <1>1, <2>2, <2>3 DEF WriteFails
<1>2. CASE Cancel(c)
  <2>1. /\ faults'["cancel"] = faults["cancel"] + 1
        /\ \A g \in FaultKinds : faults[g] \in Nat /\ (g # "cancel" => faults'[g] = faults[g])
    BY <1>2, FaultTypes DEF Cancel, FaultKinds, LinkTypes
  <2>2. /\ faults'["lost"] = faults["lost"] /\ faults'["late"] = faults["late"]
        /\ faults'["write"] = faults["write"]
        /\ faults["lost"] \in Nat /\ faults["late"] \in Nat /\ faults["write"] \in Nat
        /\ faults["cancel"] \in Nat
    BY <2>1 DEF FaultKinds
  <2>3. Happened' = Happened + 1 /\ Strays' = Strays + 1
    BY <2>1, <2>2 DEF Happened, Strays
  <2> QED
    BY <1>2, <2>2, <2>3 DEF Cancel
<1> QED
  BY <1>1, <1>2

\* What the delivery of a frame does, when the link runs.
LEMMA DeliverDoes ==
  ASSUME LinkTypes, Deliver, ~stopped
  PROVE  \E f \in Frames :
           /\ inflight # <<>> /\ f = inflight[1] /\ f.due = 0 /\ inflight' = Tail(inflight)
           /\ f.key \in AllKeys
           /\ f.key \notin AckKeys => stale' = stale
           /\ f.key \in AckKeys =>
                stale' = [stale EXCEPT ![f.key] = IF Live(f.key) # <<>> THEN Tail(Live(f.key)) ELSE <<>>]
           /\ \/ /\ f.key \in AckKeys /\ Live(f.key) # <<>> /\ UNCHANGED <<waiters, fut, from>>
                 /\ waiters[f.key] = <<>> => robbed' = robbed
                 /\ waiters[f.key] # <<>> => robbed' = [robbed EXCEPT ![Head(waiters[f.key])][f.key] = TRUE]
              \/ /\ f.key \notin AckKeys \/ Live(f.key) = <<>>
                 /\ waiters[f.key] = <<>> /\ UNCHANGED <<robbed, waiters, fut, from>>
              \/ /\ f.key \notin AckKeys \/ Live(f.key) = <<>>
                 /\ \E w \in Callers :
                      /\ waiters[f.key] # <<>> /\ w = Head(waiters[f.key])
                      /\ waiters' = [waiters EXCEPT ![f.key] = Tail(waiters[f.key])]
                      /\ fut' = [fut EXCEPT ![w][f.key] = "done"]
                      /\ from' = [from EXCEPT ![w][f.key] = f.op]
                      /\ robbed' = robbed
<1>1. inflight # <<>> /\ inflight' = Tail(inflight)
  BY DEF Deliver
<1>2. PICK f \in Frames : f = Head(inflight) /\ f = inflight[1]
  BY <1>1, TailOf DEF LinkTypes
<1>3. f.due = 0 /\ f.key \in AllKeys
  BY <1>2 DEF Deliver, Frames
<1>4. SpendStale(f.key) <=> f.key \in AckKeys /\ Live(f.key) # <<>>
  BY DEF SpendStale
<1>5. /\ f.key \notin AckKeys => stale' = stale
      /\ f.key \in AckKeys =>
           stale' = [stale EXCEPT ![f.key] = IF Live(f.key) # <<>> THEN Tail(Live(f.key)) ELSE <<>>]
  <2>1. stale' = IF f.key \notin AckKeys THEN stale
                 ELSE [stale EXCEPT ![f.key] = IF SpendStale(f.key) THEN Tail(Live(f.key)) ELSE Live(f.key)]
    BY <1>2 DEF Deliver
  <2> QED
    BY <1>4, <2>1
<1>6. CASE SpendStale(f.key)
  <2>1. robbed' = Rob(f.key) /\ UNCHANGED <<waiters, fut, from>>
    BY <1>2, <1>6 DEF Deliver
  <2> QED
    BY <1>1, <1>2, <1>3, <1>4, <1>5, <1>6, <2>1 DEF Rob
<1>7. CASE ~SpendStale(f.key) /\ waiters[f.key] = <<>>
  <2>1. UNCHANGED <<robbed, waiters, fut, from>>
    BY <1>2, <1>7 DEF Deliver
  <2> QED
    BY <1>1, <1>2, <1>3, <1>4, <1>5, <1>7, <2>1
<1>8. CASE ~SpendStale(f.key) /\ waiters[f.key] # <<>>
  <2>1. waiters[f.key] \in Seq(Callers)
    BY <1>3 DEF LinkTypes
  <2>2. PICK w \in Callers : w = Head(waiters[f.key])
    BY <1>8, <2>1, TailOf
  <2>3. /\ waiters' = [waiters EXCEPT ![f.key] = Tail(@)]
        /\ fut' = [fut EXCEPT ![w][f.key] = "done"]
        /\ from' = [from EXCEPT ![w][f.key] = f.op]
        /\ robbed' = robbed
    BY <1>2, <1>8, <2>2 DEF Deliver
  <2> QED
    BY <1>1, <1>2, <1>3, <1>4, <1>5, <1>8, <2>2, <2>3
<1> QED
  BY <1>6, <1>7, <1>8

-----------------------------------------------------------------------------
(* Valsets nobody asks for *)

LEMMA UnaskedKept ==
  ASSUME LinkTypes, UnaskedInv, Next
  PROVE  UnaskedInv'
<1> SUFFICES ASSUME NoValset PROVE UnaskedInv'
  <2>1. NoValset' = NoValset
    BY DEF Next, NoValset
  <2> QED
    BY <2>1 DEF UnaskedInv
<1>1. /\ \A c \in Callers : kind[c] = "valset" => pc[c] = "idle" /\ result[c] = None
      /\ \A i \in 1 .. Len(writers) : kind[writers[i]] # "valset"
      /\ writers \in Seq(Callers)
  BY DEF UnaskedInv, LinkTypes
<1>2. ASSUME NEW c \in Callers, NEW knd \in Kinds, Request(c, knd) PROVE UnaskedInv'
  <2>1. knd # "valset" /\ kind' = [kind EXCEPT ![c] = knd] /\ result' = result /\ pc' = [pc EXCEPT ![c] = "writing"]
    BY <1>2 DEF Request, Register, NoValset
  <2>2. writers' = Append(writers, c)
    BY <1>2 DEF Request
  <2>3. \A i \in 1 .. Len(writers') : writers'[i] \in Callers /\ kind'[writers'[i]] # "valset"
    BY <1>1, <2>1, <2>2 DEF LinkTypes
  <2> QED
    BY <1>1, <2>1, <2>3 DEF UnaskedInv, LinkTypes
<1>3. ASSUME NEW c \in Callers, Write(c) PROVE UnaskedInv'
  <2>1. /\ writers # <<>> /\ writers[1] = c /\ 1 \in 1 .. Len(writers)
        /\ \A i \in 1 .. Len(Tail(writers)) : Tail(writers)[i] = writers[i + 1] /\ i + 1 \in 1 .. Len(writers)
    BY <1>1, <1>3, TailOf DEF Write
  <2>2. kind[c] # "valset"
    BY <1>1, <2>1
  <2>3. kind' = kind /\ result' = result /\ writers' = Tail(writers) /\ pc' = [pc EXCEPT ![c] = "waiting"]
    BY <1>3 DEF Write
  <2> QED
    BY <1>1, <2>1, <2>2, <2>3 DEF UnaskedInv, LinkTypes
<1>4. ASSUME NEW c \in Callers, NEW o, NEW a, End(c, o, a), kind' = kind, kind[c] # "valset"
      PROVE  UnaskedInv'
  <2>1. \A i \in 1 .. Len(writers') : \E j \in 1 .. Len(writers) : writers'[i] = writers[j]
    BY <1>1, <1>4, RemoveLeaves DEF End
  <2>2. pc' = [pc EXCEPT ![c] = "idle"] /\ \A d \in Callers : d # c => result'[d] = result[d]
    BY <1>4 DEF End, LinkTypes
  <2>3. \A i \in 1 .. Len(writers') : kind'[writers'[i]] # "valset"
    BY <1>1, <1>4, <2>1
  <2>4. \A d \in Callers : kind'[d] = "valset" => pc'[d] = "idle" /\ result'[d] = None
    BY <1>1, <1>4, <2>2 DEF LinkTypes
  <2> QED
    BY <2>3, <2>4 DEF UnaskedInv
<1>5. ASSUME NEW c \in Callers, Wake(c) PROVE UnaskedInv'
  <2>1. kind' = kind /\ kind[c] # "valset"
    BY <1>1, <1>5 DEF Wake
  <2>2. \/ End(c, "answered", from[c][Preferred(c)])
        \/ End(c, "timeout", 0)
    BY <1>5, <2>1 DEF Wake, MayRetry
  <2> QED
    BY <1>4, <2>1, <2>2
<1>6. ASSUME NEW c \in Callers, WriteFails(c) \/ Cancel(c) PROVE UnaskedInv'
  <2>1. kind' = kind /\ (End(c, "error", 0) \/ End(c, "cancelled", 0))
    BY <1>6 DEF WriteFails, Cancel
  <2>2. kind[c] # "valset"
    <3>1. CASE WriteFails(c)
      <4>1. writers[1] = c /\ 1 \in 1 .. Len(writers)
        BY <1>1, <3>1, TailOf DEF WriteFails
      <4> QED
        BY <1>1, <4>1
    <3>2. CASE Cancel(c)
      BY <1>1, <3>2 DEF Cancel
    <3> QED
      BY <1>6, <3>1, <3>2
  <2> QED
    BY <1>4, <2>1, <2>2
<1>7. CASE Deliver \/ Sample \/ Tick \/ Stop
  <2>1. UNCHANGED <<kind, pc, result, writers>>
    BY <1>7 DEF Deliver, Sample, Tick, Stop, wait
  <2> QED
    BY <1>1, <2>1 DEF UnaskedInv
<1> QED
  BY <1>2, <1>3, <1>5, <1>6, <1>7 DEF Next

-----------------------------------------------------------------------------
(* One request at a time *)

\* Nobody is busy after the step.
LEMMA QuietAfter ==
  ASSUME LinkTypes', \A d \in Callers : pc'[d] = "idle" /\ \A k \in AllKeys : fut'[d][k] = "none",
         \A k \in AllKeys : waiters'[k] = <<>>, writers' = <<>>
  PROVE  FuturesInv' /\ AloneInv'
<1>1. FuturesInv'
  BY DEF FuturesInv
<1>2. AloneInv'
  BY DEF AloneInv, OneBusy, Awaited
<1> QED
  BY <1>1, <1>2

\* Only c is busy after the step, and it is about to write.
LEMMA WritingAfter ==
  ASSUME LinkTypes', NEW c \in Callers, pc'[c] = "writing", op'[c] > 0, attempt'[c] > 0,
         \A k \in AllKeys : /\ fut'[c][k] = IF k \in ToSet(KeysOf(kind'[c])) THEN "pending" ELSE "none"
                            /\ waiters'[k] = IF k \in ToSet(KeysOf(kind'[c])) THEN <<c>> ELSE <<>>,
         writers' = <<c>>,
         \A d \in Callers : d # c => pc'[d] = "idle" /\ \A k \in AllKeys : fut'[d][k] = "none"
  PROVE  FuturesInv' /\ AloneInv'
<1>1. FuturesInv'
  BY DEF FuturesInv, Keys
<1>2. AloneInv'
  BY DEF AloneInv, OneBusy, Awaited
<1> QED
  BY <1>1, <1>2

\* When nobody is busy, nobody stands in a queue.
LEMMA QuietBefore ==
  ASSUME AloneInv, \A d \in Callers : pc[d] = "idle"
  PROVE  writers = <<>> /\ \A k \in AllKeys : waiters[k] = <<>>
BY DEF AloneInv, Awaited

\* A request that leaves takes its waiters with it.
LEMMA GoneFrom ==
  ASSUME LinkTypes, AloneInv, FuturesInv, NEW c \in Callers, pc[c] # "idle"
  PROVE  /\ \A k \in AllKeys : Unregistered(c)[k] = <<>>
         /\ Without(writers, c) = <<>>
         /\ \A d \in Callers : d # c => pc[d] = "idle" /\ \A k \in AllKeys : fut[d][k] = "none"
<1>1. \A d \in Callers : d # c => pc[d] = "idle"
  BY DEF AloneInv, OneBusy
<1>2. ASSUME NEW k \in AllKeys PROVE Unregistered(c)[k] = <<>>
  <2>1. waiters[k] \in Seq(Callers) /\ (waiters[k] = <<>> \/ waiters[k] = <<c>>)
    BY <1>1 DEF AloneInv, Awaited, LinkTypes
  <2>2. Without(waiters[k], c) = <<>>
    BY <2>1, RemoveLeaves
  <2> QED
    BY <2>2 DEF Unregistered
<1>3. Without(writers, c) = <<>>
  <2>1. writers \in Seq(Callers) /\ (writers = <<>> \/ writers = <<c>>)
    BY <1>1 DEF AloneInv, LinkTypes
  <2> QED
    BY <2>1, RemoveLeaves
<1> QED
  BY <1>1, <1>2, <1>3 DEF FuturesInv

LEMMA RequestAlone ==
  ASSUME LinkTypes, LinkTypes', FuturesInv, AloneInv, Serial, NEW c \in Callers, NEW knd \in Kinds,
         Request(c, knd)
  PROVE  /\ FuturesInv' /\ AloneInv' /\ \A d \in Callers : pc[d] = "idle" /\ pc'[d] # "waiting"
         /\ \A k \in AllKeys : robbed'[c][k] = FALSE
<1>1. \A d \in Callers : pc[d] = "idle" /\ \A k \in AllKeys : fut[d][k] = "none"
  BY DEF Request, MayStart, Serial, FuturesInv
<1>2. writers = <<>> /\ \A k \in AllKeys : waiters[k] = <<>>
  BY <1>1, QuietBefore
<1>3. Register(c, knd, waiters) /\ kind' = [kind EXCEPT ![c] = knd]
  BY DEF Request
<1>4. /\ pc'[c] = "writing"
      /\ \A k \in AllKeys : /\ fut'[c][k] = IF k \in ToSet(KeysOf(kind'[c])) THEN "pending" ELSE "none"
                            /\ robbed'[c][k] = FALSE
      /\ \A d \in Callers : d # c => pc'[d] = pc[d] /\ fut'[d] = fut[d]
  <2>1. PICK ws : ws = waiters /\ Register(c, knd, ws)
    BY <1>3
  <2>2. /\ pc'[c] = "writing"
        /\ \A k \in AllKeys : /\ fut'[c][k] = IF k \in ToSet(KeysOf(kind'[c])) THEN "pending" ELSE "none"
                              /\ robbed'[c][k] = FALSE
    BY <1>3, <2>1, RegisterDoes
  <2>3. \A d \in Callers : d # c => pc'[d] = pc[d] /\ fut'[d] = fut[d]
    BY <1>3 DEF Register, LinkTypes
  <2> QED
    BY <2>2, <2>3
<1>5. op'[c] > 0 /\ attempt'[c] > 0 /\ writers' = <<c>>
  <2>1. Append(<<>>, c) = <<c>>
    OBVIOUS
  <2> QED
    BY <1>2, <2>1 DEF Request, LinkTypes
<1>6. \A k \in AllKeys : waiters'[k] = IF k \in ToSet(KeysOf(kind'[c])) THEN <<c>> ELSE <<>>
  <2>1. Append(<<>>, c) = <<c>> /\ kind'[c] = knd
    BY <1>3 DEF LinkTypes
  <2>2. \A k \in AllKeys : waiters'[k] = IF k \in ToSet(KeysOf(knd)) THEN Append(<<>>, c) ELSE <<>>
    BY <1>2, <1>3 DEF Register
  <2> QED
    BY <2>1, <2>2
<1>7. FuturesInv' /\ AloneInv'
  BY <1>1, <1>4, <1>5, <1>6, WritingAfter
<1> QED
  BY <1>1, <1>4, <1>7

\* A request ends with an outcome: nobody is busy any more.
LEMMA EndAlone ==
  ASSUME LinkTypes, LinkTypes', FuturesInv, AloneInv, NEW c \in Callers, pc[c] # "idle",
         NEW o, NEW a, End(c, o, a), kind' = kind
  PROVE  FuturesInv' /\ AloneInv' /\ \A d \in Callers : pc'[d] = "idle"
<1>1. /\ \A k \in AllKeys : Unregistered(c)[k] = <<>>
      /\ Without(writers, c) = <<>>
      /\ \A d \in Callers : d # c => pc[d] = "idle" /\ \A k \in AllKeys : fut[d][k] = "none"
  BY GoneFrom
<1>2. /\ pc'[c] = "idle" /\ \A k \in AllKeys : fut'[c][k] = "none"
      /\ waiters' = Unregistered(c) /\ writers' = Without(writers, c)
      /\ \A d \in Callers : d # c => pc'[d] = pc[d] /\ fut'[d] = fut[d]
  <2>1. /\ pc'[c] = "idle" /\ \A k \in AllKeys : fut'[c][k] = "none"
        /\ waiters' = Unregistered(c) /\ writers' = Without(writers, c)
    BY EndDoes
  <2>2. \A d \in Callers : d # c => pc'[d] = pc[d] /\ fut'[d] = fut[d]
    BY DEF End, LinkTypes
  <2> QED
    BY <2>1, <2>2
<1> QED
  BY <1>1, <1>2, QuietAfter

LEMMA WriteAlone ==
  ASSUME LinkTypes, LinkTypes', FuturesInv, AloneInv, NEW c \in Callers, Write(c)
  PROVE  /\ FuturesInv' /\ AloneInv' /\ pc[c] = "writing" /\ \A d \in Callers : pc[d] # "waiting"
         /\ pc'[c] = "waiting" /\ left'[c] = Timeout /\ \A d \in Callers : d # c => pc'[d] = "idle"
<1>1. \E d \in Callers : pc[d] = "writing" /\ writers = <<d>>
  BY DEF AloneInv, Write
<1>2. pc[c] = "writing" /\ writers = <<c>>
  BY <1>1 DEF Write
<1>3. \A d \in Callers : d # c => pc[d] = "idle"
  BY <1>2 DEF AloneInv, OneBusy
<1>4. pc'[c] = "waiting" /\ left'[c] = Timeout /\ writers' = <<>> /\ \A d \in Callers : d # c => pc'[d] = "idle"
  BY <1>2, <1>3 DEF Write, LinkTypes
<1>5. UNCHANGED <<kind, op, attempt, fut, waiters, stopped>>
  BY DEF Write
<1>6. \A d \in Callers : Keys(d)' = Keys(d)
  BY <1>5 DEF Keys
<1>7. FuturesInv'
  BY <1>2, <1>3, <1>4, <1>5, <1>6 DEF FuturesInv
<1>8. AloneInv'
  BY <1>2, <1>3, <1>4, <1>5 DEF AloneInv, OneBusy, Awaited
<1> QED
  BY <1>2, <1>3, <1>4, <1>7, <1>8

LEMMA WakeAlone ==
  ASSUME LinkTypes, LinkTypes', FuturesInv, AloneInv, NEW c \in Callers, Wake(c)
  PROVE  /\ FuturesInv' /\ AloneInv' /\ \A d \in Callers : pc'[d] # "waiting"
         /\ \A d \in Callers : pc'[d] # "idle" => \A k \in AllKeys : robbed'[d][k] = FALSE
<1>1. kind' = kind /\ op' = op /\ pc[c] = "waiting"
  BY WakeDoes
<1>2. CASE End(c, "answered", from[c][Preferred(c)]) \/ End(c, "timeout", 0)
  BY <1>1, <1>2, EndAlone
<1>3. CASE /\ kind[c] = "valset" /\ timeouts' = timeouts + 1
           /\ Register(c, "valset", Unregistered(c)) /\ kind' = [kind EXCEPT ![c] = "valset"]
           /\ attempt' = [attempt EXCEPT ![c] = attempt[c] + 1]
           /\ writers' = Append(writers, c)
  <2>1. /\ \A k \in AllKeys : Unregistered(c)[k] = <<>>
        /\ \A d \in Callers : d # c => pc[d] = "idle" /\ \A k \in AllKeys : fut[d][k] = "none"
    BY <1>1, GoneFrom
  <2>2. writers = <<>>
    BY <1>1, <2>1 DEF AloneInv
  <2>3. "valset" \in Kinds
    BY DEF Kinds
  <2>4. /\ pc'[c] = "writing"
        /\ \A k \in AllKeys : /\ fut'[c][k] = IF k \in ToSet(KeysOf(kind'[c])) THEN "pending" ELSE "none"
                              /\ robbed'[c][k] = FALSE
        /\ \A d \in Callers : d # c => pc'[d] = pc[d] /\ fut'[d] = fut[d]
    <3>1. PICK ws : ws = Unregistered(c) /\ Register(c, "valset", ws)
      BY <1>3
    <3>2. /\ pc'[c] = "writing"
          /\ \A k \in AllKeys : /\ fut'[c][k] = IF k \in ToSet(KeysOf(kind'[c])) THEN "pending" ELSE "none"
                                /\ robbed'[c][k] = FALSE
      BY <1>3, <2>3, <3>1, RegisterDoes
    <3>3. \A d \in Callers : d # c => pc'[d] = pc[d] /\ fut'[d] = fut[d]
      BY <1>3 DEF Register, LinkTypes
    <3> QED
      BY <3>2, <3>3
  <2>5. Append(<<>>, c) = <<c>>
    OBVIOUS
  <2>6. op'[c] > 0 /\ attempt'[c] > 0
    BY <1>1, <1>3 DEF FuturesInv, LinkTypes
  <2>7. writers' = <<c>> /\ \A k \in AllKeys : waiters'[k] = IF k \in ToSet(KeysOf(kind'[c])) THEN <<c>> ELSE <<>>
    <3>1. kind'[c] = "valset"
      BY <1>1, <1>3
    <3>2. \A k \in AllKeys : waiters'[k] = IF k \in ToSet(KeysOf("valset")) THEN Append(<<>>, c) ELSE <<>>
      BY <1>3, <2>1 DEF Register
    <3> QED
      BY <1>3, <2>2, <2>5, <3>1, <3>2
  <2>8. FuturesInv' /\ AloneInv'
    BY <2>1, <2>4, <2>6, <2>7, WritingAfter
  <2> QED
    BY <2>1, <2>4, <2>8
<1> QED
  BY <1>2, <1>3, WakeDoes

LEMMA BrokenOffAlone ==
  ASSUME LinkTypes, LinkTypes', FuturesInv, AloneInv, NEW c \in Callers, WriteFails(c) \/ Cancel(c),
         plan' = plan
  PROVE  FuturesInv' /\ AloneInv' /\ pc[c] # "idle" /\ \A d \in Callers : pc'[d] = "idle"
<1>1. pc[c] # "idle"
  <2>1. CASE WriteFails(c)
    <3>1. \E d \in Callers : pc[d] = "writing" /\ writers = <<d>>
      BY <2>1 DEF AloneInv, WriteFails
    <3> QED
      BY <2>1, <3>1 DEF WriteFails
  <2>2. CASE Cancel(c)
    BY <2>2 DEF Cancel
  <2> QED
    BY <2>1, <2>2
<1>2. kind' = kind /\ (End(c, "error", 0) \/ End(c, "cancelled", 0))
  BY BrokenOffDoes
<1> QED
  BY <1>1, <1>2, EndAlone

\* An answer is delivered to the request that waits for it.
LEMMA DeliverAlone ==
  ASSUME LinkTypes, LinkTypes', FuturesInv, AloneInv, Deliver
  PROVE  FuturesInv' /\ AloneInv'
<1>1. UNCHANGED <<pc, kind, op, attempt, writers, stopped>> /\ \A d \in Callers : Keys(d)' = Keys(d)
  BY DEF Deliver, Keys
<1>2. CASE UNCHANGED <<waiters, fut>>
  BY <1>1, <1>2 DEF FuturesInv, AloneInv, OneBusy, Awaited
<1>3. CASE ~UNCHANGED <<waiters, fut>>
  <2>1. ~stopped
    BY <1>3 DEF Deliver
  <2>2. PICK f \in Frames : /\ f.key \in AllKeys
                            /\ \E w \in Callers :
                                 /\ waiters[f.key] # <<>> /\ w = Head(waiters[f.key])
                                 /\ waiters' = [waiters EXCEPT ![f.key] = Tail(waiters[f.key])]
                                 /\ fut' = [fut EXCEPT ![w][f.key] = "done"]
    BY <1>3, <2>1, DeliverDoes
  <2>3. PICK k \in AllKeys, w \in Callers :
          /\ waiters[k] # <<>> /\ w = Head(waiters[k])
          /\ waiters' = [waiters EXCEPT ![k] = Tail(waiters[k])]
          /\ fut' = [fut EXCEPT ![w][k] = "done"]
    BY <2>2
  <2>4. Awaited(w, k) /\ waiters[k] = <<w>>
    <3>1. PICK d \in Callers : Awaited(d, k) /\ waiters[k] = <<d>>
      BY <2>3 DEF AloneInv
    <3> QED
      BY <2>3, <3>1
  <2>5. pc[w] # "idle" /\ fut[w][k] = "pending" /\ \A d \in Callers : d # w => pc[d] = "idle"
    BY <2>4 DEF Awaited, AloneInv, OneBusy
  <2>6. /\ fut'[w][k] = "done" /\ \A j \in AllKeys : j # k => fut'[w][j] = fut[w][j]
        /\ \A d \in Callers : d # w => fut'[d] = fut[d]
    <3>1. fut \in [Callers -> [AllKeys -> {"none", "pending", "done", "failed"}]]
      BY DEF LinkTypes
    <3> QED
      BY <2>3, <3>1
  <2>7. waiters'[k] = <<>> /\ \A j \in AllKeys : j # k => waiters'[j] = waiters[j]
    BY <2>3, <2>4 DEF LinkTypes
  <2>8. FuturesInv'
    BY <1>1, <2>5, <2>6 DEF FuturesInv
  <2>9. AloneInv'
    BY <1>1, <2>5, <2>6, <2>7 DEF AloneInv, OneBusy, Awaited
  <2> QED
    BY <2>8, <2>9
<1> QED
  BY <1>2, <1>3

LEMMA StopAlone ==
  ASSUME LinkTypes, LinkTypes', FuturesInv, AloneInv, Stop
  PROVE  FuturesInv' /\ AloneInv'
<1>1. UNCHANGED <<pc, kind, op, attempt, writers>> /\ stopped' /\ \A d \in Callers : Keys(d)' = Keys(d)
  BY DEF Stop, Keys
<1>2. /\ \A k \in AllKeys : waiters'[k] = <<>>
      /\ \A c \in Callers, k \in AllKeys :
           fut'[c][k] = IF c \in ToSet(waiters[k]) /\ fut[c][k] = "pending" THEN "failed" ELSE fut[c][k]
  BY DEF Stop
<1>3. \A c \in Callers, k \in AllKeys : Awaited(c, k) => c \in ToSet(waiters[k])
  BY DEF AloneInv, ToSet
<1>4. \A c \in Callers, k \in AllKeys : fut[c][k] = "pending" => pc[c] # "idle"
  BY DEF FuturesInv
<1>5. \A c \in Callers, k \in AllKeys : fut'[c][k] # "pending" /\ (fut'[c][k] = "none" <=> fut[c][k] = "none")
  BY <1>2, <1>3, <1>4 DEF Awaited
<1>6. FuturesInv'
  BY <1>1, <1>5 DEF FuturesInv
<1>7. AloneInv'
  BY <1>1, <1>2, <1>5 DEF AloneInv, OneBusy, Awaited
<1> QED
  BY <1>6, <1>7

LEMMA TimeAlone ==
  ASSUME LinkTypes, LinkTypes', FuturesInv, AloneInv, Sample \/ Tick
  PROVE  FuturesInv' /\ AloneInv'
<1>1. UNCHANGED <<pc, kind, op, attempt, fut, waiters, writers, stopped>>
  BY DEF Sample, Tick, wait
<1>2. \A d \in Callers : Keys(d)' = Keys(d)
  BY <1>1 DEF Keys
<1> QED
  BY <1>1, <1>2 DEF FuturesInv, AloneInv, OneBusy, Awaited

-----------------------------------------------------------------------------
(* What is on its way, and for how long *)

\* The frames a write adds, when they come, and what that takes.
LEMMA WriteDoes ==
  ASSUME LinkTypes, LinkTypes', NEW c \in Callers, Write(c)
  PROVE  \E due \in Nat, n \in 0 .. 2 :
           /\ Len(inflight') = Len(inflight) + n
           /\ \A i \in 1 .. Len(inflight) : inflight'[i] = inflight[i]
           /\ \A i \in 1 .. Len(inflight') : i > Len(inflight) =>
                inflight'[i].key \in Keys(c) /\ inflight'[i].op = op[c] /\ inflight'[i].due = due
           /\ kind[c] = "valset" => n <= 1
           /\ due < 2 * Timeout \/ (inflight # <<>> /\ due = inflight[Len(inflight)].due)
           /\ faults'["late"] = faults["late"] =>
                due < Timeout \/ (inflight # <<>> /\ due = inflight[Len(inflight)].due)
           /\ \/ n > 0 /\ faults' = faults
              \/ /\ Happened' = Happened + 1
                 /\ \/ Strays' = Strays /\ faults'["late"] = faults["late"]
                    \/ Strays' = Strays + 1 /\ faults'["late"] = faults["late"] + 1
<1>1. PICK d \in 0 .. 2 * Timeout - 1, ans \in Answers(kind[c]) : \E s \in Remains(ans) :
       /\ d >= Timeout => s = ans
       /\ IF s # ans THEN Fault("lost")
          ELSE IF d >= Timeout THEN Fault("late")
          ELSE UNCHANGED faults
       /\ inflight' = inflight \o [i \in DOMAIN s |-> Frame(s[i], op[c], Behind(d))]
  BY DEF Write
<1>2. PICK sent \in Remains(ans) :
       /\ d >= Timeout => sent = ans
       /\ IF sent # ans THEN Fault("lost")
          ELSE IF d >= Timeout THEN Fault("late")
          ELSE UNCHANGED faults
       /\ inflight' = inflight \o [i \in DOMAIN sent |-> Frame(sent[i], op[c], Behind(d))]
  BY <1>1
<1>3. kind[c] \in Kinds /\ d \in Nat /\ op[c] \in Nat /\ Timeout \in Nat
  BY LinkAssumption DEF LinkTypes
<1>4. sent \in Seq(AllKeys) /\ Len(sent) \in 0 .. 2 /\ ans \in Seq(AllKeys) /\ ans # <<>>
  <2>1. PICK knd \in Kinds : knd = kind[c]
    BY <1>3
  <2>2. PICK a \in Answers(knd) : a = ans
    BY <2>1
  <2>3. PICK s \in Remains(a) : s = sent
    BY <2>2
  <2>4. s \in Seq(AllKeys) /\ Len(s) <= 2 /\ a \in Seq(AllKeys) /\ a # <<>>
    BY AnswersTyped
  <2>5. PICK l \in Nat : l = Len(s)
    BY <2>4
  <2>6. l <= 2
    BY <2>4, <2>5
  <2>7. Len(s) \in 0 .. 2
    BY <2>5, <2>6
  <2> QED
    BY <2>2, <2>3, <2>4, <2>7
<1>5. PICK due \in Nat, p \in Nat : due = Behind(d) /\ p = op[c]
  BY <1>3, BehindIs
<1>6. due = d \/ (inflight # <<>> /\ due = inflight[Len(inflight)].due)
  BY <1>3, <1>5, BehindIs
<1>7. /\ Len(inflight') = Len(inflight) + Len(sent)
      /\ \A i \in 1 .. Len(inflight) : inflight'[i] = inflight[i]
      /\ \A i \in 1 .. Len(inflight') : i > Len(inflight) =>
           i - Len(inflight) \in 1 .. Len(sent) /\ inflight'[i] = Frame(sent[i - Len(inflight)], p, due)
  <2>1. PICK s \in Seq(AllKeys) : s = sent
    BY <1>4
  <2>2. inflight' = inflight \o [i \in DOMAIN s |-> Frame(s[i], p, due)]
    BY <1>2, <1>5, <2>1
  <2>3. /\ Len(inflight') = Len(inflight) + Len(s)
        /\ \A i \in 1 .. Len(inflight) : inflight'[i] = inflight[i]
        /\ \A i \in 1 .. Len(inflight') : i > Len(inflight) =>
             i - Len(inflight) \in 1 .. Len(s) /\ inflight'[i] = Frame(s[i - Len(inflight)], p, due)
    BY <2>2, SentBehind
  <2> QED
    BY <2>1, <2>3
<1>8. (\A i \in 1 .. Len(sent) : sent[i] \in Keys(c)) /\ (kind[c] = "valset" => Len(sent) <= 1)
  <2>1. (\A i \in 1 .. Len(ans) : ans[i] \in Keys(c)) /\ (kind[c] = "valset" => Len(ans) = 1)
    <3>1. CASE kind[c] = "valset"
      <4>1. ans = <<"ack:valset">>
        BY <3>1 DEF Answers
      <4> QED
        BY <3>1, <4>1, KeysAre DEF Keys
    <3>2. CASE kind[c] = "valget"
      <4>1. ans = <<"CFG-VALGET", "ack:valget">> \/ ans = <<"ack:valget">>
        BY <3>2 DEF Answers
      <4> QED
        BY <3>2, <4>1, KeysAre DEF Keys
    <3>3. CASE kind[c] = "poll"
      <4>1. ans = <<"MON">> \/ ans = <<"ack:poll">>
        BY <3>3 DEF Answers
      <4> QED
        BY <3>3, <4>1, KeysAre DEF Keys
    <3> QED
      BY <1>3, <3>1, <3>2, <3>3 DEF Kinds
  <2>2. sent = ans \/ sent = <<>> \/ \E i \in DOMAIN ans : sent = <<ans[i]>>
    BY DEF Remains
  <2> QED
    BY <1>4, <2>1, <2>2
<1>9. \A i \in 1 .. Len(inflight') : i > Len(inflight) =>
        inflight'[i].key \in Keys(c) /\ inflight'[i].op = op[c] /\ inflight'[i].due = due
  BY <1>5, <1>7, <1>8 DEF Frame
<1>10. PICK n \in 0 .. 2 : n = Len(sent) /\ (sent = ans => n > 0)
  BY <1>4
<1>11. /\ \/ n > 0 /\ faults' = faults
          \/ /\ Happened' = Happened + 1
             /\ \/ Strays' = Strays /\ faults'["late"] = faults["late"]
                \/ Strays' = Strays + 1 /\ faults'["late"] = faults["late"] + 1
       /\ faults'["late"] = faults["late"] => d < Timeout
  <2>0. /\ faults["lost"] \in Nat /\ faults["late"] \in Nat /\ faults["write"] \in Nat
        /\ faults["cancel"] \in Nat
    BY DEF LinkTypes, FaultKinds
  <2>1. CASE sent # ans
    <3>1. /\ faults'["lost"] = faults["lost"] + 1 /\ faults'["late"] = faults["late"]
          /\ faults'["write"] = faults["write"] /\ faults'["cancel"] = faults["cancel"]
      BY <1>2, <2>1 DEF Fault, LinkTypes, FaultKinds
    <3>2. Happened' = Happened + 1 /\ Strays' = Strays
      BY <2>0, <3>1 DEF Happened, Strays
    <3>3. d < Timeout
      BY <1>2, <1>3, <2>1
    <3> QED
      BY <3>1, <3>2, <3>3
  <2>2. CASE sent = ans /\ d >= Timeout
    <3>1. /\ faults'["lost"] = faults["lost"] /\ faults'["late"] = faults["late"] + 1
          /\ faults'["write"] = faults["write"] /\ faults'["cancel"] = faults["cancel"]
      BY <1>2, <2>2 DEF Fault, LinkTypes, FaultKinds
    <3> QED
      BY <2>0, <3>1 DEF Happened, Strays
  <2>3. CASE sent = ans /\ d < Timeout
    BY <1>2, <1>3, <1>10, <2>3
  <2> QED
    BY <1>3, <2>1, <2>2, <2>3
<1>12. /\ due < 2 * Timeout \/ (inflight # <<>> /\ due = inflight[Len(inflight)].due)
       /\ faults'["late"] = faults["late"] =>
            due < Timeout \/ (inflight # <<>> /\ due = inflight[Len(inflight)].due)
  BY <1>3, <1>6, <1>11
<1>13. Len(inflight') = Len(inflight) + n /\ (kind[c] = "valset" => n <= 1)
  BY <1>7, <1>8, <1>10
<1> QED
  BY <1>7, <1>9, <1>11, <1>12, <1>13

\* A sample comes behind what is on its way.
LEMMA SampleDoes ==
  ASSUME LinkTypes, Sample
  PROVE  /\ Len(inflight') = Len(inflight) + 1
         /\ \A i \in 1 .. Len(inflight) : inflight'[i] = inflight[i]
         /\ \E due \in Nat :
              /\ inflight'[Len(inflight) + 1] = Frame("MON", 0, due)
              /\ due = 0 \/ (inflight # <<>> /\ due = inflight[Len(inflight)].due)
         /\ UNCHANGED <<wait, stale, stopped, result, ops, faults, timeouts>>
<1>1. PICK due \in Nat : due = Behind(0) /\ (due = 0 \/ (inflight # <<>> /\ due = inflight[Len(inflight)].due))
  BY BehindIs
<1>2. Frame("MON", 0, due) \in Frames
  BY DEF Frame, Frames, AllKeys
<1>3. inflight' = Append(inflight, Frame("MON", 0, due))
  BY <1>1 DEF Sample
<1> QED
  BY <1>1, <1>2, <1>3, OneBehind DEF Sample

\* The last frame is one of those on their way.
LEMMA LastFrame ==
  ASSUME LinkTypes
  PROVE  /\ Len(inflight) \in Nat
         /\ \A i \in 1 .. Len(inflight) :
              inflight[i] \in Frames /\ inflight[i].due \in Nat /\ inflight[i].op \in Nat /\ inflight[i].key \in AllKeys
         /\ inflight # <<>> => Len(inflight) \in 1 .. Len(inflight)
<1>1. inflight \in Seq(Frames)
  BY DEF LinkTypes
<1>2. \A i \in 1 .. Len(inflight) : inflight[i] \in Frames
  BY <1>1
<1> QED
  BY <1>1, <1>2 DEF Frames

\* Punctual or not, what is in time for a request is in time for the next.
LEMMA PunctualMeans ==
  ASSUME LinkTypes, Punctual
  PROVE  \A i \in 1 .. Len(inflight) : inflight[i].due < Timeout
<1>1. AllInTime(Timeout)
  <2>1. CASE NobodyWaits
    BY <2>1 DEF Punctual
  <2>2. ASSUME NEW c \in Callers, pc[c] = "waiting" PROVE AllInTime(Timeout)
    <3>1. AllInTime(left[c]) /\ left[c] \in Nat /\ left[c] <= Timeout /\ Timeout \in Nat
      BY <2>2, LinkAssumption DEF Punctual, LinkTypes
    <3> QED
      BY <3>1, LastFrame DEF AllInTime, InTime
  <2> QED
    BY <2>1, <2>2 DEF NobodyWaits
<1> QED
  BY <1>1, LinkAssumption, LastFrame DEF AllInTime, InTime

\* A step after which nobody waits for an answer.
LEMMA NobodyWaitsAfter ==
  ASSUME LinkTypes, NotTooLate, inflight' = inflight, \A d \in Callers : pc'[d] # "waiting"
  PROVE  NotTooLate' /\ (Punctual => Punctual')
<1>1. NotTooLate'
  BY DEF NotTooLate
<1>2. ASSUME Punctual PROVE Punctual'
  BY <1>2, PunctualMeans DEF Punctual, NobodyWaits, AllInTime, InTime
<1> QED
  BY <1>1, <1>2

LEMMA WritePunctual ==
  ASSUME LinkTypes, LinkTypes', FuturesInv, AloneInv, NotTooLate, NEW c \in Callers, Write(c)
  PROVE  NotTooLate' /\ (Punctual /\ faults'["late"] = faults["late"] => Punctual')
<1>1. PICK due \in Nat, n \in 0 .. 2 :
           /\ Len(inflight') = Len(inflight) + n
           /\ \A i \in 1 .. Len(inflight) : inflight'[i] = inflight[i]
           /\ \A i \in 1 .. Len(inflight') : i > Len(inflight) => inflight'[i].due = due
           /\ due < 2 * Timeout \/ (inflight # <<>> /\ due = inflight[Len(inflight)].due)
           /\ faults'["late"] = faults["late"] =>
                due < Timeout \/ (inflight # <<>> /\ due = inflight[Len(inflight)].due)
  BY WriteDoes
<1>2. pc'[c] = "waiting" /\ left'[c] = Timeout /\ \A d \in Callers : d # c => pc'[d] = "idle"
  BY WriteAlone
<1>3. due < 2 * Timeout
  BY <1>1, LastFrame DEF NotTooLate
<1>4. \A i \in 1 .. Len(inflight') : inflight'[i].due < 2 * Timeout
  BY <1>1, <1>3, LastFrame DEF NotTooLate
<1>5. NotTooLate'
  BY <1>2, <1>4, LinkAssumption DEF NotTooLate
<1>6. ASSUME Punctual, faults'["late"] = faults["late"] PROVE Punctual'
  <2>1. due < Timeout
    BY <1>1, <1>6, LastFrame, PunctualMeans
  <2>2. \A i \in 1 .. Len(inflight') : inflight'[i].due < Timeout
    BY <1>1, <1>6, <2>1, LastFrame, PunctualMeans
  <2> QED
    BY <1>2, <2>2 DEF Punctual, NobodyWaits, AllInTime, InTime
<1> QED
  BY <1>5, <1>6

LEMMA SamplePunctual ==
  ASSUME LinkTypes, LinkTypes', NotTooLate, Sample
  PROVE  NotTooLate' /\ (Punctual => Punctual')
<1>1. /\ Len(inflight') = Len(inflight) + 1
      /\ \A i \in 1 .. Len(inflight) : inflight'[i] = inflight[i]
      /\ UNCHANGED <<pc, left>>
  BY SampleDoes DEF wait
<1>2. PICK due \in Nat : /\ inflight'[Len(inflight) + 1] = Frame("MON", 0, due)
                         /\ due = 0 \/ (inflight # <<>> /\ due = inflight[Len(inflight)].due)
  BY SampleDoes
<1>3. /\ inflight'[Len(inflight) + 1].due = due /\ inflight'[Len(inflight) + 1].op = 0
      /\ Timeout \in Nat \ {0, 1} /\ \A c \in Callers : left[c] \in Nat
  BY <1>2, LinkAssumption DEF Frame, LinkTypes
<1>4. NotTooLate'
  <2>1. due < 2 * Timeout /\ \A c \in Callers : pc[c] = "waiting" => due < left[c] + Timeout
    BY <1>2, <1>3, LastFrame DEF NotTooLate
  <2>2. ASSUME NEW i \in 1 .. Len(inflight')
        PROVE  (i \in 1 .. Len(inflight) /\ inflight'[i] = inflight[i]) \/ inflight'[i].due = due
    BY <1>1, <1>3, LastFrame
  <2>3. \A i \in 1 .. Len(inflight') : inflight'[i].due < 2 * Timeout
    BY <2>1, <2>2 DEF NotTooLate
  <2>4. \A c \in Callers : pc'[c] = "waiting" =>
          \A i \in 1 .. Len(inflight') : inflight'[i].due < left'[c] + Timeout
    BY <1>1, <2>1, <2>2 DEF NotTooLate
  <2> QED
    BY <2>3, <2>4 DEF NotTooLate
<1>5. ASSUME Punctual PROVE Punctual'
  <2>1. ASSUME NEW t \in Nat, AllInTime(t) PROVE AllInTime(t)'
    <3>1. due < t \/ due = 0
      BY <1>2, <2>1, LastFrame DEF AllInTime, InTime
    <3> QED
      BY <1>1, <1>3, <2>1, <3>1, LastFrame DEF AllInTime, InTime
  <2>2. NobodyWaits' = NobodyWaits
    BY <1>1 DEF NobodyWaits
  <2>3. NobodyWaits => AllInTime(Timeout)'
    BY <1>3, <1>5, <2>1 DEF Punctual
  <2>4. ASSUME NEW c \in Callers, pc'[c] = "waiting" PROVE AllInTime(left[c])'
    <3>1. PICK t \in Nat : t = left[c] /\ left'[c] = t
      BY <1>1, <1>3
    <3>2. AllInTime(t)
      BY <1>1, <1>5, <2>4, <3>1 DEF Punctual
    <3>3. AllInTime(t)'
      BY <2>1, <3>2
    <3> QED
      BY <3>1, <3>3 DEF AllInTime, InTime
  <2> QED
    BY <2>2, <2>3, <2>4 DEF Punctual
<1> QED
  BY <1>4, <1>5

LEMMA DeliverPunctual ==
  ASSUME LinkTypes, LinkTypes', NotTooLate, Deliver
  PROVE  NotTooLate' /\ (Punctual => Punctual')
<1>1. /\ \A i \in 1 .. Len(inflight') : i + 1 \in 1 .. Len(inflight) /\ inflight'[i] = inflight[i + 1]
      /\ UNCHANGED <<pc, left>>
  BY TailOf DEF Deliver, LinkTypes
<1> QED
  BY <1>1 DEF NotTooLate, Punctual, NobodyWaits, AllInTime, InTime

LEMMA TickPunctual ==
  ASSUME LinkTypes, LinkTypes', NotTooLate, Tick
  PROVE  NotTooLate' /\ (Punctual => Punctual')
<1>1. /\ Len(inflight') = Len(inflight)
      /\ \A i \in 1 .. Len(inflight) :
           /\ inflight'[i].op = inflight[i].op
           /\ inflight[i].due > 0 /\ inflight'[i].due = inflight[i].due - 1
  BY TickLeaves
<1>2. \A c \in Callers : /\ pc'[c] = pc[c] /\ left[c] \in Nat
                         /\ pc[c] = "waiting" => left[c] > 0 /\ left'[c] = left[c] - 1
  BY DEF Tick, LinkTypes
<1>3. Timeout \in Nat
  BY LinkAssumption
<1>4. NotTooLate'
  <2>1. \A i \in 1 .. Len(inflight') : inflight'[i].due < 2 * Timeout
    BY <1>1, <1>3, LastFrame DEF NotTooLate
  <2>2. ASSUME NEW c \in Callers, pc'[c] = "waiting", NEW i \in 1 .. Len(inflight')
        PROVE  inflight'[i].due < left'[c] + Timeout
    <3>1. inflight[i].due < left[c] + Timeout /\ i \in 1 .. Len(inflight)
      BY <1>1, <1>2, <2>2 DEF NotTooLate
    <3>2. PICK d \in Nat, l \in Nat : d = inflight[i].due /\ l = left[c]
      BY <1>2, <3>1, LastFrame
    <3>3. inflight'[i].due = d - 1 /\ left'[c] = l - 1 /\ d < l + Timeout
      BY <1>1, <1>2, <2>2, <3>1, <3>2
    <3> QED
      BY <1>3, <3>2, <3>3
  <2> QED
    BY <2>1, <2>2 DEF NotTooLate
<1>5. ASSUME Punctual PROVE Punctual'
  <2>1. NobodyWaits' => AllInTime(Timeout)'
    BY <1>1, <1>2, <1>3, <1>5, LastFrame DEF Punctual, NobodyWaits, AllInTime, InTime
  <2>2. ASSUME NEW c \in Callers, pc'[c] = "waiting" PROVE AllInTime(left[c])'
    <3>1. AllInTime(left[c])
      BY <1>2, <1>5, <2>2 DEF Punctual
    <3>2. \A i \in 1 .. Len(inflight) : inflight[i].due < left[c]
      BY <1>1, <1>2, <3>1, LastFrame DEF AllInTime, InTime
    <3>3. \A i \in 1 .. Len(inflight') : inflight'[i].due < left'[c]
      BY <1>1, <1>2, <2>2, <3>2, LastFrame
    <3> QED
      BY <3>3 DEF AllInTime, InTime
  <2> QED
    BY <2>1, <2>2 DEF Punctual
<1> QED
  BY <1>4, <1>5

LEMMA StopPunctual ==
  ASSUME NotTooLate, Stop
  PROVE  NotTooLate' /\ (Punctual => Punctual')
BY DEF Stop, NotTooLate, Punctual, NobodyWaits, AllInTime, InTime

\* A request that waited until its time was up leaves nothing that is too late
\* for the next one.
LEMMA UpAndPunctual ==
  ASSUME LinkTypes, NotTooLate, NEW c \in Callers, pc[c] = "waiting", left[c] = 0,
         inflight' = inflight, \A d \in Callers : pc'[d] # "waiting"
  PROVE  Punctual' /\ \A i \in 1 .. Len(inflight) : inflight[i].due < Timeout
<1>1. \A i \in 1 .. Len(inflight) : inflight[i].due < Timeout
  BY LinkAssumption, LastFrame DEF NotTooLate
<1> QED
  BY <1>1 DEF Punctual, NobodyWaits, AllInTime, InTime

-----------------------------------------------------------------------------
(* Attempts *)

LEMMA AttemptKept ==
  ASSUME LinkTypes, LinkTypes', FuturesInv, AttemptInv, Next
  PROVE  AttemptInv'
<1>0. /\ attempt \in [Callers -> Nat] /\ timeouts \in Nat
      /\ DOMAIN pc = Callers /\ DOMAIN kind = Callers /\ DOMAIN result = Callers
  BY DEF LinkTypes
<1>1. ASSUME NEW c \in Callers, NEW knd \in Kinds, Request(c, knd) PROVE AttemptInv'
  <2>1. /\ attempt' = [attempt EXCEPT ![c] = 1] /\ timeouts' = timeouts /\ result' = result
        /\ kind' = [kind EXCEPT ![c] = knd] /\ pc' = [pc EXCEPT ![c] = "writing"]
    BY <1>1 DEF Request, Register
  <2> QED
    BY <1>0, <2>1 DEF AttemptInv
<1>2. ASSUME NEW c \in Callers, Write(c) PROVE AttemptInv'
  <2>1. UNCHANGED <<attempt, timeouts, result, kind>> /\ pc' = [pc EXCEPT ![c] = "waiting"]
    BY <1>2 DEF Write
  <2> QED
    BY <2>1 DEF AttemptInv, LinkTypes
<1>3. ASSUME NEW c \in Callers, NEW o, NEW a, End(c, o, a), kind' = kind, timeouts' \in Nat, timeouts' >= timeouts,
             kind[c] = "valset" /\ o = "timeout" => timeouts' >= Retries
      PROVE  AttemptInv'
  <2>1. /\ attempt' = [attempt EXCEPT ![c] = 0] /\ pc' = [pc EXCEPT ![c] = "idle"]
        /\ result' = [result EXCEPT ![c] = [outcome |-> o, op |-> op[c], from |-> a]]
    BY <1>3 DEF End
  <2>2. result'[c].outcome = o /\ \A d \in Callers : d # c => result'[d] = result[d]
    BY <2>1 DEF LinkTypes
  <2>3. Retries \in Nat /\ timeouts \in Nat
    BY LinkAssumption DEF LinkTypes
  <2>4. ASSUME NEW d \in Callers PROVE attempt'[d] <= timeouts' + 1
    <3>1. attempt'[d] = 0 \/ attempt'[d] = attempt[d]
      BY <1>0, <2>1
    <3>2. attempt[d] \in Nat /\ attempt[d] <= timeouts + 1
      BY <1>0 DEF AttemptInv
    <3> QED
      BY <1>0, <1>3, <3>1, <3>2
  <2>5. ASSUME NEW d \in Callers, pc'[d] = "idle", kind'[d] = "valset", result'[d].outcome = "timeout"
        PROVE  timeouts' >= Retries
    <3>1. CASE d = c
      BY <1>3, <2>2, <2>5, <3>1
    <3>2. CASE d # c
      BY <1>0, <1>3, <2>1, <2>2, <2>3, <2>5, <3>2 DEF AttemptInv
    <3> QED
      BY <3>1, <3>2
  <2> QED
    BY <2>4, <2>5 DEF AttemptInv
<1>4. ASSUME NEW c \in Callers, Wake(c) PROVE AttemptInv'
  <2>1. kind' = kind /\ timeouts \in Nat /\ attempt[c] \in Nat /\ attempt[c] <= timeouts + 1 /\ Retries \in Nat
    BY <1>4, LinkAssumption DEF Wake, LinkTypes, AttemptInv
  <2>2. CASE End(c, "answered", from[c][Preferred(c)]) /\ timeouts' = timeouts
    <3>1. PICK a : a = from[c][Preferred(c)]
      OBVIOUS
    <3> QED
      BY <1>3, <2>1, <2>2, <3>1
  <2>3. CASE /\ attempt' = [attempt EXCEPT ![c] = attempt[c] + 1] /\ timeouts' = timeouts + 1
             /\ Register(c, "valset", Unregistered(c)) /\ result' = result
    <3>1. pc' = [pc EXCEPT ![c] = "writing"]
      BY <2>3 DEF Register
    <3>2. ASSUME NEW d \in Callers PROVE attempt'[d] <= timeouts' + 1
      <4>1. attempt'[d] = attempt[c] + 1 \/ attempt'[d] = attempt[d]
        BY <1>0, <2>3
      <4>2. attempt[d] \in Nat /\ attempt[d] <= timeouts + 1
        BY <1>0 DEF AttemptInv
      <4> QED
        BY <2>1, <2>3, <4>1, <4>2
    <3>3. ASSUME NEW d \in Callers, pc'[d] = "idle", kind'[d] = "valset", result'[d].outcome = "timeout"
          PROVE  timeouts' >= Retries
      BY <1>0, <2>1, <2>3, <3>1, <3>3 DEF AttemptInv
    <3> QED
      BY <3>2, <3>3 DEF AttemptInv
  <2>4. CASE ~MayRetry(c) /\ End(c, "timeout", 0) /\ timeouts' = timeouts + 1
    <3>1. kind[c] = "valset" => timeouts' >= Retries
      BY <2>1, <2>4 DEF MayRetry
    <3>2. timeouts' \in Nat /\ timeouts' >= timeouts
      BY <2>1, <2>4
    <3> QED
      BY <1>3, <2>1, <2>4, <3>1, <3>2
  <2> QED
    BY <1>4, <2>2, <2>3, <2>4, WakeDoes
<1>5. ASSUME NEW c \in Callers, WriteFails(c) \/ Cancel(c) PROVE AttemptInv'
  <2>1. kind' = kind /\ timeouts' = timeouts /\ (End(c, "error", 0) \/ End(c, "cancelled", 0))
    BY <1>5 DEF WriteFails, Cancel
  <2>2. timeouts' \in Nat /\ timeouts' >= timeouts
    BY <2>1 DEF LinkTypes
  <2> QED
    BY <1>3, <2>1, <2>2
<1>6. CASE Deliver \/ Sample \/ Tick \/ Stop
  <2>1. UNCHANGED <<kind, pc, result, attempt, timeouts>>
    BY <1>6 DEF Deliver, Sample, Tick, Stop, wait
  <2> QED
    BY <2>1 DEF AttemptInv
<1> QED
  BY <1>1, <1>2, <1>4, <1>5, <1>6 DEF Next

-----------------------------------------------------------------------------
(* The loss *)

LEMMA RiskIs ==
  /\ Risk \in 0 .. 2
  /\ ~Punctual => Risk = 2
  /\ \A c \in Callers : Doomed(c) => Risk >= 1 /\ (~Robbed(c) => Risk = 2)
BY DEF Risk

LEMMA RiskNotMore ==
  ASSUME Punctual => Punctual',
         \A c \in Callers : Doomed(c)' => Doomed(c) /\ (Robbed(c) => Robbed(c)')
  PROVE  Risk' <= Risk
BY DEF Risk

\* Nobody who waits, nobody whose time can be up.
LEMMA RiskOfNobody ==
  ASSUME \A d \in Callers : pc'[d] # "waiting"
  PROVE  /\ (Punctual => Punctual') => Risk' <= Risk
         /\ Punctual' => Risk' = 0
<1>1. \A c \in Callers : ~Doomed(c)'
  BY DEF Doomed
<1> QED
  BY <1>1 DEF Risk

LEMMA OwedIs ==
  ASSUME LinkTypes
  PROVE  /\ Owed \in Nat
         /\ \A k \in AckKeys : stale[k] \in Seq(Nat) /\ Len(stale[k]) \in Nat
<1>1. \A k \in AckKeys : stale[k] \in Seq(Nat)
  BY DEF LinkTypes
<1>2. \A k \in AckKeys : Len(stale[k]) \in Nat
  BY <1>1
<1>3. PICK a \in Nat, b \in Nat, p \in Nat :
        a = Len(stale["ack:valset"]) /\ b = Len(stale["ack:valget"]) /\ p = Len(stale["ack:poll"])
  BY <1>2 DEF AckKeys
<1>4. Owed = a + b + p
  BY <1>3 DEF Owed
<1>5. Owed \in Nat
  BY <1>4
<1> QED
  BY <1>1, <1>2, <1>5

LEMMA OwedAfter ==
  ASSUME LinkTypes, LinkTypes', NEW k \in AckKeys,
         \A j \in AckKeys : j # k => Len(stale'[j]) = Len(stale[j])
  PROVE  Owed' + Len(stale[k]) = Owed + Len(stale'[k]) /\ Owed' \in Nat
<1>1. \A j \in AckKeys : Len(stale[j]) \in Nat /\ Len(stale'[j]) \in Nat
  <2>1. \A j \in AckKeys : stale'[j] \in Seq(Nat)
    BY DEF LinkTypes
  <2>2. \A j \in AckKeys : Len(stale'[j]) \in Nat
    BY <2>1
  <2> QED
    BY <2>2, OwedIs
<1>2. PICK a \in Nat, b \in Nat, p \in Nat, a1 \in Nat, b1 \in Nat, p1 \in Nat :
        /\ a = Len(stale["ack:valset"]) /\ b = Len(stale["ack:valget"]) /\ p = Len(stale["ack:poll"])
        /\ a1 = Len(stale'["ack:valset"]) /\ b1 = Len(stale'["ack:valget"]) /\ p1 = Len(stale'["ack:poll"])
  BY <1>1 DEF AckKeys
<1>0. Owed = a + b + p /\ Owed' = a1 + b1 + p1
  BY <1>2 DEF Owed
<1>3. \A j \in {"ack:valset", "ack:valget", "ack:poll"} : j # k => Len(stale'[j]) = Len(stale[j])
  BY DEF AckKeys
<1>7. PICK l \in Nat, l1 \in Nat : l = Len(stale[k]) /\ l1 = Len(stale'[k])
  BY <1>1
<1>4. CASE k = "ack:valset"
  <2>1. b1 = b /\ p1 = p /\ l = a /\ l1 = a1
    BY <1>2, <1>3, <1>7, <1>4
  <2> QED
    BY <1>0, <1>7, <2>1
<1>5. CASE k = "ack:valget"
  <2>1. a1 = a /\ p1 = p /\ l = b /\ l1 = b1
    BY <1>2, <1>3, <1>7, <1>5
  <2> QED
    BY <1>0, <1>7, <2>1
<1>6. CASE k = "ack:poll"
  <2>1. a1 = a /\ b1 = b /\ l = p /\ l1 = p1
    BY <1>2, <1>3, <1>7, <1>6
  <2> QED
    BY <1>0, <1>7, <2>1
<1> QED
  BY <1>4, <1>5, <1>6 DEF AckKeys

\* A request that gives up is owed one answer at most.
LEMMA RetireOwes ==
  ASSUME LinkTypes, LinkTypes', NEW c \in Callers, Retire(c)
  PROVE  /\ Owed' \in Nat /\ Owed' <= Owed + 1
         /\ Credited(c) = {} => Owed' = Owed
<1>1. PICK k \in AckKeys : Keys(c) \cap AckKeys = {k}
  BY KeysKnown
<1>2. Credited(c) \subseteq {k}
  BY <1>1 DEF Credited, Pending
<1>3. \A j \in AckKeys : stale'[j] = IF j \in Credited(c) THEN Append(Live(j), Timeout) ELSE stale[j]
  BY DEF Retire
<1>4. Owed' + Len(stale[k]) = Owed + Len(stale'[k]) /\ Owed' \in Nat
  BY <1>2, <1>3, OwedAfter
<1>5. Len(stale'[k]) <= Len(stale[k]) + 1 /\ Len(stale'[k]) \in Nat
  <2>1. Live(k) \in Seq(Nat) /\ Len(Live(k)) <= Len(stale[k]) /\ Len(stale[k]) \in Nat
    BY PurgeLeaves, OwedIs
  <2>2. Len(Append(Live(k), Timeout)) = Len(Live(k)) + 1 /\ Len(Live(k)) \in Nat
    BY <2>1, LinkAssumption
  <2>3. stale'[k] = Append(Live(k), Timeout) \/ stale'[k] = stale[k]
    BY <1>3
  <2> QED
    BY <2>1, <2>2, <2>3
<1>6. Credited(c) = {} => Len(stale'[k]) = Len(stale[k])
  BY <1>3
<1>7. Owed \in Nat /\ Len(stale[k]) \in Nat
  BY OwedIs
<1> QED
  BY <1>4, <1>5, <1>6, <1>7

\* Counting starts no earlier than it did.
LEMMA CountsBefore ==
  ASSUME LinkTypes, LinkTypes', stopped' = stopped, Counts',
         \/ faults' = faults
         \/ Happened' = Happened + 1 /\ faults'["late"] = faults["late"]
         \/ Happened' = Happened + 1 /\ faults'["late"] = faults["late"] + 1
  PROVE  Counts /\ Happened \in Nat /\ Happened' \in Nat
<1>1. /\ faults["lost"] \in Nat /\ faults["late"] \in Nat /\ faults["write"] \in Nat /\ faults["cancel"] \in Nat
      /\ faults'["lost"] \in Nat /\ faults'["late"] \in Nat /\ faults'["write"] \in Nat
      /\ faults'["cancel"] \in Nat
  BY DEF LinkTypes, FaultKinds
<1>2. Happened \in Nat /\ Happened' \in Nat
  BY <1>1 DEF Happened
<1>3. faults["late"] = 0 \/ Happened <= 1
  <2>1. CASE faults' = faults
    BY <2>1 DEF Counts, Happened
  <2>2. CASE Happened' = Happened + 1 /\ faults'["late"] = faults["late"]
    BY <1>2, <2>2 DEF Counts
  <2>3. CASE Happened' = Happened + 1 /\ faults'["late"] = faults["late"] + 1
    BY <1>1, <1>2, <2>3 DEF Counts
  <2> QED
    BY <2>1, <2>2, <2>3
<1> QED
  BY <1>2, <1>3 DEF Counts

LEMMA RequestLoss ==
  ASSUME LinkTypes, LinkTypes', FuturesInv, AloneInv, Serial, NotTooLate, LossInv,
         NEW c \in Callers, NEW knd \in Kinds, Request(c, knd)
  PROVE  LossInv'
<1>1. UNCHANGED <<stale, inflight, stopped, faults, timeouts>>
  BY DEF Request
<1>2. Risk' <= Risk
  <2>1. \A d \in Callers : pc'[d] # "waiting"
    BY RequestAlone
  <2> QED
    BY <1>1, <2>1, NobodyWaitsAfter, RiskOfNobody
<1>3. Owed' = Owed /\ Happened' = Happened /\ Counts' = Counts
  BY <1>1 DEF Owed, Happened, Counts
<1>4. timeouts \in Nat /\ Owed \in Nat /\ Risk \in 0 .. 2 /\ Risk' \in 0 .. 2 /\ timeouts' = timeouts
  <2>1. Risk' \in 0 .. 2
    BY DEF Risk
  <2> QED
    BY <1>1, <2>1, OwedIs, RiskIs DEF LinkTypes
<1>5. ASSUME Counts' PROVE Happened \in Nat
  BY <1>1, <1>5, CountsBefore
<1> QED
  BY <1>2, <1>3, <1>4, <1>5 DEF LossInv

LEMMA LossNumbers ==
  ASSUME LinkTypes, LinkTypes'
  PROVE  /\ timeouts \in Nat /\ Owed \in Nat /\ Risk \in 0 .. 2
         /\ timeouts' \in Nat /\ Risk' \in 0 .. 2
BY OwedIs DEF LinkTypes, Risk

\* The request that has just been written is answered in time, unless a fault
\* pays for the timeout and for the answer that is then owed.
LEMMA WriteLoss ==
  ASSUME LinkTypes, LinkTypes', FuturesInv, AloneInv, NotTooLate, LossInv,
         NEW c \in Callers, Write(c)
  PROVE  LossInv'
<1> SUFFICES ASSUME Counts' PROVE timeouts' + Owed' + Risk' <= 2 * Happened'
  BY DEF LossInv
<1>1. UNCHANGED <<stale, stopped, timeouts, op, kind, fut, robbed>>
  BY DEF Write
<1>2. PICK due \in Nat, n \in 0 .. 2 :
           /\ Len(inflight') = Len(inflight) + n
           /\ \A i \in 1 .. Len(inflight') : i > Len(inflight) =>
                inflight'[i].key \in Keys(c) /\ inflight'[i].op = op[c] /\ inflight'[i].due = due
           /\ faults'["late"] = faults["late"] =>
                due < Timeout \/ (inflight # <<>> /\ due = inflight[Len(inflight)].due)
           /\ \/ n > 0 /\ faults' = faults
              \/ /\ Happened' = Happened + 1
                 /\ \/ faults'["late"] = faults["late"]
                    \/ faults'["late"] = faults["late"] + 1
  BY WriteDoes
<1>3. Counts /\ Happened \in Nat
  BY <1>1, <1>2, CountsBefore
<1>4. Owed' = Owed /\ timeouts' = timeouts /\ timeouts + Owed + Risk <= 2 * Happened
  BY <1>1, <1>3 DEF Owed, LossInv
<1>5. CASE Happened' = Happened + 1
  BY <1>3, <1>4, <1>5, LossNumbers
<1>6. CASE n > 0 /\ faults' = faults
  <2>1. Happened' = Happened
    BY <1>6 DEF Happened
  <2>2. CASE ~Punctual
    BY <1>3, <1>4, <2>1, <2>2, LossNumbers, RiskIs
  <2>3. CASE Punctual
    <3>1. Punctual'
      BY <1>6, <2>3, WritePunctual
    <3>2. due < Timeout
      BY <1>2, <1>6, <2>3, LastFrame, PunctualMeans
    <3>3. /\ pc[c] = "writing" /\ pc'[c] = "waiting" /\ left'[c] = Timeout
          /\ \A d \in Callers : d # c => pc'[d] = "idle"
      BY WriteAlone
    <3>4. op[c] > 0 /\ op[c] \in Nat /\ Keys(c)' = Keys(c)
      BY <1>1, <3>3 DEF FuturesInv, LinkTypes, Keys
    <3>5. PICK i \in 1 .. Len(inflight') : i = Len(inflight) + 1
      BY <1>2, <1>6, LastFrame
    <3>6. /\ inflight'[i].op > 0 /\ inflight'[i].key \in Keys(c) /\ inflight'[i].due < Timeout
      BY <1>2, <3>2, <3>4, <3>5, LastFrame
    <3>7. Expects(c)'
      BY <3>3, <3>4, <3>6 DEF Expects
    <3>8. \A d \in Callers : ~Doomed(d)'
      BY <3>3, <3>7 DEF Doomed
    <3>9. Risk' = 0
      BY <3>1, <3>8 DEF Risk
    <3> QED
      BY <1>3, <1>4, <2>1, <3>9, LossNumbers
  <2> QED
    BY <2>2, <2>3
<1> QED
  BY <1>2, <1>5, <1>6

LEMMA SampleLoss ==
  ASSUME LinkTypes, LinkTypes', NotTooLate, LossInv, Sample
  PROVE  LossInv'
<1>1. /\ Len(inflight') = Len(inflight) + 1
      /\ \A i \in 1 .. Len(inflight) : inflight'[i] = inflight[i]
      /\ UNCHANGED <<pc, kind, left, fut, robbed, stale, stopped, faults, timeouts>>
  BY SampleDoes DEF wait
<1>2. Risk' <= Risk
  <2>1. Punctual => Punctual'
    BY SamplePunctual
  <2>2. ASSUME NEW c \in Callers, Doomed(c)' PROVE Doomed(c) /\ (Robbed(c) => Robbed(c)')
    <3>1. Expects(c) => Expects(c)'
      BY <1>1, LastFrame DEF Expects, Keys
    <3> QED
      BY <1>1, <2>2, <3>1 DEF Doomed, NoAnswer, Robbed, Keys
  <2> QED
    BY <2>1, <2>2, RiskNotMore
<1>3. Owed' = Owed /\ Happened' = Happened /\ Counts' = Counts /\ timeouts' = timeouts
  BY <1>1 DEF Owed, Happened, Counts
<1>4. ASSUME Counts' PROVE Happened \in Nat
  BY <1>1, <1>4, CountsBefore
<1> QED
  BY <1>2, <1>3, <1>4, LossNumbers DEF LossInv

LEMMA TickLoss ==
  ASSUME LinkTypes, LinkTypes', NotTooLate, LossInv, Tick
  PROVE  LossInv'
<1>1. /\ Len(inflight') = Len(inflight)
      /\ \A i \in 1 .. Len(inflight) :
           /\ inflight'[i].key = inflight[i].key /\ inflight'[i].op = inflight[i].op
           /\ inflight[i].due > 0 /\ inflight'[i].due = inflight[i].due - 1
      /\ \A k \in AckKeys : Len(stale'[k]) = Len(stale[k])
  BY TickLeaves
<1>2. UNCHANGED <<pc, kind, fut, robbed, stopped, faults, timeouts>>
  BY DEF Tick
<1>3. \A c \in Callers : /\ left[c] \in Nat
                         /\ pc[c] = "waiting" => left[c] > 0 /\ left'[c] = left[c] - 1
  BY DEF Tick, LinkTypes
<1>4. Risk' <= Risk
  <2>1. Punctual => Punctual'
    BY TickPunctual
  <2>2. ASSUME NEW c \in Callers, Doomed(c)' PROVE Doomed(c) /\ (Robbed(c) => Robbed(c)')
    <3>1. pc[c] = "waiting" /\ Keys(c)' = Keys(c)
      BY <1>2, <2>2 DEF Doomed, Keys
    <3>2. ASSUME NEW i \in 1 .. Len(inflight), inflight[i].due < left[c]
          PROVE  inflight'[i].due < left'[c]
      BY <1>1, <1>3, <3>1, <3>2, LastFrame
    <3>3. Expects(c) => Expects(c)'
      BY <1>1, <3>1, <3>2 DEF Expects
    <3> QED
      BY <1>2, <2>2, <3>1, <3>3 DEF Doomed, NoAnswer, Robbed
  <2> QED
    BY <2>1, <2>2, RiskNotMore
<1>5. Owed' = Owed /\ Happened' = Happened /\ Counts' = Counts /\ timeouts' = timeouts
  BY <1>1, <1>2 DEF Owed, Happened, Counts, AckKeys
<1>6. ASSUME Counts' PROVE Happened \in Nat
  BY <1>2, <1>6, CountsBefore
<1> QED
  BY <1>4, <1>5, <1>6, LossNumbers DEF LossInv

\* An attempt that times out uses up what was at risk: a timeout, and an
\* answer owed unless the one it waited for went to a credit.
LEMMA WakeLoss ==
  ASSUME LinkTypes, LinkTypes', FuturesInv, AloneInv, NotTooLate, LossInv,
         NEW c \in Callers, Wake(c)
  PROVE  LossInv'
<1> SUFFICES ASSUME Counts' PROVE timeouts' + Owed' + Risk' <= 2 * Happened'
  BY DEF LossInv
<1>1. /\ Retire(c) /\ pc[c] = "waiting" /\ Woken(c)
      /\ UNCHANGED <<kind, op, inflight, stopped, faults>>
  BY WakeDoes
<1>2. Counts /\ Happened \in Nat
  BY <1>1, CountsBefore
<1>3. Happened' = Happened /\ timeouts + Owed + Risk <= 2 * Happened /\ ~stopped
  BY <1>1, <1>2 DEF LossInv, Happened, Counts
<1>4. \A d \in Callers : pc'[d] # "waiting"
  BY WakeAlone
<1>5. /\ Owed' \in Nat /\ Owed' <= Owed + 1
      /\ Credited(c) = {} => Owed' = Owed
  BY <1>1, RetireOwes
<1>6. CASE timeouts' = timeouts /\ fut[c][Preferred(c)] = "done" /\ Preferred(c) \in Keys(c)
  <2>1. Credited(c) = {}
    BY <1>6 DEF Credited, Done
  <2>2. Risk' <= Risk
    BY <1>1, <1>4, NobodyWaitsAfter, RiskOfNobody
  <2> QED
    BY <1>2, <1>3, <1>5, <1>6, <2>1, <2>2, LossNumbers
<1>7. CASE timeouts' = timeouts + 1 /\ \A k \in Keys(c) : fut[c][k] = "pending"
  <2>1. left[c] = 0
    BY <1>1, <1>7 DEF Woken, Pending
  <2>2. Punctual'
    BY <1>1, <1>4, <2>1, UpAndPunctual
  <2>3. Risk' = 0
    BY <1>4, <2>2, RiskOfNobody
  <2>4. Doomed(c)
    <3>1. ~Expects(c)
      BY <2>1, LastFrame DEF Expects
    <3>2. NoAnswer(c)
      BY <1>1, <1>7 DEF NoAnswer, FuturesInv
    <3> QED
      BY <1>1, <3>1, <3>2 DEF Doomed
  <2>5. Robbed(c) => Credited(c) = {}
    <3>1. PICK k \in AckKeys : Keys(c) \cap AckKeys = {k}
      BY KeysKnown
    <3> QED
      BY <3>1 DEF Robbed, Credited, Pending
  <2>6. Risk >= 1 /\ (~Robbed(c) => Risk = 2)
    BY <2>4, RiskIs
  <2> QED
    BY <1>2, <1>3, <1>5, <1>7, <2>3, <2>5, <2>6, LossNumbers
<1> QED
  BY <1>3, <1>6, <1>7, WakeDoes

LEMMA BrokenOffLoss ==
  ASSUME LinkTypes, LinkTypes', FuturesInv, AloneInv, NotTooLate, LossInv,
         NEW c \in Callers, WriteFails(c) \/ Cancel(c), plan' = plan
  PROVE  LossInv'
<1> SUFFICES ASSUME Counts' PROVE timeouts' + Owed' + Risk' <= 2 * Happened'
  BY DEF LossInv
<1>1. /\ Retire(c) /\ UNCHANGED <<inflight, stopped, timeouts>>
      /\ Happened' = Happened + 1 /\ faults'["late"] = faults["late"]
  BY BrokenOffDoes
<1>2. Counts /\ Happened \in Nat
  BY <1>1, CountsBefore
<1>3. timeouts + Owed + Risk <= 2 * Happened
  BY <1>2 DEF LossInv
<1>4. Risk' <= Risk
  <2>1. \A d \in Callers : pc'[d] # "waiting"
    BY BrokenOffAlone
  <2> QED
    BY <1>1, <2>1, NobodyWaitsAfter, RiskOfNobody
<1>5. Owed' \in Nat /\ Owed' <= Owed + 1
  BY <1>1, RetireOwes
<1> QED
  BY <1>1, <1>2, <1>3, <1>4, <1>5, LossNumbers

\* An answer that comes is taken off what is owed, or off the risk.
LEMMA DeliverLoss ==
  ASSUME LinkTypes, LinkTypes', FuturesInv, AloneInv, NotTooLate, LossInv, Deliver
  PROVE  LossInv'
<1> SUFFICES ASSUME Counts' PROVE timeouts' + Owed' + Risk' <= 2 * Happened'
  BY DEF LossInv
<1>1. UNCHANGED <<pc, kind, left, stopped, faults, timeouts>> /\ inflight # <<>> /\ inflight' = Tail(inflight)
  BY DEF Deliver
<1>2. Counts /\ Happened \in Nat /\ Happened' = Happened /\ ~stopped
  BY <1>1, CountsBefore DEF Happened, Counts
<1>3. timeouts + Owed + Risk <= 2 * Happened /\ timeouts' = timeouts
  BY <1>1, <1>2 DEF LossInv
<1>4. PICK f \in Frames :
           /\ f = inflight[1] /\ f.key \in AllKeys
           /\ f.key \notin AckKeys => stale' = stale
           /\ f.key \in AckKeys =>
                stale' = [stale EXCEPT ![f.key] = IF Live(f.key) # <<>> THEN Tail(Live(f.key)) ELSE <<>>]
           /\ \/ /\ f.key \in AckKeys /\ Live(f.key) # <<>> /\ UNCHANGED <<waiters, fut, from>>
                 /\ waiters[f.key] = <<>> => robbed' = robbed
                 /\ waiters[f.key] # <<>> => robbed' = [robbed EXCEPT ![Head(waiters[f.key])][f.key] = TRUE]
              \/ /\ f.key \notin AckKeys \/ Live(f.key) = <<>>
                 /\ waiters[f.key] = <<>> /\ UNCHANGED <<robbed, waiters, fut, from>>
              \/ /\ f.key \notin AckKeys \/ Live(f.key) = <<>>
                 /\ \E w \in Callers :
                      /\ waiters[f.key] # <<>> /\ w = Head(waiters[f.key])
                      /\ fut' = [fut EXCEPT ![w][f.key] = "done"]
                      /\ robbed' = robbed
  BY <1>2, DeliverDoes
<1>5. PICK k \in AllKeys : k = f.key
  BY <1>4
<1>6. Punctual => Punctual'
  BY DeliverPunctual
<1>7. \A c \in Callers : Keys(c)' = Keys(c) /\ Keys(c) \subseteq AllKeys
  BY <1>1, KeysKnown DEF Keys
\* Only who waited for this frame has nothing left to expect.
<1>8. ASSUME NEW c \in Callers, Expects(c), ~Expects(c)' PROVE k \in Keys(c)
  <2>1. PICK i \in 1 .. Len(inflight) :
          inflight[i].op > 0 /\ inflight[i].key \in Keys(c) /\ inflight[i].due < left[c]
    BY <1>8 DEF Expects
  <2>2. CASE i = 1
    BY <1>4, <1>5, <2>1, <2>2
  <2>3. CASE i # 1
    <3>1. /\ \A j \in 1 .. Len(inflight) - 1 : inflight'[j] = inflight[j + 1]
          /\ Len(inflight') = Len(inflight) - 1
      BY <1>1, TailOf DEF LinkTypes
    <3>2. PICK j \in 1 .. Len(inflight') : j + 1 = i
      BY <2>3, <3>1, LastFrame
    <3>3. inflight'[j] = inflight[i]
      BY <3>1, <3>2, LastFrame
    <3> QED
      BY <1>1, <1>7, <1>8, <2>1, <3>3 DEF Expects
  <2> QED
    BY <2>2, <2>3
<1>9. /\ Owed' <= Owed /\ Owed' \in Nat
      /\ k \in AckKeys /\ Live(k) # <<>> => Owed' <= Owed - 1
  <2>1. CASE k \notin AckKeys
    <3>1. Owed' = Owed
      BY <1>4, <1>5, <2>1 DEF Owed
    <3> QED
      BY <2>1, <3>1, OwedIs
  <2>2. CASE k \in AckKeys
    <3>1. stale' = [stale EXCEPT ![k] = IF Live(k) # <<>> THEN Tail(Live(k)) ELSE <<>>]
      BY <1>4, <1>5, <2>2
    <3>2. /\ \A j \in AckKeys : j # k => Len(stale'[j]) = Len(stale[j])
          /\ stale'[k] = IF Live(k) # <<>> THEN Tail(Live(k)) ELSE <<>>
      BY <2>2, <3>1 DEF LinkTypes
    <3>3. Owed' + Len(stale[k]) = Owed + Len(stale'[k]) /\ Owed' \in Nat
      BY <2>2, <3>2, OwedAfter
    <3>4. PICK l \in Nat, m \in Nat : l = Len(stale[k]) /\ m = Len(Live(k)) /\ m <= l
      BY <2>2, PurgeLeaves, OwedIs
    <3>5. CASE Live(k) # <<>>
      <4>1. Live(k) \in Seq(Nat)
        BY <2>2, PurgeLeaves
      <4>2. Len(Tail(Live(k))) = m - 1 /\ m > 0
        BY <3>4, <3>5, <4>1, TailOf
      <4>3. PICK r \in Nat : r = Len(stale'[k]) /\ r = m - 1
        BY <3>2, <3>5, <4>2
      <4>4. PICK o \in Nat, p \in Nat : o = Owed /\ p = Owed' /\ p + l = o + r
        BY <3>3, <3>4, <4>3, OwedIs
      <4> QED
        BY <3>4, <4>3, <4>4
    <3>6. CASE Live(k) = <<>>
      <4>1. PICK r \in Nat : r = Len(stale'[k]) /\ r = 0
        BY <3>2, <3>6
      <4>2. PICK o \in Nat, p \in Nat : o = Owed /\ p = Owed' /\ p + l = o + r
        BY <3>3, <3>4, <4>1, OwedIs
      <4> QED
        BY <3>4, <3>6, <4>1, <4>2
    <3> QED
      BY <3>5, <3>6
  <2> QED
    BY <2>1, <2>2
\* A credit spent puts at risk no more than it was worth.
<1>10. CASE /\ k \in AckKeys /\ Live(k) # <<>> /\ fut' = fut
            /\ waiters[k] # <<>> => robbed' = [robbed EXCEPT ![Head(waiters[k])][k] = TRUE]
  <2>1. CASE Risk >= 1
    BY <1>2, <1>3, <1>9, <1>10, <2>1, LossNumbers
  <2>2. CASE Risk = 0
    <3>1. Punctual'
      BY <1>6, <2>2, RiskIs
    <3>2. ASSUME NEW c \in Callers, Doomed(c)' PROVE Robbed(c)'
      <4>1. pc[c] = "waiting" /\ NoAnswer(c) /\ ~Expects(c)'
        BY <1>1, <1>10, <3>2 DEF Doomed, NoAnswer
      <4>2. Expects(c)
        BY <2>2, <4>1, RiskIs DEF Doomed
      <4>3. k \in Keys(c)
        BY <1>8, <4>1, <4>2
      <4>4. fut[c][k] = "pending"
        BY <1>2, <4>1, <4>3 DEF FuturesInv, NoAnswer, LinkTypes
      <4>5. waiters[k] = <<c>>
        BY <4>1, <4>4 DEF AloneInv, Awaited
      <4>6. waiters[k] # <<>> /\ Head(waiters[k]) = c
        BY <4>5
      <4>7. robbed'[c][k] = TRUE
        <5>1. robbed' = [robbed EXCEPT ![c][k] = TRUE] /\ robbed \in [Callers -> [AllKeys -> BOOLEAN]]
          BY <1>10, <4>6 DEF LinkTypes
        <5> QED
          BY <5>1
      <4> QED
        BY <1>7, <1>10, <4>3, <4>7 DEF Robbed
    <3>3. Risk' <= 1
      BY <3>1, <3>2 DEF Risk
    <3> QED
      BY <1>2, <1>3, <1>9, <1>10, <2>2, <3>3, LossNumbers
  <2> QED
    BY <2>1, <2>2, LossNumbers
<1>11. CASE waiters[k] = <<>> /\ UNCHANGED <<robbed, fut>>
  <2>1. ASSUME NEW c \in Callers, Doomed(c)' PROVE Doomed(c) /\ (Robbed(c) => Robbed(c)')
    <3>1. pc[c] = "waiting" /\ NoAnswer(c) /\ ~Expects(c)'
      BY <1>1, <1>11, <2>1 DEF Doomed, NoAnswer
    <3>2. ~Expects(c)
      <4>1. ASSUME k \in Keys(c) PROVE FALSE
        <5>1. fut[c][k] = "pending"
          BY <1>2, <3>1, <4>1 DEF FuturesInv, NoAnswer, LinkTypes
        <5>2. waiters[k] = <<c>>
          BY <3>1, <5>1 DEF AloneInv, Awaited
        <5>3. <<c>> # <<>>
          OBVIOUS
        <5> QED
          BY <1>11, <5>2, <5>3
      <4> QED
        BY <1>8, <3>1, <4>1
    <3> QED
      BY <1>7, <1>11, <3>1, <3>2 DEF Doomed, Robbed
  <2>2. Risk' <= Risk
    BY <1>6, <2>1, RiskNotMore
  <2> QED
    BY <1>2, <1>3, <1>9, <2>2, LossNumbers
<1>12. ASSUME NEW w \in Callers, waiters[k] # <<>>, w = Head(waiters[k]),
              fut' = [fut EXCEPT ![w][k] = "done"], robbed' = robbed
       PROVE  timeouts' + Owed' + Risk' <= 2 * Happened'
  <2>1. pc[w] # "idle"
    <3>1. PICK d \in Callers : Awaited(d, k) /\ waiters[k] = <<d>>
      BY <1>12 DEF AloneInv
    <3> QED
      BY <1>12, <3>1 DEF Awaited
  <2>2. fut'[w][k] = "done"
    <3>1. fut \in [Callers -> [AllKeys -> {"none", "pending", "done", "failed"}]]
      BY DEF LinkTypes
    <3> QED
      BY <1>12, <3>1
  <2>3. \A c \in Callers : ~Doomed(c)'
    <3>1. ~NoAnswer(w)'
      BY <2>2 DEF NoAnswer
    <3>2. \A c \in Callers : c # w => pc'[c] # "waiting"
      BY <1>1, <2>1 DEF AloneInv, OneBusy
    <3> QED
      BY <3>1, <3>2 DEF Doomed
  <2>4. Risk' <= Risk
    BY <1>6, <2>3, RiskNotMore
  <2> QED
    BY <1>2, <1>3, <1>9, <2>4, LossNumbers
<1> QED
  BY <1>4, <1>5, <1>10, <1>11, <1>12

-----------------------------------------------------------------------------
(* The verdicts *)

LEMMA StraysNat ==
  ASSUME LinkTypes
  PROVE  Strays \in Nat
<1>1. faults["late"] \in Nat /\ faults["cancel"] \in Nat
  BY DEF LinkTypes, FaultKinds
<1> QED
  BY <1>1 DEF Strays

LEMMA StraysGrow ==
  ASSUME LinkTypes, LinkTypes', Next
  PROVE  /\ Strays \in Nat /\ Strays' \in Nat /\ Strays' >= Strays
         /\ Strays' = Strays => faults'["late"] = faults["late"]
<1>1. /\ faults["late"] \in Nat /\ faults["cancel"] \in Nat
      /\ faults'["late"] \in Nat /\ faults'["cancel"] \in Nat
  BY DEF LinkTypes, FaultKinds
<1>2. Strays \in Nat /\ Strays' \in Nat
  BY <1>1 DEF Strays
<1>3. CASE faults' = faults
  BY <1>2, <1>3 DEF Strays
<1>4. ASSUME NEW c \in Callers, Write(c) PROVE Strays' >= Strays /\ (Strays' = Strays => faults'["late"] = faults["late"])
  <2>1. \/ faults' = faults
        \/ Strays' = Strays /\ faults'["late"] = faults["late"]
        \/ Strays' = Strays + 1
    BY <1>4, WriteDoes
  <2> QED
    BY <1>2, <1>3, <2>1
<1>5. ASSUME NEW c \in Callers, WriteFails(c) \/ Cancel(c)
      PROVE  Strays' >= Strays /\ faults'["late"] = faults["late"]
  BY <1>2, <1>5, BrokenOffDoes DEF Next
<1>6. CASE faults' # faults
  BY <1>2, <1>4, <1>5, <1>6 DEF Next, Request, Wake, Deliver, Sample, Tick, Stop
<1> QED
  BY <1>2, <1>3, <1>6

\* The credit a verdict is owed, or one that has just been booked, covers a
\* verdict that comes before it lapses.
LEMMA CreditAfterRetire ==
  ASSUME LinkTypes, NEW c \in Callers, Retire(c), NEW d \in Nat, d < Timeout,
         Credit(d) \/ Verdict \in Credited(c)
  PROVE  Credit(d)'
<1>1. Verdict \in AckKeys
  BY DEF Verdict, AckKeys
<1>2. CASE Verdict \in Credited(c)
  <2>1. PICK q \in Seq(Nat), t \in Nat : q = Live(Verdict) /\ t = Timeout
    BY <1>1, PurgeLeaves, LinkAssumption
  <2>2. stale'[Verdict] = Append(q, t)
    BY <1>1, <1>2, <2>1 DEF Retire
  <2>3. Append(q, t) # <<>> /\ Len(Append(q, t)) = Len(q) + 1 /\ Append(q, t)[Len(q) + 1] = t
    OBVIOUS
  <2> QED
    BY <2>1, <2>2, <2>3 DEF Credit
<1>3. CASE Verdict \notin Credited(c)
  <2>1. stale'[Verdict] = stale[Verdict]
    BY <1>1, <1>3 DEF Retire
  <2> QED
    BY <1>3, <2>1 DEF Credit
<1> QED
  BY <1>2, <1>3

\* A line of verdicts, when nobody waits for one any more.
LEMMA LineOfStrays ==
  ASSUME NEW s \in 0 .. Len(inflight), inflight' = inflight, LinkTypes,
         \A i \in 1 .. Len(inflight) : inflight[i].key = Verdict <=> i = s,
         s > 0 => Credit(inflight[s].due)' /\ Strays' = 1 /\ Punctual',
         \A c \in Callers : pc'[c] # "idle" => robbed'[c][Verdict] = FALSE
  PROVE  \E a, b \in 0 .. Len(inflight') : Line(a, b)'
<1>1. 0 \in 0 .. Len(inflight') /\ s \in 0 .. Len(inflight') /\ Len(inflight) \in Nat
  BY LastFrame
<1>2. ~RobbedOfVerdict'
  BY DEF RobbedOfVerdict
<1>3. Line(s, 0)'
  BY <1>1, <1>2 DEF Line
<1> QED
  BY <1>1, <1>3

\* Nobody waits for a verdict: none on its way is taken.
LEMMA NoneMine ==
  ASSUME NEW s, NEW o, Line(s, o), LinkTypes,
         \A c \in Callers : pc[c] = "waiting" /\ kind[c] = "valset" => fut[c][Verdict] # "pending"
  PROVE  o = 0
<1>1. o > 0 => Mine(inflight[o])
  BY DEF Line
<1>2. \A f : ~Mine(f)
  BY DEF Mine
<1>3. o \in Nat
  BY LastFrame DEF Line
<1> QED
  BY <1>1, <1>2, <1>3

LEMMA RequestVerdict ==
  ASSUME LinkTypes, LinkTypes', FuturesInv, AloneInv, Serial, NotTooLate, VerdictInv,
         NEW c \in Callers, NEW knd \in Kinds, Request(c, knd), Strays' <= 1, ~stopped'
  PROVE  Unanswered' /\ \E s, o \in 0 .. Len(inflight') : Line(s, o)'
<1>1. UNCHANGED <<stale, inflight, stopped, faults>>
  BY DEF Request
<1>2. Strays' = Strays /\ Strays <= 1 /\ ~stopped
  BY <1>1 DEF Strays
<1>3. /\ \A d \in Callers : pc[d] = "idle" /\ pc'[d] # "waiting"
      /\ FuturesInv' /\ AloneInv' /\ \A k \in AllKeys : robbed'[c][k] = FALSE
  BY RequestAlone
<1>4. PICK s \in 0 .. Len(inflight), o \in 0 .. Len(inflight) : Line(s, o)
  BY <1>2 DEF VerdictInv
<1>5. o = 0
  BY <1>3, <1>4, NoneMine
<1>6. Punctual => Punctual'
  BY <1>1, <1>3, NobodyWaitsAfter
<1>7. /\ pc'[c] = "writing" /\ \A d \in Callers : d # c => pc'[d] = pc[d]
      /\ kind'[c] = knd /\ fut'[c] = [k \in AllKeys |-> IF k \in ToSet(KeysOf(knd)) THEN "pending" ELSE "none"]
  BY DEF Request, Register, LinkTypes
<1>8. Verdict \in AllKeys /\ Verdict \in ToSet(KeysOf("valset"))
  BY KeysAre DEF Verdict, AllKeys, AckKeys
<1>9. Unanswered'
  BY <1>3, <1>7, <1>8 DEF Unanswered
<1>10. \A d \in Callers : pc'[d] # "idle" => robbed'[d][Verdict] = FALSE
  BY <1>3, <1>7, <1>8
<1>11. \A i \in 1 .. Len(inflight) : inflight[i].key = Verdict <=> i = s
  BY <1>4, <1>5 DEF Line
<1>12. s > 0 => Credit(inflight[s].due)' /\ Strays' = 1 /\ Punctual'
  BY <1>1, <1>2, <1>4, <1>6 DEF Line, Credit
<1> QED
  BY <1>1, <1>9, <1>10, <1>11, <1>12, LineOfStrays

LEMMA WakeVerdict ==
  ASSUME LinkTypes, LinkTypes', FuturesInv, AloneInv, NotTooLate, VerdictInv,
         NEW c \in Callers, Wake(c), Strays' <= 1, ~stopped'
  PROVE  Unanswered' /\ \E s, o \in 0 .. Len(inflight') : Line(s, o)'
<1>1. /\ Retire(c) /\ pc[c] = "waiting" /\ Woken(c)
      /\ UNCHANGED <<kind, op, inflight, stopped, faults>>
  BY WakeDoes
<1>2. Strays' = Strays /\ Strays <= 1 /\ ~stopped
  BY <1>1 DEF Strays
<1>3. /\ \A d \in Callers : pc'[d] # "waiting"
      /\ \A d \in Callers : pc'[d] # "idle" => \A k \in AllKeys : robbed'[d][k] = FALSE
      /\ FuturesInv' /\ AloneInv'
  BY WakeAlone
<1>4. PICK s \in 0 .. Len(inflight), o \in 0 .. Len(inflight) : Line(s, o)
  BY <1>2 DEF VerdictInv
<1>5. Verdict \in AllKeys /\ Verdict \in AckKeys /\ Verdict \in ToSet(KeysOf("valset"))
  BY KeysAre DEF Verdict, AllKeys, AckKeys
<1>6. Punctual => Punctual'
  BY <1>1, <1>3, NobodyWaitsAfter
<1>7. \A d \in Callers : pc'[d] # "idle" => robbed'[d][Verdict] = FALSE
  BY <1>3, <1>5
<1>8. \A d \in Callers : d # c => pc[d] = "idle"
  BY <1>1 DEF AloneInv, OneBusy
<1>9. o > 0 => kind[c] = "valset" /\ fut[c][Verdict] = "pending" /\ op[c] = inflight[o].op
  BY <1>1, <1>4, <1>8 DEF Line, Mine
<1>10. Unanswered'
  <2>1. ASSUME NEW d \in Callers, pc'[d] = "writing", kind'[d] = "valset" PROVE fut'[d][Verdict] = "pending"
    <3>1. d = c
      <4>1. ASSUME d # c PROVE FALSE
        <5>0. pc' = [pc EXCEPT ![c] = "idle"] \/ pc' = [pc EXCEPT ![c] = "writing"]
          BY WakeDoes DEF End, Register
        <5>1. pc'[d] = pc[d]
          BY <4>1, <5>0 DEF LinkTypes
        <5> QED
          BY <1>8, <2>1, <4>1, <5>1
      <4> QED
        BY <4>1
    <3>2. Register(c, "valset", Unregistered(c))
      <4>1. ASSUME NEW x, NEW y, End(c, x, y) PROVE FALSE
        BY <2>1, <3>1, <4>1 DEF End, LinkTypes
      <4>2. \/ End(c, "answered", from[c][Preferred(c)]) \/ End(c, "timeout", 0)
            \/ Register(c, "valset", Unregistered(c))
        BY WakeDoes
      <4>3. ~End(c, "timeout", 0)
        BY <4>1
      <4>4. ~End(c, "answered", from[c][Preferred(c)])
        <5>1. PICK y : y = from[c][Preferred(c)]
          OBVIOUS
        <5> QED
          BY <4>1, <5>1
      <4> QED
        BY <4>2, <4>3, <4>4
    <3> QED
      BY <1>5, <3>1, <3>2 DEF Register, LinkTypes
  <2> QED
    BY <2>1 DEF Unanswered
<1>11. CASE fut[c][Preferred(c)] = "done" /\ Preferred(c) \in Keys(c)
  <2>1. Credited(c) = {}
    BY <1>11 DEF Credited, Done
  <2>2. stale'[Verdict] = stale[Verdict]
    BY <1>1, <1>5, <2>1 DEF Retire
  <2>3. o = 0
    <3>1. kind[c] = "valset" => Preferred(c) = Verdict
      BY <1>11, KeysAre DEF Keys, Verdict
    <3>2. ~ (o > 0)
      BY <1>9, <1>11, <3>1
    <3> QED
      BY <1>4, <3>2, LastFrame
  <2>4. \A i \in 1 .. Len(inflight) : inflight[i].key = Verdict <=> i = s
    BY <1>4, <2>3 DEF Line
  <2>5. s > 0 => Credit(inflight[s].due)' /\ Strays' = 1 /\ Punctual'
    BY <1>1, <1>2, <1>4, <1>6, <2>2 DEF Line, Credit
  <2> QED
    BY <1>1, <1>7, <1>10, <2>4, <2>5, LineOfStrays
<1>12. CASE \A k \in Keys(c) : fut[c][k] = "pending"
  <2>1. left[c] = 0
    BY <1>1, <1>12 DEF Woken, Pending
  <2>2. Punctual' /\ \A i \in 1 .. Len(inflight) : inflight[i].due < Timeout
    BY <1>1, <1>3, <2>1, UpAndPunctual
  \* In time for this request, its verdict would have come.
  <2>3. o > 0 => ~Punctual
    <3>1. SUFFICES ASSUME o > 0, Punctual PROVE FALSE
      OBVIOUS
    <3>2. InTime(inflight[o], left[c]) /\ inflight[o].due \in Nat
      BY <1>1, <1>4, <3>1, LastFrame DEF Punctual, AllInTime
    <3>3. inflight[o].op = 0
      BY <2>1, <3>2 DEF InTime
    <3>4. op[c] > 0
      BY <1>1 DEF FuturesInv
    <3> QED
      BY <1>9, <3>1, <3>3, <3>4
  <2>4. o > 0 => s = 0 /\ Strays = 1
    <3>1. o > 0 => s = 0
      BY <1>4, <2>3, LastFrame DEF Line
    <3>2. o > 0 => Strays # 0
      BY <2>3 DEF VerdictInv
    <3>3. Strays \in Nat
      BY StraysNat
    <3> QED
      BY <1>2, <3>1, <3>2, <3>3
  <2>5. o > 0 => Verdict \in Credited(c)
    <3>1. SUFFICES ASSUME o > 0 PROVE Verdict \in Credited(c)
      OBVIOUS
    <3>2. kind[c] = "valset" /\ Verdict \in Keys(c)
      BY <1>9, <3>1, KeysKnown
    <3>3. Done(c) = {}
      BY <1>12 DEF Done
    <3>4. ~robbed[c][Verdict]
      BY <1>1, <1>4, <2>3, <3>1, <3>2 DEF Line, RobbedOfVerdict
    <3> QED
      BY <1>5, <1>12, <3>2, <3>3, <3>4 DEF Credited, Pending
  <2>6. CASE o > 0
    <3>1. \A i \in 1 .. Len(inflight) : inflight[i].key = Verdict <=> i = o
      BY <1>4, <2>4, <2>6 DEF Line
    <3>2. PICK d \in Nat : d = inflight[o].due /\ d < Timeout
      BY <1>4, <2>2, <2>6, LastFrame
    <3>3. Credit(d)'
      BY <1>1, <2>5, <2>6, <3>2, CreditAfterRetire
    <3>4. Credit(inflight[o].due)' /\ Strays' = 1 /\ Punctual'
      BY <1>1, <1>2, <2>2, <2>4, <2>6, <3>2, <3>3 DEF Credit
    <3> QED
      BY <1>1, <1>7, <1>10, <3>1, <3>4, LineOfStrays
  <2>7. CASE o = 0
    <3>1. \A i \in 1 .. Len(inflight) : inflight[i].key = Verdict <=> i = s
      BY <1>4, <2>7 DEF Line
    <3>2. ASSUME s > 0 PROVE Credit(inflight[s].due)' /\ Strays' = 1 /\ Punctual'
      <4>1. PICK d \in Nat : d = inflight[s].due /\ d < Timeout
        BY <1>4, <2>2, <3>2, LastFrame
      <4>2. Credit(d) /\ Strays = 1
        BY <1>4, <3>2, <4>1 DEF Line
      <4>3. Credit(d)'
        BY <1>1, <4>1, <4>2, CreditAfterRetire
      <4> QED
        BY <1>1, <1>2, <2>2, <4>1, <4>2, <4>3 DEF Credit
    <3> QED
      BY <1>1, <1>7, <1>10, <3>1, <3>2, LineOfStrays
  <2> QED
    BY <1>4, <2>6, <2>7, LastFrame
<1> QED
  BY <1>2, <1>11, <1>12, WakeDoes

LEMMA BrokenOffVerdict ==
  ASSUME LinkTypes, LinkTypes', FuturesInv, AloneInv, NotTooLate, VerdictInv,
         NEW c \in Callers, WriteFails(c) \/ Cancel(c), plan' = plan, Strays' <= 1, ~stopped'
  PROVE  Unanswered' /\ \E s, o \in 0 .. Len(inflight') : Line(s, o)'
<1>1. /\ Retire(c) /\ UNCHANGED <<kind, op, inflight, stopped>>
      /\ \/ writers # <<>> /\ Head(writers) = c /\ Strays' = Strays
         \/ pc[c] = "waiting" /\ Strays' = Strays + 1
  BY BrokenOffDoes
<1>2. \A d \in Callers : pc'[d] = "idle"
  BY BrokenOffAlone
<1>3. Strays \in Nat /\ Strays' >= Strays /\ Strays <= 1 /\ ~stopped
  BY <1>1, StraysNat
<1>4. PICK s \in 0 .. Len(inflight), o \in 0 .. Len(inflight) : Line(s, o)
  BY <1>3 DEF VerdictInv
<1>5. Punctual => Punctual'
  BY <1>1, <1>2, NobodyWaitsAfter
<1>6. Unanswered' /\ \A d \in Callers : pc'[d] # "idle" => robbed'[d][Verdict] = FALSE
  BY <1>2 DEF Unanswered
<1>7. CASE writers # <<>> /\ Head(writers) = c /\ Strays' = Strays
  <2>1. pc[c] = "writing"
    <3>1. \E d \in Callers : pc[d] = "writing" /\ writers = <<d>>
      BY <1>7 DEF AloneInv
    <3> QED
      BY <1>7, <3>1
  <2>2. o = 0
    <3>1. \A d \in Callers : pc[d] # "waiting"
      BY <2>1 DEF AloneInv, OneBusy
    <3> QED
      BY <1>4, <3>1, NoneMine
  <2>3. \A i \in 1 .. Len(inflight) : inflight[i].key = Verdict <=> i = s
    BY <1>4, <2>2 DEF Line
  <2>4. ASSUME s > 0 PROVE Credit(inflight[s].due)' /\ Strays' = 1 /\ Punctual'
    <3>1. Credit(inflight[s].due) /\ Strays = 1 /\ Punctual
      BY <1>4, <2>4 DEF Line
    <3>2. PICK d \in Nat : d = inflight[s].due /\ d < Timeout
      BY <1>4, <2>4, <3>1, LastFrame, PunctualMeans
    <3>3. Credit(d)'
      BY <1>1, <3>1, <3>2, CreditAfterRetire
    <3> QED
      BY <1>1, <1>5, <1>7, <3>1, <3>2, <3>3 DEF Credit
  <2> QED
    BY <1>1, <1>6, <2>3, <2>4, LineOfStrays
<1>8. CASE pc[c] = "waiting" /\ Strays' = Strays + 1
  <2>1. Strays = 0 /\ Strays' = 1 /\ Punctual /\ Punctual'
    BY <1>3, <1>5, <1>8 DEF VerdictInv
  <2>2. s = 0
    BY <1>4, <2>1, LastFrame DEF Line
  <2>3. \A i \in 1 .. Len(inflight) : inflight[i].key = Verdict <=> i = o
    BY <1>4, <2>2 DEF Line
  <2>4. ASSUME o > 0 PROVE Credit(inflight[o].due)'
    <3>1. kind[c] = "valset" /\ fut[c][Verdict] = "pending"
      BY <1>4, <1>8, <2>4 DEF Line, Mine, AloneInv, OneBusy
    <3>2. ~robbed[c][Verdict]
      BY <1>4, <1>8, <2>1, <2>4, <3>1 DEF Line, RobbedOfVerdict
    <3>3. Keys(c) = {Verdict} /\ Verdict \in AckKeys
      BY <3>1, KeysAre DEF Keys, Verdict, AckKeys
    <3>4. Verdict \in Credited(c)
      BY <3>1, <3>2, <3>3 DEF Credited, Pending, Done
    <3>5. PICK d \in Nat : d = inflight[o].due /\ d < Timeout
      BY <1>4, <2>1, <2>4, LastFrame, PunctualMeans
    <3>6. Credit(d)'
      BY <1>1, <3>4, <3>5, CreditAfterRetire
    <3> QED
      BY <1>1, <3>5, <3>6 DEF Credit
  <2> QED
    BY <1>1, <1>6, <2>1, <2>3, <2>4, LineOfStrays
<1> QED
  BY <1>1, <1>7, <1>8

LEMMA WriteVerdict ==
  ASSUME LinkTypes, LinkTypes', FuturesInv, AloneInv, NotTooLate, VerdictInv,
         NEW c \in Callers, Write(c), Next, Strays' <= 1, ~stopped'
  PROVE  Unanswered' /\ \E s, o \in 0 .. Len(inflight') : Line(s, o)'
<1>1. UNCHANGED <<kind, op, fut, robbed, stale, stopped>>
  BY DEF Write
<1>2. /\ pc[c] = "writing" /\ \A d \in Callers : pc[d] # "waiting"
      /\ pc'[c] = "waiting" /\ left'[c] = Timeout /\ \A d \in Callers : d # c => pc'[d] = "idle"
  BY WriteAlone
<1>3. PICK due \in Nat, n \in 0 .. 2 :
           /\ Len(inflight') = Len(inflight) + n
           /\ \A i \in 1 .. Len(inflight) : inflight'[i] = inflight[i]
           /\ \A i \in 1 .. Len(inflight') : i > Len(inflight) =>
                inflight'[i].key \in Keys(c) /\ inflight'[i].op = op[c]
           /\ kind[c] = "valset" => n <= 1
  BY WriteDoes
<1>4. /\ Strays \in Nat /\ Strays' \in Nat /\ Strays' >= Strays
      /\ Strays' = Strays => faults'["late"] = faults["late"]
  BY StraysGrow
<1>5. PICK s \in 0 .. Len(inflight), o \in 0 .. Len(inflight) : Line(s, o)
  BY <1>1, <1>4 DEF VerdictInv
<1>6. o = 0
  BY <1>2, <1>5, NoneMine
<1>7. Strays = 1 /\ Punctual => Strays' = 1 /\ Punctual'
  BY <1>4, WritePunctual
<1>8. Unanswered'
  BY <1>2 DEF Unanswered
<1>9. PICK l \in Nat : l = Len(inflight)
  BY LastFrame
<1>10. \A i \in 1 .. l : inflight[i].key = Verdict <=> i = s
  BY <1>5, <1>6, <1>9 DEF Line
<1>11. s > 0 => Credit(inflight[s].due)' /\ Strays' = 1 /\ Punctual'
  <2>1. SUFFICES ASSUME s > 0 PROVE Credit(inflight[s].due)' /\ Strays' = 1 /\ Punctual'
    OBVIOUS
  <2>2. PICK d \in Nat : d = inflight[s].due /\ inflight'[s] = inflight[s]
    BY <1>3, <1>5, <2>1, LastFrame
  <2>3. Credit(d) /\ Strays = 1 /\ Punctual
    BY <1>5, <2>1, <2>2 DEF Line
  <2>4. Credit(d)'
    BY <1>1, <2>3 DEF Credit
  <2> QED
    BY <1>7, <2>2, <2>3, <2>4 DEF Credit
<1>12. RobbedOfVerdict' => Strays' = 1 /\ Punctual'
  <2>1. RobbedOfVerdict' => RobbedOfVerdict
    BY <1>1, <1>2 DEF RobbedOfVerdict
  <2>2. NobodyWaits
    BY <1>2 DEF NobodyWaits
  <2> QED
    BY <1>5, <1>7, <2>1, <2>2 DEF Line
<1>13. \A i \in 1 .. l : inflight'[i].key = Verdict <=> i = s
  BY <1>3, <1>9, <1>10
<1>14. CASE kind[c] = "valset" /\ n = 1
  <2>1. PICK p \in 1 .. Len(inflight') : p = l + 1 /\ Len(inflight') = l + 1
    BY <1>3, <1>9, <1>14
  <2>2. inflight'[p].key = Verdict /\ inflight'[p].op = op[c]
    <3>1. Keys(c) = {Verdict}
      BY <1>14, KeysAre DEF Keys, Verdict
    <3> QED
      BY <1>3, <1>9, <2>1, <3>1
  <2>3. fut[c][Verdict] = "pending"
    BY <1>1, <1>2, <1>4, <1>14 DEF Unanswered, VerdictInv
  <2>4. \E d \in Callers : /\ pc'[d] = "waiting" /\ kind'[d] = "valset"
                           /\ fut'[d][Verdict] = "pending" /\ op'[d] = inflight'[p].op
    BY <1>1, <1>2, <1>14, <2>2, <2>3
  <2>5. \A i \in 1 .. Len(inflight') : inflight'[i].key = Verdict <=> i = s \/ i = p
    BY <1>5, <1>9, <1>13, <2>1, <2>2
  <2>6. s \in 0 .. Len(inflight') /\ p \in 0 .. Len(inflight') /\ s < p
    BY <1>5, <1>9, <2>1
  <2>7. Line(s, p)'
    BY <1>11, <1>12, <2>4, <2>5, <2>6 DEF Line, Mine
  <2> QED
    BY <1>8, <2>6, <2>7
<1>15. CASE kind[c] # "valset" \/ n = 0
  <2>1. \A i \in 1 .. Len(inflight') : i > Len(inflight) => inflight'[i].key # Verdict
    BY <1>3, <1>9, <1>15, KeysKnown
  <2>2. s \in 0 .. Len(inflight') /\ 0 \in 0 .. Len(inflight') /\ Len(inflight') \in Nat
    BY <1>3, <1>5, <1>9
  <2>3. \A i \in 1 .. Len(inflight') : inflight'[i].key = Verdict <=> i = s \/ i = 0
    BY <1>5, <1>9, <1>13, <2>1, <2>2
  <2>4. Line(s, 0)'
    BY <1>11, <1>12, <2>2, <2>3 DEF Line
  <2> QED
    BY <1>8, <2>2, <2>4
<1> QED
  BY <1>3, <1>14, <1>15

LEMMA SampleVerdict ==
  ASSUME LinkTypes, LinkTypes', FuturesInv, AloneInv, NotTooLate, VerdictInv, Sample,
         plan' = plan, Strays' <= 1, ~stopped'
  PROVE  Unanswered' /\ \E s, o \in 0 .. Len(inflight') : Line(s, o)'
<1>1. UNCHANGED <<wait, stale, stopped, faults>>
  BY SampleDoes
<1>2. UNCHANGED <<pc, kind, op, fut, robbed>> /\ Strays' = Strays
  BY <1>1 DEF wait, Strays
<1>3. PICK s \in 0 .. Len(inflight), o \in 0 .. Len(inflight) : Line(s, o)
  BY <1>1, <1>2 DEF VerdictInv
<1>4. Unanswered'
  BY <1>1, <1>2 DEF Unanswered, VerdictInv
<1>5. PICK l \in Nat : l = Len(inflight)
  BY LastFrame
<1>6. /\ Len(inflight') = l + 1 /\ \A i \in 1 .. l : inflight'[i] = inflight[i]
      /\ inflight'[l + 1].key # Verdict
  <2>1. PICK due \in Nat : inflight'[l + 1] = Frame("MON", 0, due)
    BY <1>5, SampleDoes
  <2>2. inflight'[l + 1].key # Verdict
    BY <2>1 DEF Frame, Verdict
  <2> QED
    BY <1>5, <2>2, SampleDoes
<1>7. Punctual => Punctual'
  BY SamplePunctual
<1>8. s > 0 => Credit(inflight[s].due)' /\ Strays' = 1 /\ Punctual' /\ (o > 0 => s < o)
  <2>1. SUFFICES ASSUME s > 0 PROVE Credit(inflight[s].due)' /\ Strays' = 1 /\ Punctual' /\ (o > 0 => s < o)
    OBVIOUS
  <2>2. PICK d \in Nat : d = inflight[s].due /\ inflight'[s] = inflight[s]
    BY <1>3, <1>5, <1>6, <2>1, LastFrame
  <2>3. Credit(d) /\ Strays = 1 /\ Punctual /\ (o > 0 => s < o)
    BY <1>3, <2>1, <2>2 DEF Line
  <2>4. Credit(d)'
    BY <1>1, <2>3 DEF Credit
  <2> QED
    BY <1>2, <1>7, <2>2, <2>3, <2>4 DEF Credit
<1>9. o > 0 => Mine(inflight[o])'
  <2>1. SUFFICES ASSUME o > 0 PROVE Mine(inflight[o])'
    OBVIOUS
  <2>2. PICK f : f = inflight[o] /\ f = inflight'[o]
    BY <1>3, <1>5, <1>6, <2>1
  <2>3. Mine(f)
    BY <1>3, <2>1, <2>2 DEF Line
  <2>4. Mine(f)'
    BY <1>2, <2>3 DEF Mine
  <2> QED
    BY <2>2, <2>4 DEF Mine
<1>10. \A i \in 1 .. Len(inflight') : inflight'[i].key = Verdict <=> i = s \/ i = o
  <2>1. \A i \in 1 .. l : inflight[i].key = Verdict <=> i = s \/ i = o
    BY <1>3, <1>5 DEF Line
  <2> QED
    BY <1>3, <1>5, <1>6, <2>1
<1>11. RobbedOfVerdict' /\ (o > 0 \/ NobodyWaits') => Strays' = 1 /\ Punctual'
  <2>1. RobbedOfVerdict' = RobbedOfVerdict /\ NobodyWaits' = NobodyWaits
    BY <1>2 DEF RobbedOfVerdict, NobodyWaits
  <2> QED
    BY <1>2, <1>3, <1>7, <2>1 DEF Line
<1>12. s \in 0 .. Len(inflight') /\ o \in 0 .. Len(inflight')
  BY <1>3, <1>5, <1>6
<1>13. Line(s, o)'
  BY <1>8, <1>9, <1>10, <1>11, <1>12 DEF Line
<1> QED
  BY <1>4, <1>12, <1>13

LEMMA TickVerdict ==
  ASSUME LinkTypes, LinkTypes', FuturesInv, AloneInv, NotTooLate, VerdictInv, Tick,
         Strays' <= 1, ~stopped'
  PROVE  Unanswered' /\ \E s, o \in 0 .. Len(inflight') : Line(s, o)'
<1>1. UNCHANGED <<pc, kind, op, fut, robbed, stopped, faults>>
  BY DEF Tick
<1>2. Strays' = Strays
  BY <1>1 DEF Strays
<1>3. PICK s \in 0 .. Len(inflight), o \in 0 .. Len(inflight) : Line(s, o)
  BY <1>1, <1>2 DEF VerdictInv
<1>4. Unanswered'
  BY <1>1, <1>2 DEF Unanswered, VerdictInv
<1>5. /\ Len(inflight') = Len(inflight)
      /\ \A i \in 1 .. Len(inflight) :
           /\ inflight'[i].key = inflight[i].key /\ inflight'[i].op = inflight[i].op
           /\ inflight[i].due > 0 /\ inflight'[i].due = inflight[i].due - 1
  BY TickLeaves
<1>6. Punctual => Punctual'
  BY TickPunctual
<1>7. s > 0 => Credit(inflight[s].due)' /\ Strays' = 1 /\ Punctual' /\ (o > 0 => s < o)
  <2>1. SUFFICES ASSUME s > 0 PROVE Credit(inflight[s].due)' /\ Strays' = 1 /\ Punctual' /\ (o > 0 => s < o)
    OBVIOUS
  <2>2. PICK d \in Nat : d = inflight[s].due /\ d > 0 /\ inflight'[s].due = d - 1
    BY <1>3, <1>5, <2>1, LastFrame
  <2>3. Credit(d) /\ Strays = 1 /\ Punctual /\ (o > 0 => s < o)
    BY <1>3, <2>1, <2>2 DEF Line
  <2>4. PICK n \in Nat \ {0}, t \in Nat :
          n = Len(stale[Verdict]) /\ t = stale[Verdict][n] /\ t > d
    <3>1. stale[Verdict] \in Seq(Nat) /\ Len(stale[Verdict]) \in Nat
      BY DEF LinkTypes, Verdict, AckKeys
    <3>2. Len(stale[Verdict]) # 0
      BY <2>3, <3>1 DEF Credit
    <3>3. stale[Verdict][Len(stale[Verdict])] \in Nat
      BY <3>1, <3>2
    <3> QED
      BY <2>3, <3>1, <3>2, <3>3 DEF Credit
  <2>5. Len(stale'[Verdict]) = n /\ stale'[Verdict][n] = t - 1
    <3>1. Verdict \in AckKeys
      BY DEF Verdict, AckKeys
    <3>2. /\ Len(stale'[Verdict]) = Len(stale[Verdict])
          /\ \A i \in 1 .. Len(stale[Verdict]) :
               stale'[Verdict][i] = IF stale[Verdict][i] > 0 THEN stale[Verdict][i] - 1 ELSE 0
      BY <3>1, TickLeaves
    <3> QED
      BY <2>4, <3>2
  <2>6. stale'[Verdict] # <<>>
    BY <2>4, <2>5
  <2>7. Credit(inflight[s].due)'
    BY <2>2, <2>4, <2>5, <2>6 DEF Credit
  <2> QED
    BY <1>2, <1>6, <2>3, <2>7
<1>8. o > 0 => Mine(inflight[o])'
  BY <1>1, <1>3, <1>5 DEF Line, Mine
<1>9. \A i \in 1 .. Len(inflight') : inflight'[i].key = Verdict <=> i = s \/ i = o
  BY <1>3, <1>5 DEF Line
<1>10. RobbedOfVerdict' /\ (o > 0 \/ NobodyWaits') => Strays' = 1 /\ Punctual'
  <2>1. RobbedOfVerdict' = RobbedOfVerdict /\ NobodyWaits' = NobodyWaits
    BY <1>1 DEF RobbedOfVerdict, NobodyWaits
  <2> QED
    BY <1>2, <1>3, <1>6, <2>1 DEF Line
<1>11. s \in 0 .. Len(inflight') /\ o \in 0 .. Len(inflight')
  BY <1>3, <1>5
<1>12. Line(s, o)'
  BY <1>7, <1>8, <1>9, <1>10, <1>11 DEF Line
<1> QED
  BY <1>4, <1>11, <1>12

\* The next frame: no verdict, or one that a credit is spent on, or that of the
\* valset that waits for it.
LEMMA VerdictComes ==
  ASSUME LinkTypes, AloneInv, Deliver, ~stopped, NEW s, NEW o, Line(s, o)
  PROVE  \/ /\ inflight[1].key # Verdict /\ stale'[Verdict] = stale[Verdict]
            /\ \A c \in Callers : /\ fut'[c][Verdict] = fut[c][Verdict]
                                  /\ from'[c][Verdict] = from[c][Verdict]
                                  /\ robbed'[c][Verdict] = robbed[c][Verdict]
         \/ s = 1 /\ fut' = fut /\ from' = from
         \/ /\ s = 0 /\ o = 1
            /\ \E w \in Callers :
                 /\ pc[w] = "waiting" /\ op[w] = inflight[1].op
                 /\ \A c \in Callers :
                      c # w => fut'[c][Verdict] = fut[c][Verdict] /\ from'[c][Verdict] = from[c][Verdict]
                 /\ \/ fut'[w][Verdict] = "pending"
                    \/ from'[w][Verdict] = op[w]
<1>1. PICK f \in Frames :
        /\ inflight # <<>> /\ f = inflight[1] /\ f.due = 0
        /\ f.key \notin AckKeys => stale' = stale
        /\ f.key \in AckKeys =>
             stale' = [stale EXCEPT ![f.key] = IF Live(f.key) # <<>> THEN Tail(Live(f.key)) ELSE <<>>]
        /\ \/ /\ f.key \in AckKeys /\ Live(f.key) # <<>> /\ UNCHANGED <<waiters, fut, from>>
              /\ waiters[f.key] = <<>> => robbed' = robbed
              /\ waiters[f.key] # <<>> => robbed' = [robbed EXCEPT ![Head(waiters[f.key])][f.key] = TRUE]
           \/ /\ f.key \notin AckKeys \/ Live(f.key) = <<>>
              /\ waiters[f.key] = <<>> /\ UNCHANGED <<robbed, waiters, fut, from>>
           \/ /\ f.key \notin AckKeys \/ Live(f.key) = <<>>
              /\ \E w \in Callers :
                   /\ waiters[f.key] # <<>> /\ w = Head(waiters[f.key])
                   /\ fut' = [fut EXCEPT ![w][f.key] = "done"]
                   /\ from' = [from EXCEPT ![w][f.key] = f.op]
                   /\ robbed' = robbed
  BY DeliverDoes
<1>2. /\ fut \in [Callers -> [AllKeys -> {"none", "pending", "done", "failed"}]]
      /\ from \in [Callers -> [AllKeys -> Nat]]
      /\ robbed \in [Callers -> [AllKeys -> BOOLEAN]]
      /\ stale \in [AckKeys -> Seq(Nat)]
      /\ Verdict \in AllKeys /\ Verdict \in AckKeys
  BY DEF LinkTypes, Verdict, AllKeys, AckKeys
<1>3. CASE f.key # Verdict
  <2>1. stale'[Verdict] = stale[Verdict]
    BY <1>1, <1>2, <1>3
  <2>2. \A c \in Callers : robbed'[c][Verdict] = robbed[c][Verdict]
    BY <1>1, <1>2, <1>3
  <2>3. \A c \in Callers : fut'[c][Verdict] = fut[c][Verdict] /\ from'[c][Verdict] = from[c][Verdict]
    <3>1. CASE UNCHANGED <<fut, from>>
      BY <3>1
    <3>2. ASSUME NEW w \in Callers, fut' = [fut EXCEPT ![w][f.key] = "done"],
                 from' = [from EXCEPT ![w][f.key] = f.op]
          PROVE  \A c \in Callers : fut'[c][Verdict] = fut[c][Verdict] /\ from'[c][Verdict] = from[c][Verdict]
      BY <1>2, <1>3, <3>2
    <3> QED
      BY <1>1, <3>1, <3>2
  <2> QED
    BY <1>1, <1>3, <2>1, <2>2, <2>3
<1>4. CASE f.key = Verdict
  <2>1. Len(inflight) \in Nat /\ 1 \in 1 .. Len(inflight)
    BY <1>1, TailOf DEF LinkTypes
  <2>2. s = 1 \/ o = 1
    BY <1>1, <1>4, <2>1 DEF Line
  <2>3. CASE s = 1
    <3>1. Credit(0)
      BY <1>1, <2>3 DEF Line
    <3>2. Live(Verdict) # <<>>
      BY <1>2, <3>1, PurgeLeaves DEF Credit
    <3>3. fut' = fut /\ from' = from
      BY <1>1, <1>2, <1>4, <3>2
    <3> QED
      BY <2>3, <3>3
  <2>4. CASE s # 1 /\ o = 1
    <3>1. s = 0
      BY <2>1, <2>4 DEF Line
    <3>2. PICK w \in Callers : /\ pc[w] = "waiting" /\ kind[w] = "valset"
                               /\ fut[w][Verdict] = "pending" /\ op[w] = f.op
      BY <1>1, <2>4 DEF Line, Mine
    <3>3. waiters[Verdict] = <<w>>
      BY <1>2, <3>2 DEF AloneInv, Awaited
    <3>4. CASE UNCHANGED <<fut, from>>
      BY <1>1, <2>4, <3>1, <3>2, <3>4
    <3>5. CASE /\ fut' = [fut EXCEPT ![w][Verdict] = "done"]
               /\ from' = [from EXCEPT ![w][Verdict] = f.op]
      <4>1. from'[w][Verdict] = op[w]
        BY <1>2, <3>2, <3>5
      <4>2. \A c \in Callers :
              c # w => fut'[c][Verdict] = fut[c][Verdict] /\ from'[c][Verdict] = from[c][Verdict]
        BY <1>2, <3>5
      <4> QED
        BY <1>1, <2>4, <3>1, <3>2, <4>1, <4>2
    <3>6. Head(waiters[Verdict]) = w
      BY <3>3
    <3> QED
      BY <1>1, <1>4, <3>4, <3>5, <3>6
  <2> QED
    BY <2>2, <2>3, <2>4
<1> QED
  BY <1>3, <1>4

LEMMA DeliverVerdict ==
  ASSUME LinkTypes, LinkTypes', FuturesInv, AloneInv, NotTooLate, VerdictInv, Deliver,
         Strays' <= 1, ~stopped'
  PROVE  Unanswered' /\ \E s, o \in 0 .. Len(inflight') : Line(s, o)'
<1>1. UNCHANGED <<pc, kind, op, stopped, faults>>
  BY DEF Deliver
<1>2. Strays' = Strays /\ ~stopped
  BY <1>1 DEF Strays
<1>3. PICK s \in 0 .. Len(inflight), o \in 0 .. Len(inflight) : Line(s, o)
  BY <1>2 DEF VerdictInv
<1>4. PICK l \in Nat \ {0} :
        /\ l = Len(inflight) /\ Len(inflight') = l - 1
        /\ \A i \in 1 .. l - 1 : inflight'[i] = inflight[i + 1]
  BY TailOf DEF LinkTypes, Deliver
<1>5. Punctual => Punctual'
  BY DeliverPunctual
<1>6. \/ /\ inflight[1].key # Verdict /\ stale'[Verdict] = stale[Verdict]
         /\ \A c \in Callers : /\ fut'[c][Verdict] = fut[c][Verdict]
                               /\ robbed'[c][Verdict] = robbed[c][Verdict]
      \/ s = 1 /\ fut' = fut
      \/ s = 0 /\ o = 1 /\ \E w \in Callers : pc[w] = "waiting"
  BY <1>2, <1>3, VerdictComes
<1>7. Unanswered'
  <2>1. Unanswered
    BY <1>2 DEF VerdictInv
  <2>2. (\E w \in Callers : pc[w] = "waiting") => \A c \in Callers : pc[c] # "writing"
    BY DEF AloneInv, OneBusy
  <2> QED
    BY <1>1, <1>6, <2>1, <2>2 DEF Unanswered
<1>8. PICK a \in Nat, b \in Nat :
        /\ a = IF s > 0 THEN s - 1 ELSE 0
        /\ b = IF o > 0 THEN o - 1 ELSE 0
        /\ a <= l - 1 /\ b <= l - 1
  BY <1>3, <1>4
<1>9. \A i \in 1 .. l : inflight[i].key = Verdict <=> i = s \/ i = o
  BY <1>3, <1>4 DEF Line
<1>10. a > 0 => Credit(inflight[a].due)' /\ Strays' = 1 /\ Punctual' /\ (b > 0 => a < b)
  <2>1. SUFFICES ASSUME a > 0
                 PROVE  Credit(inflight[a].due)' /\ Strays' = 1 /\ Punctual' /\ (b > 0 => a < b)
    OBVIOUS
  <2>2. s > 0 /\ s = a + 1 /\ s \in 1 .. l
    BY <1>3, <1>4, <1>8, <2>1
  <2>3. PICK d \in Nat : d = inflight[s].due /\ inflight'[a].due = d
    <3>1. inflight'[a] = inflight[a + 1]
      BY <1>4, <1>8, <2>1
    <3> QED
      BY <1>4, <2>2, <3>1, LastFrame
  <2>4. Credit(d) /\ Strays = 1 /\ Punctual /\ (o > 0 => s < o)
    BY <1>3, <2>2, <2>3 DEF Line
  <2>5. stale'[Verdict] = stale[Verdict]
    BY <1>6, <1>8, <2>1, <2>2
  <2>6. Credit(inflight[a].due)'
    BY <2>3, <2>4, <2>5 DEF Credit
  <2> QED
    BY <1>2, <1>3, <1>4, <1>5, <1>8, <2>1, <2>2, <2>4, <2>6
<1>11. b > 0 => Mine(inflight[b])'
  <2>1. SUFFICES ASSUME b > 0 PROVE Mine(inflight[b])'
    OBVIOUS
  <2>2. o > 0 /\ o = b + 1 /\ inflight'[b] = inflight[o]
    BY <1>3, <1>4, <1>8, <2>1
  <2>3. \A c \in Callers : fut'[c][Verdict] = fut[c][Verdict]
    BY <1>6, <2>1, <2>2
  <2>4. PICK c \in Callers : /\ pc[c] = "waiting" /\ kind[c] = "valset"
                             /\ fut[c][Verdict] = "pending" /\ op[c] = inflight[o].op
    BY <1>3, <2>2 DEF Line, Mine
  <2> QED
    BY <1>1, <2>2, <2>3, <2>4 DEF Mine
<1>12. \A i \in 1 .. Len(inflight') : inflight'[i].key = Verdict <=> i = a \/ i = b
  <2>1. s \in Nat /\ o \in Nat
    BY <1>3, <1>4
  <2>2. ASSUME NEW i \in 1 .. l - 1 PROVE inflight'[i].key = Verdict <=> i = a \/ i = b
    <3>1. i + 1 \in 1 .. l /\ inflight'[i] = inflight[i + 1]
      BY <1>4
    <3>2. i = a \/ i = b <=> i + 1 = s \/ i + 1 = o
      BY <1>8, <2>1
    <3>3. inflight[i + 1].key = Verdict <=> i + 1 = s \/ i + 1 = o
      BY <1>9, <3>1
    <3> QED
      BY <3>1, <3>2, <3>3
  <2> QED
    BY <1>4, <2>2
<1>13. RobbedOfVerdict' /\ (b > 0 \/ NobodyWaits') => Strays' = 1 /\ Punctual'
  <2>1. CASE /\ inflight[1].key # Verdict
             /\ \A c \in Callers : robbed'[c][Verdict] = robbed[c][Verdict]
    <3>1. RobbedOfVerdict' => RobbedOfVerdict
      BY <1>1, <2>1 DEF RobbedOfVerdict
    <3>2. NobodyWaits' = NobodyWaits /\ (b > 0 => o > 0)
      BY <1>1, <1>3, <1>8 DEF NobodyWaits
    <3> QED
      BY <1>2, <1>3, <1>5, <3>1, <3>2 DEF Line
  <2>2. CASE s = 1
    BY <1>2, <1>3, <1>5, <2>2 DEF Line
  <2>3. CASE o = 1 /\ \E w \in Callers : pc[w] = "waiting"
    <3>1. ~NobodyWaits' /\ ~(b > 0)
      BY <1>1, <1>8, <2>3 DEF NobodyWaits
    <3> QED
      BY <3>1
  <2> QED
    BY <1>6, <2>1, <2>2, <2>3
<1>14. a \in 0 .. Len(inflight') /\ b \in 0 .. Len(inflight')
  BY <1>4, <1>8
<1>15. Line(a, b)'
  BY <1>10, <1>11, <1>12, <1>13, <1>14 DEF Line
<1> QED
  BY <1>7, <1>14, <1>15


-----------------------------------------------------------------------------
(* Whose verdict a valset returns *)

\* A request that ends with an answer ends with its own.
LEMMA EndOwn ==
  ASSUME LinkTypes, OwnAnswers, NEW c \in Callers, NEW outcome, NEW answer, End(c, outcome, answer),
         kind' = kind, op' = op, outcome = "answered" /\ kind[c] = "valset" => answer = op[c]
  PROVE  OwnAnswers'
<1>1. ASSUME NEW d \in Callers, d # c
      PROVE  /\ pc'[d] = pc[d] /\ fut'[d] = fut[d] /\ from'[d] = from[d] /\ result'[d] = result[d]
  BY <1>1 DEF End, LinkTypes
<1>2. /\ result'[c] = [outcome |-> outcome, op |-> op[c], from |-> answer]
      /\ fut'[c][Verdict] = "none"
  <2>1. Verdict \in AllKeys
    BY DEF Verdict, AllKeys, AckKeys
  <2>2. result'[c] = [outcome |-> outcome, op |-> op[c], from |-> answer]
    BY DEF End, LinkTypes
  <2>3. fut'[c] = [k \in AllKeys |-> "none"]
    BY DEF End, LinkTypes
  <2> QED
    BY <2>1, <2>2, <2>3
<1>3. ASSUME NEW d \in Callers
      PROVE  /\ fut'[d][Verdict] = "done" => from'[d][Verdict] = op'[d]
             /\ pc'[d] = "idle" /\ kind'[d] = "valset" /\ result'[d].outcome = "answered"
                  => result'[d].from = result'[d].op
  <2>1. CASE d = c
    BY <1>2, <2>1
  <2>2. CASE d # c
    BY <1>1, <2>2 DEF OwnAnswers
  <2> QED
    BY <2>1, <2>2
<1> QED
  BY <1>3 DEF OwnAnswers

\* What a request starts or retries with is no answer.
LEMMA RegisterOwn ==
  ASSUME LinkTypes, OwnAnswers, NEW c \in Callers, NEW knd, NEW ws, Register(c, knd, ws),
         kind' = [kind EXCEPT ![c] = knd], result' = result,
         NEW n, op' = [op EXCEPT ![c] = n]
  PROVE  OwnAnswers'
<1>1. ASSUME NEW d \in Callers, d # c
      PROVE  /\ pc'[d] = pc[d] /\ fut'[d] = fut[d] /\ from'[d] = from[d]
             /\ kind'[d] = kind[d] /\ op'[d] = op[d]
  BY <1>1 DEF Register, LinkTypes
<1>2. pc'[c] = "writing" /\ fut'[c][Verdict] # "done"
  <2>1. Verdict \in AllKeys
    BY DEF Verdict, AllKeys, AckKeys
  <2>2. fut'[c] = [k \in AllKeys |-> IF k \in ToSet(KeysOf(knd)) THEN "pending" ELSE "none"]
    BY DEF Register, LinkTypes
  <2> QED
    BY <2>1, <2>2 DEF Register, LinkTypes
<1>3. ASSUME NEW d \in Callers
      PROVE  /\ fut'[d][Verdict] = "done" => from'[d][Verdict] = op'[d]
             /\ pc'[d] = "idle" /\ kind'[d] = "valset" /\ result'[d].outcome = "answered"
                  => result'[d].from = result'[d].op
  <2>1. CASE d = c
    BY <1>2, <2>1
  <2>2. CASE d # c
    BY <1>1, <2>2 DEF OwnAnswers
  <2> QED
    BY <2>1, <2>2
<1> QED
  BY <1>3 DEF OwnAnswers

LEMMA DeliverOwn ==
  ASSUME LinkTypes, AloneInv, OwnAnswers, Deliver,
         ~stopped => \E s, o \in 0 .. Len(inflight) : Line(s, o)
  PROVE  OwnAnswers'
<1>1. UNCHANGED <<pc, kind, op, result>>
  BY DEF Deliver
<1>2. CASE stopped
  BY <1>1, <1>2 DEF Deliver, OwnAnswers
<1>3. CASE ~stopped
  <2>1. PICK s \in 0 .. Len(inflight), o \in 0 .. Len(inflight) : Line(s, o)
    BY <1>3
  <2>2. CASE \A c \in Callers : /\ fut'[c][Verdict] = fut[c][Verdict]
                                /\ from'[c][Verdict] = from[c][Verdict]
    BY <1>1, <2>2 DEF OwnAnswers
  <2>3. CASE \E w \in Callers :
               /\ \A c \in Callers :
                    c # w => fut'[c][Verdict] = fut[c][Verdict] /\ from'[c][Verdict] = from[c][Verdict]
               /\ \/ fut'[w][Verdict] = "pending"
                  \/ from'[w][Verdict] = op[w]
    BY <1>1, <2>3 DEF OwnAnswers
  <2> QED
    BY <1>3, <2>1, <2>2, <2>3, VerdictComes
<1> QED
  BY <1>2, <1>3

LEMMA WakeOwn ==
  ASSUME LinkTypes, FuturesInv, OwnAnswers, NEW c \in Callers, Wake(c)
  PROVE  OwnAnswers'
<1>1. UNCHANGED <<kind, op>>
  BY WakeDoes
<1>2. CASE /\ End(c, "answered", from[c][Preferred(c)])
           /\ fut[c][Preferred(c)] = "done" /\ Preferred(c) \in Keys(c)
  <2>1. kind[c] = "valset" => Preferred(c) = Verdict
    BY <1>2, KeysAre DEF Keys, Verdict
  <2>2. PICK a : a = from[c][Preferred(c)]
    OBVIOUS
  <2>3. kind[c] = "valset" => a = op[c]
    BY <1>2, <2>1, <2>2 DEF OwnAnswers
  <2> QED
    BY <1>1, <1>2, <2>2, <2>3, EndOwn
<1>3. CASE End(c, "timeout", 0)
  BY <1>1, <1>3, EndOwn
<1>4. CASE /\ Register(c, "valset", Unregistered(c)) /\ kind' = [kind EXCEPT ![c] = "valset"]
           /\ result' = result
  <2>1. PICK n, ws : n = op[c] /\ ws = Unregistered(c)
    OBVIOUS
  <2>2. op' = [op EXCEPT ![c] = n]
    BY <1>1, <2>1 DEF LinkTypes
  <2> QED
    BY <1>4, <2>1, <2>2, RegisterOwn
<1> QED
  BY <1>2, <1>3, <1>4, WakeDoes

LEMMA OwnKept ==
  ASSUME LinkTypes, LinkTypes', FuturesInv, AloneInv, VerdictInv, Next, Strays' <= 1
  PROVE  OwnAnswers'
<1>1. Strays <= 1
  BY StraysGrow
<1>2. OwnAnswers /\ (~stopped => \E s, o \in 0 .. Len(inflight) : Line(s, o))
  BY <1>1 DEF VerdictInv
<1>3. ASSUME NEW c \in Callers, NEW knd \in Kinds, Request(c, knd) PROVE OwnAnswers'
  <2>1. PICK n, ws : n = ops + 1 /\ ws = waiters
    OBVIOUS
  <2> QED
    BY <1>2, <1>3, <2>1, RegisterOwn DEF Request
<1>4. ASSUME NEW c \in Callers, Write(c) PROVE OwnAnswers'
  <2>1. UNCHANGED <<kind, op, fut, from, result>> /\ \A d \in Callers : pc'[d] = "idle" => pc[d] = "idle"
    BY <1>4 DEF Write, LinkTypes
  <2> QED
    BY <1>2, <2>1 DEF OwnAnswers
<1>5. ASSUME NEW c \in Callers, Wake(c) PROVE OwnAnswers'
  BY <1>2, <1>5, WakeOwn
<1>6. ASSUME NEW c \in Callers, WriteFails(c) \/ Cancel(c) PROVE OwnAnswers'
  <2>1. /\ End(c, "error", 0) \/ End(c, "cancelled", 0)
        /\ UNCHANGED <<kind, op>>
    BY <1>6, BrokenOffDoes DEF Next
  <2> QED
    BY <1>2, <2>1, EndOwn
<1>7. CASE Deliver
  BY <1>2, <1>7, DeliverOwn
<1>8. CASE Sample \/ Tick
  BY <1>2, <1>8 DEF Sample, Tick, wait, OwnAnswers
<1>9. CASE Stop
  <2>1. UNCHANGED <<pc, kind, op, from, result>>
    BY <1>9 DEF Stop
  <2>2. \A c \in Callers : fut'[c][Verdict] = "done" => fut[c][Verdict] = "done"
    BY <1>9 DEF Stop, Verdict, AllKeys, AckKeys
  <2> QED
    BY <1>2, <2>1, <2>2 DEF OwnAnswers
<1> QED
  BY <1>3, <1>4, <1>5, <1>6, <1>7, <1>8, <1>9 DEF Next


-----------------------------------------------------------------------------
(* The invariant *)

\* None of the steps makes the line late without a fault.
LEMMA PunctualKept ==
  ASSUME LinkTypes, LinkTypes', FuturesInv, AloneInv, Serial, NotTooLate, Next
  PROVE  NotTooLate' /\ (Punctual /\ faults'["late"] = faults["late"] => Punctual')
<1>1. ASSUME NEW c \in Callers, NEW knd \in Kinds, Request(c, knd)
      PROVE  NotTooLate' /\ (Punctual => Punctual')
  <2>1. inflight' = inflight /\ \A d \in Callers : pc'[d] # "waiting"
    BY <1>1, RequestAlone DEF Request
  <2> QED
    BY <2>1, NobodyWaitsAfter
<1>2. ASSUME NEW c \in Callers, Wake(c) PROVE NotTooLate' /\ (Punctual => Punctual')
  <2>1. inflight' = inflight /\ \A d \in Callers : pc'[d] # "waiting"
    BY <1>2, WakeAlone DEF Wake
  <2> QED
    BY <2>1, NobodyWaitsAfter
<1>3. ASSUME NEW c \in Callers, WriteFails(c) \/ Cancel(c)
      PROVE  NotTooLate' /\ (Punctual => Punctual')
  <2>1. inflight' = inflight /\ \A d \in Callers : pc'[d] = "idle"
    BY <1>3, BrokenOffAlone DEF WriteFails, Cancel, Next
  <2> QED
    BY <2>1, NobodyWaitsAfter
<1> QED
  BY <1>1, <1>2, <1>3, WritePunctual, SamplePunctual, DeliverPunctual, TickPunctual, StopPunctual
     DEF Next

LEMMA DueKept ==
  ASSUME LinkTypes, LinkTypes', FuturesInv, AloneInv, Serial, DueInv, Next
  PROVE  DueInv'
<1>1. NotTooLate' /\ (Punctual /\ faults'["late"] = faults["late"] => Punctual')
  BY PunctualKept DEF DueInv
<1>2. faults["late"] \in Nat /\ faults'["late"] \in Nat
  BY DEF LinkTypes, FaultKinds
<1>3. faults'["late"] = 0 => faults["late"] = 0
  <2>1. CASE faults' = faults
    BY <2>1
  <2>2. ASSUME NEW c \in Callers, Write(c) PROVE faults'["late"] = 0 => faults["late"] = 0
    <3>1. \/ faults' = faults \/ faults'["late"] = faults["late"]
          \/ faults'["late"] = faults["late"] + 1
      BY <2>2, WriteDoes
    <3> QED
      BY <1>2, <3>1
  <2>3. ASSUME NEW c \in Callers, WriteFails(c) \/ Cancel(c) PROVE faults'["late"] = faults["late"]
    BY <2>3, BrokenOffDoes DEF Next
  <2>4. CASE faults' # faults
    BY <2>2, <2>3, <2>4 DEF Next, Request, Wake, Deliver, Sample, Tick, Stop
  <2> QED
    BY <2>1, <2>4
<1> QED
  BY <1>1, <1>2, <1>3 DEF DueInv

LEMMA AloneKept ==
  ASSUME LinkTypes, LinkTypes', FuturesInv, AloneInv, Serial, Next
  PROVE  FuturesInv' /\ AloneInv'
BY RequestAlone, WriteAlone, WakeAlone, BrokenOffAlone, DeliverAlone, StopAlone, TimeAlone DEF Next

LEMMA LossKept ==
  ASSUME LinkTypes, LinkTypes', FuturesInv, AloneInv, Serial, NotTooLate, LossInv, Next
  PROVE  LossInv'
<1>1. CASE Stop
  BY <1>1 DEF Stop, LossInv, Counts
<1> QED
  BY <1>1, RequestLoss, WriteLoss, WakeLoss, BrokenOffLoss, DeliverLoss, SampleLoss, TickLoss DEF Next

LEMMA VerdictKept ==
  ASSUME LinkTypes, LinkTypes', FuturesInv, AloneInv, Serial, NotTooLate, VerdictInv, Next
  PROVE  VerdictInv'
<1>1. /\ Strays \in Nat /\ Strays' \in Nat /\ Strays' >= Strays
      /\ Strays' = Strays => faults'["late"] = faults["late"]
  BY StraysGrow
<1>2. Strays' = 0 => Punctual'
  BY <1>1, PunctualKept DEF VerdictInv
<1>3. ASSUME Strays' <= 1, ~stopped'
      PROVE  Unanswered' /\ \E s, o \in 0 .. Len(inflight') : Line(s, o)'
  <2>1. CASE Stop
    BY <1>3, <2>1 DEF Stop
  <2>2. plan' = plan
    BY DEF Next
  <2> QED
    BY <1>3, <2>1, <2>2, RequestVerdict, WriteVerdict, WakeVerdict, BrokenOffVerdict, DeliverVerdict,
       SampleVerdict, TickVerdict DEF Next
<1>4. Strays' <= 1 => OwnAnswers'
  BY OwnKept
<1> QED
  BY <1>2, <1>3, <1>4 DEF VerdictInv

LEMMA TypesKept ==
  ASSUME LinkTypes, Next
  PROVE  LinkTypes'
BY RequestTypes, WriteTypes, WakeTypes, BrokenOffTypes, DeliverTypes, SampleTypes, TickTypes, StopTypes
   DEF Next

LEMMA LinkInit ==
  ASSUME Init
  PROVE  LinkInv
<1>1. plan.faults \in [FaultKinds -> Nat]
  BY LinkAssumption DEF Init
<1>2. LinkTypes
  <2>1. result \in [Callers -> Results]
    BY DEF Init, None, Results
  <2>2. kind \in [Callers -> Kinds]
    BY DEF Init, Kinds
  <2>3. faults \in [FaultKinds -> Nat] /\ \A f \in FaultKinds : faults[f] <= plan.faults[f]
    BY <1>1 DEF Init
  <2>4. left \in [Callers -> 0 .. Timeout]
    BY LinkAssumption DEF Init
  <2>5. waiters \in [AllKeys -> Seq(Callers)] /\ stale \in [AckKeys -> Seq(Nat)]
    BY DEF Init
  <2>6. writers \in Seq(Callers) /\ inflight \in Seq(Frames)
    BY DEF Init
  <2>7. /\ fut \in [Callers -> [AllKeys -> {"none", "pending", "done", "failed"}]]
        /\ from \in [Callers -> [AllKeys -> Nat]]
        /\ robbed \in [Callers -> [AllKeys -> BOOLEAN]]
    BY DEF Init
  <2>8. /\ pc \in [Callers -> {"idle", "writing", "waiting"}]
        /\ op \in [Callers -> Nat] /\ attempt \in [Callers -> Nat]
        /\ plan \in Plans /\ stopped \in BOOLEAN /\ ops \in Nat /\ timeouts \in Nat /\ samples \in Nat
    BY DEF Init
  <2> QED
    BY <2>1, <2>2, <2>3, <2>4, <2>5, <2>6, <2>7, <2>8 DEF LinkTypes
<1>3. UnaskedInv
  BY DEF Init, UnaskedInv
<1>4. FuturesInv /\ AloneInv /\ AttemptInv
  BY LinkAssumption DEF Init, FuturesInv, AloneInv, OneBusy, Awaited, AttemptInv, None
<1>5. inflight = <<>> /\ Len(inflight) = 0 /\ NobodyWaits
  BY DEF Init, NobodyWaits
<1>6. NotTooLate /\ Punctual
  BY <1>5 DEF NotTooLate, Punctual, NobodyWaits, AllInTime
<1>7. Happened = 0 /\ Strays = 0
  BY DEF Init, Happened, Strays, FaultKinds
<1>8. Owed = 0
  BY DEF Init, Owed, AckKeys
<1>9. Risk = 0
  BY <1>5, <1>6 DEF Risk, Doomed, NobodyWaits
<1>10. LossInv
  BY <1>7, <1>8, <1>9 DEF LossInv, Init
<1>11. Line(0, 0)
  BY <1>5 DEF Line, RobbedOfVerdict, Init
<1>12. Unanswered /\ OwnAnswers
  BY DEF Init, Unanswered, OwnAnswers, Verdict, AllKeys, AckKeys, None
<1>13. VerdictInv
  BY <1>5, <1>6, <1>11, <1>12 DEF VerdictInv
<1> QED
  BY <1>2, <1>3, <1>4, <1>6, <1>10, <1>13 DEF LinkInv, DueInv

LEMMA LinkStep ==
  ASSUME LinkInv, [Next]_vars
  PROVE  LinkInv'
<1>1. CASE Next
  <2>1. LinkTypes' /\ UnaskedInv'
    BY <1>1, TypesKept, UnaskedKept DEF LinkInv
  <2>2. ASSUME Serial
        PROVE  FuturesInv' /\ AloneInv' /\ AttemptInv' /\ DueInv' /\ LossInv' /\ VerdictInv'
    <3>1. LinkTypes /\ FuturesInv /\ AloneInv /\ AttemptInv /\ DueInv /\ NotTooLate /\ LossInv /\ VerdictInv
      BY <2>2 DEF LinkInv, DueInv
    <3> QED
      BY <1>1, <2>1, <2>2, <3>1, AloneKept, AttemptKept, DueKept, LossKept, VerdictKept
  <2>3. Serial' => Serial
    BY <1>1 DEF Next, Serial
  <2> QED
    BY <2>1, <2>2, <2>3 DEF LinkInv
<1>2. CASE vars' = vars
  <2>1. UNCHANGED <<plan, pc, kind, op, attempt, left, fut, from, robbed, waiters, writers, stale,
                    inflight, stopped, result, ops, faults, timeouts, samples>>
    BY <1>2 DEF vars, wait
  <2>2. LinkTypes' /\ UnaskedInv'
    BY <2>1 DEF LinkInv, LinkTypes, UnaskedInv, NoValset
  <2>3. (Serial' => Serial) /\ \A c \in Callers : Keys(c)' = Keys(c)
    BY <2>1 DEF Serial, Keys
  <2>4. FuturesInv' = FuturesInv
    BY <2>1, <2>3 DEF FuturesInv
  <2>5. AloneInv' = AloneInv /\ AttemptInv' = AttemptInv
    BY <2>1 DEF AloneInv, OneBusy, Awaited, AttemptInv
  <2>6. Punctual' = Punctual /\ DueInv' = DueInv
    BY <2>1 DEF DueInv, NotTooLate, Punctual, NobodyWaits, AllInTime, InTime
  <2>7. Risk' = Risk
    <3>1. \A c \in Callers : Doomed(c)' = Doomed(c) /\ Robbed(c)' = Robbed(c)
      BY <2>1, <2>3 DEF Doomed, Robbed, NoAnswer, Expects
    <3> QED
      BY <2>6, <3>1 DEF Risk
  <2>8. LossInv' = LossInv
    BY <2>1, <2>7 DEF LossInv, Counts, Happened, Owed
  <2>9. VerdictInv' = VerdictInv
    <3>1. Strays' = Strays /\ Unanswered' = Unanswered /\ OwnAnswers' = OwnAnswers
      BY <2>1 DEF Strays, Unanswered, OwnAnswers
    <3>2. \A s, o : Line(s, o)' = Line(s, o)
      BY <2>1, <2>6, <3>1 DEF Line, Credit, Mine, RobbedOfVerdict, NobodyWaits
    <3> QED
      BY <2>1, <2>6, <3>1, <3>2 DEF VerdictInv
  <2> QED
    BY <2>2, <2>3, <2>4, <2>5, <2>6, <2>8, <2>9 DEF LinkInv
<1> QED
  BY <1>1, <1>2


\* LinkInv, in every state: a queue holds no one but the request in progress, a
\* frame is late only by a fault, a loss is paid for once, and a verdict on its
\* way is covered by a credit or about the valset that waits for it (request,
\* _deliver, _retire, _spend_stale, for any callers, plans and timings).
THEOREM LinkInvariant == Spec => []LinkInv
<1>1. Init => LinkInv
  BY LinkInit
<1>2. LinkInv /\ [Next]_vars => LinkInv'
  BY LinkStep
<1> QED
  BY <1>1, <1>2, PTL DEF Spec

LEMMA LossBounded ==
  ASSUME LinkInv
  PROVE  LossDoesNotChain
<1>1. SUFFICES ASSUME ~stopped, Serial, faults["late"] = 0 PROVE timeouts <= 2 * Happened
  BY DEF LossDoesNotChain
<1>2. LinkTypes /\ LossInv
  BY <1>1 DEF LinkInv
<1>3. Counts /\ Happened \in Nat
  BY <1>1, <1>2 DEF Counts, Happened, LinkTypes, FaultKinds
<1>4. timeouts \in Nat /\ Owed \in Nat /\ Risk \in 0 .. 2
  BY <1>2, OwedIs, RiskIs DEF LinkTypes
<1> QED
  BY <1>2, <1>3, <1>4 DEF LossInv

\* What timed out is at most twice the faults, of requests made one at a time
\* and answered in time or not at all (the credits of _stale).
THEOREM LossNeverChains == Spec => []LossDoesNotChain
<1>1. LinkInv => LossDoesNotChain
  BY LossBounded
<1> QED
  BY <1>1, LinkInvariant, PTL

LEMMA VerdictsFollow ==
  ASSUME LinkInv, Covered, Retries >= 3
  PROVE  VerdictsStand
<1>1. LossDoesNotChain
  BY LossBounded
<1>2. LinkTypes
  BY DEF LinkInv
<1>3. CASE NoValset
  <2>1. \A c \in Callers : kind[c] = "valset" => pc[c] = "idle" /\ result[c] = None
    BY <1>3 DEF LinkInv, UnaskedInv
  <2>2. OwnVerdict /\ ValsetSurvivesOneFault
    BY <2>1 DEF OwnVerdict, ValsetSurvivesOneFault, None
  <2> QED
    BY <1>1, <2>2 DEF VerdictsStand
<1>4. CASE Serial /\ plan.faults["late"] + plan.faults["cancel"] <= 1
  <2>1. VerdictInv /\ AttemptInv /\ LossInv
    BY <1>4 DEF LinkInv
  <2>2. OwnVerdict
    <3>1. plan.faults \in [FaultKinds -> Nat]
      BY <1>2, LinkAssumption DEF LinkTypes
    <3>2. /\ plan.faults["late"] \in Nat /\ plan.faults["cancel"] \in Nat
          /\ faults["late"] \in Nat /\ faults["cancel"] \in Nat
          /\ faults["late"] <= plan.faults["late"] /\ faults["cancel"] <= plan.faults["cancel"]
      BY <1>2, <3>1 DEF LinkTypes, FaultKinds
    <3>3. Strays <= 1
      BY <1>4, <3>2 DEF Strays
    <3> QED
      BY <2>1, <3>3 DEF VerdictInv, OwnAnswers, OwnVerdict
  <2>3. ValsetSurvivesOneFault
    <3>1. SUFFICES ASSUME Happened <= 1, ~stopped, NEW c \in Callers, pc[c] = "idle",
                          kind[c] = "valset", result[c].outcome = "timeout"
                   PROVE  FALSE
      BY DEF ValsetSurvivesOneFault
    <3>2. Counts /\ Happened \in Nat
      BY <1>2, <3>1 DEF Counts, Happened, LinkTypes, FaultKinds
    <3>3. timeouts \in Nat /\ Owed \in Nat /\ Risk \in 0 .. 2
      BY <1>2, OwedIs, RiskIs DEF LinkTypes
    <3>4. timeouts <= 2
      BY <2>1, <3>1, <3>2, <3>3 DEF LossInv
    <3>5. timeouts >= Retries
      BY <2>1, <3>1 DEF AttemptInv
    <3> QED
      BY <3>3, <3>4, <3>5, LinkAssumption
  <2> QED
    BY <1>1, <2>2, <2>3 DEF VerdictsStand
<1> QED
  BY <1>3, <1>4 DEF Covered

\* A valset returns the verdict on itself, no loss chains and one fault does not
\* fail a valset, wherever requests are made one at a time and at most one of
\* them is late or cancelled, or nobody makes a valset (valset's three attempts).
THEOREM LinkKeepsItsWord ==
  ASSUME Retries >= 3
  PROVE  Spec => [](Covered => VerdictsStand)
<1>1. LinkInv => (Covered => VerdictsStand)
  BY VerdictsFollow
<1> QED
  BY <1>1, LinkInvariant, PTL


=============================================================================
