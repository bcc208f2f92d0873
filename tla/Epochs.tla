------------------------------- MODULE Epochs -------------------------------
(***************************************************************************)
(* How a stream of messages becomes published epochs: a recording that is  *)
(* replayed, maybe in a loop (FileReplaySource, core/source.py), or a live *)
(* link that drops and comes back, and the store that applies the messages *)
(* and decides where an epoch ends (core/statestore.py).                   *)
(* A message is its kind and the epoch it belongs to; a section of the     *)
(* state is the epoch of the message that last wrote it.                   *)
(***************************************************************************)
EXTENDS Naturals, Sequences, SequencesExt, FiniteSets

CONSTANTS
  Recordings,   \* the streams: each a sequence of epochs, an epoch a sequence of kinds
  Modes,        \* of {"live", "replay", "loop"}
  MaxChunk,     \* MAX_REPLAY_CHUNK, in messages
  EoeMissedLimit, \* EOE_MISSED_LIMIT
  MaxCuts, MaxPasses,
  MaxQueued     \* messages waiting for the store when more are read

VARIABLES
  epochs, mode,
  source,       \* the position in the stream, and the replay's chunk
  queue,        \* the daemon's subscription to frames and link events
  delivered,    \* the messages put on it so far, in order
  link,         \* "up", "down", "ended"
  store,        \* what StateStore remembers
  published,    \* the epochs published
  cuts

vars == <<epochs, mode, source, queue, delivered, link, store, published, cuts>>

Kinds == {"PVT", "DOP", "SAT", "SIG"}
Sections == {"position", "dops", "sats"}

\* The messages of a pass; `id` tells the epochs of two passes apart.
Messages(pass) ==
  FlattenSeq([e \in 1..Len(epochs) |->
    [i \in 1..Len(epochs[e]) |->
       [kind |-> epochs[e][i], itow |-> e, id |-> pass * Len(epochs) + e]]])

None == 0

\* _has_nav_eoe: the marker the head of the file shows seeds the first epoch.
HasNavEoe == "EOE" \in Range(epochs[1])

Init ==
  /\ epochs \in Recordings /\ mode \in Modes
  /\ source = [pos |-> 1, pass |-> 0, eoe |-> HasNavEoe, chunk |-> <<>>]
  /\ queue = <<>> /\ delivered = <<>> /\ link = "up" /\ cuts = 0
  /\ store = [saw |-> FALSE, closed |-> None, missed |-> 0, open |-> None, openId |-> None,
              whole |-> FALSE, section |-> [s \in Sections |-> None],
              sats |-> [itow |-> None, from |-> {}]]
  /\ published = <<>>

----------------------------------------------------------------------------
\* The store.
\* The sections a message writes.
Writes(kind) ==
  CASE kind = "PVT" -> {"position", "dops"}
    [] kind = "DOP" -> {"dops"}
    [] OTHER        -> {"sats"}

\* _epoch_sats: NAV-SAT and NAV-SIG of one epoch are merged, those of
\* another start over.
EpochSats(st, m) ==
  [itow |-> m.itow, from |-> (IF st.sats.itow = m.itow THEN st.sats.from ELSE {}) \cup {m.itow}]

Handler(st, m) ==
  LET wrote == [st EXCEPT !.section =
                  [s \in Sections |-> IF s \in Writes(m.kind) THEN m.id ELSE @[s]]]
  IN IF m.kind \in {"SAT", "SIG"} THEN [wrote EXCEPT !.sats = EpochSats(st, m)] ELSE wrote

ResetEpochInference(st) == [st EXCEPT !.open = None, !.openId = None, !.whole = FALSE, !.missed = 0]

\* _close_epoch: a copy of the state, for the epoch `of`.
Copy(st, of, how) == <<[of |-> of, how |-> how, section |-> st.section, sats |-> st.sats.from]>>

\* _infer_epoch_end, before the message is applied: the store and what it
\* publishes.
InferEpochEnd(st, m) ==
  LET opens == [st EXCEPT !.open = m.itow, !.openId = m.id] IN
  IF m.itow = st.open THEN [to |-> st, out |-> <<>>]
  ELSE IF st.open = None
  THEN [to |-> [opens EXCEPT !.whole = m.kind = "PVT"], out |-> <<>>]
  ELSE IF ~st.saw
  THEN [to |-> [opens EXCEPT !.whole = TRUE],
        out |-> IF st.whole THEN Copy(st, st.openId, "inferred") ELSE <<>>]
  ELSE IF st.open = st.closed
  THEN [to |-> [opens EXCEPT !.whole = TRUE, !.missed = 0], out |-> <<>>]
  ELSE IF st.missed + 1 < EoeMissedLimit
  THEN [to |-> [opens EXCEPT !.whole = TRUE, !.missed = @ + 1], out |-> <<>>]
  ELSE [to |-> [opens EXCEPT !.whole = TRUE, !.missed = 0, !.saw = FALSE],
        out |-> IF st.whole THEN Copy(st, st.openId, "inferred") ELSE <<>>]

NavEoe(st, m) ==
  LET seen == IF st.saw THEN st ELSE ResetEpochInference([st EXCEPT !.saw = TRUE])
  IN [to |-> [seen EXCEPT !.closed = m.itow, !.missed = 0], out |-> Copy(seen, m.id, "eoe")]

\* Mutant: the message is applied before the epoch before it is closed.
ApplyFirst(m) ==
  LET ended == InferEpochEnd(Handler(store, m), m)
      eoe == NavEoe(store, m)
  IN IF m.kind = "EOE"
     THEN store' = eoe.to /\ published' = published \o eoe.out
     ELSE store' = ended.to /\ published' = published \o ended.out

\* apply: one message.
Apply(m) ==
  LET ended == InferEpochEnd(store, m)
      eoe == NavEoe(store, m)
  IN IF m.kind = "EOE"
     THEN store' = eoe.to /\ published' = published \o eoe.out
     ELSE store' = Handler(ended.to, m) /\ published' = published \o ended.out

\* end_of_stream: an inferred epoch that is still open is closed.
EndOfStream ==
  /\ store' = ResetEpochInference(store)
  /\ published' = published \o
       (IF ~store.saw /\ store.open # None /\ store.whole
        THEN Copy(store, store.openId, "inferred") ELSE <<>>)

----------------------------------------------------------------------------
\* The replay.
\* The reader hands a chunk to the framer, which publishes its frames.
Deliver(messages) == queue' = queue \o messages /\ delivered' = delivered \o messages

\* read(): one more message of the chunk.  A NAV-EOE ends it, and a NAV-PVT
\* that no NAV-EOE came before; so does the cap.
Read ==
  /\ mode # "live" /\ link = "up" /\ Len(queue) <= MaxQueued
  /\ source.pos <= Len(Messages(source.pass))
  /\ LET m == Messages(source.pass)[source.pos]
         took == [source EXCEPT !.pos = @ + 1, !.chunk = Append(@, m),
                                !.eoe = m.kind = "EOE" \/ (@ /\ m.kind # "PVT")]
         ends == m.kind = "EOE" \/ (m.kind = "PVT" /\ ~source.eoe)
     IN \/ /\ Len(source.chunk) = MaxChunk
           /\ Deliver(source.chunk)
           /\ source' = [source EXCEPT !.chunk = <<>>]   \* put back: it comes next
        \/ /\ Len(source.chunk) < MaxChunk /\ ends
           /\ Deliver(took.chunk)
           /\ source' = [took EXCEPT !.chunk = <<>>]
        \/ /\ Len(source.chunk) < MaxChunk /\ ~ends
           /\ source' = took /\ UNCHANGED <<queue, delivered>>
  /\ UNCHANGED <<epochs, mode, link, store, published, cuts>>

\* The end of a pass: the tail of the file, then the first message again or
\* the end of the stream.
ReadEnd ==
  /\ mode # "live" /\ link = "up" /\ Len(queue) <= MaxQueued
  /\ source.pos > Len(Messages(source.pass))
  /\ \/ /\ source.chunk # <<>>
        /\ Deliver(source.chunk) /\ source' = [source EXCEPT !.chunk = <<>>]
        /\ UNCHANGED link
     \/ /\ source.chunk = <<>> /\ mode = "loop" /\ source.pass + 1 < MaxPasses
        /\ source' = [source EXCEPT !.pos = 1, !.pass = @ + 1, !.eoe = HasNavEoe]
        /\ UNCHANGED <<link, queue, delivered>>
     \/ /\ source.chunk = <<>> /\ (mode = "replay" \/ source.pass + 1 = MaxPasses)
        /\ link' = "ended" /\ queue' = Append(queue, [kind |-> "ended", itow |-> 0, id |-> 0])
        /\ UNCHANGED <<source, delivered>>
  /\ UNCHANGED <<epochs, mode, store, published, cuts>>

\* A live link: each message arrives by itself.
Receives ==
  /\ mode = "live" /\ link = "up" /\ Len(queue) <= MaxQueued /\ source.pos <= Len(Messages(0))
  /\ Deliver(<<Messages(0)[source.pos]>>)
  /\ source' = [source EXCEPT !.pos = @ + 1]
  /\ UNCHANGED <<epochs, mode, link, store, published, cuts>>

\* It drops, and comes back later in the stream.
Cut ==
  /\ mode = "live" /\ link = "up" /\ cuts < MaxCuts /\ cuts' = cuts + 1
  /\ queue' = Append(queue, [kind |-> "cut", itow |-> 0, id |-> 0])
  /\ \E pos \in source.pos .. Len(Messages(0)) : source' = [source EXCEPT !.pos = pos]
  /\ UNCHANGED <<epochs, mode, delivered, link, store, published>>

\* _state_loop: the next item of the subscription.
Consume ==
  /\ queue # <<>> /\ queue' = Tail(queue)
  /\ CASE Head(queue).kind = "ended" -> EndOfStream
       [] Head(queue).kind = "cut"   -> store' = ResetEpochInference(store) /\ UNCHANGED published
       [] OTHER                      -> Apply(Head(queue))
  /\ UNCHANGED <<epochs, mode, source, delivered, link, cuts>>

Next == Read \/ ReadEnd \/ Receives \/ Cut \/ Consume

----------------------------------------------------------------------------
Delivered(id) == {m.kind : m \in {n \in Range(delivered) : n.id = id}}
WholeEpoch(id) == Kinds \subseteq Delivered(id)
Lossless == \A e \in 1..Len(epochs) : Kinds \subseteq Range(epochs[e])
Lacks(e) == "EOE" \notin Range(epochs[e])

\* In a stream without losses: the epochs a single pass owes its consumers.
\* One that ends without NAV-EOE in a stream that had it is taken for a lost
\* frame; from the second in a row on, their ends are inferred.
Due(e) ==
  \/ ~Lacks(e)
  \/ \A d \in 1..e : Lacks(d)
  \/ e > 2 /\ Lacks(e - 1) /\ (e < Len(epochs) \/ Lacks(e - 2))

\* Every epoch is published at most once and in order; its copy shows nothing
\* of a later epoch and no satellites of two epochs; when all its messages
\* arrived, every section is its own; an inferred epoch is never one that a
\* link change cut.  A replay hands on every message of the file once, and
\* at the end of a pass without losses every epoch that is due was published.
EpochsWhole ==
  /\ \A i, j \in 1..Len(published) : i < j => published[i].of < published[j].of
  /\ \A i \in 1..Len(published) :
       LET p == published[i] IN
       /\ \A s \in Sections : p.section[s] <= p.of
       /\ Cardinality(p.sats) <= 1
       /\ WholeEpoch(p.of) => \A s \in Sections : p.section[s] = p.of
       /\ (Lossless /\ p.how = "inferred") => WholeEpoch(p.of)
  /\ mode # "live" =>
       delivered \o source.chunk =
         FlattenSeq([k \in 1..source.pass |-> Messages(k - 1)])
           \o SubSeq(Messages(source.pass), 1, source.pos - 1)
  /\ (Lossless /\ mode = "replay" /\ link = "ended" /\ queue = <<>>) =>
       {e \in 1..Len(epochs) : Due(e)} \subseteq {published[i].of : i \in 1..Len(published)}

=============================================================================
