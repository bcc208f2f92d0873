------------------------------- MODULE WsHub --------------------------------
(***************************************************************************)
(* The WebSocket hub (web/ws.py): one subscription to the bus fanned out   *)
(* to the sockets, each with a bounded outbox, the snapshot a socket       *)
(* starts from, slow and vanishing clients, and the hub's shutdown.        *)
(* A message is the topic it updates (or the set of topics an epoch        *)
(* carries) with the version of the state it shows.                        *)
(***************************************************************************)
EXTENDS Naturals, Sequences, FiniteSets

CONSTANTS
  Sockets,      \* the browsers that connect
  Wants,        \* what a browser may ask for: sets of topics
  BusQueue,     \* BUS_QUEUE_SIZE
  Outbox,       \* SEND_QUEUE_LIMIT
  MaxClients,   \* MAX_WS_CLIENTS
  MaxUpdates

VARIABLES
  state,        \* the live state: a version of each topic
  updates,      \* versions made so far
  backlog,      \* the hub's subscription
  dropped,      \* the subscription lost a message
  reader,       \* the task of _run: "none", "running", "done"
  hub,          \* "open", "hanging up", "joining", "closed"
  client        \* of each socket

vars == <<state, updates, backlog, dropped, reader, hub, client>>

EpochTopics == {"pvt", "rtk"}       \* EPOCH_TOPICS
Topics == EpochTopics \cup {"rf", "span"}

\* A connection: what the browser has been shown, what is queued and in
\* flight for it, and where serve() stands.
Nobody == [at |-> "none", topics |-> {}, outbox |-> <<>>, sending |-> <<>>, shown |-> [t \in {} |-> 0],
           overflowed |-> FALSE, finished |-> FALSE, hungUp |-> FALSE]
Gone == [Nobody EXCEPT !.at = "gone"]

Init ==
  /\ state = [t \in Topics |-> 0] /\ updates = 0
  /\ backlog = <<>> /\ dropped = FALSE
  /\ reader = "none" /\ hub = "open"
  /\ client = [s \in Sockets |-> Nobody]

Clients == {s \in Sockets : client[s].at \in {"served", "ending"}}

\* Mutant: a full outbox loses the message and the client stays.
EnqueueDrops(c, message) ==
  IF c.finished \/ Len(c.outbox) = Outbox THEN c ELSE [c EXCEPT !.outbox = Append(@, message)]

\* _Client.enqueue: never waits, and never drops: a full outbox cuts the
\* client loose.
Enqueue(c, message) ==
  IF c.finished \/ c.overflowed THEN c
  ELSE IF Len(c.outbox) < Outbox THEN [c EXCEPT !.outbox = Append(@, message)]
  ELSE [c EXCEPT !.overflowed = TRUE]

----------------------------------------------------------------------------
\* The store and the other publishers: a new version, and its message.
Publish(topics) ==
  /\ updates < MaxUpdates /\ updates' = updates + 1
  /\ state' = [t \in Topics |-> IF t \in topics THEN updates + 1 ELSE state[t]]
  /\ IF hub # "open"   \* unsubscribed
     THEN UNCHANGED <<backlog, dropped>>
     ELSE LET message == [t \in topics |-> updates + 1]
              full == Len(backlog) = BusQueue
          IN /\ backlog' = Append(IF full THEN Tail(backlog) ELSE backlog, message)
             /\ dropped' = (dropped \/ full)
  /\ UNCHANGED <<reader, hub, client>>

\* websocket_endpoint and the start of serve(): refused before the
\* handshake (websocket_authorized may turn anyone away), refused by a hub
\* that is closed or full, or registered with a snapshot as its first message.
Refused(s) ==
  /\ client[s].at = "none"
  /\ client' = [client EXCEPT ![s] = Gone]
  /\ UNCHANGED <<state, updates, backlog, dropped, reader, hub>>

Start == reader' = IF reader = "none" THEN "running" ELSE reader

Serve(s, wanted) ==
  /\ client[s].at = "none" /\ hub = "open"
  /\ Cardinality(Clients) < MaxClients
  /\ client' = [client EXCEPT ![s] =
       Enqueue([Nobody EXCEPT !.at = "served", !.topics = wanted], state)]
  /\ Start
  /\ UNCHANGED <<state, updates, backlog, dropped, hub>>

\* _dispatch: the clients a message is for, each through its own outbox.  A
\* spectrum goes to a client at most once a second.
DueFor(message, c) ==
  /\ c.at \in {"served", "ending"} /\ ~c.finished
  /\ (DOMAIN message \cap c.topics) # {}

Dispatch ==
  /\ reader = "running" /\ backlog # <<>>
  /\ LET message == Head(backlog)
         due == {s \in Sockets : DueFor(message, client[s])}
         For(s) == [t \in DOMAIN message \cap client[s].topics |-> message[t]]
     IN \E some \in SUBSET due :
          /\ "span" \notin DOMAIN message => some = due
          /\ client' = [s \in Sockets |->
                          IF s \in some THEN Enqueue(client[s], For(s)) ELSE client[s]]
  /\ backlog' = Tail(backlog)
  /\ UNCHANGED <<state, updates, dropped, reader, hub>>

\* _send: one message at a time; a socket may take for ever over it.
Take(s) ==
  /\ client[s].at = "served" /\ client[s].sending = <<>> /\ client[s].outbox # <<>>
  /\ client' = [client EXCEPT ![s].sending = <<Head(client[s].outbox)>>, ![s].outbox = Tail(@)]
  /\ UNCHANGED <<state, updates, backlog, dropped, reader, hub>>

Sent(s) ==
  /\ client[s].at = "served" /\ client[s].sending # <<>>
  /\ client' = [client EXCEPT
       ![s].shown = [t \in Topics |-> IF t \in DOMAIN client[s].sending[1]
                                      THEN client[s].sending[1][t]
                                      ELSE @[t]],   \* the snapshot comes first
       ![s].sending = <<>>]
  /\ UNCHANGED <<state, updates, backlog, dropped, reader, hub>>

\* The browser goes away: both tasks of the socket end.
HangsUp(s) ==
  /\ client[s].at = "served" /\ ~client[s].hungUp
  /\ client' = [client EXCEPT ![s].hungUp = TRUE]
  /\ UNCHANGED <<state, updates, backlog, dropped, reader, hub>>

\* serve(): one of the three tasks ended; the others are cancelled and the
\* fan-out stops.
Wakes(s) ==
  /\ client[s].at = "served" /\ (client[s].overflowed \/ client[s].hungUp)
  /\ client' = [client EXCEPT ![s].at = "ending", ![s].finished = TRUE, ![s].sending = <<>>]
  /\ UNCHANGED <<state, updates, backlog, dropped, reader, hub>>

\* ... then a slow client is told why, which may take for ever too, and the
\* client leaves the hub.
Leaves(s) ==
  /\ client[s].at = "ending"
  /\ client' = [client EXCEPT ![s] = Gone]
  /\ UNCHANGED <<state, updates, backlog, dropped, reader, hub>>

----------------------------------------------------------------------------
\* aclose(): close(), then _hang_up, then the reader.
Close ==
  /\ hub = "open" /\ hub' = "hanging up"
  /\ client' = [s \in Sockets |->
       IF s \in Clients THEN [client[s] EXCEPT !.finished = TRUE] ELSE client[s]]
  /\ UNCHANGED <<state, updates, backlog, dropped, reader>>

\* _hang_up closes each socket; a close() may never return.
ClosesSocket(s) ==
  /\ hub = "hanging up" /\ client[s].at = "served" /\ ~client[s].hungUp
  /\ client' = [client EXCEPT ![s].hungUp = TRUE]
  /\ UNCHANGED <<state, updates, backlog, dropped, reader, hub>>

\* Mutant: without the deadline the hub waits for every socket.
HungUpIdle ==
  /\ hub = "hanging up" /\ Clients = {} /\ hub' = "joining"
  /\ UNCHANGED <<state, updates, backlog, dropped, reader, client>>

\* Everyone has left, or SHUTDOWN_DRAIN_S is over.
HungUp ==
  /\ hub = "hanging up" /\ hub' = "joining"
  /\ UNCHANGED <<state, updates, backlog, dropped, reader, client>>

ReaderEnds ==
  /\ hub # "open" /\ reader = "running" /\ backlog = <<>>
  /\ reader' = "done"
  /\ UNCHANGED <<state, updates, backlog, dropped, hub, client>>

Joined ==
  /\ hub = "joining" /\ reader # "running" /\ hub' = "closed"
  /\ UNCHANGED <<state, updates, backlog, dropped, reader, client>>

Next ==
  \/ \E topics \in {EpochTopics, {"rf"}, {"span"}} : Publish(topics)
  \/ \E s \in Sockets :
       \/ Refused(s) \/ Take(s) \/ Sent(s) \/ HangsUp(s) \/ Wakes(s) \/ Leaves(s)
       \/ ClosesSocket(s)
       \/ \E wanted \in Wants : Serve(s, wanted)
  \/ Dispatch \/ Close \/ HungUp \/ ReaderEnds \/ Joined

\* Sockets and browsers promise nothing; the hub's own tasks do run.
Fairness == WF_vars(Dispatch) /\ WF_vars(HungUp) /\ WF_vars(ReaderEnds) /\ WF_vars(Joined)

----------------------------------------------------------------------------
\* The version of a topic a browser shows once these messages have come, when
\* it shows this one before.
After(messages, topic, version) ==
  LET about == {i \in DOMAIN messages : topic \in DOMAIN messages[i]}
  IN IF about = {} THEN version
     ELSE messages[CHOOSE i \in about : \A j \in about : j <= i][topic]

\* What a socket will have been shown when all that is under way to it
\* arrives, in order.
Coming(s, topic) ==
  LET c == client[s]
      shown == After(c.sending, topic, c.shown[topic])
  IN After(backlog, topic, After(c.outbox, topic, shown))

\* A socket the hub still feeds is never silently out of date: whatever it
\* was sent before, what is in flight for it ends in the present state.  Only
\* the spectrum is thinned out, and only a bus queue that overflowed (which is
\* logged) loses more.  A client that cannot keep up is cut instead.
CurrentOrCut ==
  \A s \in Sockets :
    (client[s].at = "served" /\ ~client[s].finished /\ ~client[s].overflowed /\ ~dropped) =>
      \A t \in client[s].topics \ {"span"} : Coming(s, t) = state[t]

\* The hub's shutdown ends, whatever the sockets do.
ShutdownEnds == hub = "hanging up" ~> hub = "closed"

=============================================================================
