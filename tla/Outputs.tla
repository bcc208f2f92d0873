------------------------------- MODULE Outputs ------------------------------
(***************************************************************************)
(* The rover's NMEA publisher and its sinks (rover/nmea_out.py,            *)
(* json_out.py and sinks.py).  Each epoch is written to every active sink; *)
(* a sink that fails is closed, set aside and started again later, while   *)
(* the others go on.  The TCP sink keeps a buffer per client and drops a   *)
(* client that does not read.  The daemon's supervisor restarts a          *)
(* publisher that fails (module Daemon).                                   *)
(***************************************************************************)
EXTENDS Integers, Sequences, FiniteSets

CONSTANTS
  Sinks,        \* configured sinks, "tcp" among them
  Clients,      \* TCP clients that connect
  MaxClients,   \* NMEA_TCP_MAX_CLIENTS
  Backlog,      \* epochs buffered for a client before it is dropped
  Retry,        \* SINK_RETRY_S in ticks
  MaxFaults,    \* devices that go away
  MaxJoins      \* connections made

VARIABLES
  loop,      \* "off", "starting", "run", "ending", "ended"
  toStart,   \* sinks run() has still to start
  works,     \* sinks whose device or address is there
  isOpen,    \* sinks with an open socket, port or pty
  active,    \* sinks written to
  due,       \* sink -> ticks to its next attempt, NotFailed when it is none
  conn,      \* client -> "out", "in", "gone"
  buffer,    \* client -> epochs not read yet
  got,       \* client -> last epoch it read, None at first
  gap,       \* clients that missed an epoch between two they read
  epoch,     \* number of the next epoch, modulo EpochCycle
  stop,      \* the daemon asked the publisher to stop
  faults, joins

outVars == <<loop, toStart, works, isOpen, active, due, conn, buffer, got, gap, epoch, stop,
             faults, joins>>

NotFailed == -1
None == -1
EpochCycle == Backlog + 3
Listening == "tcp" \in isOpen

Init ==
  /\ loop = "off" /\ toStart = {} /\ works = Sinks /\ isOpen = {} /\ active = {}
  /\ due = [s \in Sinks |-> NotFailed]
  /\ conn = [c \in Clients |-> "out"] /\ buffer = [c \in Clients |-> <<>>]
  /\ got = [c \in Clients |-> None] /\ gap = {} /\ epoch = 0 /\ stop = FALSE
  /\ faults = 0 /\ joins = 0

world == <<works, faults>>
tcp == <<conn, buffer, got, gap, joins>>

\* run: the subscription is taken again and nothing is known of the sinks.
Begin ==
  /\ loop = "off" /\ ~stop
  /\ loop' = "starting" /\ toStart' = Sinks
  /\ active' = {} /\ due' = [s \in Sinks |-> NotFailed]
  /\ UNCHANGED <<world, isOpen, tcp, epoch, stop>>

\* _start: a sink that does not start is due again later.
SetAsideNot(s) == due' = [due EXCEPT ![s] = NotFailed]
SetAside(s) == due' = [due EXCEPT ![s] = Retry]

Started(s) ==
  \/ s \in works /\ isOpen' = isOpen \union {s} /\ active' = active \union {s}
                 /\ due' = [due EXCEPT ![s] = NotFailed]
  \/ s \notin works /\ SetAside(s) /\ UNCHANGED <<isOpen, active>>

StartSink ==
  /\ loop = "starting"
  /\ \E s \in toStart : toStart' = toStart \ {s} /\ Started(s)
  /\ UNCHANGED <<loop, world, tcp, epoch, stop>>

AllStarted ==
  /\ loop = "starting" /\ toStart = {}
  /\ loop' = "run"
  /\ UNCHANGED <<toStart, world, isOpen, active, due, tcp, epoch, stop>>

\* A sink whose time has come is started again, before the epoch is written.
RetryFailed ==
  /\ loop = "run"
  /\ \E s \in Sinks : due[s] = 0 /\ Started(s)
  /\ UNCHANGED <<loop, toStart, world, tcp, epoch, stop>>

\* TcpBroadcastSink.write: a client too far behind is cut off, nothing is
\* ever skipped for it.
Behind == {c \in Clients : conn[c] = "in" /\ Len(buffer[c]) > Backlog}

TcpWrite ==
  /\ conn' = [c \in Clients |-> IF c \in Behind THEN "gone" ELSE conn[c]]
  /\ buffer' = [c \in Clients |->
       IF conn'[c] = "in" THEN Append(buffer[c], epoch) ELSE IF c \in Behind THEN <<>> ELSE buffer[c]]

\* Aborted or closed: what the kernel has not taken is lost.
TcpClose ==
  /\ conn' = [c \in Clients |-> IF conn[c] = "in" THEN "gone" ELSE conn[c]]
  /\ buffer' = [c \in Clients |-> <<>>]

\* Only a serial port's write can fail: the TCP and the UDP sink keep an error
\* to the client or the datagram it is about.
Raises == {"serial"}

\* _publish: every active sink gets the epoch; one that fails is closed and set
\* aside.
Publish ==
  LET bad == (active \ works) \intersect Raises
  IN  /\ loop = "run" /\ ~stop /\ \A s \in Sinks : due[s] # 0
      /\ epoch' = (epoch + 1) % EpochCycle
      /\ active' = active \ bad /\ isOpen' = isOpen \ bad
      /\ due' = [s \in Sinks |-> IF s \in bad THEN Retry ELSE due[s]]
      /\ IF "tcp" \in active THEN TcpWrite ELSE UNCHANGED <<conn, buffer>>
      /\ UNCHANGED <<loop, toStart, world, got, gap, joins, stop>>

Tick ==
  /\ \E s \in Sinks : due[s] > 0
  /\ due' = [s \in Sinks |-> IF due[s] > 0 THEN due[s] - 1 ELSE due[s]]
  /\ UNCHANGED <<loop, toStart, world, isOpen, active, tcp, epoch, stop>>

\* _on_client: past the limit a connection is closed as it comes.
Join(c) ==
  /\ Listening /\ conn[c] # "in" /\ joins < MaxJoins /\ joins' = joins + 1
  /\ conn' = [conn EXCEPT ![c] =
       IF Cardinality({d \in Clients : conn[d] = "in"}) >= MaxClients THEN "gone" ELSE "in"]
  /\ buffer' = [buffer EXCEPT ![c] = <<>>] /\ got' = [got EXCEPT ![c] = None]
  /\ UNCHANGED <<loop, toStart, world, isOpen, active, due, gap, epoch, stop>>

ClientReads(c) ==
  /\ conn[c] = "in" /\ buffer[c] # <<>>
  /\ LET e == Head(buffer[c])
     IN  /\ got' = [got EXCEPT ![c] = e]
         /\ gap' = IF got[c] = None \/ e = (got[c] + 1) % EpochCycle THEN gap ELSE gap \union {c}
  /\ buffer' = [buffer EXCEPT ![c] = Tail(@)]
  /\ UNCHANGED <<loop, toStart, world, isOpen, active, due, conn, joins, epoch, stop>>

ClientLeaves(c) ==
  /\ conn[c] = "in" /\ conn' = [conn EXCEPT ![c] = "gone"]
  /\ buffer' = [buffer EXCEPT ![c] = <<>>]
  /\ UNCHANGED <<loop, toStart, world, isOpen, active, due, got, gap, joins, epoch, stop>>

\* The world: a device goes away or comes back.  A port that went is only
\* noticed when it is next written.
DeviceGoes(s) ==
  /\ s \in works /\ faults < MaxFaults /\ faults' = faults + 1 /\ works' = works \ {s}
  /\ UNCHANGED <<loop, toStart, isOpen, active, due, tcp, epoch, stop>>

DeviceBack(s) ==
  /\ s \notin works /\ works' = works \union {s}
  /\ UNCHANGED <<loop, toStart, isOpen, active, due, tcp, epoch, stop, faults>>

\* The daemon stops: the subscription ends the loop; or run() fails, to be
\* called again by the supervisor.
Stop ==
  /\ ~stop /\ stop' = TRUE
  /\ UNCHANGED <<loop, toStart, world, isOpen, active, due, tcp, epoch>>

Fails ==
  /\ loop = "run" /\ faults < MaxFaults /\ faults' = faults + 1
  /\ loop' = "ending"
  /\ UNCHANGED <<toStart, works, isOpen, active, due, tcp, epoch, stop>>

Stops ==
  /\ loop = "run" /\ stop
  /\ loop' = "ending"
  /\ UNCHANGED <<toStart, world, isOpen, active, due, tcp, epoch, stop>>

\* The active sinks are closed; one that failed was closed then.
End ==
  /\ loop = "ending"
  /\ isOpen' = isOpen \ active /\ active' = {}
  /\ TcpClose
  /\ loop' = IF stop THEN "ended" ELSE "off"
  /\ UNCHANGED <<toStart, world, due, got, gap, joins, epoch, stop>>

Next ==
  \/ Begin \/ StartSink \/ AllStarted \/ RetryFailed \/ Publish \/ Tick \/ Stop \/ Fails \/ Stops \/ End
  \/ \E c \in Clients : Join(c) \/ ClientReads(c) \/ ClientLeaves(c)
  \/ \E s \in Sinks : DeviceGoes(s) \/ DeviceBack(s)

\* The publisher's own steps, epochs that keep coming, time, and devices that
\* come back.
Fairness ==
  /\ WF_outVars(Begin) /\ WF_outVars(StartSink) /\ WF_outVars(AllStarted) /\ WF_outVars(RetryFailed)
  /\ WF_outVars(Publish) /\ WF_outVars(Tick) /\ WF_outVars(Stops) /\ WF_outVars(End)
  /\ \A s \in Sinks : WF_outVars(DeviceBack(s))

Spec == Init /\ [][Next]_outVars /\ Fairness

TypeOK ==
  /\ loop \in {"off", "starting", "run", "ending", "ended"}
  /\ active \subseteq Sinks /\ isOpen \subseteq Sinks /\ works \subseteq Sinks
  /\ due \in [Sinks -> NotFailed..Retry]
  /\ \A c \in Clients : Len(buffer[c]) <= Backlog + 1

\* What is open is owned: the sinks written to are the open ones, each
\* configured sink is written to, waiting for its next attempt or still to be
\* started, none is open once the publisher has ended, and a TCP client reads
\* the epochs without a gap for as long as it stays (NmeaPublisher.run and
\* TcpBroadcastSink.write against devices that go, clients that stall and
\* restarts).
SinksOwned ==
  /\ isOpen = active /\ (loop \in {"off", "ended"} => isOpen = {})
  /\ loop = "run" => \A s \in Sinks : (s \in active) # (due[s] # NotFailed)
  /\ gap = {} /\ Cardinality({c \in Clients : conn[c] = "in"}) <= MaxClients

\* A sink set aside is served again once its device is there, unless the
\* daemon stops.
SinkComesBack == []<>(active = Sinks \/ stop)

=============================================================================
