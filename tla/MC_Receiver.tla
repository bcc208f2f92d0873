---------------------------- MODULE MC_Receiver -----------------------------
(***************************************************************************)
(* What comes and goes at a running daemon: the receiver under its         *)
(* supervision, the ports and clients a rover's position goes out to, and  *)
(* the browsers at the WebSocket hub, checked in one run. They share no    *)
(* variable: `part` chooses which of them a behaviour is about, and the    *)
(* others rest.                                                            *)
(***************************************************************************)
EXTENDS Receiver, FiniteSets

CONSTANTS
  Sinks, TcpClients, MaxTcp, Backlog, Retry, MaxFaults, MaxJoins,  \* of Outputs
  Sockets, Wants, BusQueue, Outbox, MaxSockets, MaxUpdates      \* of WsHub

VARIABLES
  part,       \* what the behaviour is about; never changes
  loop, toStart, works, isOpen, active, due, conn, buffer, got, gap, epoch, outStop,
  faults, joins,
  state, updates, backlog, dropped, reader, hub, client

outVars == <<loop, toStart, works, isOpen, active, due, conn, buffer, got, gap, epoch,
             outStop, faults, joins>>
hubVars == <<state, updates, backlog, dropped, reader, hub, client>>

Outputs == INSTANCE Outputs WITH Clients <- TcpClients, MaxClients <- MaxTcp, stop <- outStop
WsHub == INSTANCE WsHub WITH MaxClients <- MaxSockets

\* SINK_RETRY_S is a time; finitely many clients connect.
ASSUME SinksAssumption ==
  /\ IsFiniteSet(TcpClients) /\ MaxTcp \in Nat /\ Backlog \in Nat /\ Retry \in Nat

\* A browser asks for topics there are; the hub's subscription holds a message.
ASSUME HubAssumption ==
  /\ Wants \subseteq SUBSET WsHub!Topics
  /\ BusQueue \in Nat \ {0}

hostVars == <<plan, plugged, ram, flash, wire, at, stop, link, gen, first, once,
              backoff, reported, failures, op, queue, used, said, fails, swapped>>
allVars == <<part, hostVars, outVars, hubVars>>

BrowserWants == {{"pvt", "rf"}, {"rtk", "span"}}

Active(fa, dr, re, ki) ==
  [strict |-> TRUE, passive |-> FALSE, fixedRetry |-> FALSE,
   faults |-> fa, drops |-> dr, requests |-> re, kinds |-> ki]

ReceiverPlans ==
  { \* a failed configure, a device that goes away, two requests
    Active(1, 1, 2, {"refuse", "silence"}),
    \* resets that wait behind a configure, a device that is replaced
    Active(0, 1, 1, {"reset_queued", "swap"}), Active(1, 0, 2, {"reset_queued", "silence"}),
    \* a scan for a device to listen to, or a replay
    [strict |-> TRUE, passive |-> TRUE, fixedRetry |-> TRUE,
     faults |-> 0, drops |-> 2, requests |-> 0, kinds |-> {}] }

\* A factory reset that waits behind the configure of a session.
ResetPlans == {Active(0, 0, 1, {"reset_queued"})}

\* A supervision that was stopped before it opened the device.
ReceiverRests ==
  /\ plan = Active(0, 0, 0, {}) /\ plugged = TRUE /\ flash = TRUE /\ ram = TRUE /\ wire = FALSE
  /\ at = "ended" /\ stop = TRUE /\ link = "none" /\ gen = 0
  /\ first = TRUE /\ once = FALSE /\ reported = FALSE /\ failures = {}
  /\ backoff = 0 /\ op = [a \in Users |-> Idle] /\ queue = <<>>
  /\ used = [requests |-> 0, faults |-> 0, drops |-> 0]
  /\ said = 0 /\ fails = 0 /\ swapped = FALSE

OutputsRest ==
  /\ loop = "ended" /\ toStart = {} /\ works = Sinks /\ isOpen = {} /\ active = {}
  /\ due = [s \in Sinks |-> Outputs!NotFailed]
  /\ conn = [c \in TcpClients |-> "out"] /\ buffer = [c \in TcpClients |-> <<>>]
  /\ got = [c \in TcpClients |-> Outputs!None] /\ gap = {} /\ epoch = 0 /\ outStop = TRUE
  /\ faults = 0 /\ joins = 0

HubRests ==
  /\ state = [t \in WsHub!Topics |-> 0] /\ updates = 0 /\ backlog = <<>> /\ dropped = FALSE
  /\ reader = "done" /\ hub = "closed" /\ client = [s \in Sockets |-> WsHub!Nobody]

Parts == {"receiver", "out", "hub"}

\* The parts a behaviour is not about stand still in one of their states.
MCInit ==
  /\ part \in Parts
  /\ IF part = "receiver" THEN Init ELSE ReceiverRests
  /\ IF part = "out" THEN Outputs!Init ELSE OutputsRest
  /\ IF part = "hub" THEN WsHub!Init ELSE HubRests

MCNext ==
  /\ UNCHANGED part
  /\ \/ /\ part = "receiver" /\ Next
        /\ UNCHANGED <<outVars, hubVars>>
     \/ /\ part = "out" /\ Outputs!Next
        /\ UNCHANGED <<hostVars, hubVars>>
     \/ /\ part = "hub" /\ WsHub!Next
        /\ UNCHANGED <<hostVars, outVars>>

MCSpec == MCInit /\ [][MCNext]_allVars /\ Fairness /\ Outputs!Fairness /\ WsHub!Fairness

\* Outputs: what is open is owned: the sinks written to are the open ones, each
\* configured sink is written to, waiting for its next attempt or still to be started,
\* none is open once the publisher has ended, and a TCP client reads the epochs without
\* a gap for as long as it stays.
SinksOwned == Outputs!SinksOwned

\* WsHub: a socket the hub still feeds is never silently out of date: whatever it was
\* sent before, what is in flight for it ends in the present state.
CurrentOrCut == WsHub!CurrentOrCut

\* Outputs: a sink set aside is served again once its device is there, unless the
\* daemon stops.
SinkComesBack == Outputs!SinkComesBack

\* WsHub: the hub's shutdown ends, whatever the sockets do.
ShutdownEnds == WsHub!ShutdownEnds

=============================================================================
