---------------------------- MODULE MC_Services -----------------------------
(***************************************************************************)
(* What one process does besides its streams, its jobs and the daemon's    *)
(* own start, tasks and teardown, checked in one run: `part` chooses which *)
(* of them a behaviour is about, and the other rests.  They share no       *)
(* variable.                                                               *)
(***************************************************************************)
EXTENDS Jobs

CONSTANTS
  j1, j2, d1,
  Puts, MaxMoves, Plans  \* of Daemon

VARIABLES
  part,       \* what the behaviour is about; never changes
  plan, daemonPhase, stop, db, con, addr, bound, found, rover, daemonTask, client, put,
  putLock, ntripLock, url, env, moves, faults

daemonVars == <<plan, daemonPhase, stop, db, con, addr, bound, found, rover, daemonTask,
                client, put, putLock, ntripLock, url, env, moves, faults>>

Daemon == INSTANCE Daemon WITH phase <- daemonPhase, task <- daemonTask

\* No caster is called like a lock that is free or a client that is not there.
ASSUME PutsAssumption == "free" \notin Puts /\ "none" \notin Puts

hostVars == <<phase, restarts, row, dir, submit, task, cancel, reason, tasks, kinds,
              making, del, announced>>
allVars == <<part, hostVars, daemonVars>>

DaemonPlan(puts, moved, faulty) == [puts |-> puts, moves |-> moved, faults |-> faulty]

\* Two PUTs and a fault, an address that moves twice, and both without faults.
DaemonPlans ==
  {DaemonPlan({"a", "b"}, 0, 1), DaemonPlan({}, 2, 2), DaemonPlan({"a"}, 1, 0)}

\* A daemon that has ended, for the parts that are not about it.
DaemonRests ==
  /\ plan = DaemonPlan({}, 0, 0) /\ daemonPhase = "ended" /\ stop = TRUE /\ db = FALSE
  /\ con = [c \in Daemon!Consumers |-> "done"]
  /\ addr = 0 /\ bound = 0 /\ found = 0 /\ rover = FALSE /\ daemonTask = "none"
  /\ client = [u \in Daemon!Urls |-> "none"]
  /\ put = [p \in Puts |-> Daemon!Idle] /\ putLock = "free" /\ ntripLock = "free"
  /\ url = Daemon!BootUrl /\ env = Daemon!BootUrl /\ moves = 0 /\ faults = 0

Parts == {"jobs", "daemon"}

\* The parts a behaviour is not about stand still in one of their states.
MCInit ==
  /\ part \in Parts
  /\ Init
  /\ IF part = "daemon" THEN Daemon!Init ELSE DaemonRests

MCNext ==
  /\ UNCHANGED part
  /\ \/ /\ part = "jobs" /\ Next
        /\ UNCHANGED <<daemonVars>>
     \/ /\ part = "daemon" /\ Daemon!Next
        /\ UNCHANGED <<hostVars>>

MCSpec == MCInit /\ [][MCNext]_allVars /\ Fairness /\ Daemon!Fairness

\* Daemon: the client that runs is the daemon's own, on the caster that .env and the
\* settings name, whatever the order of requests, hang-ups and the teardown.
ClientOwned == Daemon!ClientOwned

\* Daemon: the server follows its address for as long as it serves, and a stop ends
\* everything.
ServesThenEnds == Daemon!ServesThenEnds

=============================================================================
