----------------------------- MODULE MC_UbxLink -----------------------------
(* Model-checking instances of UbxLink.                                    *)
EXTENDS UbxLink

MCCallers == {"a", "b"}

Faulty(f, n) == [g \in FaultKinds |-> IF g = f THEN n ELSE 0]

\* The session's configure and a reapply asked for over the API share a lock.
Configure(f, n) ==
  [does |-> [c \in MCCallers |-> {"valset", "valget"}], lock |-> [c \in MCCallers |-> "_configuring"],
   faults |-> Faulty(f, n), samples |-> 0]

\* Polls asked for over the API take no lock, and the receiver may send the
\* polled message on its own.
Polling ==
  [does |-> [c \in MCCallers |-> {"poll"}],
   lock |-> [c \in MCCallers |-> c], faults |-> Faulty("lost", 1), samples |-> 1]

\* Up to three lost answers, one fault of each other kind, and the polls.
MCPlans == {Configure(f, IF f = "lost" THEN 3 ELSE 1) : f \in FaultKinds} \cup {Polling}

\* A reapply and a change of base mode: each holds a lock of its own.
MCTwoLocks ==
  {[does |-> [c \in MCCallers |-> {"valset"}],
    lock |-> [c \in MCCallers |-> IF c = "a" THEN "_configuring" ELSE "_apply_lock"],
    faults |-> Faulty("lost", 1), samples |-> 0]}
=============================================================================
