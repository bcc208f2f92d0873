---------------------------- MODULE AtomicStore ----------------------------
(***************************************************************************)
(* What the database promises its callers (src/mtrtk/store/db.py,          *)
(* `transaction()`: "one unit"): the file only grows, and by whole units.  *)
(***************************************************************************)
EXTENDS Naturals

CONSTANT Groups  \* the writes of each unit of work; a single write is a unit

VARIABLE stored  \* the writes in the file

Init == stored = {}

\* One commit makes one unit, or several, part of the file.
CommitGroups == \E G \in SUBSET Groups : G # {} /\ stored' = stored \union UNION G

Next == CommitGroups

Spec == Init /\ [][Next]_stored

=============================================================================
