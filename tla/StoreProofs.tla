---------------------------- MODULE StoreProofs ----------------------------
(***************************************************************************)
(* Proofs about what is kept on disk: Database, for every set of tasks;    *)
(* Sampler, for every minute, retention and clock; Points, for every set   *)
(* of requests; Backup, for every number of rows, restores and deaths;     *)
(* Export, for every set of exports; Ppk, for every plan of runs and every *)
(* history of the base.                                                    *)
(***************************************************************************)
EXTENDS Stores, SequenceTheorems, FiniteSetTheorems, TLAPS

-----------------------------------------------------------------------------
(* Database *)

Tasks == Units \union Writers
Awaits == {"idle", "begin", "first", "second", "commit", "rollback", "written", "done", "failed",
           "cancelled"}
Statements == {"begin", "first", "second", "commit", "rollback"}
Statement(t, op) == [task |-> t, op |-> op]

DatabaseTypes ==
  /\ databaseAt \in [Tasks -> Awaits]
  /\ lock \in Tasks \union {"free"} /\ txTask \in Units \union {"none"}
  /\ thread \in Seq([task : Tasks, op : Statements])
  /\ inTx \in BOOLEAN /\ dangling \in BOOLEAN

First(t) == Database!Write(t, "first")
UnitOf(t) == {First(t), Database!Write(t, "second")}
WriterWrites == {First(w) : w \in Writers}

\* A task owns the transaction: the connection is its own.  Nobody else has a
\* statement queued, and the open writes are exactly those its position says.
OwnerShape(t) ==
  /\ lock = t /\ inTx
  /\ \/ databaseAt[t] = "first" /\ thread = <<Statement(t, "first")>> /\ open = {}
     \/ databaseAt[t] = "second" /\ thread = <<Statement(t, "second")>> /\ open = {First(t)}
     \/ databaseAt[t] = "commit" /\ thread = <<Statement(t, "commit")>> /\ open = UnitOf(t)
     \/ /\ databaseAt[t] = "rollback" /\ open \subseteq UnitOf(t)
        /\ \/ thread = <<Statement(t, "rollback")>>
           \/ \E op \in {"first", "second"} :
                thread = <<Statement(t, op), Statement(t, "rollback")>>

UnitCommit(s) == s.op = "commit" /\ s.task \in Units

\* A queued statement while nobody owns the transaction: the last one may be
\* the lock holder's, the others are what cancelled tasks left behind.  The
\* COMMIT of a whole unit can only be at the head.
Queued(i) ==
  LET s == thread[i] IN
  /\ \/ s.op = "begin" /\ s.task \in Units
     \/ s.op \in {"first", "commit"} /\ s.task \in Writers
     \/ i = 1 /\ UnitCommit(s) /\ inTx /\ open = UnitOf(s.task)
  /\ \/ databaseAt[s.task] = "cancelled" /\ (s.op = "begin" => dangling)
     \/ i = Len(thread) /\ lock = s.task /\ databaseAt[s.task] = s.op

LastIs(t) ==
  thread # <<>> /\ thread[Len(thread)].task = t /\ databaseAt[t] = thread[Len(thread)].op

FreeShape ==
  /\ \A i \in 1 .. Len(thread) : Queued(i)
  /\ lock # "free" => LastIs(lock)
  /\ inTx => (dangling /\ open \subseteq WriterWrites) \/ (thread # <<>> /\ UnitCommit(thread[1]))

\* A write whose commit() returned is in the file; one that waits for its
\* commit is in the file or in the open transaction.
Durable ==
  /\ \A t \in Tasks : databaseAt[t] = "done" => First(t) \in stored
  /\ \A t \in Writers : databaseAt[t] \in {"written", "commit"} => First(t) \in stored \union open

DatabaseInv ==
  /\ DatabaseTypes
  /\ ~inTx => open = {}
  /\ txTask # "none" => OwnerShape(txTask)
  /\ txTask = "none" => FreeShape
  /\ Durable

\* Tasks are of one kind each, and none is called like a free lock.
TasksDistinct == Units \intersect Writers = {} /\ "free" \notin Tasks /\ "none" \notin Tasks

\* What Append and Tail do to the statements of the thread.
LEMMA ThreadAppend ==
  ASSUME NEW S, NEW q \in Seq(S), NEW e \in S
  PROVE  /\ Append(q, e) \in Seq(S) /\ Append(q, e) # <<>> /\ Len(Append(q, e)) = Len(q) + 1
         /\ Len(q) \in Nat
         /\ \A i \in 1 .. Len(q) : Append(q, e)[i] = q[i]
         /\ Append(q, e)[Len(q) + 1] = e
OBVIOUS

LEMMA ThreadTail ==
  ASSUME NEW S, NEW q \in Seq(S), q # <<>>
  PROVE  /\ Len(q) \in Nat \ {0} /\ Head(q) = q[1] /\ Head(q) \in S
         /\ Tail(q) \in Seq(S) /\ Len(Tail(q)) = Len(q) - 1
         /\ \A i \in 1 .. Len(q) - 1 : Tail(q)[i] = q[i + 1]
OBVIOUS

LEMMA ThreadEmpty ==
  ASSUME NEW S, NEW q \in Seq(S), Len(q) = 0
  PROVE  q = <<>>
OBVIOUS

\* A thread with one or two statements.
LEMMA ShortThreads ==
  ASSUME NEW S, NEW a \in S, NEW b \in S
  PROVE  /\ Append(<<a>>, b) = <<a, b>> /\ Append(<<>>, b) = <<b>>
         /\ <<a>> # <<>> /\ Head(<<a>>) = a /\ Tail(<<a>>) = <<>>
         /\ <<a, b>> # <<>> /\ Head(<<a, b>>) = a /\ Tail(<<a, b>>) = <<b>>
<1> DEFINE p == Append(<<a>>, b)
           q == <<a, b>>
<1>1. p = q
  <2>1. p \in Seq(S) /\ q \in Seq(S) /\ Len(p) = 2 /\ Len(q) = 2
    OBVIOUS
  <2>2. \A i \in 1 .. 2 : p[i] = q[i]
    <3>1. p[1] = a /\ p[2] = b
      OBVIOUS
    <3>2. q[1] = a /\ q[2] = b
      OBVIOUS
    <3>3. QED
      BY <3>1, <3>2
  <2> HIDE DEF p, q
  <2>3. QED
    BY <2>1, <2>2, SeqEqual
<1>2. Append(<<>>, b) = <<b>> /\ Tail(<<a>>) = <<>> /\ Tail(<<a, b>>) = <<b>>
  OBVIOUS
<1>3. QED
  BY <1>1, <1>2

Ops == [task : Tasks, op : Statements]

\* A task takes the free lock and queues a statement behind what cancelled
\* tasks left.
LEMMA DatabaseAsk ==
  ASSUME TasksDistinct, DatabaseInv, NEW t \in Tasks, NEW op \in Statements,
         lock = "free", databaseAt[t] # "cancelled", lock' = t, Database!Asks(t, op),
         UNCHANGED <<txTask, inTx, open, stored, dangling>>,
         \/ op = "begin" /\ t \in Units
         \/ op = "first" /\ t \in Writers
         \/ op = "commit" /\ t \in Writers /\ databaseAt[t] = "written"
  PROVE  DatabaseInv'
<1> DEFINE s == Statement(t, op)
<1>1. txTask = "none" /\ FreeShape
  BY DEF DatabaseInv, DatabaseTypes, OwnerShape, TasksDistinct, Tasks
<1>2. /\ thread \in Seq(Ops) /\ s \in Ops /\ s.task = t /\ s.op = op /\ thread' = Append(thread, s)
      /\ databaseAt' = [databaseAt EXCEPT ![t] = op] /\ databaseAt \in [Tasks -> Awaits]
  BY DEF DatabaseInv, DatabaseTypes, Ops, Statement, Database!Asks
<1>3. /\ thread' \in Seq(Ops) /\ thread' # <<>> /\ Len(thread') = Len(thread) + 1
      /\ Len(thread) \in Nat
      /\ \A i \in 1 .. Len(thread) : thread'[i] = thread[i]
      /\ thread'[Len(thread')] = s
  BY <1>2, ThreadAppend
<1>4. databaseAt'[t] = op /\ \A u \in Tasks \ {t} : databaseAt'[u] = databaseAt[u]
  BY <1>2
<1>5. DatabaseTypes'
  BY <1>2, <1>3 DEF DatabaseInv, DatabaseTypes, Ops, Statements, Awaits, TasksDistinct, Tasks
<1>6. ASSUME NEW i \in 1 .. Len(thread) PROVE Queued(i)'
  <2>1. thread'[i] = thread[i] /\ thread[i] \in Ops
    BY <1>2, <1>3
  <2>2. Queued(i)
    BY <1>1 DEF FreeShape
  <2>3. databaseAt[thread[i].task] = "cancelled"
    BY <2>1, <2>2 DEF Queued, Ops, TasksDistinct
  <2>4. databaseAt'[thread[i].task] = "cancelled"
    BY <1>4, <2>1, <2>3 DEF Ops
  <2>5. QED
    BY <2>1, <2>2, <2>3, <2>4 DEF Queued
<1>7. ASSUME NEW i \in Nat, i = Len(thread) + 1 PROVE Queued(i)'
  BY <1>2, <1>3, <1>4, <1>7 DEF Queued
<1>8. LastIs(lock)'
  BY <1>2, <1>3, <1>4 DEF LastIs
<1>9. thread # <<>> => thread'[1] = thread[1]
  BY <1>2, <1>3, ThreadTail
<1>10. FreeShape'
  <2>1. ASSUME NEW i \in 1 .. Len(thread') PROVE Queued(i)'
    BY <1>3, <1>6, <1>7
  <2>2. WriterWrites' = WriterWrites /\ (thread # <<>> => UnitCommit(thread'[1]) = UnitCommit(thread[1]))
    BY <1>9 DEF WriterWrites, First, Database!Write
  <2>3. QED
    BY <1>1, <1>3, <1>8, <2>1, <2>2 DEF FreeShape, UnitCommit
<1>11. Durable'
  BY <1>4 DEF Durable, DatabaseInv, DatabaseTypes, Tasks, Statements, First
<1>12. QED
  BY <1>1, <1>5, <1>10, <1>11 DEF DatabaseInv

\* A task is cancelled.  The owner of the transaction queues a rollback, or
\* leaves the COMMIT of its whole unit behind.
LEMMA DatabaseCancel ==
  ASSUME TasksDistinct, DatabaseInv, NEW t \in Tasks, Database!Cancelled(t)
  PROVE  DatabaseInv'
<1> USE DEF DatabaseTypes, Tasks, TasksDistinct
<1>1. /\ databaseAt \in [Tasks -> Awaits] /\ thread \in Seq(Ops) /\ txTask \in Units \union {"none"}
      /\ databaseAt[t] \notin {"idle", "done", "failed", "rollback", "cancelled"}
      /\ UNCHANGED <<inTx, open, stored>> /\ (dangling => dangling')
      /\ dangling' \in BOOLEAN /\ (databaseAt[t] = "begin" => dangling')
  BY DEF DatabaseInv, Database!Cancelled, Database!file, Ops
<1>2. CASE txTask = t /\ databaseAt[t] # "commit"
  <2>1. OwnerShape(t)
    BY <1>2 DEF DatabaseInv
  <2>2. /\ thread' = Append(thread, Statement(t, "rollback"))
        /\ databaseAt' = [databaseAt EXCEPT ![t] = "rollback"] /\ UNCHANGED <<lock, txTask>>
    BY <1>2 DEF Database!Cancelled, Database!Owns, Database!Asks, Statement
  <2>3. Statement(t, "rollback") \in Ops
    BY DEF Statement, Ops, Statements
  <2>4. DatabaseTypes'
    BY <1>1, <2>2, <2>3, ThreadAppend DEF DatabaseInv, Awaits, Ops
  <2>5. OwnerShape(t)'
    <3>1. /\ databaseAt[t] \in {"first", "second"} /\ open \subseteq UnitOf(t)
          /\ thread = <<Statement(t, databaseAt[t])>>
      BY <1>1, <1>2, <2>1 DEF OwnerShape, UnitOf
    <3>2. thread' = <<Statement(t, databaseAt[t]), Statement(t, "rollback")>>
      <4>1. Statement(t, databaseAt[t]) \in Ops
        BY <3>1 DEF Statement, Ops, Statements
      <4>2. PICK a \in Ops, b \in Ops : a = Statement(t, databaseAt[t]) /\ b = Statement(t, "rollback")
        BY <2>3, <4>1
      <4>3. Append(<<a>>, b) = <<a, b>>
        BY ShortThreads
      <4>4. QED
        BY <2>2, <3>1, <4>2, <4>3
    <3>3. databaseAt'[t] = "rollback" /\ UnitOf(t)' = UnitOf(t)
      BY <1>1, <2>2 DEF UnitOf, First
    <3>4. QED
      BY <1>1, <2>1, <2>2, <3>1, <3>2, <3>3 DEF OwnerShape
  <2>6. Durable'
    BY <1>1, <2>2 DEF DatabaseInv, Durable, First
  <2>7. QED
    BY <1>1, <1>2, <2>2, <2>4, <2>5, <2>6 DEF DatabaseInv
<1>3. CASE ~(txTask = t /\ databaseAt[t] # "commit")
  <2>1. /\ databaseAt' = [databaseAt EXCEPT ![t] = "cancelled"]
        /\ lock' = IF lock = t THEN "free" ELSE lock
        /\ txTask' = IF txTask = t THEN "none" ELSE txTask
        /\ thread' = thread
    BY <1>3 DEF Database!Cancelled, Database!Owns
  <2>2. DatabaseTypes'
    BY <1>1, <2>1 DEF DatabaseInv, Awaits
  <2>3. Durable'
    BY <1>1, <2>1 DEF DatabaseInv, Durable, First
  <2>4. CASE txTask = t
    <3>1. OwnerShape(t) /\ databaseAt[t] = "commit" /\ txTask' = "none" /\ lock' = "free"
      BY <1>3, <2>1, <2>4 DEF DatabaseInv, OwnerShape
    <3>2. thread = <<Statement(t, "commit")>> /\ open = UnitOf(t) /\ inTx
      BY <3>1 DEF OwnerShape
    <3>3. Len(thread) = 1 /\ thread[1].op = "commit" /\ thread[1].task = t /\ t \in Units
      BY <1>1, <2>4, <3>2 DEF Statement
    <3>4. FreeShape'
      BY <1>1, <2>1, <3>1, <3>2, <3>3 DEF FreeShape, Queued, UnitCommit, UnitOf, First
    <3>5. QED
      BY <1>1, <2>2, <2>3, <3>1, <3>4 DEF DatabaseInv
  <2>5. CASE txTask # t /\ txTask # "none"
    <3>1. OwnerShape(txTask) /\ txTask' = txTask /\ txTask \in Tasks
      BY <1>1, <2>1, <2>5 DEF DatabaseInv
    <3>2. databaseAt'[txTask] = databaseAt[txTask] /\ lock' = lock
      BY <1>1, <2>1, <2>5, <3>1 DEF OwnerShape
    <3>3. OwnerShape(txTask)'
      BY <1>1, <2>1, <3>1, <3>2 DEF OwnerShape, UnitOf, First
    <3>4. QED
      BY <1>1, <2>2, <2>3, <2>5, <3>1, <3>3 DEF DatabaseInv
  <2>6. CASE txTask = "none"
    <3>1. FreeShape /\ txTask' = "none"
      BY <2>1, <2>6 DEF DatabaseInv
    <3>2. ASSUME NEW i \in 1 .. Len(thread) PROVE Queued(i)'
      <4>1. Queued(i) /\ thread[i].task \in Tasks /\ thread'[i] = thread[i]
        <5>1. thread[i] \in Ops
          BY <1>1
        <5>2. QED
          BY <2>1, <3>1, <5>1 DEF FreeShape, Ops
      <4>2. CASE thread[i].task = t
        <5>1. databaseAt[t] = thread[i].op
          BY <1>1, <4>1, <4>2 DEF Queued
        <5>2. databaseAt'[t] = "cancelled" /\ (thread[i].op = "begin" => dangling')
          BY <1>1, <2>1, <5>1
        <5>3. QED
          BY <1>1, <4>1, <4>2, <5>2 DEF Queued, UnitCommit, UnitOf, First
      <4>3. CASE thread[i].task # t
        <5>1. databaseAt'[thread[i].task] = databaseAt[thread[i].task]
          BY <1>1, <2>1, <4>1, <4>3
        <5>2. lock = thread[i].task => lock' = lock
          BY <2>1, <4>3
        <5>3. QED
          BY <1>1, <2>1, <4>1, <5>1, <5>2 DEF Queued, UnitCommit, UnitOf, First
      <4>4. QED
        BY <4>2, <4>3
    <3>3. lock' # "free" => LastIs(lock)'
      BY <1>1, <2>1, <3>1 DEF FreeShape, LastIs, DatabaseInv
    <3>4. FreeShape'
      BY <1>1, <2>1, <3>1, <3>2, <3>3 DEF FreeShape, UnitCommit, WriterWrites, First
    <3>5. QED
      BY <1>1, <2>2, <2>3, <3>1, <3>4 DEF DatabaseInv
  <2>7. QED
    BY <2>4, <2>5, <2>6
<1>4. QED
  BY <1>2, <1>3

\* The file gains whole units, or nothing.
Grows == stored' = stored \/ Database!AllOrNothing!CommitGroups

\* A unit, a single write, or the single writes of several tasks.
LEMMA WholeUnits ==
  /\ \A t \in Units : stored' = stored \union UnitOf(t) => Grows
  /\ \A w \in Writers : stored' = stored \union {First(w)} => Grows
  /\ \A W \in SUBSET WriterWrites : stored' = stored \union W => Grows
<1> DEFINE Groups == {{Database!Write(t, "first"), Database!Write(t, "second")} : t \in Units}
                     \union {{Database!Write(t, "first")} : t \in Writers}
<1>1. Grows <=> stored' = stored \/ \E G \in SUBSET Groups : G # {} /\ stored' = stored \union UNION G
  BY DEF Grows, Database!AllOrNothing!CommitGroups
<1>2. ASSUME NEW g \in Groups, stored' = stored \union g PROVE Grows
  <2>1. {g} \in SUBSET Groups /\ {g} # {} /\ UNION {g} = g
    OBVIOUS
  <2>2. QED
    BY <1>1, <1>2, <2>1
<1>3. \A t \in Units : UnitOf(t) \in Groups
  BY DEF UnitOf, First
<1>4. \A w \in Writers : {First(w)} \in Groups
  BY DEF First
<1>5. ASSUME NEW W \in SUBSET WriterWrites, stored' = stored \union W PROVE Grows
  <2> DEFINE G == {{x} : x \in W}
  <2>1. UNION G = W
    OBVIOUS
  <2>2. G \in SUBSET Groups
    BY <1>4 DEF WriterWrites
  <2>3. CASE W = {}
    BY <1>5, <2>3 DEF Grows
  <2>4. CASE W # {}
    <3>1. G # {}
      BY <2>4
    <3> HIDE DEF G
    <3>2. QED
      BY <1>1, <1>5, <2>1, <2>2, <3>1
  <2>5. QED
    BY <2>3, <2>4
<1>6. QED
  BY <1>2, <1>3, <1>4, <1>5

\* The thread runs a statement of the task that owns the transaction: its next
\* write, its COMMIT, its rollback, or the write it was cancelled in.
LEMMA DatabaseOwnerRuns ==
  ASSUME TasksDistinct, DatabaseInv, NEW u \in Units, txTask = u, Database!Runs
  PROVE  DatabaseInv' /\ Grows
<1>1. /\ u \in Tasks /\ u \notin Writers /\ u # "none" /\ OwnerShape(u)
      /\ databaseAt \in [Tasks -> Awaits] /\ lock = u /\ inTx /\ dangling' = dangling
      /\ dangling \in BOOLEAN
  BY DEF DatabaseInv, DatabaseTypes, TasksDistinct, Tasks, OwnerShape, Database!Runs
<1>2. \A op \in Statements : /\ Statement(u, op) \in Ops
                             /\ Statement(u, op).task = u /\ Statement(u, op).op = op
  BY <1>1 DEF Statement, Ops
<1>3. /\ UnitOf(u)' = UnitOf(u) /\ First(u) \in UnitOf(u)
      /\ UnitOf(u) = {First(u)} \union {Database!Write(u, "second")}
  BY DEF UnitOf, First
\* What the case proves of the step is enough.
<1>4. ASSUME NEW op \in Statements, databaseAt' = [databaseAt EXCEPT ![u] = op],
             thread' \in Seq(Ops), lock' = lock, txTask' = txTask, inTx' = inTx, stored' = stored,
             OwnerShape(u)'
      PROVE  DatabaseInv' /\ Grows
  <2>1. DatabaseTypes'
    BY <1>1, <1>4 DEF DatabaseInv, DatabaseTypes, Awaits, Statements, Ops
  <2>2. \A t \in Writers : databaseAt[t] \in {"written", "commit"} => First(t) \in stored
    <3>1. ASSUME NEW t \in Writers, databaseAt[t] \in {"written", "commit"} PROVE First(t) \notin open
      <4>1. t # u
        BY <1>1
      <4>2. open \subseteq UnitOf(u)
        BY <1>1, <1>3 DEF OwnerShape
      <4>3. QED
        BY <4>1, <4>2 DEF UnitOf, First, Database!Write
    <3>2. QED
      BY <3>1 DEF DatabaseInv, Durable
  <2>3. Durable'
    BY <1>1, <1>4, <2>2 DEF DatabaseInv, Durable, First, Tasks, Statements
  <2>4. QED
    BY <1>1, <1>4, <2>1, <2>3 DEF DatabaseInv, Grows
\* The transaction ends with every write of the unit in the file, or with none.
<1>5. ASSUME NEW where \in {"done", "failed"}, databaseAt' = [databaseAt EXCEPT ![u] = where],
             thread' = <<>>, lock' = "free", txTask' = "none", inTx' = FALSE, open' = {},
             \/ where = "done" /\ stored' = stored \union UnitOf(u)
             \/ where = "failed" /\ stored' = stored
      PROVE  DatabaseInv' /\ Grows
  <2>1. DatabaseTypes'
    <3>1. thread' \in Seq([task : Tasks, op : Statements])
      BY <1>5
    <3>2. databaseAt' \in [Tasks -> Awaits]
      BY <1>1, <1>5 DEF Awaits
    <3>3. QED
      BY <1>1, <1>5, <3>1, <3>2 DEF DatabaseTypes
  <2>2. \A t \in Writers : databaseAt[t] \in {"written", "commit"} => First(t) \in stored
    <3>1. ASSUME NEW t \in Writers, databaseAt[t] \in {"written", "commit"} PROVE First(t) \notin open
      <4>1. t # u
        BY <1>1
      <4>2. open \subseteq UnitOf(u)
        BY <1>1, <1>3 DEF OwnerShape
      <4>3. QED
        BY <4>1, <4>2 DEF UnitOf, First, Database!Write
    <3>2. QED
      BY <3>1 DEF DatabaseInv, Durable
  <2>3. Durable'
    BY <1>1, <1>3, <1>5, <2>2 DEF DatabaseInv, Durable, First, Tasks
  <2>4. FreeShape'
    BY <1>5 DEF FreeShape
  <2>5. Grows
    BY <1>1, <1>5, WholeUnits DEF Grows
  <2>6. QED
    BY <1>5, <2>1, <2>3, <2>4, <2>5 DEF DatabaseInv
<1>single. ASSUME NEW op \in Statements, thread = <<Statement(u, op)>>
           PROVE  Database!Op = op /\ Database!Who = u /\ Tail(thread) = <<>>
  BY <1>2, <1>single, ShortThreads DEF Database!Op, Database!Who
<1>6. CASE databaseAt[u] = "first"
  <2>1. /\ thread = <<Statement(u, "first")>> /\ open = {}
        /\ Database!Op = "first" /\ Database!Who = u /\ Tail(thread) = <<>>
    <3>1. thread = <<Statement(u, "first")>> /\ open = {}
      BY <1>1, <1>6 DEF OwnerShape
    <3>2. QED
      BY <1>single, <3>1 DEF Statements
  <2>2. CASE Database!Fails /\ Database!AfterError(u) /\ UNCHANGED <<inTx, open, stored>>
    <3>1. thread' = <<Statement(u, "rollback")>> /\ databaseAt' = [databaseAt EXCEPT ![u] = "rollback"]
          /\ lock' = lock /\ txTask' = txTask
      BY <1>1, <1>2, <2>1, <2>2, ShortThreads DEF Database!AfterError, Database!Owns, Statement, Statements
    <3>2. OwnerShape(u)' /\ thread' \in Seq(Ops)
      BY <1>1, <1>2, <1>3, <2>1, <2>2, <3>1 DEF OwnerShape, Statements
    <3>3. QED
      BY <1>4, <2>2, <3>1, <3>2 DEF Statements
  <2>3. CASE Database!Effect /\ Database!Resume(u)
    <3>1. /\ thread' = <<Statement(u, "second")>> /\ databaseAt' = [databaseAt EXCEPT ![u] = "second"]
          /\ lock' = lock /\ txTask' = txTask
      BY <1>1, <1>2, <2>1, <2>3, ShortThreads
         DEF Database!Resume, Database!Continue, Database!CommitInside, Database!Owns, Statement, Statements
    <3>2. open' = {First(u)} /\ inTx' = inTx /\ stored' = stored
      BY <1>1, <2>1, <2>3 DEF Database!Effect, First
    <3>3. OwnerShape(u)' /\ thread' \in Seq(Ops)
      BY <1>1, <1>2, <3>1, <3>2 DEF OwnerShape, Statements, First
    <3>4. QED
      BY <1>4, <3>1, <3>2, <3>3 DEF Statements
  <2>4. QED
    BY <1>6, <2>1, <2>2, <2>3 DEF Database!Runs, Database!file
<1>7. CASE databaseAt[u] = "second"
  <2>1. /\ thread = <<Statement(u, "second")>> /\ open = {First(u)}
        /\ Database!Op = "second" /\ Database!Who = u /\ Tail(thread) = <<>>
    <3>1. thread = <<Statement(u, "second")>> /\ open = {First(u)}
      BY <1>1, <1>7 DEF OwnerShape
    <3>2. QED
      BY <1>single, <3>1 DEF Statements
  <2>2. CASE Database!Fails /\ Database!AfterError(u) /\ UNCHANGED <<inTx, open, stored>>
    <3>1. thread' = <<Statement(u, "rollback")>> /\ databaseAt' = [databaseAt EXCEPT ![u] = "rollback"]
          /\ lock' = lock /\ txTask' = txTask
      BY <1>1, <1>2, <2>1, <2>2, ShortThreads DEF Database!AfterError, Database!Owns, Statement, Statements
    <3>2. OwnerShape(u)' /\ thread' \in Seq(Ops)
      BY <1>1, <1>2, <1>3, <2>1, <2>2, <3>1 DEF OwnerShape, Statements
    <3>3. QED
      BY <1>4, <2>2, <3>1, <3>2 DEF Statements
  <2>3. CASE Database!Effect /\ Database!Resume(u)
    <3>1. /\ thread' = <<Statement(u, "commit")>> /\ databaseAt' = [databaseAt EXCEPT ![u] = "commit"]
          /\ lock' = lock /\ txTask' = txTask
      BY <1>1, <1>2, <2>1, <2>3, ShortThreads
         DEF Database!Resume, Database!Continue, Statement, Statements
    <3>2. open' = UnitOf(u) /\ inTx' = inTx /\ stored' = stored
      BY <1>1, <1>3, <2>1, <2>3 DEF Database!Effect
    <3>3. OwnerShape(u)' /\ thread' \in Seq(Ops)
      BY <1>1, <1>2, <1>3, <3>1, <3>2 DEF OwnerShape, Statements
    <3>4. QED
      BY <1>4, <3>1, <3>2, <3>3 DEF Statements
  <2>4. QED
    BY <1>7, <2>1, <2>2, <2>3 DEF Database!Runs, Database!file
<1>8. CASE databaseAt[u] = "commit"
  <2>1. /\ thread = <<Statement(u, "commit")>> /\ open = UnitOf(u)
        /\ Database!Op = "commit" /\ Database!Who = u /\ Tail(thread) = <<>>
    <3>1. thread = <<Statement(u, "commit")>> /\ open = UnitOf(u)
      BY <1>1, <1>8 DEF OwnerShape
    <3>2. QED
      BY <1>single, <3>1 DEF Statements
  <2>2. Database!Effect /\ Database!Resume(u)
    BY <1>8, <2>1 DEF Database!Runs, Database!Fails
  <2>3. /\ databaseAt' = [databaseAt EXCEPT ![u] = "done"] /\ lock' = "free" /\ thread' = <<>>
        /\ txTask' = "none"
    BY <1>1, <2>1, <2>2 DEF Database!Resume, Database!Leaves, Database!Owns
  <2>4. inTx' = FALSE /\ open' = {} /\ stored' = stored \union UnitOf(u)
    BY <2>1, <2>2 DEF Database!Effect
  <2>5. QED
    BY <1>5, <2>3, <2>4
<1>9. CASE databaseAt[u] = "rollback" /\ thread = <<Statement(u, "rollback")>>
  <2>1. Database!Op = "rollback" /\ Database!Who = u /\ Tail(thread) = <<>>
    BY <1>1, <1>2, <1>9, ShortThreads DEF Statements, Database!Op, Database!Who
  <2>2. Database!Effect /\ Database!Resume(u)
    BY <1>9, <2>1 DEF Database!Runs, Database!Fails
  <2>3. /\ databaseAt' = [databaseAt EXCEPT ![u] = "failed"] /\ lock' = "free" /\ thread' = <<>>
        /\ txTask' = "none"
    BY <1>1, <2>1, <2>2 DEF Database!Resume, Database!Leaves
  <2>4. inTx' = FALSE /\ open' = {} /\ stored' = stored
    BY <2>1, <2>2 DEF Database!Effect
  <2>5. QED
    BY <1>5, <2>3, <2>4
<1>10. ASSUME databaseAt[u] = "rollback", NEW op \in {"first", "second"},
              thread = <<Statement(u, op), Statement(u, "rollback")>>
       PROVE  DatabaseInv' /\ Grows
  <2>1. /\ Database!Op = op /\ Database!Who = u /\ Tail(thread) = <<Statement(u, "rollback")>>
        /\ op \in Statements /\ open \subseteq UnitOf(u)
    BY <1>1, <1>2, <1>10, ShortThreads DEF OwnerShape, Statements, Database!Op, Database!Who
  <2>2. thread' = Tail(thread) /\ UNCHANGED <<databaseAt, lock, txTask>>
    BY <1>10, <2>1 DEF Database!Runs
  <2>3. open' \subseteq UnitOf(u) /\ UNCHANGED <<inTx, stored>>
    BY <1>1, <2>1 DEF Database!Runs, Database!Effect, Database!file, UnitOf, First
  <2>4. databaseAt' = [databaseAt EXCEPT ![u] = "rollback"]
    BY <1>1, <1>10, <2>2
  <2>5. OwnerShape(u)' /\ thread' \in Seq(Ops)
    BY <1>1, <1>2, <1>3, <1>10, <2>1, <2>2, <2>3 DEF OwnerShape, Statements
  <2>6. QED
    BY <1>4, <2>2, <2>3, <2>4, <2>5 DEF Statements
<1>11. QED
  BY <1>1, <1>6, <1>7, <1>8, <1>9, <1>10 DEF OwnerShape

\* The thread runs a statement while nobody owns the transaction: one that a
\* cancelled task left, or the only one left, its task waiting for it.
LEMMA DatabaseFreeRuns ==
  ASSUME TasksDistinct, DatabaseInv, txTask = "none", Database!Runs,
         NEW t, NEW op, t = Database!Who, op = Database!Op
  PROVE  DatabaseInv' /\ Grows
<1>1. /\ FreeShape /\ thread \in Seq(Ops) /\ thread # <<>> /\ dangling' = dangling
      /\ databaseAt \in [Tasks -> Awaits] /\ lock \in Tasks \union {"free"}
      /\ inTx \in BOOLEAN /\ dangling \in BOOLEAN
  BY DEF DatabaseInv, DatabaseTypes, Database!Runs, Ops
<1>2. /\ Len(thread) \in Nat \ {0} /\ Tail(thread) \in Seq(Ops) /\ Len(Tail(thread)) = Len(thread) - 1
      /\ \A i \in 1 .. Len(thread) - 1 : Tail(thread)[i] = thread[i + 1]
      /\ thread[1] = Head(thread) /\ Head(thread) \in Ops
  BY <1>1, ThreadTail
<1>3. thread[1].task = t /\ thread[1].op = op /\ t \in Tasks /\ Queued(1) /\ t # "none"
  BY <1>1, <1>2 DEF Database!Who, Database!Op, FreeShape, Ops, TasksDistinct
<1>4. databaseAt[t] = op => lock = t /\ Tail(thread) = <<>>
  <2>1. SUFFICES ASSUME databaseAt[t] = op PROVE lock = t /\ Len(thread) = 1
    BY <1>2, ThreadEmpty
  <2>2. op # "cancelled"
    BY <1>2, <1>3 DEF Ops, Statements
  <2>3. QED
    BY <1>3, <2>1, <2>2 DEF Queued
\* Nobody waited for it.
<1>left. ASSUME databaseAt[t] # op, thread' = Tail(thread), UNCHANGED <<databaseAt, lock, txTask>>,
                inTx' \in BOOLEAN, inTx' => dangling /\ open' \subseteq WriterWrites,
                ~inTx' => open' = {}, stored \subseteq stored',
                stored \union open \subseteq stored' \union open'
         PROVE  DatabaseInv'
  <2>1. DatabaseTypes'
    BY <1>1, <1>2, <1>left DEF DatabaseInv, DatabaseTypes, Ops
  <2>2. ASSUME NEW i \in 1 .. Len(thread') PROVE Queued(i)'
    <3>1. i + 1 \in 1 .. Len(thread) /\ i + 1 # 1 /\ thread'[i] = thread[i + 1]
      BY <1>2, <1>left
    <3>2. Queued(i + 1)
      BY <1>1, <3>1 DEF FreeShape
    <3>3. i = Len(thread') <=> i + 1 = Len(thread)
      BY <1>2, <1>left
    <3>4. QED
      BY <1>1, <1>left, <3>1, <3>2, <3>3 DEF Queued, UnitCommit
  <2>3. lock' # "free" => LastIs(lock)'
    <3>1. SUFFICES ASSUME lock # "free" PROVE LastIs(lock)'
      BY <1>left
    <3>2. thread[Len(thread)].task = lock /\ databaseAt[lock] = thread[Len(thread)].op
      BY <1>1, <3>1 DEF FreeShape, LastIs
    <3>3. Len(thread) # 1
      BY <1>3, <1>left, <3>2
    <3>4. Len(thread') \in Nat \ {0} /\ thread'[Len(thread')] = thread[Len(thread)]
      BY <1>2, <1>left, <3>3
    <3>5. thread' # <<>>
      BY <3>4
    <3>6. QED
      BY <1>left, <3>2, <3>4, <3>5 DEF LastIs
  <2>4. FreeShape'
    BY <1>1, <1>left, <2>2, <2>3 DEF FreeShape, WriterWrites, First
  <2>5. Durable'
    BY <1>left DEF DatabaseInv, Durable, First
  <2>6. QED
    BY <1>left, <2>1, <2>4, <2>5 DEF DatabaseInv
\* Its task goes on, and lets the lock go.
<1>answered. ASSUME NEW where \in {"failed", "written", "done"}, databaseAt[t] = op,
                    databaseAt' = [databaseAt EXCEPT ![t] = where], lock' = "free",
                    thread' = Tail(thread), txTask' = txTask,
                    inTx' \in BOOLEAN, inTx' => dangling /\ open' \subseteq WriterWrites,
                    ~inTx' => open' = {}, stored \subseteq stored',
                    stored \union open \subseteq stored' \union open',
                    where = "done" => First(t) \in stored',
                    where = "written" => First(t) \in stored' \union open'
             PROVE  DatabaseInv'
  <2>1. thread' = <<>>
    BY <1>4, <1>answered
  <2>2. thread' \in Seq([task : Tasks, op : Statements])
    BY <2>1
  <2>3. databaseAt' \in [Tasks -> Awaits]
    BY <1>1, <1>answered DEF Awaits
  <2>4. DatabaseTypes'
    BY <1>1, <1>answered, <2>2, <2>3 DEF DatabaseTypes
  <2>5. FreeShape'
    BY <1>1, <1>answered, <2>1 DEF FreeShape, WriterWrites, First
  <2>6. Durable'
    BY <1>1, <1>3, <1>answered DEF DatabaseInv, Durable, First, Tasks
  <2>7. QED
    BY <1>answered, <2>4, <2>5, <2>6 DEF DatabaseInv
\* A statement that fails changes no row.
<1>5. ASSUME UNCHANGED <<inTx, open, stored>>, inTx => dangling /\ open \subseteq WriterWrites,
             IF databaseAt[t] = op THEN Database!AfterError(t)
             ELSE thread' = Tail(thread) /\ UNCHANGED <<databaseAt, lock, txTask>>
      PROVE  DatabaseInv' /\ Grows
  <2>1. (~inTx' => open' = {}) /\ inTx' \in BOOLEAN /\ Grows
    BY <1>1, <1>5 DEF DatabaseInv, Grows
  <2>2. CASE databaseAt[t] = op
    <3>1. /\ databaseAt' = [databaseAt EXCEPT ![t] = "failed"] /\ lock' = "free" /\ txTask' = txTask
          /\ thread' = Tail(thread)
      BY <1>3, <1>5, <2>2 DEF Database!AfterError, Database!Owns
    <3>2. QED
      BY <1>5, <1>answered, <2>1, <2>2, <3>1
  <2>3. CASE databaseAt[t] # op
    BY <1>5, <1>left, <2>1, <2>3
  <2>4. QED
    BY <2>2, <2>3
<1>6. \/ op = "begin" /\ t \in Units
      \/ op = "first" /\ t \in Writers
      \/ op = "commit" /\ t \in Writers
      \/ op = "commit" /\ t \in Units /\ inTx /\ open = UnitOf(t)
  BY <1>3 DEF Queued, UnitCommit
<1>7. ~(op = "commit" /\ t \in Units) /\ inTx => dangling /\ open \subseteq WriterWrites
  BY <1>1, <1>3 DEF FreeShape, UnitCommit
<1>8. CASE op = "begin" /\ t \in Units
  <2>1. CASE inTx
    BY <1>5, <1>7, <1>8, <2>1 DEF Database!Runs, Database!file
  <2>2. CASE ~inTx
    <3>1. /\ inTx' = TRUE /\ UNCHANGED <<open, stored>> /\ open = {} /\ Grows
          /\ IF databaseAt[t] = op THEN Database!Resume(t)
             ELSE thread' = Tail(thread) /\ UNCHANGED <<databaseAt, lock, txTask>>
      BY <1>8, <2>2 DEF Database!Runs, Database!Effect, Database!Fails, DatabaseInv, Grows
    <3>2. CASE databaseAt[t] = op
      <4>1. /\ txTask' = t /\ databaseAt' = [databaseAt EXCEPT ![t] = "first"] /\ lock' = lock
            /\ thread' = Append(Tail(thread), Statement(t, "first"))
        BY <1>8, <3>1, <3>2 DEF Database!Resume, Database!Continue, Statement
      <4>2. Statement(t, "first") \in Ops
        BY <1>3 DEF Statement, Ops, Statements
      <4>3. thread' = <<Statement(t, "first")>> /\ thread' \in Seq(Ops) /\ lock = t
        <5>1. Tail(thread) = <<>> /\ lock = t
          BY <1>4, <3>2
        <5>2. Append(<<>>, Statement(t, "first")) = <<Statement(t, "first")>>
          BY <4>2, ShortThreads
        <5>3. <<Statement(t, "first")>> \in Seq(Ops)
          BY <4>2
        <5>4. thread' = Append(<<>>, Statement(t, "first"))
          BY <4>1, <5>1
        <5>5. QED
          BY <5>1, <5>2, <5>3, <5>4
      <4>4. DatabaseTypes'
        BY <1>1, <1>3, <1>8, <3>1, <4>1, <4>3 DEF DatabaseTypes, Awaits, Ops
      <4>5. OwnerShape(t)'
        BY <1>1, <1>3, <3>1, <4>1, <4>3 DEF OwnerShape
      <4>6. Durable'
        BY <1>1, <1>3, <1>8, <3>1, <4>1 DEF DatabaseInv, Durable, First, TasksDistinct, Tasks
      <4>7. QED
        BY <1>3, <3>1, <4>1, <4>4, <4>5, <4>6 DEF DatabaseInv
    <3>3. CASE databaseAt[t] # op
      <4>1. dangling
        BY <1>3, <1>8, <3>3 DEF Queued
      <4>2. QED
        BY <1>left, <3>1, <3>3, <4>1
    <3>4. QED
      BY <3>2, <3>3
  <2>3. QED
    BY <1>1, <2>1, <2>2
<1>9. CASE op = "first" /\ t \in Writers
  <2>1. CASE /\ UNCHANGED <<inTx, open, stored>>
             /\ IF databaseAt[t] = op THEN Database!AfterError(t)
                ELSE thread' = Tail(thread) /\ UNCHANGED <<databaseAt, lock, txTask>>
    BY <1>5, <1>7, <1>9, <2>1
  <2>2. CASE /\ Database!Effect
             /\ IF databaseAt[t] = op THEN Database!Resume(t)
                ELSE thread' = Tail(thread) /\ UNCHANGED <<databaseAt, lock, txTask>>
    <3>1. /\ inTx' = inTx /\ (inTx' => dangling /\ open' \subseteq WriterWrites)
          /\ (~inTx' => open' = {}) /\ stored \subseteq stored'
          /\ stored \union open \subseteq stored' \union open'
          /\ First(t) \in stored' \union open' /\ stored' \in {stored, stored \union {First(t)}}
      BY <1>1, <1>7, <1>9, <2>2 DEF Database!Effect, DatabaseInv, First, WriterWrites
    <3>2. Grows
      BY <1>9, <3>1, WholeUnits DEF Grows
    <3>3. CASE databaseAt[t] = op
      <4>1. /\ databaseAt' = [databaseAt EXCEPT ![t] = "written"] /\ lock' = "free" /\ txTask' = txTask
            /\ thread' = Tail(thread)
        BY <1>9, <2>2, <3>3 DEF Database!Resume, Database!Leaves, TasksDistinct
      <4>2. QED
        BY <1>1, <1>answered, <3>1, <3>2, <3>3, <4>1
    <3>4. CASE databaseAt[t] # op
      BY <1>1, <1>left, <2>2, <3>1, <3>2, <3>4
    <3>5. QED
      BY <3>3, <3>4
  <2>3. QED
    BY <1>9, <2>1, <2>2 DEF Database!Runs, Database!file
<1>10. CASE op = "commit"
  <2>1. /\ inTx' = FALSE /\ stored' = stored \union open /\ open' = {}
        /\ IF databaseAt[t] = op THEN Database!Resume(t)
           ELSE thread' = Tail(thread) /\ UNCHANGED <<databaseAt, lock, txTask>>
    BY <1>10 DEF Database!Runs, Database!Effect, Database!Fails
  <2>2. Grows
    <3>1. CASE t \in Units
      BY <1>6, <1>10, <2>1, <3>1, WholeUnits DEF TasksDistinct
    <3>2. CASE t \notin Units
      <4>1. open = {} \/ open \subseteq WriterWrites
        <5>1. CASE inTx
          BY <1>7, <3>2, <5>1
        <5>2. CASE ~inTx
          BY <5>2 DEF DatabaseInv
        <5>3. QED
          BY <5>1, <5>2
      <4>2. QED
        BY <2>1, <4>1, WholeUnits DEF Grows
    <3>3. QED
      BY <3>1, <3>2
  <2>3. CASE databaseAt[t] = op
    <3>1. /\ databaseAt' = [databaseAt EXCEPT ![t] = "done"] /\ lock' = "free" /\ txTask' = txTask
          /\ thread' = Tail(thread)
      BY <1>3, <1>10, <2>1, <2>3 DEF Database!Resume, Database!Leaves, Database!Owns
    <3>2. First(t) \in stored \union open
      BY <1>6, <1>10, <2>3 DEF DatabaseInv, Durable, UnitOf
    <3>3. QED
      BY <1>answered, <2>1, <2>2, <2>3, <3>1, <3>2
  <2>4. CASE databaseAt[t] # op
    BY <1>left, <2>1, <2>2, <2>4
  <2>5. QED
    BY <2>3, <2>4
<1>11. QED
  BY <1>6, <1>8, <1>9, <1>10

\* Every step of the tasks and of the thread keeps DatabaseInv, and the file
\* grows by whole units.
LEMMA DatabaseStep ==
  ASSUME TasksDistinct, DatabaseInv, [Database!Next]_(Database!state)
  PROVE  DatabaseInv' /\ Grows
<1>1. ASSUME NEW t \in Tasks, Database!Begin(t) PROVE DatabaseInv' /\ Grows
  BY <1>1, DatabaseAsk DEF Database!Begin, Database!file, Statements, Grows
<1>2. ASSUME NEW t \in Tasks, Database!Execute(t) PROVE DatabaseInv' /\ Grows
  BY <1>2, DatabaseAsk DEF Database!Execute, Database!file, Statements, Grows
<1>3. ASSUME NEW t \in Tasks, Database!Commit(t) PROVE DatabaseInv' /\ Grows
  BY <1>3, DatabaseAsk DEF Database!Commit, Database!file, Statements, Grows
<1>4. ASSUME NEW t \in Tasks, Database!Cancelled(t) PROVE DatabaseInv' /\ Grows
  BY <1>4, DatabaseCancel DEF Database!Cancelled, Database!file, Grows
<1>5. CASE Database!Runs
  <2>1. txTask = "none" \/ txTask \in Units
    BY DEF DatabaseInv, DatabaseTypes
  <2>2. QED
    BY <1>5, <2>1, DatabaseFreeRuns, DatabaseOwnerRuns
<1>6. CASE UNCHANGED Database!state
  BY <1>6 DEF Database!state, Database!tasks, Database!file, Database!bounds, DatabaseInv,
              DatabaseTypes, OwnerShape, FreeShape, Queued, LastIs, Durable, UnitOf, First,
              WriterWrites, Grows
<1>7. QED
  BY <1>1, <1>2, <1>3, <1>4, <1>5, <1>6 DEF Database!Next, Database!Tasks, Tasks

\* A fresh connection is in order.
LEMMA DatabaseStart ==
  ASSUME TasksDistinct, Database!Init
  PROVE  DatabaseInv
<1>1. databaseAt \in [Tasks -> Awaits] /\ thread \in Seq([task : Tasks, op : Statements])
  BY DEF Database!Init, Database!Tasks, Tasks, Awaits
<1>2. DatabaseTypes
  BY <1>1 DEF Database!Init, DatabaseTypes
<1>3. FreeShape /\ Durable
  BY DEF Database!Init, Database!Tasks, Tasks, FreeShape, Durable
<1>4. QED
  BY <1>2, <1>3 DEF Database!Init, DatabaseInv

DatabaseSpec == Database!Init /\ [][Database!Next]_(Database!state)

\* DatabaseInv is inductive.
LEMMA DatabaseInvariant ==
  /\ Database!Init => DatabaseInv
  /\ DatabaseInv /\ [Database!Next]_(Database!state) => DatabaseInv' /\ Grows
BY TasksAssumption, DatabaseStart, DatabaseStep DEF TasksDistinct, Tasks

\* The detailed database implements AtomicStore: whichever task fails or is
\* cancelled, and at whichever await, the file of `transaction()` goes from whole
\* units to whole units and never loses one.
THEOREM DatabaseCommitsUnits ==
  DatabaseSpec => CommitsUnits
<1>1. Database!Init => Database!AllOrNothing!Init
  BY DEF Database!Init, Database!AllOrNothing!Init
<1>2. DatabaseInv /\ [Database!Next]_(Database!state) => [Database!AllOrNothing!Next]_stored
  BY DatabaseInvariant DEF Grows, Database!AllOrNothing!Next
<1>3. QED
  BY <1>1, <1>2, DatabaseInvariant, PTL
     DEF DatabaseSpec, CommitsUnits, Database!CommitsUnits, Database!AllOrNothing!Spec

\* A write whose commit() returned is in the file, and the connection is left
\* inside a transaction only by its owner, by a queued COMMIT or rollback, or by
\* a task cancelled at its BEGIN.
THEOREM DatabaseWritesStand ==
  DatabaseSpec => []WritesStand
<1>1. DatabaseInv => WritesStand
  <2> SUFFICES ASSUME DatabaseInv PROVE Database!WritesStand
    BY DEF WritesStand
  <2>1. \A t \in Database!Tasks : databaseAt[t] = "done" => Database!Write(t, "first") \in stored
    BY DEF DatabaseInv, Durable, First, Database!Tasks, Tasks
  <2>2. ASSUME inTx, ~dangling, lock \notin Units
        PROVE  \E i \in DOMAIN thread : thread[i].op \in {"commit", "rollback"}
    <3>1. txTask = "none"
      BY <2>2 DEF DatabaseInv, DatabaseTypes, OwnerShape
    <3>2. thread # <<>> /\ thread[1].op = "commit"
      BY <2>2, <3>1 DEF DatabaseInv, FreeShape, UnitCommit
    <3>3. 1 \in DOMAIN thread
      BY <3>2 DEF DatabaseInv, DatabaseTypes
    <3>4. QED
      BY <3>2, <3>3
  <2>3. QED
    BY <2>1, <2>2 DEF Database!WritesStand
<1>2. QED
  BY <1>1, DatabaseInvariant, PTL DEF DatabaseSpec

-----------------------------------------------------------------------------
(* Sampler *)

RowsOf(m) == Sampler!RowsOf(m)
MinuteOf(ts) == Sampler!MinuteOf(ts)
Minutes == Sampler!Minutes
NoMinute == Sampler!NoMinute

SamplerTypes ==
  /\ sampler \in {"off", "loop", "rollup", "prune"}
  /\ epochTs \in 0 .. MaxTs /\ samples1s \subseteq 0 .. MaxTs
  /\ samples1m \in [Minutes -> Nat]
  /\ samplerCurrent \in Minutes \union {NoMinute}

\* The aggregate of m counts every row that m still has.
Counted(m) == RowsOf(m) # {} => samples1m[m] >= Cardinality(RowsOf(m))

\* The minutes that may miss rows: the one in progress, the one an epoch is
\* about to enter, and those that were lost.
Behind(m) ==
  m \in lost \/ m = samplerCurrent \/ (sampler = "rollup" /\ m = MinuteOf(epochTs))

SamplerInv ==
  /\ SamplerTypes
  /\ sampler = "off" => samplerCurrent = NoMinute
  /\ sampler = "rollup" => samplerCurrent \in Minutes
  /\ \A m \in Minutes : Behind(m) \/ Counted(m)

\* A second belongs to the minute it falls into.
LEMMA MinuteFacts ==
  /\ NoMinute \notin Minutes
  /\ \A ts \in 0 .. MaxTs : /\ MinuteOf(ts) \in Minutes /\ MinuteOf(ts) \in Nat
                            /\ ts <= MinuteOf(ts) * Minute + Minute - 1
<1>1. MaxTs \in Nat /\ Minute \in Nat \ {0}
  BY RetentionAssumption
<1>2. ASSUME NEW ts \in 0 .. MaxTs
      PROVE  /\ MinuteOf(ts) \in Minutes /\ MinuteOf(ts) \in Nat
             /\ ts <= MinuteOf(ts) * Minute + Minute - 1
  <2>1. ts \div Minute \in Nat /\ MaxTs \div Minute \in Nat /\ ts \div Minute <= MaxTs \div Minute
    BY <1>1
  <2>2. ts <= (ts \div Minute) * Minute + Minute - 1
    BY <1>1
  <2>3. QED
    BY <2>1, <2>2 DEF MinuteOf, Minutes, Sampler!MinuteOf, Sampler!Minutes
<1>3. NoMinute \notin Minutes
  <2>1. MaxTs \div Minute \in Nat /\ MaxTs \div Minute <= MaxTs
    BY <1>1
  <2>2. QED
    BY <1>1, <2>1 DEF NoMinute, Minutes, Sampler!NoMinute, Sampler!Minutes
<1>4. QED
  BY <1>2, <1>3

\* A minute has finitely many rows, and no more when some are deleted.
LEMMA RowCounts ==
  ASSUME NEW T, T \subseteq 0 .. MaxTs
  PROVE  /\ IsFiniteSet(T) /\ Cardinality(T) \in Nat
         /\ \A U \in SUBSET T : Cardinality(U) \in Nat /\ Cardinality(U) <= Cardinality(T)
<1>1. IsFiniteSet(0 .. MaxTs)
  BY RetentionAssumption, FS_Interval
<1>2. IsFiniteSet(T)
  BY <1>1, FS_Subset
<1>3. QED
  BY <1>2, FS_Subset, FS_CardinalityType

\* The instance counts as this module does.
LEMMA SameCardinality ==
  ASSUME NEW S
  PROVE  Sampler!Cardinality(S) = Cardinality(S)
BY Zenon DEF Sampler!Cardinality, Cardinality

\* Steps that leave the rows alone, and `rollup_minute` of c.
LEMMA SameRows ==
  ASSUME samples1s' = samples1s, samples1m' = samples1m, NEW m
  PROVE  Counted(m)' <=> Counted(m)
<1>1. RowsOf(m)' = RowsOf(m)
  BY DEF RowsOf, Sampler!RowsOf
<1>2. QED
  BY <1>1 DEF Counted

LEMMA AggregateCounts ==
  ASSUME SamplerTypes, NEW c \in Minutes, Sampler!Aggregate(c), samples1s' = samples1s
  PROVE  /\ samples1m' \in [Minutes -> Nat]
         /\ Counted(c)' /\ \A m \in Minutes : Counted(m) => Counted(m)'
<1>1. \A m : RowsOf(m)' = RowsOf(m)
  BY DEF RowsOf, Sampler!RowsOf
<1>2. RowsOf(c) \subseteq 0 .. MaxTs
  BY DEF SamplerTypes, RowsOf, Sampler!RowsOf
<1>3. Cardinality(RowsOf(c)) \in Nat
  BY <1>2, RowCounts
<1>4. \/ RowsOf(c) = {} /\ samples1m' = samples1m
      \/ samples1m' = [samples1m EXCEPT ![c] = Cardinality(RowsOf(c))]
  BY SameCardinality DEF Sampler!Aggregate, RowsOf
<1>5. samples1m' \in [Minutes -> Nat]
  BY <1>3, <1>4 DEF SamplerTypes
<1>6. Counted(c)'
  BY <1>1, <1>3, <1>4 DEF Counted, SamplerTypes
<1>7. ASSUME NEW m \in Minutes, Counted(m), m # c PROVE Counted(m)'
  BY <1>1, <1>4, <1>7 DEF Counted, SamplerTypes
<1>8. QED
  BY <1>5, <1>6, <1>7

\* Every step of the sampler keeps SamplerInv.
LEMMA SamplerStep ==
  ASSUME SamplerInv, [Sampler!Next]_(Sampler!state)
  PROVE  SamplerInv'
<1>1. /\ SamplerTypes /\ MinuteOf(epochTs) \in Minutes /\ NoMinute \notin Minutes
      /\ \A m \in Minutes : Behind(m) \/ Counted(m)
  BY MinuteFacts DEF SamplerInv, SamplerTypes
<1> USE DEF Sampler!rows, Sampler!signal, Sampler!limits
<1>2. CASE Sampler!Start
  <2>1. \A m \in Minutes : Counted(m)' <=> Counted(m)
    BY <1>2, SameRows DEF Sampler!Start
  <2>2. QED
    BY <1>1, <1>2, <2>1 DEF Sampler!Start, SamplerInv, SamplerTypes, Behind, NoMinute
<1>3. ASSUME NEW ts \in 0 .. MaxTs, Sampler!Insert(ts)
      PROVE  SamplerInv'
  <2>1. MinuteOf(ts) \in Minutes /\ MinuteOf(ts) # NoMinute /\ MinuteOf(epochTs)' = MinuteOf(ts)
    BY <1>3, MinuteFacts DEF Sampler!Insert, MinuteOf, Sampler!MinuteOf
  <2>2. SamplerTypes'
    BY <1>1, <1>3, <2>1 DEF Sampler!Insert, SamplerTypes, MinuteOf, NoMinute
  <2>3. ASSUME NEW m \in Minutes, m # MinuteOf(ts)
        PROVE  Counted(m)' <=> Counted(m)
    <3>1. RowsOf(m)' = RowsOf(m)
      BY <1>3, <2>3 DEF Sampler!Insert, RowsOf, Sampler!RowsOf, MinuteOf
    <3>2. QED
      BY <1>3, <3>1 DEF Counted, Sampler!Insert
  <2>4. Behind(MinuteOf(ts))'
    BY <1>3, <2>1 DEF Sampler!Insert, Behind, MinuteOf, NoMinute
  <2>5. ASSUME NEW m \in Minutes, m # MinuteOf(ts), Behind(m) PROVE Behind(m)'
    BY <1>1, <1>3, <2>5 DEF Sampler!Insert, Behind, MinuteOf, NoMinute
  <2>6. QED
    BY <1>1, <1>3, <2>1, <2>2, <2>3, <2>4, <2>5
       DEF Sampler!Insert, SamplerInv, SamplerTypes, MinuteOf, NoMinute
<1>4. ASSUME NEW ts \in 0 .. MaxTs, Sampler!InsertFails(ts)
      PROVE  SamplerInv'
  <2>1. \A m \in Minutes : Counted(m)' <=> Counted(m)
    BY <1>4, SameRows DEF Sampler!InsertFails
  <2>2. QED
    BY <1>1, <1>4, <2>1 DEF Sampler!InsertFails, Sampler!Failed, SamplerInv, SamplerTypes, Behind
<1>5. CASE Sampler!Rollup
  <2>1. samplerCurrent \in Minutes /\ samples1s' = samples1s /\ Sampler!Aggregate(samplerCurrent)
    BY <1>5 DEF Sampler!Rollup, SamplerInv
  <2>2. PICK c \in Minutes : c = samplerCurrent
    BY <2>1
  <2>3. /\ samples1m' \in [Minutes -> Nat]
        /\ Counted(c)' /\ \A m \in Minutes : Counted(m) => Counted(m)'
    BY <1>1, <2>1, <2>2, AggregateCounts
  <2>4. QED
    BY <1>1, <1>5, <2>1, <2>2, <2>3 DEF Sampler!Rollup, SamplerInv, SamplerTypes, Behind, MinuteOf
<1>6. CASE Sampler!RollupFails
  <2>1. \A m \in Minutes : Counted(m)' <=> Counted(m)
    BY <1>6, SameRows DEF Sampler!RollupFails
  <2>2. QED
    BY <1>1, <1>6, <2>1
       DEF Sampler!RollupFails, Sampler!Failed, SamplerInv, SamplerTypes, Behind, MinuteOf
<1>7. CASE Sampler!Prune
  <2>1. CASE UNCHANGED <<samples1s, samples1m>>
    <3>1. \A m \in Minutes : Counted(m)' <=> Counted(m)
      BY <2>1, SameRows
    <3>2. QED
      BY <1>1, <1>7, <2>1, <3>1
         DEF Sampler!Prune, Sampler!Recovered, SamplerInv, SamplerTypes, Behind
  <2>2. CASE /\ samples1s' = {ts \in samples1s : ts + Keep1s >= epochTs}
             /\ samples1m' = [m \in Minutes |->
                                IF m * Minute + Keep1m >= epochTs THEN samples1m[m] ELSE 0]
    <3>1. ASSUME NEW m \in Minutes, Counted(m) PROVE Counted(m)'
      <4> SUFFICES ASSUME RowsOf(m)' # {}
                   PROVE  samples1m'[m] >= Cardinality(RowsOf(m)')
        BY DEF Counted
      <4>1. RowsOf(m)' \subseteq RowsOf(m) /\ RowsOf(m) \subseteq 0 .. MaxTs /\ RowsOf(m) # {}
        BY <1>1, <2>2 DEF RowsOf, Sampler!RowsOf, SamplerTypes
      <4>2. /\ Cardinality(RowsOf(m)') \in Nat /\ Cardinality(RowsOf(m)) \in Nat
            /\ Cardinality(RowsOf(m)') <= Cardinality(RowsOf(m))
        BY <4>1, RowCounts
      <4>3. PICK ts \in samples1s : ts + Keep1s >= epochTs /\ MinuteOf(ts) = m
        BY <2>2 DEF RowsOf, Sampler!RowsOf, MinuteOf
      <4>4. m * Minute + Keep1m >= epochTs
        <5>1. /\ m \in Nat /\ ts \in Nat /\ epochTs \in Nat /\ Minute \in Nat /\ Keep1s \in Nat
              /\ Keep1m \in Nat /\ Keep1s + Minute - 1 <= Keep1m
          BY <1>1, <4>3, MinuteFacts, RetentionAssumption DEF SamplerTypes
        <5>2. ts <= m * Minute + Minute - 1 /\ m * Minute \in Nat
          BY <1>1, <4>3, <5>1, MinuteFacts DEF SamplerTypes
        <5>3. QED
          BY <4>3, <5>1, <5>2
      <4>5. samples1m'[m] = samples1m[m] /\ samples1m[m] \in Nat
        BY <1>1, <2>2, <4>4 DEF SamplerTypes
      <4>6. samples1m[m] >= Cardinality(RowsOf(m))
        BY <3>1, <4>1 DEF Counted
      <4>7. QED
        BY <4>2, <4>5, <4>6
    <3>2. SamplerTypes'
      <4>1. samples1m' \in [Minutes -> Nat]
        BY <1>1, <2>2 DEF SamplerTypes
      <4>2. QED
        BY <1>1, <1>7, <2>2, <4>1 DEF Sampler!Prune, SamplerTypes
    <3>3. QED
      BY <1>1, <1>7, <3>1, <3>2 DEF Sampler!Prune, SamplerInv, Behind
  <2>3. QED
    BY <1>7, <2>1, <2>2 DEF Sampler!Prune, Minutes
<1>8. CASE Sampler!PruneFails
  <2>1. \A m \in Minutes : Counted(m)' <=> Counted(m)
    BY <1>8, SameRows DEF Sampler!PruneFails
  <2>2. QED
    BY <1>1, <1>8, <2>1 DEF Sampler!PruneFails, Sampler!Failed, SamplerInv, SamplerTypes, Behind
<1>9. CASE Sampler!Stop
  <2>1. CASE samples1m' = samples1m /\ (samplerCurrent = NoMinute => lost' = lost)
             /\ (samplerCurrent # NoMinute => lost' = lost \union {samplerCurrent})
    <3>1. \A m \in Minutes : Counted(m)' <=> Counted(m)
      BY <1>9, <2>1, SameRows DEF Sampler!Stop
    <3>2. QED
      BY <1>1, <1>9, <2>1, <3>1 DEF Sampler!Stop, SamplerInv, SamplerTypes, Behind, NoMinute
  <2>2. CASE /\ samplerCurrent # NoMinute /\ Sampler!Aggregate(samplerCurrent)
             /\ lost' = lost \ {samplerCurrent}
    <3>1. samplerCurrent \in Minutes /\ samples1s' = samples1s
      BY <1>1, <1>9, <2>2 DEF Sampler!Stop, SamplerTypes
    <3>2. PICK c \in Minutes : c = samplerCurrent
      BY <3>1
    <3>3. /\ samples1m' \in [Minutes -> Nat]
          /\ Counted(c)' /\ \A m \in Minutes : Counted(m) => Counted(m)'
      BY <1>1, <2>2, <3>1, <3>2, AggregateCounts
    <3>4. QED
      BY <1>1, <1>9, <2>2, <3>1, <3>2, <3>3
         DEF Sampler!Stop, SamplerInv, SamplerTypes, Behind, NoMinute
  <2>3. QED
    BY <1>9, <2>1, <2>2 DEF Sampler!Stop, Sampler!FinalRollup, NoMinute
<1>10. CASE Sampler!Crash
  <2>1. \A m \in Minutes : Counted(m)' <=> Counted(m)
    BY <1>10, SameRows DEF Sampler!Crash
  <2>2. QED
    BY <1>1, <1>10, <2>1
       DEF Sampler!Crash, SamplerInv, SamplerTypes, Behind, MinuteOf, NoMinute
<1>11. CASE UNCHANGED Sampler!state
  <2>1. \A m \in Minutes : Counted(m)' <=> Counted(m)
    BY <1>11, SameRows DEF Sampler!state
  <2>2. QED
    BY <1>1, <1>11, <2>1 DEF Sampler!state, SamplerInv, SamplerTypes, Behind
<1>12. QED
  BY <1>2, <1>3, <1>4, <1>5, <1>6, <1>7, <1>8, <1>9, <1>10, <1>11 DEF Sampler!Next

\* The minute series has no hole (Sampler): every minute that was left, or in
\* progress at a stop, has an aggregate of all its rows, for every retention that
\* keeps aggregates longer than rows and through any number of restarts, steps of
\* the clock and failed statements.
THEOREM SamplerNoHole ==
  Sampler!Init /\ [][Sampler!Next]_(Sampler!state) => []NoHole
<1>1. Sampler!Init => SamplerInv
  <2> SUFFICES ASSUME Sampler!Init PROVE SamplerInv
    OBVIOUS
  <2>1. \A m \in Minutes : Counted(m)
    <3>1. \A m : RowsOf(m) = {}
      BY DEF Sampler!Init, RowsOf, Sampler!RowsOf
    <3>2. QED
      BY <3>1 DEF Counted
  <2>2. SamplerTypes
    BY RetentionAssumption DEF Sampler!Init, SamplerTypes, Minutes, NoMinute
  <2>3. QED
    BY <2>1, <2>2 DEF Sampler!Init, SamplerInv, NoMinute
<1>2. SamplerInv => NoHole
  <2> SUFFICES ASSUME SamplerInv, NEW m \in Minutes, ~Behind(m), RowsOf(m) # {}
               PROVE  samples1m[m] >= Cardinality(RowsOf(m))
    BY SameCardinality DEF Behind, NoHole, Sampler!NoHole, RowsOf, MinuteOf, Minutes
  <2>1. QED
    BY DEF SamplerInv, Counted
<1>3. QED
  BY <1>1, <1>2, SamplerStep, PTL

-----------------------------------------------------------------------------
(* Points *)

Epochs == [n : Nat, q : Points!Quality]
SessionRows == [from : Nat, to : Nat \union {Points!Open}]
PointRows == [request : Collects, session : Nat, epochs : Seq(Epochs), carr : {"float", "fixed"}]

PointsTypes ==
  /\ call \in [Collects -> {"idle", "asked", "ended"}]
  /\ read \in [Collects -> Nat] /\ cancelled \subseteq Collects
  /\ state \in {"idle", "collecting", "done", "aborted"} /\ saving \in {"no", "asked", "stored"}
  /\ state # "idle" => cur \in Collects
  /\ owner \in Nat /\ taken \in Seq(Epochs) /\ skipped \in Nat
  /\ points \subseteq PointRows /\ alive \subseteq points
  /\ sessions \in Seq(SessionRows) /\ clock \in Nat
  /\ queue \in Seq(Epochs) /\ published \in Nat

\* Epochs come in order: those queued after those taken, a time repeated at
\* most by the next one.
InOrder ==
  /\ \A j \in 1 .. Len(queue) : queue[j].n <= published
  /\ \A i, j \in 1 .. Len(queue) : i <= j => queue[i].n <= queue[j].n
  /\ \A i \in 1 .. Len(taken) : taken[i].n <= published
  /\ \A i \in 1 .. Len(taken), j \in 1 .. Len(queue) : taken[i].n <= queue[j].n
  /\ \A i, j \in 1 .. Len(taken) : i < j => taken[i].n < taken[j].n

\* A collection under way: its request started once, and what it took is what
\* it asked for.
Collecting ==
  /\ saving # "no" => state = "collecting"
  /\ state # "idle" => call[cur] = "ended"
  /\ \A i \in 1 .. Len(taken) : taken[i].q = "fixed" \/ (taken[i].q = "float" /\ ~cur.fixedOnly)
  /\ state = "collecting" /\ saving = "no" => Len(taken) < cur.epochs
  /\ saving # "no" => Len(taken) = cur.epochs

AsAsked(p) ==
  /\ call[p.request] = "ended"
  /\ Len(p.epochs) = p.request.epochs
  /\ \A i, j \in 1 .. Len(p.epochs) : i < j => p.epochs[i].n < p.epochs[j].n
  /\ \A i \in 1 .. Len(p.epochs) :
       p.epochs[i].q = "fixed" \/ (p.carr = "float" /\ ~p.request.fixedOnly)

Stored ==
  /\ \A p \in points : AsAsked(p)
  /\ \A p, q \in points : q.request = p.request => q = p
  /\ state = "collecting" /\ saving # "stored" => \A p \in points : p.request # cur
  /\ saving = "stored" \/ state = "done" => \E p \in points : p.request = cur

\* The row being saved was built of what the request took.
Saving == saving # "no" => row \in PointRows /\ row.request = cur /\ AsAsked(row)

\* A cancelled request has ended, is never collected again and has no point.
Cancelled ==
  /\ \A r \in cancelled : call[r] = "ended" /\ (r = cur => state = "aborted")
  /\ \A p \in points : p.request \notin cancelled

SessionsInOrder ==
  \A i \in 1 .. Len(sessions) :
    IF sessions[i].to = Points!Open THEN i = Len(sessions) ELSE sessions[i].to >= sessions[i].from

PointsInv ==
  PointsTypes /\ InOrder /\ Collecting /\ Stored /\ Saving /\ Cancelled /\ SessionsInOrder

\* The open session, if there is one, is the last.
LEMMA CurrentSession ==
  ASSUME PointsTypes, SessionsInOrder
  PROVE  /\ Points!Current \in 0 .. Len(sessions) /\ Len(sessions) \in Nat
         /\ Points!Current # 0 => Points!Current = Len(sessions)
         /\ \A i \in 1 .. Len(sessions) : sessions[i].to = Points!Open <=> i = Points!Current
<1>1. Len(sessions) \in Nat
  BY DEF PointsTypes
<1> DEFINE opened == {i \in 1 .. Len(sessions) : sessions[i].to = Points!Open}
<1>2. \A i \in opened : i = Len(sessions)
  BY DEF SessionsInOrder
<1>3. CASE opened = {}
  BY <1>1, <1>3 DEF Points!Current
<1>4. CASE opened # {}
  <2>1. opened = {Len(sessions)}
    BY <1>2, <1>4
  <2>2. Points!Current = Len(sessions)
    <3>1. \E i \in opened : \A j \in opened : j <= i
      BY <1>1, <2>1
    <3>2. Points!Current = CHOOSE i \in opened : \A j \in opened : j <= i
      BY <1>4 DEF Points!Current
    <3>3. Points!Current \in opened
      BY <3>1, <3>2
    <3>4. QED
      BY <2>1, <3>3
  <2>3. QED
    BY <1>1, <1>2, <2>1, <2>2
<1>5. QED
  BY <1>3, <1>4

\* A request that ended stays so, and what is as asked stays so with it.
LEMMA EndedStays ==
  ASSUME PointsInv, \A r \in Collects : call[r] = "ended" => call'[r] = "ended"
  PROVE  /\ \A p \in PointRows : AsAsked(p) => AsAsked(p)'
         /\ \A p \in points : AsAsked(p)'
<1>1. ASSUME NEW p \in PointRows, AsAsked(p) PROVE AsAsked(p)'
  BY <1>1 DEF AsAsked, PointRows
<1>2. \A p \in points : p \in PointRows /\ AsAsked(p)
  BY DEF PointsInv, PointsTypes, Stored
<1>3. QED
  BY <1>1, <1>2

\* What is known of the epochs of a queue.
LEMMA EpochFacts ==
  ASSUME NEW q \in Seq(Epochs)
  PROVE  /\ Len(q) \in Nat
         /\ \A i \in 1 .. Len(q) : q[i] \in Epochs /\ q[i].n \in Nat /\ q[i].q \in Points!Quality
<1>1. Len(q) \in Nat /\ \A i \in 1 .. Len(q) : q[i] \in Epochs
  OBVIOUS
<1>2. \A e \in Epochs : e.n \in Nat /\ e.q \in Points!Quality
  BY DEF Epochs
<1>3. QED
  BY <1>1, <1>2

\* Calls of `start` keep PointsInv.
LEMMA PointsStart ==
  ASSUME PointsInv, NEW r \in Collects, Points!StartAsk(r) \/ Points!StartGo(r)
  PROVE  PointsInv'
<1> USE DEF Points!store, Points!collection
<1>1. PointsTypes /\ InOrder /\ Collecting /\ Stored /\ Saving /\ Cancelled /\ SessionsInOrder
  BY DEF PointsInv
<1>2. /\ call' \in [Collects -> {"idle", "asked", "ended"}] /\ read' \in [Collects -> Nat]
      /\ \A q \in Collects : call[q] = "ended" => call'[q] = "ended"
      /\ call[r] # "ended"
  <2>1. Points!Current \in Nat
    BY <1>1, CurrentSession
  <2>2. QED
    BY <1>1, <2>1 DEF PointsTypes, Points!StartAsk, Points!StartGo
<1>3. /\ \A p \in points : AsAsked(p)' /\ p.request # r
      /\ \A p \in PointRows : AsAsked(p) => AsAsked(p)'
  <2>1. \A p \in points : AsAsked(p)
    BY <1>1 DEF Stored
  <2>2. QED
    BY <1>2, <2>1, EndedStays DEF AsAsked
<1>4. UNCHANGED <<points, alive, sessions, clock, queue, published>>
  BY DEF Points!StartAsk, Points!StartGo
<1>5. SessionsInOrder'
  BY <1>1, <1>4 DEF SessionsInOrder
<1>6. CASE UNCHANGED <<state, cur, owner, taken, skipped, saving, row, cancelled>>
  <2>1. PointsTypes' /\ InOrder'
    BY <1>1, <1>2, <1>4, <1>6 DEF PointsTypes, InOrder
  <2>2. Collecting'
    <3>1. state # "idle" => call'[cur] = "ended"
      BY <1>1, <1>2 DEF PointsTypes, Collecting
    <3>2. QED
      BY <1>1, <1>6, <3>1 DEF Collecting
  <2>3. Stored' /\ Saving'
    BY <1>1, <1>3, <1>4, <1>6 DEF Stored, Saving
  <2>4. Cancelled'
    <3>1. \A q \in cancelled : call'[q] = "ended"
      BY <1>1, <1>2 DEF Cancelled, PointsTypes
    <3>2. QED
      BY <1>1, <1>4, <1>6, <3>1 DEF Cancelled
  <2>5. QED
    BY <1>5, <2>1, <2>2, <2>3, <2>4 DEF PointsInv
<1>7. CASE Points!StartGo(r) /\ state # "collecting"
  <2>1. /\ saving = "no" /\ state' = "collecting" /\ cur' = r /\ owner' = read[r] /\ taken' = <<>>
        /\ skipped' = 0 /\ UNCHANGED <<saving, row, cancelled>>
    BY <1>1, <1>7 DEF Points!StartGo, Collecting, PointsTypes
  <2>2. taken' \in Seq(Epochs) /\ Len(taken') = 0
    BY <2>1
  <2>3. r.epochs \in Nat \ {0} /\ call'[r] = "ended" /\ read[r] \in Nat
    BY <1>1, <1>7, CollectsAssumption DEF PointsTypes, Points!StartGo
  <2>4. PointsTypes'
    BY <1>1, <1>2, <1>4, <2>1, <2>2, <2>3 DEF PointsTypes
  <2>5. InOrder'
    BY <1>1, <1>4, <2>1, <2>2 DEF InOrder
  <2>6. Collecting'
    BY <2>1, <2>2, <2>3 DEF Collecting
  <2>7. Stored' /\ Saving'
    BY <1>1, <1>3, <1>4, <2>1 DEF Stored, Saving
  <2>8. Cancelled'
    <3>1. \A q \in cancelled : call[q] = "ended" /\ q \in Collects /\ q # r /\ call'[q] = "ended"
      BY <1>1, <1>2 DEF Cancelled, PointsTypes
    <3>2. QED
      BY <1>1, <1>4, <2>1, <3>1 DEF Cancelled
  <2>9. QED
    BY <1>5, <2>4, <2>5, <2>6, <2>7, <2>8 DEF PointsInv
<1>8. QED
  BY <1>6, <1>7 DEF Points!StartAsk, Points!StartGo

\* Steps that touch neither calls nor sessions keep the points as asked.
LEMMA SameCalls ==
  ASSUME PointsInv, UNCHANGED <<call, read, points, sessions>>
  PROVE  /\ \A p \in points' : AsAsked(p)' /\ SessionsInOrder'
         /\ \A p, q \in points' : q.request = p.request => q = p
<1>1. \A p \in points : AsAsked(p)'
  BY EndedStays
<1>2. QED
  BY <1>1 DEF PointsInv, Stored, SessionsInOrder

\* The row built of a full collection is as asked.
LEMMA RowAsAsked ==
  ASSUME PointsTypes', InOrder', Collecting', saving' = "asked", row' = Points!Point(taken'),
         UNCHANGED <<cur, owner>>
  PROVE  row' \in PointRows /\ row'.request = cur' /\ AsAsked(row)'
<1>1. state' = "collecting" /\ cur \in Collects /\ Len(taken') = cur.epochs /\ Len(taken') \in Nat
      /\ taken' \in Seq(Epochs) /\ owner \in Nat /\ call'[cur] = "ended"
  BY DEF PointsTypes, Collecting
<1>2. PICK epochs, worst : epochs = taken' /\ worst = Points!Worst(taken')
  OBVIOUS
<1>3. worst \in {"float", "fixed"}
  BY <1>2 DEF Points!Worst
<1>4. \A i \in 1 .. Len(epochs) :
        epochs[i].q = "fixed" \/ (worst = "float" /\ ~cur.fixedOnly)
  BY <1>2 DEF Collecting, Points!Worst
<1>5. \A i, j \in 1 .. Len(epochs) : i < j => epochs[i].n < epochs[j].n
  BY <1>2 DEF InOrder
<1>6. row' = [request |-> cur, session |-> owner, epochs |-> epochs, carr |-> worst]
  BY <1>2 DEF Points!Point
<1>7. row'.request = cur /\ row'.session = owner /\ row'.epochs = epochs /\ row'.carr = worst
  BY <1>6
<1>8. row' \in PointRows
  BY <1>1, <1>2, <1>3, <1>6 DEF PointRows
<1>9. AsAsked(row)'
  BY <1>1, <1>2, <1>4, <1>5, <1>7 DEF AsAsked
<1>10. QED
  BY <1>7, <1>8, <1>9

\* Epochs that arrive, and epochs taken from the queue, keep PointsInv.
LEMMA PointsEpochs ==
  ASSUME PointsInv,
         Points!Publish \/ Points!Ignore \/ Points!Skip \/ Points!Accept
  PROVE  PointsInv'
<1> USE DEF Points!requests, Points!store, Points!collection
<1>1. PointsTypes /\ InOrder /\ Collecting /\ Stored /\ Saving /\ Cancelled /\ SessionsInOrder
  BY DEF PointsInv
<1>2. UNCHANGED <<call, read, cancelled, points, alive, sessions, clock, cur, owner>>
  BY DEF Points!Publish, Points!Ignore, Points!Skip, Points!Accept
<1>3. /\ \A p \in points' : AsAsked(p)' /\ SessionsInOrder'
      /\ \A p, q \in points' : q.request = p.request => q = p
  BY <1>2, SameCalls
<1>4. SessionsInOrder'
  BY <1>1, <1>2 DEF SessionsInOrder
<1>5. CASE Points!Publish
  <2>1. PICK q \in Points!Quality, n \in {published, published + 1} \ {0} :
          queue' = IF Len(queue) < QueueSize THEN Append(queue, [n |-> n, q |-> q])
                   ELSE Append(Tail(queue), [n |-> n, q |-> q])
    BY <1>5 DEF Points!Publish
  <2> DEFINE e == [n |-> n, q |-> q]
             rest == IF Len(queue) < QueueSize THEN queue ELSE Tail(queue)
  <2>2. e \in Epochs /\ n \in Nat /\ published <= n /\ n <= published' /\ published' = published + 1
        /\ published \in Nat
    BY <1>1, <1>5 DEF PointsTypes, Epochs, Points!Publish
  <2>3. /\ rest \in Seq(Epochs) /\ Len(rest) \in Nat
        /\ \A j \in 1 .. Len(rest) : \E k \in 1 .. Len(queue) : rest[j] = queue[k]
        /\ \A j \in 1 .. Len(rest) : rest[j].n <= published /\ rest[j].n \in Nat
        /\ \A i, j \in 1 .. Len(rest) : i <= j => rest[i].n <= rest[j].n
    <3>1. CASE Len(queue) < QueueSize
      <4>1. rest = queue /\ queue \in Seq(Epochs)
        BY <1>1, <3>1 DEF PointsTypes
      <4>2. QED
        BY <1>1, <4>1, EpochFacts DEF InOrder
    <3>2. CASE ~(Len(queue) < QueueSize)
      <4>1. queue # <<>> /\ queue \in Seq(Epochs)
        BY <1>1, <3>2, CollectsAssumption DEF PointsTypes
      <4>2. /\ Len(queue) \in Nat \ {0} /\ Tail(queue) \in Seq(Epochs)
            /\ Len(Tail(queue)) = Len(queue) - 1
            /\ \A i \in 1 .. Len(queue) - 1 : Tail(queue)[i] = queue[i + 1]
        BY <4>1, ThreadTail
      <4>3. \A j \in 1 .. Len(Tail(queue)) : j + 1 \in 1 .. Len(queue) /\ Tail(queue)[j] = queue[j + 1]
        BY <4>2
      <4>4. \A j \in 1 .. Len(Tail(queue)) : Tail(queue)[j].n <= published /\ Tail(queue)[j].n \in Nat
        BY <1>1, <4>1, <4>2, <4>3, EpochFacts DEF InOrder
      <4>5. \A i, j \in 1 .. Len(Tail(queue)) : i <= j => Tail(queue)[i].n <= Tail(queue)[j].n
        BY <1>1, <4>2, <4>3 DEF InOrder
      <4>6. QED
        BY <3>2, <4>2, <4>3, <4>4, <4>5
    <3>3. QED
      BY <3>1, <3>2
  <2>4. queue' = Append(rest, e)
    BY <2>1
  <2> HIDE DEF rest
  <2>5. /\ queue' \in Seq(Epochs) /\ Len(queue') = Len(rest) + 1
        /\ \A i \in 1 .. Len(rest) : queue'[i] = rest[i]
        /\ queue'[Len(rest) + 1] = e /\ e.n = n
    BY <2>2, <2>3, <2>4, ThreadAppend
  <2> HIDE DEF e
  <2>6. \A j \in 1 .. Len(queue') : j = Len(rest) + 1 \/ j \in 1 .. Len(rest)
    BY <2>3, <2>5
  <2>7. UNCHANGED <<state, taken, skipped, saving, row>>
    BY <1>5 DEF Points!Publish
  <2>8. /\ taken \in Seq(Epochs)
        /\ \A i \in 1 .. Len(taken) : taken[i].n \in Nat /\ taken[i].n <= published
    BY <1>1, EpochFacts DEF PointsTypes, InOrder
  <2>9. InOrder'
    <3>a. \A j \in 1 .. Len(rest) : queue'[j].n = rest[j].n
      BY <2>5
    <3>b. queue'[Len(rest) + 1].n = n
      BY <2>5
    <3>1. \A j \in 1 .. Len(queue') : queue'[j].n <= published'
      <4>1. \A j \in 1 .. Len(rest) : rest[j].n <= published + 1
        BY <2>2, <2>3
      <4>2. QED
        BY <2>2, <2>6, <3>a, <3>b, <4>1
    <3>2. \A i, j \in 1 .. Len(queue') : i <= j => queue'[i].n <= queue'[j].n
      <4>1. \A j \in 1 .. Len(rest) : rest[j].n <= n
        BY <2>2, <2>3
      <4>2. ASSUME NEW i \in 1 .. Len(queue'), NEW j \in 1 .. Len(queue'), i <= j
            PROVE  queue'[i].n <= queue'[j].n
        <5>1. CASE j \in 1 .. Len(rest)
          <6>1. i \in 1 .. Len(rest)
            BY <2>3, <2>5, <4>2, <5>1
          <6>2. rest[i].n <= rest[j].n
            BY <2>3, <4>2, <5>1, <6>1
          <6>3. QED
            BY <3>a, <5>1, <6>1, <6>2
        <5>2. CASE j = Len(rest) + 1 /\ i \in 1 .. Len(rest)
          BY <3>a, <3>b, <4>1, <5>2
        <5>3. CASE j = Len(rest) + 1 /\ i = Len(rest) + 1
          BY <2>2, <3>b, <5>3
        <5>4. QED
          BY <2>3, <2>6, <4>2, <5>1, <5>2, <5>3
      <4>3. QED
        BY <4>2
    <3>3. \A i \in 1 .. Len(taken'), j \in 1 .. Len(queue') : taken'[i].n <= queue'[j].n
      <4>1. \A i \in 1 .. Len(taken) : taken[i].n <= n
        BY <2>2, <2>8
      <4>2. \A i \in 1 .. Len(taken), j \in 1 .. Len(rest) : taken[i].n <= rest[j].n
        BY <1>1, <2>3 DEF InOrder
      <4>3. QED
        BY <2>6, <2>7, <3>a, <3>b, <4>1, <4>2
    <3>4. \A i \in 1 .. Len(taken') : taken'[i].n <= published'
      BY <2>2, <2>7, <2>8
    <3>5. QED
      BY <1>1, <2>7, <3>1, <3>2, <3>3, <3>4 DEF InOrder
  <2>10. PointsTypes'
    BY <1>1, <1>2, <2>2, <2>5, <2>7 DEF PointsTypes
  <2>11. Collecting' /\ Stored' /\ Cancelled'
    BY <1>1, <1>2, <1>3, <2>7 DEF Collecting, Stored, Cancelled
  <2>12. Saving'
    BY <1>1, <1>2, <2>7 DEF Saving, AsAsked
  <2>13. QED
    BY <1>4, <2>9, <2>10, <2>11, <2>12 DEF PointsInv
\* The three others take the head of the queue.
<1>6. ASSUME queue # <<>>, queue' = Tail(queue), published' = published
      PROVE  /\ queue' \in Seq(Epochs) /\ Head(queue) \in Epochs /\ Len(queue') \in Nat
             /\ \A j \in 1 .. Len(queue') : queue'[j].n <= published
             /\ \A i, j \in 1 .. Len(queue') : i <= j => queue'[i].n <= queue'[j].n
             /\ \A j \in 1 .. Len(queue') : Head(queue).n <= queue'[j].n
             /\ Head(queue).n <= published
             /\ \A i \in 1 .. Len(taken) : taken[i].n <= Head(queue).n
             /\ \A i \in 1 .. Len(taken), j \in 1 .. Len(queue') : taken[i].n <= queue'[j].n
  <2>1. /\ Len(queue) \in Nat \ {0} /\ Head(queue) = queue[1] /\ Head(queue) \in Epochs
        /\ queue' \in Seq(Epochs) /\ Len(queue') = Len(queue) - 1
        /\ \A i \in 1 .. Len(queue) - 1 : queue'[i] = queue[i + 1]
    BY <1>1, <1>6, ThreadTail DEF PointsTypes
  <2>2. \A j \in 1 .. Len(queue') : j + 1 \in 1 .. Len(queue) /\ queue'[j] = queue[j + 1]
    BY <2>1
  <2>3. 1 \in 1 .. Len(queue)
    BY <2>1
  <2>4. \A i, j \in 1 .. Len(queue') : i <= j => queue'[i].n <= queue'[j].n
    BY <1>1, <2>1, <2>2 DEF InOrder
  <2>5. \A j \in 1 .. Len(queue') : queue'[j].n <= published /\ Head(queue).n <= queue'[j].n
    BY <1>1, <2>1, <2>2, <2>3 DEF InOrder
  <2>6. \A i \in 1 .. Len(taken) : taken[i].n <= Head(queue).n
    BY <1>1, <2>1, <2>3 DEF InOrder
  <2>7. \A i \in 1 .. Len(taken), j \in 1 .. Len(queue') : taken[i].n <= queue'[j].n
    BY <1>1, <2>2 DEF InOrder
  <2>8. Head(queue).n <= published
    BY <1>1, <2>1, <2>3 DEF InOrder
  <2>9. Len(queue') \in Nat
    BY <2>1
  <2>10. \A j \in 1 .. Len(queue') : queue'[j].n <= published
    BY <2>5
  <2>11. \A j \in 1 .. Len(queue') : Head(queue).n <= queue'[j].n
    BY <2>5
  <2>12. QED
    BY <2>1, <2>4, <2>6, <2>7, <2>8, <2>9, <2>10, <2>11, Zenon
<1>7. CASE Points!Ignore \/ Points!Skip
  <2>1. queue # <<>> /\ queue' = Tail(queue) /\ published' = published /\ taken' = taken
        /\ saving' = "no" /\ saving = "no"
    BY <1>7 DEF Points!Ignore, Points!Skip
  <2>2. InOrder'
    BY <1>1, <1>6, <2>1 DEF InOrder
  <2>3. state' \in {state, "aborted"} /\ (state' # state => state = "collecting") /\ skipped' \in Nat
    BY <1>1, <1>7 DEF Points!Ignore, Points!Skip, PointsTypes
  <2>4. PointsTypes'
    BY <1>1, <1>2, <1>6, <2>1, <2>3 DEF PointsTypes
  <2>5. Collecting' /\ Stored' /\ Saving' /\ Cancelled'
    BY <1>1, <1>2, <1>3, <2>1, <2>3 DEF Collecting, Stored, Saving, Cancelled
  <2>6. QED
    BY <1>4, <2>2, <2>4, <2>5 DEF PointsInv
<1>8. CASE Points!Accept
  <2>1. /\ queue # <<>> /\ queue' = Tail(queue) /\ published' = published
        /\ taken' = Append(taken, Head(queue)) /\ UNCHANGED <<state, skipped>>
        /\ saving = "no" /\ state = "collecting" /\ Points!Usable(Head(queue))
        /\ IF Len(taken') >= cur.epochs THEN saving' = "asked" /\ row' = Points!Point(taken')
           ELSE saving' = saving /\ row' = row
    BY <1>8 DEF Points!Accept
  <2> DEFINE e == Head(queue)
  <2>2. e \in Epochs /\ e.n \in Nat /\ taken \in Seq(Epochs) /\ Len(taken) \in Nat
    BY <1>1, <1>6, <2>1 DEF PointsTypes, Epochs
  <2>3. /\ taken' \in Seq(Epochs) /\ Len(taken') = Len(taken) + 1
        /\ \A i \in 1 .. Len(taken) : taken'[i] = taken[i]
        /\ taken'[Len(taken) + 1] = e
    BY <2>1, <2>2, ThreadAppend
  <2>4. \A i \in 1 .. Len(taken') : i = Len(taken) + 1 \/ i \in 1 .. Len(taken)
    BY <2>2, <2>3
  <2>5. \A i \in 1 .. Len(taken) : taken[i].n \in Nat /\ taken[i].n < e.n
    <3>1. \A i \in 1 .. Len(taken) : taken[i].n \in Nat /\ taken[i].n <= e.n
      BY <1>6, <2>1, <2>2, EpochFacts
    <3>2. Len(taken) # 0 => taken[Len(taken)].n # e.n
      BY <2>1, <2>2 DEF Points!Usable, Points!Repeats
    <3>3. ASSUME NEW i \in 1 .. Len(taken) PROVE taken[i].n < e.n
      <4>1. CASE i = Len(taken)
        BY <2>2, <3>1, <3>2, <4>1
      <4>2. CASE i # Len(taken)
        <5>1. i < Len(taken) /\ Len(taken) \in 1 .. Len(taken)
          BY <2>2, <4>2
        <5>2. taken[i].n < taken[Len(taken)].n
          BY <1>1, <5>1 DEF InOrder
        <5>3. QED
          BY <2>2, <3>1, <5>1, <5>2
      <4>3. QED
        BY <4>1, <4>2
    <3>4. QED
      BY <3>1, <3>3
  <2>6. e.q = "fixed" \/ (e.q = "float" /\ ~cur.fixedOnly)
    BY <2>1, <2>2 DEF Points!Usable, Points!Quality, Epochs
  <2> HIDE DEF e
  <2>7. InOrder'
    <3>1. \A i \in 1 .. Len(taken'), j \in 1 .. Len(queue') : taken'[i].n <= queue'[j].n
      BY <1>6, <2>1, <2>3, <2>4 DEF e
    <3>2. \A i, j \in 1 .. Len(taken') : i < j => taken'[i].n < taken'[j].n
      BY <1>1, <2>2, <2>3, <2>4, <2>5 DEF InOrder
    <3>3. \A i \in 1 .. Len(taken') : taken'[i].n <= published'
      BY <1>1, <1>6, <2>1, <2>3, <2>4 DEF InOrder, e
    <3>4. QED
      BY <1>6, <2>1, <3>1, <3>2, <3>3 DEF InOrder
  <2>8. PointsTypes'
    BY <1>1, <1>2, <1>6, <2>1, <2>3 DEF PointsTypes
  <2>9. Collecting'
    <3>1. \A i \in 1 .. Len(taken') : taken'[i].q = "fixed" \/ (taken'[i].q = "float" /\ ~cur'.fixedOnly)
      BY <1>1, <1>2, <2>3, <2>4, <2>6 DEF Collecting
    <3>2. cur \in Collects /\ cur.epochs \in Nat /\ Len(taken) < cur.epochs
      BY <1>1, <2>1, CollectsAssumption DEF PointsTypes, Collecting
    <3>3. QED
      BY <1>1, <1>2, <2>1, <2>2, <2>3, <3>1, <3>2 DEF Collecting
  <2>10. Stored' /\ Cancelled'
    BY <1>1, <1>2, <1>3, <2>1 DEF Stored, Cancelled
  <2>11. Saving'
    BY <1>2, <2>1, <2>7, <2>8, <2>9, RowAsAsked DEF Saving
  <2>12. QED
    BY <1>4, <2>7, <2>8, <2>9, <2>10, <2>11 DEF PointsInv
<1>9. QED
  BY <1>5, <1>7, <1>8

\* Saving, cancelling and deleting keep PointsInv.
LEMMA PointsSave ==
  ASSUME PointsInv,
         \/ Points!Cancel \/ Points!Insert \/ Points!Saved \/ Points!SaveFails
         \/ Points!DeletePoint \/ Points!ClockReads
  PROVE  PointsInv'
<1> USE DEF Points!requests, Points!store, Points!collection
<1>1. PointsTypes /\ InOrder /\ Collecting /\ Stored /\ Saving /\ Cancelled /\ SessionsInOrder
  BY DEF PointsInv
<1>2. UNCHANGED <<call, read, cur, owner, taken, skipped, row, sessions, queue, published>>
  BY DEF Points!Cancel, Points!Insert, Points!Saved, Points!SaveFails, Points!DeletePoint,
         Points!ClockReads
<1>3. InOrder' /\ SessionsInOrder'
  BY <1>1, <1>2 DEF InOrder, SessionsInOrder
<1>4. \A p \in points : AsAsked(p)'
  BY <1>2, EndedStays
<1>5. CASE Points!Saved \/ Points!SaveFails
  <2>1. UNCHANGED <<points, alive, clock, cancelled>> /\ saving' = "no"
        /\ state' \in {"aborted", "done"}
        /\ state = "collecting" /\ (state' = "done" => saving = "stored")
    BY <1>1, <1>5 DEF Points!Saved, Points!SaveFails, Collecting
  <2>2. PointsTypes'
    BY <1>1, <1>2, <2>1 DEF PointsTypes
  <2>3. Collecting' /\ Saving'
    BY <1>1, <1>2, <2>1 DEF Collecting, Saving
  <2>4. Stored' /\ Cancelled'
    BY <1>1, <1>2, <1>4, <2>1 DEF Stored, Cancelled
  <2>5. QED
    BY <1>3, <2>2, <2>3, <2>4 DEF PointsInv
<1>6. CASE Points!Cancel
  <2>1. /\ UNCHANGED <<points, alive, clock, saving>> /\ state = "collecting" /\ saving = "no"
        /\ state' = "aborted" /\ cancelled' = cancelled \union {cur}
    BY <1>6 DEF Points!Cancel, Points!CancelAllowed
  <2>2. cur \in Collects /\ call[cur] = "ended" /\ \A p \in points : p.request # cur
    BY <1>1, <2>1 DEF PointsTypes, Collecting, Stored
  <2>3. PointsTypes'
    BY <1>1, <1>2, <2>1, <2>2 DEF PointsTypes
  <2>4. Collecting' /\ Saving' /\ Stored'
    BY <1>1, <1>2, <1>4, <2>1 DEF Collecting, Saving, Stored
  <2>5. Cancelled'
    BY <1>1, <1>2, <2>1, <2>2 DEF Cancelled
  <2>6. QED
    BY <1>3, <2>3, <2>4, <2>5 DEF PointsInv
<1>7. CASE Points!Insert
  <2>1. saving = "asked" /\ saving' = "stored" /\ UNCHANGED <<state, clock, cancelled>>
        /\ points' = points \union {row} /\ alive' = alive \union {row} /\ row' = row
    BY <1>7 DEF Points!Insert
  <2>2. row \in PointRows /\ row.request = cur /\ AsAsked(row) /\ state = "collecting"
    BY <1>1, <2>1 DEF Saving, Collecting
  <2>3. AsAsked(row)'
    BY <1>2, <2>2 DEF AsAsked
  <2>4. PointsTypes'
    <3>1. points' \subseteq PointRows /\ alive' \subseteq points'
      BY <1>1, <2>1, <2>2 DEF PointsTypes
    <3>2. QED
      BY <1>1, <1>2, <2>1, <3>1 DEF PointsTypes
  <2>5. Collecting' /\ Saving'
    BY <1>1, <1>2, <2>1, <2>2, <2>3 DEF Collecting, Saving
  <2>6. Stored'
    <3>1. \A q \in points : q.request # cur
      BY <1>1, <2>1, <2>2 DEF Stored
    <3>2. \A q \in points : AsAsked(q)'
      BY <1>4
    <3>3. \A q \in points' : AsAsked(q)'
      <4>1. ASSUME NEW q \in points' PROVE AsAsked(q)'
        <5>1. q \in points \/ q = row
          BY <2>1
        <5>2. CASE q = row
          BY <1>2, <2>2, <5>2 DEF AsAsked
        <5>3. QED
          BY <3>2, <5>1, <5>2
      <4>2. QED
        BY <4>1
    <3>4. \A o, q \in points' : q.request = o.request => q = o
      BY <1>1, <2>1, <2>2, <3>1 DEF Stored
    <3>5. \E q \in points' : q.request = cur'
      BY <1>2, <2>1, <2>2
    <3>6. QED
      BY <2>1, <3>3, <3>4, <3>5 DEF Stored
  <2>7. Cancelled'
    <3>1. cur \notin cancelled
      BY <1>1, <2>2 DEF Cancelled
    <3>2. QED
      BY <1>1, <1>2, <2>1, <2>2, <3>1 DEF Cancelled
  <2>8. QED
    BY <1>3, <2>4, <2>5, <2>6, <2>7 DEF PointsInv
<1>8. CASE Points!DeletePoint \/ Points!ClockReads
  <2>1. UNCHANGED <<points, state, saving, cancelled>> /\ alive' \subseteq alive /\ clock' \in Nat
    BY <1>1, <1>8 DEF Points!DeletePoint, Points!ClockReads, PointsTypes
  <2>2. PointsTypes'
    BY <1>1, <1>2, <2>1 DEF PointsTypes
  <2>3. Collecting' /\ Stored' /\ Saving' /\ Cancelled'
    BY <1>1, <1>2, <1>4, <2>1 DEF Collecting, Stored, Saving, Cancelled, AsAsked
  <2>4. QED
    BY <1>3, <2>2, <2>3 DEF PointsInv
<1>9. QED
  BY <1>5, <1>6, <1>7, <1>8

\* Sessions that open and close keep PointsInv.
LEMMA PointsSessions ==
  ASSUME PointsInv, Points!OpenSession \/ Points!CloseSession
  PROVE  PointsInv'
<1> USE DEF Points!collection
<1>1. PointsTypes /\ InOrder /\ Collecting /\ Stored /\ Saving /\ Cancelled /\ SessionsInOrder
  BY DEF PointsInv
<1>2. UNCHANGED <<call, read, state, cur, owner, taken, skipped, saving, row, cancelled, points,
                  alive, clock, queue, published>>
  BY DEF Points!OpenSession, Points!CloseSession, Points!requests
<1> DEFINE c == Points!Current
<1>3. /\ c \in 0 .. Len(sessions) /\ Len(sessions) \in Nat /\ (c # 0 => c = Len(sessions))
      /\ \A i \in 1 .. Len(sessions) : sessions[i].to = Points!Open <=> i = c
  BY <1>1, CurrentSession
<1>4. ASSUME NEW i \in 1 .. Len(sessions)
      PROVE  /\ sessions[i] \in SessionRows /\ sessions[i].from \in Nat
             /\ Points!EndStamp(sessions[i].from) \in Nat
             /\ Points!EndStamp(sessions[i].from) >= sessions[i].from
  <2>1. sessions[i] \in SessionRows /\ sessions[i].from \in Nat /\ clock \in Nat
    <3>1. sessions[i] \in SessionRows /\ clock \in Nat
      BY <1>1 DEF PointsTypes
    <3>2. \A x \in SessionRows : x.from \in Nat
      BY DEF SessionRows
    <3>3. QED
      BY <3>1, <3>2
  <2>2. QED
    BY <2>1 DEF Points!EndStamp
<1>5. Points!Open \notin Nat
  BY DEF Points!Open
<1> DEFINE Ended(i) == [sessions[i] EXCEPT !.to = Points!EndStamp(sessions[i].from)]
<1>6. ASSUME NEW i \in 1 .. Len(sessions)
      PROVE  /\ Ended(i) \in SessionRows /\ Ended(i).from = sessions[i].from
             /\ Ended(i).to = Points!EndStamp(sessions[i].from)
  BY <1>4 DEF SessionRows
<1> HIDE DEF c, Ended
<1>7. sessions' \in Seq(SessionRows) /\ SessionsInOrder'
  <2>1. CASE Points!CloseSession
    <3>1. c \in 1 .. Len(sessions) /\ c = Len(sessions)
      BY <1>3, <2>1 DEF Points!CloseSession, c
    <3>2. sessions' = [sessions EXCEPT ![c] = Ended(c)]
      BY <2>1 DEF Points!CloseSession, c, Ended
    <3>3. sessions' \in Seq(SessionRows) /\ Len(sessions') = Len(sessions)
          /\ \A i \in 1 .. Len(sessions) : sessions'[i] = IF i = c THEN Ended(c) ELSE sessions[i]
      BY <1>1, <1>6, <3>1, <3>2 DEF PointsTypes
    <3>4. QED
      BY <1>1, <1>3, <1>4, <1>5, <1>6, <3>1, <3>3 DEF SessionsInOrder
  <2>2. CASE Points!OpenSession
    <3> DEFINE older == [i \in 1 .. Len(sessions) |-> IF i = c THEN Ended(i) ELSE sessions[i]]
               new == [from |-> clock, to |-> Points!Open]
    <3>1. sessions' = Append(older, new)
      BY <2>2 DEF Points!OpenSession, c, Ended
    <3>2. new \in SessionRows /\ new.to = Points!Open
      BY <1>1 DEF SessionRows, PointsTypes
    <3>3. older \in Seq(SessionRows) /\ Len(older) = Len(sessions)
      BY <1>3, <1>4, <1>6
    <3>4. \A i \in 1 .. Len(sessions) : older[i].to # Points!Open /\ older[i].to >= older[i].from
      <4>1. ASSUME NEW i \in 1 .. Len(sessions)
            PROVE  older[i].to # Points!Open /\ older[i].to >= older[i].from
        <5>1. CASE i = c
          BY <1>4, <1>5, <1>6, <5>1
        <5>2. CASE i # c
          BY <1>1, <1>3, <5>2 DEF SessionsInOrder
        <5>3. QED
          BY <5>1, <5>2
      <4>2. QED
        BY <4>1
    <3> HIDE DEF older, new
    <3>5. /\ sessions' \in Seq(SessionRows) /\ Len(sessions') = Len(sessions) + 1
          /\ \A i \in 1 .. Len(sessions) : sessions'[i] = older[i]
          /\ sessions'[Len(sessions) + 1] = new
      BY <3>1, <3>2, <3>3, ThreadAppend
    <3>6. \A i \in 1 .. Len(sessions') : i = Len(sessions) + 1 \/ i \in 1 .. Len(sessions)
      BY <1>3, <3>5
    <3>7. QED
      BY <3>2, <3>4, <3>5, <3>6 DEF SessionsInOrder
  <2>3. QED
    BY <2>1, <2>2
<1>8. PointsTypes'
  BY <1>1, <1>2, <1>7 DEF PointsTypes
<1>9. InOrder' /\ Collecting'
  BY <1>1, <1>2 DEF InOrder, Collecting
<1>10. Stored' /\ Saving' /\ Cancelled'
  <2>1. \A p \in points : AsAsked(p)'
    BY <1>2, EndedStays
  <2>2. QED
    BY <1>1, <1>2, <2>1 DEF Stored, Saving, Cancelled, AsAsked
<1>11. QED
  BY <1>7, <1>8, <1>9, <1>10 DEF PointsInv

\* Every step of the collector, the sessions and their clients keeps PointsInv.
LEMMA PointsStep ==
  ASSUME PointsInv, [Points!Next]_(Points!pointVars)
  PROVE  PointsInv'
<1>1. CASE UNCHANGED Points!pointVars
  BY <1>1 DEF Points!pointVars, PointsInv, PointsTypes, InOrder, Collecting, Stored, AsAsked,
              Saving, Cancelled, SessionsInOrder
<1>2. CASE Points!Next
  BY <1>2, PointsStart, PointsEpochs, PointsSave, PointsSessions DEF Points!Next
<1>3. QED
  BY <1>1, <1>2

\* A point is what was asked for, and one that was cancelled is not stored
\* (PointCollector, PointsRepo, SessionsRepo): for every set of requests that
\* race, any number of sessions, any loss of epochs and any failure of the
\* database.
THEOREM PointsAsAsked == Points!Spec => []PointIsAsAsked
<1>1. Points!Init => PointsInv
  <2> SUFFICES ASSUME Points!Init PROVE PointsInv
    OBVIOUS
  <2>1. PointsTypes
    <3>1. taken \in Seq(Epochs) /\ sessions \in Seq(SessionRows) /\ queue \in Seq(Epochs)
      BY DEF Points!Init
    <3>2. QED
      BY <3>1 DEF Points!Init, PointsTypes
  <2>2. InOrder /\ Stored /\ SessionsInOrder
    BY DEF Points!Init, InOrder, Stored, SessionsInOrder
  <2>3. Collecting /\ Saving /\ Cancelled
    BY DEF Points!Init, Collecting, Saving, Cancelled
  <2>4. QED
    BY <2>1, <2>2, <2>3 DEF PointsInv
<1>2. PointsInv => PointIsAsAsked
  <2> SUFFICES ASSUME PointsInv PROVE Points!PointIsAsAsked
    BY DEF PointIsAsAsked
  <2>1. QED
    BY DEF PointsInv, Stored, AsAsked, Cancelled, SessionsInOrder, Points!PointIsAsAsked
<1>3. QED
  BY <1>1, <1>2, PointsStep, PTL DEF Points!Spec

-----------------------------------------------------------------------------
(* Backup *)

Files == [sound : BOOLEAN, rows : SUBSET Nat, there : BOOLEAN]

BackupTypes ==
  /\ dbFile \in Files /\ archive \in Files /\ backup \in Files /\ staged \in Files
  /\ walRows \subseteq Nat /\ daemonOn \in BOOLEAN /\ force \in BOOLEAN
  /\ written \in Nat
  /\ restore \in {"idle", "check", "keep", "unlink", "unlink_wal", "replace", "reference"}
  /\ copies \in Seq(SUBSET Nat) /\ due \subseteq Nat

Kept(rows) == \E i \in DOMAIN copies : copies[i] = rows

\* What each step of a restore has made certain for the next one.
RestoreInv ==
  /\ due = {} \/ Kept(due)
  /\ restore # "idle" => staged.there
  /\ restore = "unlink" /\ dbFile.there => Backup!Rows = {} \/ Kept(Backup!Rows)
  /\ restore \in {"replace", "reference"} => walRows = {}
  /\ restore = "reference" => dbFile.there /\ dbFile.rows = staged.rows

BackupInv == BackupTypes /\ RestoreInv

\* The files of the model are well typed.
LEMMA FileFacts ==
  /\ Backup!NoFile \in Files /\ ~Backup!NoFile.there
  /\ \A rows \in SUBSET Nat : /\ Backup!File(rows) \in Files /\ Backup!File(rows).there
                               /\ Backup!File(rows).rows = rows
  /\ \A f \in Files : /\ f.rows \subseteq Nat /\ f.there \in BOOLEAN
                      /\ Backup!Spoilt(f) \in Files
                      /\ Backup!Spoilt(f).rows = f.rows /\ Backup!Spoilt(f).there = f.there
BY DEF Files, Backup!NoFile, Backup!File, Backup!Spoilt

\* Folding the WAL in changes no row.
LEMMA FoldIn ==
  ASSUME dbFile \in Files, walRows \subseteq Nat,
         dbFile' = Backup!File(Backup!Rows), walRows' = {}
  PROVE  /\ dbFile' \in Files /\ dbFile'.there /\ dbFile'.rows = Backup!Rows
         /\ Backup!Rows' = Backup!Rows
         /\ walRows = {} => dbFile'.rows = dbFile.rows
<1>1. Backup!Rows \in SUBSET Nat
  BY FileFacts DEF Backup!Rows
<1>2. dbFile' \in Files /\ dbFile'.there /\ dbFile'.rows = Backup!Rows
  BY <1>1, FileFacts
<1>3. Backup!Rows' = Backup!Rows
  BY <1>2 DEF Backup!Rows
<1>4. walRows = {} => dbFile'.rows = dbFile.rows
  BY <1>2 DEF Backup!Rows
<1>5. QED
  BY <1>2, <1>3, <1>4

\* RestoreInv is about the database, the restore and the copies it kept only.
LEMMA Aside ==
  ASSUME RestoreInv, UNCHANGED <<dbFile, walRows, restore, staged, copies, due>>
  PROVE  RestoreInv'
BY DEF RestoreInv, Kept, Backup!Rows

\* KeepAs leaves a copy of the rows it was given, under a new stamp or over
\* the last one.
LEMMA KeptAs ==
  ASSUME NEW rows \in SUBSET Nat, copies \in Seq(SUBSET Nat), Backup!KeepAs(rows)
  PROVE  copies' \in Seq(SUBSET Nat) /\ Kept(rows)'
<1>1. CASE copies' = Append(copies, rows)
  <2>1. Len(copies) + 1 \in DOMAIN copies' /\ copies'[Len(copies) + 1] = rows
    BY <1>1
  <2>2. QED
    BY <1>1, <2>1 DEF Kept
<1>2. CASE copies # <<>> /\ copies' = [copies EXCEPT ![Len(copies)] = rows]
  <2>1. Len(copies) \in DOMAIN copies
    BY <1>2
  <2>2. copies' \in Seq(SUBSET Nat) /\ DOMAIN copies' = DOMAIN copies
    BY <1>2, <2>1
  <2>3. copies'[Len(copies)] = rows
    BY <1>2, <2>1
  <2>4. QED
    BY <2>1, <2>2, <2>3 DEF Kept
<1>3. QED
  BY <1>1, <1>2 DEF Backup!KeepAs

\* Every step of the daemon, of a backup and of a restore keeps BackupInv.
LEMMA BackupStep ==
  ASSUME BackupInv, [Backup!Next]_(Backup!state)
  PROVE  BackupInv'
<1> USE FileFacts DEF BackupInv, BackupTypes, RestoreInv, Kept, Backup!Rows, Backup!files, Backup!archived, Backup!restoring
<1>1. CASE Backup!DaemonStarts
  <2>1. CASE dbFile.there
    <3>1. UNCHANGED <<dbFile, walRows, written, archive, backup, restore, force, staged, due, copies>>
          /\ daemonOn' = TRUE
      BY <1>1, <2>1 DEF Backup!DaemonStarts
    <3>2. RestoreInv'
      BY <3>1, Aside
    <3>3. BackupTypes'
      BY <3>1
    <3>4. QED
      BY <3>2, <3>3
  <2>2. CASE ~dbFile.there
    <3>1. dbFile' = Backup!File({}) /\ walRows' = {} /\ dbFile'.rows = {} /\ dbFile' \in Files
      BY <1>1, <2>2 DEF Backup!DaemonStarts
    <3>2. BackupTypes'
      BY <1>1, <3>1 DEF Backup!DaemonStarts
    <3>3. Backup!Rows' = {} /\ restore # "reference"
      BY <2>2, <3>1
    <3>4. QED
      BY <1>1, <3>1, <3>2, <3>3 DEF Backup!DaemonStarts
  <2>3. QED
    BY <2>1, <2>2
<1>2. CASE Backup!DaemonWrites
  BY <1>2 DEF Backup!DaemonWrites
<1>3. CASE Backup!DaemonStops
  <2>1. CASE dbFile.there /\ dbFile' = Backup!File(Backup!Rows) /\ walRows' = {}
    <3>1. /\ dbFile' \in Files /\ dbFile'.there /\ dbFile'.rows = Backup!Rows
          /\ Backup!Rows' = Backup!Rows
          /\ walRows = {} => dbFile'.rows = dbFile.rows
      BY <2>1, FoldIn
    <3>2. UNCHANGED <<written, archive, backup, restore, force, staged, due, copies>> /\ daemonOn' = FALSE
      BY <1>3 DEF Backup!DaemonStops
    <3>3. BackupTypes'
      BY <2>1, <3>1, <3>2
    <3> HIDE DEF Backup!Rows
    <3>4. QED
      BY <2>1, <3>1, <3>2, <3>3
  <2>2. CASE UNCHANGED <<dbFile, walRows>>
    BY <1>3, <2>2 DEF Backup!DaemonStops
  <2>3. QED
    BY <1>3, <2>1, <2>2 DEF Backup!DaemonStops
<1>4. CASE Backup!GoesBad
  BY <1>4 DEF Backup!GoesBad
<1>5. CASE Backup!Snapshot
  <2>1. /\ backup' = Backup!File(Backup!Rows)
        /\ UNCHANGED <<dbFile, walRows, daemonOn, written, archive, restore, force, staged, due, copies>>
    BY <1>5 DEF Backup!Snapshot
  <2>2. Backup!Rows \in SUBSET Nat
    OBVIOUS
  <2>3. RestoreInv'
    BY <2>1, Aside
  <2> HIDE DEF Backup!Rows
  <2>4. backup' \in Files
    BY <2>1, <2>2
  <2>5. BackupTypes'
    BY <2>1, <2>4
  <2>6. QED
    BY <2>3, <2>5
<1>6. CASE Backup!ArchiveDone
  BY <1>6 DEF Backup!ArchiveDone
<1>7. CASE Backup!BackupDies
  BY <1>7 DEF Backup!BackupDies
<1>8. ASSUME NEW f \in BOOLEAN, Backup!Stage(f) PROVE BackupInv'
  <2>1. UNCHANGED <<dbFile, walRows, daemonOn, written, archive, backup, due, copies>>
    BY <1>8 DEF Backup!Stage, Backup!Refused
  <2>2. \/ restore' = "check" /\ force' = f /\ staged' = archive /\ archive.there
        \/ restore' = "idle" /\ force' = FALSE /\ staged' = Backup!NoFile
    BY <1>8 DEF Backup!Stage, Backup!Refused
  <2>3. BackupTypes'
    BY <2>1, <2>2
  <2>4. RestoreInv'
    BY <2>1, <2>2
  <2>5. QED
    BY <2>3, <2>4
<1>9. CASE Backup!EnsureNotInUse
  <2>1. CASE restore' = "keep" /\ dbFile' = Backup!File(Backup!Rows) /\ walRows' = {}
    <3>1. dbFile' \in Files
      BY <2>1, FoldIn
    <3>2. UNCHANGED <<daemonOn, written, archive, backup, force, staged, due, copies>> /\ restore = "check"
      BY <1>9, <2>1 DEF Backup!EnsureNotInUse, Backup!Refused
    <3>3. QED
      BY <2>1, <3>1, <3>2
  <2>2. CASE UNCHANGED <<dbFile, walRows>>
    <3>1. UNCHANGED <<daemonOn, written, archive, backup, due, copies>> /\ restore = "check"
      BY <1>9 DEF Backup!EnsureNotInUse, Backup!Refused
    <3>2. \/ restore' = "idle" /\ force' = FALSE /\ staged' = Backup!NoFile
          \/ restore' = "keep" /\ UNCHANGED <<force, staged>>
          \/ restore' = "unlink" /\ ~dbFile.there /\ UNCHANGED <<force, staged>>
      BY <1>9 DEF Backup!EnsureNotInUse, Backup!Refused
    <3>3. BackupTypes'
      BY <2>2, <3>1, <3>2
    <3>4. RestoreInv'
      BY <2>2, <3>1, <3>2
    <3>5. QED
      BY <3>3, <3>4
  <2>3. QED
    BY <1>9, <2>1, <2>2 DEF Backup!EnsureNotInUse
<1>10. CASE Backup!Keeps
  <2>1. /\ restore = "keep" /\ restore' = "unlink" /\ due' = {} /\ Backup!KeepAs(Backup!Rows)
        /\ UNCHANGED <<dbFile, walRows, daemonOn, written, archive, backup, force, staged>>
    BY <1>10 DEF Backup!Keeps, Backup!KeepPrevious
  <2>2. Backup!Rows \in SUBSET Nat /\ Backup!Rows' = Backup!Rows
    BY <2>1
  <2>3. copies' \in Seq(SUBSET Nat) /\ Kept(Backup!Rows)'
    <3> HIDE DEF Kept, Backup!Rows
    <3>1. PICK rows \in SUBSET Nat : rows = Backup!Rows
      BY <2>2
    <3>2. copies' \in Seq(SUBSET Nat) /\ Kept(rows)'
      BY <2>1, <3>1, KeptAs
    <3>3. Kept(Backup!Rows)'
      BY <2>2, <3>1, <3>2 DEF Kept
    <3>4. QED
      BY <3>2, <3>3
  <2>4. BackupTypes'
    BY <2>1, <2>3
  <2>5. RestoreInv'
    <3> HIDE DEF Kept, Backup!Rows
    <3>1. QED
      BY <2>1, <2>3
  <2>6. QED
    BY <2>4, <2>5
<1>11. CASE Backup!UnlinkDatabase
  BY <1>11 DEF Backup!UnlinkDatabase
<1>12. CASE Backup!UnlinkRest
  BY <1>12 DEF Backup!UnlinkRest, Backup!UnlinkWal
<1>13. CASE Backup!ReplaceDatabase
  BY <1>13 DEF Backup!ReplaceDatabase
<1>14. CASE Backup!WriteReference
  BY <1>14 DEF Backup!WriteReference
<1>15. CASE Backup!RestoreDies
  BY <1>15 DEF Backup!RestoreDies, Backup!Refused
<1>16. CASE UNCHANGED Backup!state
  BY <1>16 DEF Backup!state
<1>17. QED
  BY <1>1, <1>2, <1>3, <1>4, <1>5, <1>6, <1>7, <1>8, <1>9, <1>10, <1>11, <1>12, <1>13, <1>14,
     <1>15, <1>16 DEF Backup!Next

\* A restore keeps what it replaces and brings back what was archived
\* (restore_backup), whichever step of it, of a backup or of the daemon dies,
\* and whether or not the old database could still be read.
THEOREM RestoreAlwaysKeeps ==
  Backup!Init /\ [][Backup!Next]_(Backup!state) => []RestoreKeeps
<1>1. Backup!Init => BackupInv
  <2> SUFFICES ASSUME Backup!Init PROVE BackupTypes /\ RestoreInv
    BY DEF BackupInv
  <2>1. BackupTypes
    <3>1. copies \in Seq(SUBSET Nat)
      BY DEF Backup!Init
    <3>2. daemonOn \in BOOLEAN /\ force \in BOOLEAN /\ walRows \subseteq Nat /\ due \subseteq Nat
      BY DEF Backup!Init
    <3>3. QED
      BY FileFacts, <3>1, <3>2 DEF Backup!Init, BackupTypes
  <2>2. RestoreInv
    BY FileFacts DEF Backup!Init, RestoreInv
  <2>3. QED
    BY <2>1, <2>2
<1>2. BackupInv => RestoreKeeps
  BY DEF RestoreKeeps, BackupInv, BackupTypes, RestoreInv, Kept, Backup!RestoreKeeps, Backup!ReplacedIsKept,
         Backup!RestoredIsArchive, Backup!Rows
<1>3. QED
  BY <1>1, <1>2, BackupStep, PTL

-----------------------------------------------------------------------------
(* Export *)

ECallers == Export!Callers
ENames == Export!Names
EDir(c) == Export!Dir(c)
ERuns == Export!Runs

ExportSteps == {"idle", "ended", "clean", "aside", "move"} \union Export!Working
Outcomes == {"none", "done", "failed", "cancelled", "died"}

ExportTypes ==
  /\ syncFlag \in BOOLEAN
  /\ exportAt \in [ECallers -> ExportSteps]
  /\ exportOutcome \in [ECallers -> Outcomes]
  /\ names \in [ECallers -> Seq(ENames)]
  /\ aside \in [ECallers -> [ENames -> ERuns \union {0}]]
  /\ placed \in [ECallers -> SUBSET ENames]
  /\ overrun \in [ECallers -> {"no", "aside", "move"}]
  /\ dir \in [Export!Kinds -> [ENames -> ERuns \union {0}]]
  /\ before \in [ECallers -> [ENames -> ERuns \union {0}]]
  /\ listed \in [ERuns -> SUBSET ENames]

Exporting(c) == exportAt[c] \notin {"idle", "ended"}
HasMoved(c) == exportAt[c] \in {"move", "clean", "ended"}
Spoiled(c) == EDir(c) \in spoiled

\* The callers of a directory export one after another.
InTurn ==
  \A c, d \in ECallers :
    EDir(c) = EDir(d) /\ d.run < c.run /\ Exporting(c) => exportAt[d] = "ended"

\* A version is found in its own directory only, and not before its export
\* moves anything; one found at the beginning is of an export that has ended.
Versions ==
  \A c \in ECallers : \A n \in ENames :
    /\ \A k \in Export!Kinds : dir[k][n] = c.run => HasMoved(c) /\ EDir(c) = k
    /\ \A d \in ECallers : aside[d][n] = c.run => HasMoved(c) /\ EDir(c) = EDir(d)
    /\ \A d \in ECallers :
         before[d][n] = c.run => exportAt[c] = "ended" /\ EDir(c) = EDir(d)

\* What an export is about to ship.
Shipping ==
  \A c \in ECallers :
    exportAt[c] \in {"publish", "aside", "move"} =>
      listed[c.run] = Export!Named(c) /\ "manifest" \in listed[c.run]

\* The manifest is the last a publish moves, and no export that failed moved it;
\* a caller that went on without its thread has spoiled its directory.
PlacingAt(c) ==
  /\ \A i \in 1 .. Len(names[c]) : names[c][i] = "manifest" => i = Len(names[c])
  /\ exportAt[c] \in {"idle"} \union Export!Working => placed[c] = {}
  /\ Export!Place(c) = "aside" => placed[c] = {}
  /\ "manifest" \in placed[c] => Export!Named(c) \subseteq placed[c]
  /\ "manifest" \in placed[c] => exportOutcome[c] # "failed"
  /\ Export!Place(c) \in {"idle", "aside", "move"} \union Export!Working =>
       exportOutcome[c] # "failed"
  /\ overrun[c] # "no" => Spoiled(c) /\ exportAt[c] \in {"clean", "ended"}

OwnManifest(c) ==
  /\ \A k \in Export!Kinds : dir[k]["manifest"] = c.run => "manifest" \in placed[c]
  /\ \A d \in ECallers : aside[d]["manifest"] = c.run => "manifest" \in placed[c]

Placing == \A c \in ECallers : PlacingAt(c)
Owned == \A c \in ECallers : OwnManifest(c)

\* Nothing was touched, n was set aside, or it was not there before: what a move
\* that fails makes of the directory is what it was, unless that fails too.
Untouched(c) == dir[EDir(c)] = before[c] /\ aside[c] = Export!Nothing
NameAside(c, n) == aside[c][n] = before[c][n] /\ before[c][n] # 0
NameFree(c, n) ==
  aside[c][n] = 0 /\ before[c][n] = 0 /\ dir[EDir(c)][n] = IF n \in placed[c] THEN c.run ELSE 0
NameLeft(c, n) == aside[c][n] = 0 /\ dir[EDir(c)][n] = before[c][n]

RecoverableAt(c) ==
  /\ exportAt[c] \in Export!Working => Untouched(c)
  /\ exportAt[c] = "aside" =>
       \A n \in ENames : \/ NameAside(c, n) /\ dir[EDir(c)][n] = 0
                         \/ NameLeft(c, n)
  /\ exportAt[c] = "move" =>
       \A n \in ENames : \/ NameAside(c, n) \/ NameFree(c, n)
                         \/ NameLeft(c, n) /\ n \notin listed[c.run]
  /\ exportAt[c] = "move" =>
       placed[c] \subseteq listed[c.run] /\ \A n \in placed[c] : dir[EDir(c)][n] = c.run

Recoverable ==
  \A c \in ECallers :
    /\ exportAt[c] = "idle" => aside[c] = Export!Nothing
    /\ ~Spoiled(c) => RecoverableAt(c)

CleanedAt(c) ==
  exportAt[c] = "clean" =>
    \/ exportOutcome[c] \in {"failed", "cancelled"} /\ dir[EDir(c)] = before[c]
    \/ exportOutcome[c] \in {"done", "cancelled"} /\ dir[EDir(c)]["manifest"] = c.run

Cleaned == \A c \in ECallers : ~Spoiled(c) => CleanedAt(c)

\* A directory's manifest describes what is beside it.
Whole(d, lists) ==
  d["manifest"] # 0 => \A n \in lists[d["manifest"]] : d[n] = d["manifest"]
Publishing(k) == \E c \in ECallers : EDir(c) = k /\ exportAt[c] \in {"aside", "move"}

Described ==
  /\ \A k \in Export!Kinds \ spoiled : ~Publishing(k) => Whole(dir[k], listed)
  /\ \A c \in ECallers : Exporting(c) /\ ~Spoiled(c) => Whole(before[c], listed)

ExportInv ==
  ExportTypes /\ InTurn /\ Versions /\ Shipping /\ Placing /\ Owned /\ Recoverable /\ Cleaned
  /\ Described

(* What the steps of an export do to the directories, by kind.             *)
Goes(q, step) == exportAt' = [exportAt EXCEPT ![q] = step]
Comes(q, how) == exportOutcome' = [exportOutcome EXCEPT ![q] = how]
threads == <<placed, overrun, spoiled>>

\* The thread of a publish is over; its caller may have gone on already.
Exits(q, hows) ==
  IF overrun[q] = "no" THEN Goes(q, "clean") /\ (\E how \in hows : Comes(q, how)) /\ UNCHANGED overrun
  ELSE overrun' = [overrun EXCEPT ![q] = "no"] /\ UNCHANGED <<exportAt, exportOutcome>>

Begins(q) ==
  /\ exportAt[q] = "idle"
  /\ \A d \in ECallers : EDir(d) = EDir(q) /\ d.run < q.run => exportAt[d] = "ended"
  /\ before' = [before EXCEPT ![q] = dir[EDir(q)]]
  /\ \/ Goes(q, "ended") /\ Comes(q, "failed")
     \/ Goes(q, "lock") /\ UNCHANGED exportOutcome
  /\ UNCHANGED <<names, aside, dir, listed, threads>>

Onward(q) ==
  /\ exportAt[q] \in Export!Working
  /\ \E step \in Export!Working \ {"publish"} : Goes(q, step)
  /\ UNCHANGED <<exportOutcome, names, aside, dir, before, listed, threads>>

GivesUp(q) ==
  /\ exportAt[q] \in Export!Working
  /\ Goes(q, "clean") /\ \E how \in {"failed", "cancelled"} : Comes(q, how)
  /\ UNCHANGED <<names, aside, dir, before, listed, threads>>

Converts(q) ==
  /\ exportAt[q] = "convert" /\ Goes(q, "publish")
  /\ \E ns \in Seq(ENames) :
       /\ \E i \in 1 .. Len(ns) : ns[i] = "manifest"
       /\ \A i \in 1 .. Len(ns) : ns[i] = "manifest" => i = Len(ns)
       /\ names' = [names EXCEPT ![q] = ns]
       /\ listed' = [listed EXCEPT ![q.run] = {ns[i] : i \in 1 .. Len(ns)}]
  /\ UNCHANGED <<exportOutcome, aside, dir, before, threads>>

Publishes(q) ==
  /\ exportAt[q] = "publish"
  /\ \/ Goes(q, "aside")
     \/ Goes(q, "move") /\ \A n \in listed[q.run] : dir[EDir(q)][n] = 0
  /\ UNCHANGED <<exportOutcome, names, aside, dir, before, listed, threads>>

SetsAside(q, n) ==
  /\ Export!Place(q) = "aside" /\ n \in Export!Named(q)
  /\ dir[EDir(q)][n] \notin {0, q.run} /\ aside[q][n] = 0
  /\ aside' = [aside EXCEPT ![q][n] = dir[EDir(q)][n]]
  /\ dir' = [dir EXCEPT ![EDir(q)][n] = 0]
  /\ UNCHANGED <<exportAt, exportOutcome, names, before, listed, threads>>

AllAside(q) ==
  /\ Export!Place(q) = "aside"
  /\ IF overrun[q] = "no" THEN Goes(q, "move") /\ UNCHANGED overrun
     ELSE overrun' = [overrun EXCEPT ![q] = "move"] /\ UNCHANGED exportAt
  /\ \A n \in Export!Named(q) : dir[EDir(q)][n] \in {0, q.run} \/ aside[q][n] # 0
  /\ UNCHANGED <<exportOutcome, names, aside, dir, before, listed, placed, spoiled>>

Moves(q, n) ==
  /\ Export!Place(q) = "move" /\ n \in Export!Named(q)
  /\ n = "manifest" => Export!Named(q) \subseteq placed[q] \union {n}
  /\ dir' = [dir EXCEPT ![EDir(q)][n] = q.run]
  /\ placed' = [placed EXCEPT ![q] = @ \union {n}]
  /\ UNCHANGED <<exportAt, exportOutcome, names, aside, before, listed, overrun, spoiled>>

AllMoved(q) ==
  /\ Export!Place(q) = "move" /\ Export!Named(q) \subseteq placed[q]
  /\ Exits(q, {"done", "cancelled"})
  /\ UNCHANGED <<names, aside, dir, before, listed, placed, spoiled>>

TakesBack(q, kept, astray) ==
  /\ Export!Place(q) \in {"aside", "move"}
  /\ Export!Place(q) = "move" => ~(Export!Named(q) \subseteq placed[q])
  /\ dir' = [dir EXCEPT ![EDir(q)] = Export!TakeBack(q, kept, astray)]
  /\ aside' = [aside EXCEPT ![q] = [n \in ENames |-> IF n \in astray THEN aside[q][n] ELSE 0]]
  /\ spoiled' = IF kept \union astray = {} THEN spoiled ELSE spoiled \union {EDir(q)}
  /\ Exits(q, {"failed", "cancelled"})
  /\ UNCHANGED <<names, before, listed, placed>>

Drains(q) ==
  /\ exportAt[q] \in {"aside", "move"} /\ Goes(q, "clean") /\ Comes(q, "cancelled")
  /\ overrun' = [overrun EXCEPT ![q] = exportAt[q]] /\ spoiled' = spoiled \union {EDir(q)}
  /\ UNCHANGED <<names, aside, dir, before, listed, placed>>

IsCancelled(q) ==
  /\ exportAt[q] = "clean" /\ exportOutcome[q] = "done" /\ Comes(q, "cancelled")
  /\ UNCHANGED <<exportAt, names, aside, dir, before, listed, threads>>

Cleans(q, rest) ==
  /\ exportAt[q] = "clean" /\ Goes(q, "ended")
  /\ aside' = [aside EXCEPT ![q] = [n \in ENames |-> IF n \in rest THEN aside[q][n] ELSE 0]]
  /\ UNCHANGED <<exportOutcome, names, dir, before, listed, threads>>

Dies(q) ==
  /\ exportAt[q] # "idle" /\ Goes(q, "ended") /\ Comes(q, "died")
  /\ overrun' = [overrun EXCEPT ![q] = "no"]
  /\ spoiled' = IF Export!Place(q) \in {"aside", "move"} THEN spoiled \union {EDir(q)} ELSE spoiled
  /\ UNCHANGED <<names, aside, dir, before, listed, placed>>

Untouching ==
  UNCHANGED <<exportAt, exportOutcome, names, aside, dir, before, listed, threads>>

Sorts(q) ==
  \/ Begins(q) \/ Onward(q) \/ GivesUp(q) \/ Converts(q) \/ Publishes(q)
  \/ \E n \in ENames : SetsAside(q, n) \/ Moves(q, n)
  \/ \E kept, astray \in SUBSET ENames : TakesBack(q, kept, astray)
  \/ \E rest \in SUBSET ENames : Cleans(q, rest)
  \/ AllAside(q) \/ AllMoved(q) \/ Drains(q) \/ IsCancelled(q) \/ Dies(q)

LEMMA ExportCallers ==
  /\ \A c \in ECallers : /\ c.run \in Nat /\ c.run # 0 /\ c.run \in ERuns
                         /\ EDir(c) \in Export!Kinds /\ c.overwrite \in BOOLEAN
  /\ \A c, d \in ECallers : c.run = d.run => c = d
  /\ \A r \in ERuns : r \in Nat /\ r # 0 /\ \E c \in ECallers : c.run = r
  /\ "manifest" \in ENames
<1>1. ECallers \subseteq [kind : {"job", "sync", "cli"}, overwrite : BOOLEAN, run : Nat \ {0}]
  BY ExportsAssumption DEF ECallers, Export!Callers
<1>2. \A c, d \in ECallers : c.run = d.run => c = d
  BY ExportsAssumption DEF ECallers, Export!Callers
<1>3. ERuns = {c.run : c \in ECallers} /\ Export!Kinds = {c.kind : c \in ECallers}
  BY DEF ERuns, ECallers, Export!Runs, Export!Kinds
<1>4. "manifest" \in ENames
  BY DEF ENames, Export!Names
<1>5. \A c \in ECallers : EDir(c) = c.kind
  BY DEF EDir, Export!Dir
<1> QED
  BY <1>1, <1>2, <1>3, <1>4, <1>5

\* The first of the names left is the manifest when no other is left.
LEMMA InOrderLeft ==
  ASSUME Placing, NEW q \in ECallers, NEW n, NEW some, Export!Left(q, some, n), n = "manifest"
  PROVE  Export!Named(q) \intersect some \subseteq {n}
<1>1. PICK i \in 1 .. Len(names[q]) :
        names[q][i] = n /\ \A j \in 1 .. (i - 1) : names[q][j] \notin some
  BY DEF Export!Left
<1>2. i = Len(names[q])
  BY <1>1 DEF Placing, PlacingAt
<1>3. ASSUME NEW m \in Export!Named(q), m \in some PROVE m = n
  <2>1. PICK j \in 1 .. Len(names[q]) : names[q][j] = m
    BY DEF Export!Named
  <2> QED
    BY <1>1, <1>2, <1>3, <2>1
<1> QED
  BY <1>3

LEMMA StepSorts ==
  ASSUME ExportTypes, Placing, NEW q \in ECallers, Export!Step(q)
  PROVE  /\ syncFlag' \in BOOLEAN
         /\ Sorts(q) \/ Untouching
<1> USE DEF ExportTypes, Export!work, Export!disk, Export!excess, threads, Export!Go, Export!Ended,
            Goes, Comes, Sorts
<1>0. q.overwrite \in BOOLEAN /\ q \in Export!Callers
  BY ExportCallers DEF ECallers
<1>1. CASE Export!Begin(q)
  <2>1. Begins(q)
    BY <1>1 DEF Export!Begin, Begins, ECallers, EDir
  <2>2. syncFlag' \in BOOLEAN
    BY <1>1 DEF Export!Begin
  <2> QED
    BY <2>1, <2>2
<1>2. CASE Export!TakeLock(q)
  BY <1>2 DEF Export!TakeLock, Onward, GivesUp, Export!Working
<1>3. CASE Export!Refuse(q)
  BY <1>3 DEF Export!Refuse, Onward, GivesUp, Export!Working
<1>4. CASE Export!List(q)
  BY <1>4 DEF Export!List, Onward, GivesUp, Export!Working
<1>5. CASE Export!Splice(q)
  BY <1>5 DEF Export!Splice, Onward, GivesUp, Export!Working
<1>6. CASE Export!Convert(q)
  <2>1. PICK nav \in BOOLEAN :
          /\ names' = [names EXCEPT ![q] = Export!Shipped(nav)]
          /\ listed' = [listed EXCEPT ![q.run] =
                          {Export!Shipped(nav)[i] : i \in 1..Len(Export!Shipped(nav))}]
    BY <1>6 DEF Export!Convert
  <2> DEFINE ns == Export!Shipped(nav)
  <2>2. /\ ns \in Seq(ENames) /\ \E i \in 1 .. Len(ns) : ns[i] = "manifest"
        /\ \A i \in 1 .. Len(ns) : ns[i] = "manifest" => i = Len(ns)
    <3>1. CASE nav
      <4>1. ns = <<"obs", "nav", "manifest">>
        BY <3>1 DEF Export!Shipped
      <4> QED
        BY <4>1 DEF ENames, Export!Names
    <3>2. CASE ~nav
      <4>1. ns = <<"obs", "manifest">>
        BY <3>2 DEF Export!Shipped
      <4> QED
        BY <4>1 DEF ENames, Export!Names
    <3> QED
      BY <3>1, <3>2
  <2> HIDE DEF ns
  <2>3. /\ names' = [names EXCEPT ![q] = ns]
        /\ listed' = [listed EXCEPT ![q.run] = {ns[i] : i \in 1..Len(ns)}]
    BY <2>1 DEF ns
  <2> HIDE DEF ExportTypes
  <2>6. Converts(q)
    BY <1>6, <2>2, <2>3 DEF Converts, Export!Convert
  <2>7. syncFlag' \in BOOLEAN
    BY <1>6 DEF Export!Convert, ExportTypes
  <2> QED
    BY <2>6, <2>7
<1>7. CASE Export!Publish(q)
  BY <1>7, <1>0 DEF Export!Publish, Publishes, GivesUp, Export!Working, Export!Taken, EDir
<1>8. CASE Export!SetAside(q)
  <2>0. syncFlag' \in BOOLEAN
    BY <1>8 DEF Export!SetAside
  <2>1. CASE Export!ToSetAside(q) = {}
    <3>1. AllAside(q)
      BY <1>8, <2>1 DEF Export!SetAside, Export!ToSetAside, Export!ThreadGoes, Export!Named,
                        ENames, Export!Names, AllAside, EDir
    <3> QED
      BY <2>0, <3>1
  <2>2. CASE Export!ToSetAside(q) # {}
    <3>1. PICK n \in Export!ToSetAside(q) :
            /\ aside' = [aside EXCEPT ![q][n] = dir[Export!Dir(q)][n]]
            /\ dir' = [dir EXCEPT ![Export!Dir(q)][n] = 0]
            /\ UNCHANGED <<exportAt, overrun>>
      BY <2>2, <1>8 DEF Export!SetAside
    <3>2. n \in ENames
      BY DEF Export!ToSetAside, Export!Named
    <3>3. SetsAside(q, n)
      BY <3>1, <1>8 DEF Export!SetAside, Export!ToSetAside, SetsAside, EDir
    <3> QED
      BY <2>0, <3>2, <3>3
  <2> QED
    BY <2>1, <2>2
<1>9. CASE Export!Move(q)
  <2>0. syncFlag' \in BOOLEAN
    BY <1>9 DEF Export!Move
  <2>1. CASE Export!ToMove(q) = {}
    <3>1. Export!Named(q) \subseteq placed[q]
      BY <2>1 DEF Export!ToMove
    <3>2. Export!ThreadEnds(q, "done")
      BY <1>9, <2>1 DEF Export!Move
    <3>3. Exits(q, {"done", "cancelled"})
      BY <3>2 DEF Export!ThreadEnds, Exits
    <3>4. AllMoved(q)
      BY <1>9, <2>1, <3>1, <3>3 DEF Export!Move, AllMoved
    <3> QED
      BY <2>0, <3>4
  <2>2. CASE Export!ToMove(q) # {}
    <3>1. PICK n \in Export!ToMove(q) :
            /\ Export!Left(q, Export!ToMove(q), n)
            /\ dir' = [dir EXCEPT ![Export!Dir(q)][n] = q.run]
            /\ placed' = [placed EXCEPT ![q] = @ \union {n}]
            /\ UNCHANGED <<exportAt, exportOutcome, overrun>>
      BY <2>2, <1>9 DEF Export!Move
    <3>2. n \in ENames /\ n \in Export!Named(q)
      BY DEF Export!ToMove, Export!Named
    <3>3. n = "manifest" => Export!Named(q) \subseteq placed[q] \union {n}
      BY <3>1, InOrderLeft DEF Export!ToMove
    <3>4. Moves(q, n)
      BY <3>1, <3>2, <3>3, <1>9 DEF Export!Move, Moves, EDir
    <3> QED
      BY <2>0, <3>2, <3>4
  <2> QED
    BY <2>1, <2>2
<1>10. CASE Export!MoveFails(q)
  <2>1. PICK i \in 1..(Len(names[q]) + 1), astray \in SUBSET Export!SetAsideOf(q) :
          LET kept == {names[q][j] : j \in i..Len(names[q])} \intersect placed[q]
          IN /\ dir' = [dir EXCEPT ![Export!Dir(q)] = Export!TakeBack(q, kept, astray)]
             /\ aside' = [aside EXCEPT ![q] = [n \in Export!Names |-> IF n \in astray THEN aside[q][n] ELSE 0]]
             /\ spoiled' = IF kept \union astray = {} THEN spoiled ELSE spoiled \union {Export!Dir(q)}
    BY <1>10 DEF Export!MoveFails
  <2> DEFINE kept == {names[q][j] : j \in i..Len(names[q])} \intersect placed[q]
  <2>2. kept \in SUBSET ENames /\ astray \in SUBSET ENames
    BY <1>0 DEF Export!SetAsideOf, ENames
  <2>3. /\ dir' = [dir EXCEPT ![EDir(q)] = Export!TakeBack(q, kept, astray)]
        /\ aside' = [aside EXCEPT ![q] = [n \in ENames |-> IF n \in astray THEN aside[q][n] ELSE 0]]
        /\ spoiled' = IF kept \union astray = {} THEN spoiled ELSE spoiled \union {EDir(q)}
    BY <2>1 DEF EDir, ENames
  <2> HIDE DEF kept
  <2>4. /\ Export!Place(q) \in {"aside", "move"}
        /\ Export!Place(q) = "move" => ~(Export!Named(q) \subseteq placed[q])
        /\ Export!ThreadEnds(q, "failed") /\ syncFlag' \in BOOLEAN
        /\ UNCHANGED <<names, before, listed, placed>>
    BY <1>10 DEF Export!MoveFails, Export!ToMove
  <2>5. Exits(q, {"failed", "cancelled"})
    BY <2>4 DEF Export!ThreadEnds, Exits
  <2>6. TakesBack(q, kept, astray)
    BY <2>3, <2>4, <2>5 DEF TakesBack
  <2> QED
    BY <2>2, <2>4, <2>6
<1>11. CASE Export!Drain(q)
  BY <1>11 DEF Export!Drain, Drains, EDir
<1>12. CASE Export!StepFails(q)
  BY <1>12 DEF Export!StepFails, GivesUp
<1>13. CASE Export!Cancel(q)
  BY <1>13 DEF Export!Cancel, GivesUp, IsCancelled, Untouching
<1>14. CASE Export!Clean(q)
  <2>1. PICK rest \in SUBSET Export!Names :
          aside' = [aside EXCEPT ![q] = [n \in Export!Names |-> IF n \in rest THEN aside[q][n] ELSE 0]]
    BY <1>14 DEF Export!Clean
  <2>2. Cleans(q, rest) /\ syncFlag' \in BOOLEAN
    BY <1>14, <2>1 DEF Export!Clean, Cleans, ENames
  <2> QED
    BY <2>2 DEF ENames
<1>15. CASE Export!Die(q)
  <2>1. exportAt[q] # "idle"
    BY <1>15 DEF Export!Die, Placing, PlacingAt
  <2> QED
    BY <1>15, <2>1 DEF Export!Die, Dies, EDir
<1> QED
  BY <1>1, <1>2, <1>3, <1>4, <1>5, <1>6, <1>7, <1>8, <1>9, <1>10, <1>11, <1>12, <1>13, <1>14, <1>15
     DEF Export!Step, Sorts

\* Where a caller may be when its thread has ended.
LEMMA ExitsTypes ==
  ASSUME ExportTypes, NEW q \in ECallers, NEW hows \in SUBSET Outcomes, Exits(q, hows)
  PROVE  /\ exportAt' \in [ECallers -> ExportSteps] /\ exportOutcome' \in [ECallers -> Outcomes]
         /\ overrun' \in [ECallers -> {"no", "aside", "move"}]
<1>1. CASE overrun[q] = "no"
  <2>1. PICK how \in hows : Comes(q, how)
    BY <1>1 DEF Exits
  <2>2. Goes(q, "clean") /\ UNCHANGED overrun /\ "clean" \in ExportSteps
    BY <1>1 DEF Exits, ExportSteps
  <2>3. exportAt' \in [ECallers -> ExportSteps]
    BY <2>2 DEF Goes, ExportTypes
  <2>4. exportOutcome' \in [ECallers -> Outcomes]
    BY <2>1 DEF Comes, ExportTypes
  <2> QED
    BY <2>2, <2>3, <2>4 DEF ExportTypes
<1>2. CASE overrun[q] # "no"
  BY <1>2 DEF Exits, ExportTypes
<1> QED
  BY <1>1, <1>2

\* Where a caller may be after a step, and what stays of the others.
LEMMA ExportTypesStep ==
  ASSUME ExportTypes, NEW q \in ECallers, syncFlag' \in BOOLEAN, Sorts(q)
  PROVE  ExportTypes'
<1> USE DEF ExportTypes, Goes, Comes, threads, Export!Place
<1>0. /\ q.run \in ERuns /\ EDir(q) \in Export!Kinds /\ "manifest" \in ENames
      /\ Export!Working \subseteq ExportSteps /\ {"idle", "ended", "clean", "aside", "move"} \subseteq ExportSteps
  BY ExportCallers DEF ExportSteps
<1>1. CASE Begins(q)
  <2>1. before' \in [ECallers -> [ENames -> ERuns \union {0}]]
    BY <1>0, <1>1 DEF Begins
  <2>2. "lock" \in ExportSteps /\ "ended" \in ExportSteps /\ "failed" \in Outcomes
    BY DEF ExportSteps, Export!Working, Outcomes
  <2>3. exportAt' \in [ECallers -> ExportSteps]
    BY <1>1, <2>2 DEF Begins
  <2>4. exportOutcome' \in [ECallers -> Outcomes]
    BY <1>1, <2>2 DEF Begins
  <2> QED
    BY <1>1, <2>1, <2>3, <2>4 DEF Begins
<1>2. CASE Onward(q)
  BY <1>0, <1>2 DEF Onward
<1>3. CASE GivesUp(q)
  BY <1>0, <1>3 DEF GivesUp, Outcomes
<1>4. CASE Converts(q)
  <2>1. PICK ns \in Seq(ENames) :
       /\ names' = [names EXCEPT ![q] = ns]
       /\ listed' = [listed EXCEPT ![q.run] = {ns[i] : i \in 1 .. Len(ns)}]
    BY <1>4 DEF Converts
  <2>2. {ns[i] : i \in 1 .. Len(ns)} \in SUBSET ENames
    OBVIOUS
  <2> DEFINE N == {ns[i] : i \in 1 .. Len(ns)}
  <2> HIDE DEF N
  <2>3. N \in SUBSET ENames /\ listed' = [listed EXCEPT ![q.run] = N]
    BY <2>1, <2>2 DEF N
  <2>4. "publish" \in ExportSteps
    BY DEF ExportSteps, Export!Working
  <2> QED
    BY <1>0, <1>4, <2>1, <2>3, <2>4 DEF Converts
<1>5. CASE Publishes(q)
  BY <1>0, <1>5 DEF Publishes
<1>6. ASSUME NEW n \in ENames, SetsAside(q, n) PROVE ExportTypes'
  BY <1>0, <1>6 DEF SetsAside
<1>7. ASSUME NEW n \in ENames, Moves(q, n) PROVE ExportTypes'
  BY <1>0, <1>7 DEF Moves
<1>8. CASE AllAside(q)
  BY <1>0, <1>8 DEF AllAside
<1>9. CASE AllMoved(q)
  <2>1. {"done", "cancelled"} \in SUBSET Outcomes /\ Exits(q, {"done", "cancelled"})
    BY <1>9 DEF AllMoved, Outcomes
  <2>2. /\ exportAt' \in [ECallers -> ExportSteps] /\ exportOutcome' \in [ECallers -> Outcomes]
        /\ overrun' \in [ECallers -> {"no", "aside", "move"}]
    BY <2>1, ExitsTypes
  <2> QED
    BY <1>9, <2>2 DEF AllMoved
<1>10. ASSUME NEW kept \in SUBSET ENames, NEW astray \in SUBSET ENames, TakesBack(q, kept, astray)
       PROVE  ExportTypes'
  <2>1. Export!TakeBack(q, kept, astray) \in [ENames -> ERuns \union {0}]
    BY <1>0 DEF Export!TakeBack, ENames, EDir, Export!Dir
  <2>2. [n \in ENames |-> IF n \in astray THEN aside[q][n] ELSE 0] \in [ENames -> ERuns \union {0}]
    OBVIOUS
  <2>3. /\ aside' \in [ECallers -> [ENames -> ERuns \union {0}]]
        /\ dir' \in [Export!Kinds -> [ENames -> ERuns \union {0}]]
    BY <1>0, <1>10, <2>1, <2>2 DEF TakesBack
  <2>4. /\ exportAt' \in [ECallers -> ExportSteps] /\ exportOutcome' \in [ECallers -> Outcomes]
        /\ overrun' \in [ECallers -> {"no", "aside", "move"}]
    <3>1. {"failed", "cancelled"} \in SUBSET Outcomes /\ Exits(q, {"failed", "cancelled"})
      BY <1>10 DEF TakesBack, Outcomes
    <3> QED
      BY <3>1, ExitsTypes
  <2> QED
    BY <1>10, <2>3, <2>4 DEF TakesBack
<1>11. CASE Drains(q)
  BY <1>0, <1>11 DEF Drains, Outcomes
<1>12. CASE IsCancelled(q)
  BY <1>0, <1>12 DEF IsCancelled, Outcomes
<1>13. ASSUME NEW rest \in SUBSET ENames, Cleans(q, rest) PROVE ExportTypes'
  <2>1. [n \in ENames |-> IF n \in rest THEN aside[q][n] ELSE 0] \in [ENames -> ERuns \union {0}]
    OBVIOUS
  <2> QED
    BY <1>0, <1>13, <2>1 DEF Cleans
<1>14. CASE Dies(q)
  BY <1>0, <1>14 DEF Dies, Outcomes
<1> QED
  BY <1>1, <1>2, <1>3, <1>4, <1>5, <1>6, <1>7, <1>8, <1>9, <1>10, <1>11, <1>12, <1>13, <1>14
     DEF Sorts

\* A caller leaves "idle" once, when those before it have ended, and never "ended".
LEMMA Places ==
  ASSUME ExportTypes, Placing, NEW q \in ECallers, Sorts(q)
  PROVE  /\ \A c \in ECallers : c # q => exportAt'[c] = exportAt[c] /\ exportOutcome'[c] = exportOutcome[c]
         /\ (exportAt[q] = "ended" => exportAt'[q] = "ended") /\ exportAt'[q] # "idle"
         /\ exportAt[q] = "idle" => Begins(q)
         /\ HasMoved(q) => HasMoved(q)'
         /\ Export!Place(q) = "move" => HasMoved(q)
         /\ spoiled \subseteq spoiled'
<1> USE DEF ExportTypes, Goes, Comes, Exits, threads, Export!Working, Exporting, HasMoved,
            Export!Place
<1>0. overrun[q] # "no" => exportAt[q] \in {"clean", "ended"}
  BY DEF Placing, PlacingAt
<1>1. CASE Begins(q)
  BY <1>0, <1>1 DEF Begins
<1>2. CASE Onward(q) \/ GivesUp(q)
  BY <1>0, <1>2 DEF Onward, GivesUp
<1>3. CASE Converts(q) \/ Publishes(q)
  BY <1>0, <1>3 DEF Converts, Publishes
<1>4. CASE \E n \in ENames : SetsAside(q, n) \/ Moves(q, n)
  BY <1>0, <1>4 DEF SetsAside, Moves
<1>5. CASE AllAside(q) \/ AllMoved(q)
  BY <1>0, <1>5 DEF AllAside, AllMoved
<1>6. CASE \E kept, astray \in SUBSET ENames : TakesBack(q, kept, astray)
  BY <1>0, <1>6 DEF TakesBack
<1>7. CASE Drains(q) \/ IsCancelled(q) \/ Dies(q) \/ \E rest \in SUBSET ENames : Cleans(q, rest)
  BY <1>0, <1>7 DEF Drains, IsCancelled, Cleans, Dies
<1> QED
  BY <1>1, <1>2, <1>3, <1>4, <1>5, <1>6, <1>7 DEF Sorts

LEMMA InTurnStep ==
  ASSUME ExportTypes, InTurn, Placing, NEW q \in ECallers, Sorts(q)
  PROVE  InTurn'
<1> SUFFICES ASSUME NEW c \in ECallers, NEW d \in ECallers,
                    EDir(c) = EDir(d), d.run < c.run, Exporting(c)'
             PROVE  exportAt'[d] = "ended"
  BY DEF InTurn, EDir, Export!Dir
<1>1. exportAt[d] = "ended" => exportAt'[d] = "ended"
  BY Places
<1>2. CASE Exporting(c)
  BY <1>1, <1>2 DEF InTurn
<1>3. CASE ~Exporting(c)
  <2>1. c = q /\ Begins(q)
    BY <1>3, Places DEF Exporting
  <2> QED
    BY <1>1, <2>1 DEF Begins
<1> QED
  BY <1>2, <1>3

\* Nobody else is at work in the directory of one who exports, unless it is spoiled.
LEMMA Alone ==
  ASSUME InTurn, Placing, NEW c \in ECallers, NEW q \in ECallers, Exporting(c), EDir(c) = EDir(q),
         Export!Place(q) \in {"aside", "move"}, ~Spoiled(c)
  PROVE  c = q
<1>1. overrun[q] = "no"
  BY DEF Placing, PlacingAt, Spoiled
<1>2. Exporting(q)
  BY <1>1 DEF Export!Place, Exporting
<1> QED
  BY <1>2, ExportCallers DEF InTurn, Exporting

\* What a failing move leaves is what there was before.
LEMMA Restored ==
  ASSUME ExportTypes, Versions, Placing, Recoverable, NEW q \in ECallers,
         Export!Place(q) \in {"aside", "move"}, ~Spoiled(q)
  PROVE  Export!TakeBack(q, {}, {}) = before[q] /\ overrun[q] = "no"
<1>0. overrun[q] = "no" /\ exportAt[q] \in {"aside", "move"}
  BY DEF Placing, PlacingAt, Export!Place
<1>1. \A n \in ENames : Export!TakeBack(q, {}, {})[n] = before[q][n]
  <2> SUFFICES ASSUME NEW n \in ENames PROVE Export!TakeBack(q, {}, {})[n] = before[q][n]
    OBVIOUS
  <2>1. Export!TakeBack(q, {}, {})[n] = IF aside[q][n] # 0 THEN aside[q][n]
                   ELSE IF n \in placed[q] THEN 0 ELSE dir[EDir(q)][n]
    BY DEF Export!TakeBack, ENames, EDir
  <2>2. exportAt[q] = "aside" => placed[q] = {}
    BY <1>0 DEF Placing, PlacingAt, Export!Place
  <2>3. exportAt[q] = "move" => placed[q] \subseteq listed[q.run]
    BY DEF Recoverable, RecoverableAt
  <2>4. \/ NameAside(q, n)
        \/ NameFree(q, n)
        \/ NameLeft(q, n) /\ n \notin placed[q]
    BY <1>0, <2>2, <2>3 DEF Recoverable, RecoverableAt
  <2> QED
    BY <2>1, <2>4 DEF NameAside, NameFree, NameLeft
<1>2. before[q] \in [ENames -> ERuns \union {0}]
  BY DEF ExportTypes
<1>3. Export!TakeBack(q, {}, {}) = [n \in ENames |-> Export!TakeBack(q, {}, {})[n]]
  BY DEF Export!TakeBack, ENames
<1> QED
  BY <1>0, <1>1, <1>2, <1>3

\* A name of a directory, or one set aside, comes from where it was.
LEMMA Sources ==
  ASSUME ExportTypes, NEW q \in ECallers, Sorts(q), NEW n \in ENames
  PROVE  /\ \A k \in Export!Kinds :
              \/ dir'[k][n] \in {0, dir[k][n]}
              \/ k = EDir(q) /\ dir'[k][n] = aside[q][n]
              \/ k = EDir(q) /\ dir'[k][n] = q.run /\ Moves(q, n)
         /\ \A d \in ECallers :
              \/ aside'[d][n] \in {0, aside[d][n]}
              \/ d = q /\ aside'[d][n] = dir[EDir(q)][n]
<1> USE DEF ExportTypes, threads
<1>0. EDir(q) \in Export!Kinds
  BY ExportCallers
<1>1. CASE UNCHANGED <<dir, aside>>
  BY <1>1
<1>2. ASSUME NEW m \in ENames, SetsAside(q, m) PROVE UNCHANGED <<dir, aside>> \/
         /\ \A k \in Export!Kinds : dir'[k][n] \in {0, dir[k][n]}
         /\ \A d \in ECallers :
              \/ aside'[d][n] \in {0, aside[d][n]}
              \/ d = q /\ aside'[d][n] = dir[EDir(q)][n]
  BY <1>0, <1>2 DEF SetsAside
<1>3. ASSUME NEW m \in ENames, Moves(q, m) PROVE aside' = aside /\ \A k \in Export!Kinds :
              \/ dir'[k][n] = dir[k][n]
              \/ k = EDir(q) /\ dir'[k][n] = q.run /\ m = n
  BY <1>0, <1>3 DEF Moves
<1>4. ASSUME NEW kept \in SUBSET ENames, NEW astray \in SUBSET ENames, TakesBack(q, kept, astray)
      PROVE  /\ \A k \in Export!Kinds :
                  \/ dir'[k][n] \in {0, dir[k][n]}
                  \/ k = EDir(q) /\ dir'[k][n] = aside[q][n]
             /\ \A d \in ECallers : aside'[d][n] \in {0, aside[d][n]}
  <2>1. Export!TakeBack(q, kept, astray)[n] \in {aside[q][n], 0, dir[EDir(q)][n]}
    BY DEF Export!TakeBack, ENames, EDir
  <2>2. \A d \in ECallers : aside'[d][n] \in {0, aside[d][n]}
    BY <1>0, <1>4 DEF TakesBack
  <2> QED
    BY <1>0, <1>4, <2>1, <2>2 DEF TakesBack
<1>5. ASSUME NEW rest \in SUBSET ENames, Cleans(q, rest)
      PROVE  dir' = dir /\ \A d \in ECallers : aside'[d][n] \in {0, aside[d][n]}
  BY <1>0, <1>5 DEF Cleans
<1> QED
  BY <1>1, <1>2, <1>3, <1>4, <1>5
  DEF Sorts, Begins, Onward, GivesUp, Converts, Publishes, AllAside, AllMoved, Drains, IsCancelled,
      Dies

LEMMA VersionsStep ==
  ASSUME ExportTypes, InTurn, Versions, Placing, NEW q \in ECallers, Sorts(q)
  PROVE  Versions'
<1>0. /\ q.run \in ERuns /\ EDir(q) \in Export!Kinds /\ \A c \in ECallers : c.run # 0
      /\ \A c \in ECallers : HasMoved(c) => HasMoved(c)'
      /\ \A c \in ECallers : exportAt[c] = "ended" => exportAt'[c] = "ended"
  BY ExportCallers, Places DEF HasMoved
<1> SUFFICES ASSUME NEW c \in ECallers, NEW n \in ENames
             PROVE  /\ \A k \in Export!Kinds : dir'[k][n] = c.run => HasMoved(c)' /\ EDir(c) = k
                    /\ \A d \in ECallers :
                         aside'[d][n] = c.run => HasMoved(c)' /\ EDir(c) = EDir(d)
                    /\ \A d \in ECallers :
                         before'[d][n] = c.run => exportAt'[c] = "ended" /\ EDir(c) = EDir(d)
  BY DEF Versions, EDir, Export!Dir
<1>1. \A k \in Export!Kinds : dir'[k][n] = c.run => HasMoved(c)' /\ EDir(c) = k
  <2> SUFFICES ASSUME NEW k \in Export!Kinds, dir'[k][n] = c.run
               PROVE  HasMoved(c)' /\ EDir(c) = k
    OBVIOUS
  <2>1. \/ dir[k][n] = c.run
        \/ k = EDir(q) /\ aside[q][n] = c.run
        \/ k = EDir(q) /\ c.run = q.run /\ Moves(q, n)
    BY <1>0, Sources
  <2>2. CASE k = EDir(q) /\ c.run = q.run /\ Moves(q, n)
    <3>1. c = q /\ Export!Place(q) = "move"
      BY <2>2, ExportCallers DEF Moves
    <3> QED
      BY <1>0, <2>2, <3>1, Places
  <2> QED
    BY <1>0, <2>1, <2>2 DEF Versions
<1>2. \A d \in ECallers : aside'[d][n] = c.run => HasMoved(c)' /\ EDir(c) = EDir(d)
  BY <1>0, Sources DEF Versions
<1>3. ASSUME NEW d \in ECallers, before'[d][n] = c.run
      PROVE  exportAt'[c] = "ended" /\ EDir(c) = EDir(d)
  <2>1. CASE before'[d] = before[d]
    BY <1>0, <1>3, <2>1 DEF Versions
  <2>2. CASE d = q /\ Begins(q)
    <3>1. dir[EDir(q)][n] = c.run
      BY <1>3, <2>2 DEF Begins, ExportTypes
    <3>2. HasMoved(c) /\ EDir(c) = EDir(q)
      BY <1>0, <3>1 DEF Versions
    <3>3. c # q /\ c.run # q.run /\ c.run \in Nat /\ q.run \in Nat
      BY <3>2, <2>2, ExportCallers DEF Begins, HasMoved
    <3>4. exportAt[c] = "ended"
      <4>1. CASE c.run < q.run
        BY <4>1, <3>2, <2>2 DEF Begins
      <4>2. CASE q.run < c.run
        <5>1. ~Exporting(c)
          BY <4>2, <3>2, <2>2 DEF Begins, InTurn
        <5> QED
          BY <5>1, <3>2 DEF HasMoved, Exporting
      <4> QED
        BY <3>3, <4>1, <4>2
    <3> QED
      BY <1>0, <2>2, <3>2, <3>4
  <2>3. before'[d] = before[d] \/ (d = q /\ Begins(q))
    BY DEF Sorts, Begins, Onward, GivesUp, Converts, Publishes, SetsAside, AllAside, Moves, AllMoved,
           TakesBack, Drains, IsCancelled, Cleans, Dies, ExportTypes
  <2> QED
    BY <2>1, <2>2, <2>3
<1> QED
  BY <1>1, <1>2, <1>3

\* The steps of one caller leave what another relies on alone.
LEMMA Apart ==
  ASSUME ExportTypes, InTurn, Placing, NEW q \in ECallers, Sorts(q), NEW c \in ECallers, c # q
  PROVE  /\ exportAt'[c] = exportAt[c] /\ exportOutcome'[c] = exportOutcome[c]
         /\ names'[c] = names[c] /\ aside'[c] = aside[c] /\ before'[c] = before[c]
         /\ placed'[c] = placed[c] /\ overrun'[c] = overrun[c]
         /\ listed'[c.run] = listed[c.run]
         /\ Exporting(c) /\ ~Spoiled(c) => dir'[EDir(c)] = dir[EDir(c)]
<1>1. exportAt'[c] = exportAt[c] /\ exportOutcome'[c] = exportOutcome[c]
  BY Places
<1>2. q.run \in ERuns /\ c.run \in ERuns /\ c.run # q.run /\ EDir(q) \in Export!Kinds /\ EDir(c) \in Export!Kinds
  BY ExportCallers
<1>3. Exporting(c) /\ ~Spoiled(c) /\ Export!Place(q) \in {"aside", "move"} => EDir(c) # EDir(q)
  BY Alone
<1> USE DEF ExportTypes, Exits, threads
<1>4. CASE Converts(q)
  BY <1>1, <1>2, <1>4 DEF Converts
<1>5. CASE \E n \in ENames : SetsAside(q, n) \/ Moves(q, n)
  BY <1>1, <1>2, <1>3, <1>5 DEF SetsAside, Moves
<1>6. CASE Begins(q) \/ Onward(q) \/ GivesUp(q) \/ Publishes(q)
  BY <1>1, <1>2, <1>6 DEF Begins, Onward, GivesUp, Publishes
<1>7. CASE AllAside(q) \/ AllMoved(q) \/ IsCancelled(q)
  BY <1>1, <1>2, <1>7 DEF AllAside, AllMoved, IsCancelled
<1>8. ASSUME NEW kept \in SUBSET ENames, NEW astray \in SUBSET ENames, TakesBack(q, kept, astray)
      PROVE  /\ names' = names /\ aside'[c] = aside[c] /\ before' = before /\ placed' = placed
             /\ overrun'[c] = overrun[c] /\ listed' = listed
             /\ Exporting(c) /\ ~Spoiled(c) => dir'[EDir(c)] = dir[EDir(c)]
  BY <1>2, <1>3, <1>8 DEF TakesBack
<1>9. CASE Drains(q) \/ Dies(q) \/ \E rest \in SUBSET ENames : Cleans(q, rest)
  BY <1>1, <1>2, <1>9 DEF Drains, Dies, Cleans
<1> QED
  BY <1>1, <1>4, <1>5, <1>6, <1>7, <1>8, <1>9 DEF Sorts

LEMMA ShippingStep ==
  ASSUME ExportTypes, InTurn, Placing, Shipping, NEW q \in ECallers, Sorts(q)
  PROVE  Shipping'
<1>0. q.run \in ERuns
  BY ExportCallers
<1> DEFINE Ships(at, ns, lists) ==
             at \in {"publish", "aside", "move"} =>
               lists = {ns[i] : i \in 1 .. Len(ns)} /\ "manifest" \in lists
<1>a. \A c \in ECallers : Ships(exportAt[c], names[c], listed[c.run])
  BY DEF Shipping, Export!Named
<1>b. ASSUME \A c \in ECallers : Ships(exportAt'[c], names'[c], listed'[c.run])
      PROVE  Shipping'
  BY <1>b DEF Shipping, Export!Named
<1> SUFFICES ASSUME NEW c \in ECallers
             PROVE  Ships(exportAt'[c], names'[c], listed'[c.run])
  BY <1>b
<1>1. CASE c # q
  <2>1. exportAt'[c] = exportAt[c] /\ names'[c] = names[c] /\ listed'[c.run] = listed[c.run]
    BY <1>1, Apart
  <2> QED
    BY <2>1, <1>a
<1>2. CASE c = q
  <2> SUFFICES Ships(exportAt'[q], names'[q], listed'[q.run])
    BY <1>2
  <2>0. Ships(exportAt[q], names[q], listed[q.run])
    BY <1>a
  <2>a. overrun[q] # "no" => exportAt[q] \in {"clean", "ended"}
    BY DEF Placing, PlacingAt
  <2> USE DEF ExportTypes, Goes, Exits, threads
  <2>1. CASE Converts(q)
    <3>1. PICK ns \in Seq(ENames) :
         /\ \E i \in 1 .. Len(ns) : ns[i] = "manifest"
         /\ names' = [names EXCEPT ![q] = ns]
         /\ listed' = [listed EXCEPT ![q.run] = {ns[i] : i \in 1 .. Len(ns)}]
      BY <2>1 DEF Converts
    <3>2. names'[q] = ns /\ listed'[q.run] = {ns[i] : i \in 1 .. Len(ns)}
      BY <1>0, <3>1
    <3>3. "manifest" \in {ns[i] : i \in 1 .. Len(ns)}
      BY <3>1
    <3> QED
      BY <3>2, <3>3
  <2>2. CASE ~Converts(q)
    <3>1. names' = names /\ listed' = listed
      BY <2>2 DEF Sorts, Begins, Onward, GivesUp, Publishes, SetsAside, AllAside, Moves, AllMoved,
                  TakesBack, Drains, IsCancelled, Cleans, Dies
    <3>2. exportAt'[q] \in {"publish", "aside", "move"} => exportAt[q] \in {"publish", "aside", "move"}
      <4>1. CASE Begins(q) \/ Onward(q) \/ GivesUp(q)
        BY <4>1 DEF Begins, Onward, GivesUp, Export!Working
      <4>2. CASE Publishes(q) \/ AllAside(q)
        BY <4>2 DEF Publishes, AllAside, Export!Place
      <4>3. CASE \E n \in ENames : SetsAside(q, n) \/ Moves(q, n)
        BY <4>3 DEF SetsAside, Moves
      <4>4. CASE AllMoved(q) \/ \E kept, astray \in SUBSET ENames : TakesBack(q, kept, astray)
        BY <4>4 DEF AllMoved, TakesBack
      <4>5. CASE Drains(q) \/ IsCancelled(q) \/ Dies(q) \/ \E rest \in SUBSET ENames : Cleans(q, rest)
        BY <4>5 DEF Drains, IsCancelled, Dies, Cleans
      <4> QED
        BY <2>2, <4>1, <4>2, <4>3, <4>4, <4>5 DEF Sorts
    <3> QED
      BY <2>0, <3>1, <3>2
  <2> QED
    BY <2>1, <2>2
<1> QED
  BY <1>1, <1>2

LEMMA PlacingStep ==
  ASSUME ExportTypes, InTurn, Placing, NEW q \in ECallers, Sorts(q)
  PROVE  Placing'
<1>a. ASSUME \A c \in ECallers : PlacingAt(c)' PROVE Placing'
  BY <1>a DEF Placing, PlacingAt
<1> SUFFICES ASSUME NEW c \in ECallers PROVE PlacingAt(c)'
  BY <1>a
<1>0. spoiled \subseteq spoiled' /\ EDir(c)' = EDir(c)
  BY Places DEF EDir, Export!Dir
<1>1. CASE c # q
  <2>1. PlacingAt(c)
    BY DEF Placing
  <2> QED
    BY <1>0, <1>1, <2>1, Apart DEF PlacingAt, Export!Place, Export!Named, Spoiled
<1>2. CASE c = q
  <2> SUFFICES PlacingAt(q)'
    BY <1>2
  <2>0. PlacingAt(q)
    BY DEF Placing
  <2> USE DEF PlacingAt, Export!Place, Spoiled, ExportTypes, Goes, Comes, Exits, threads
  <2>1. CASE Begins(q)
    BY <1>0, <1>2, <2>0, <2>1 DEF Begins, Export!Named, Export!Working
  <2>2. CASE Onward(q) \/ GivesUp(q) \/ Publishes(q)
    BY <1>0, <1>2, <2>0, <2>2 DEF Onward, GivesUp, Publishes, Export!Named, Export!Working
  <2>3. CASE Converts(q)
    <3>1. PICK ns \in Seq(ENames) :
            /\ \A i \in 1 .. Len(ns) : ns[i] = "manifest" => i = Len(ns)
            /\ names' = [names EXCEPT ![q] = ns]
      BY <2>3 DEF Converts
    <3>2. names'[q] = ns /\ placed'[q] = {} /\ placed' = placed
      BY <2>0, <2>3, <3>1 DEF Converts, Export!Working
    <3>3. exportAt'[q] = "publish" /\ overrun' = overrun /\ overrun[q] = "no"
          /\ exportOutcome' = exportOutcome /\ exportAt[q] \in Export!Working
      BY <2>0, <2>3 DEF Converts, Export!Working
    <3> QED
      BY <2>0, <3>1, <3>2, <3>3 DEF Export!Working
  <2>4. ASSUME NEW n \in ENames, SetsAside(q, n) PROVE PlacingAt(q)'
    BY <1>0, <1>2, <2>0, <2>4 DEF SetsAside, Export!Named
  <2>5. ASSUME NEW n \in ENames, Moves(q, n) PROVE PlacingAt(q)'
    <3>1. /\ UNCHANGED <<exportAt, exportOutcome, names, overrun, spoiled>>
          /\ placed'[q] = placed[q] \union {n} /\ Export!Named(q)' = Export!Named(q)
      BY <2>5 DEF Moves, Export!Named
    <3>2. "manifest" \in placed'[q] => Export!Named(q) \subseteq placed'[q]
      BY <2>0, <2>5, <3>1 DEF Moves
    <3>3. exportAt[q] \in {"move", "clean", "ended"} /\ Export!Place(q) = "move"
      BY <2>0, <2>5 DEF Moves
    <3>4. exportOutcome[q] # "failed"
      BY <2>0, <3>3
    <3> QED
      BY <1>0, <1>2, <2>0, <3>1, <3>2, <3>3, <3>4 DEF Export!Working
  <2>6. CASE AllAside(q)
    BY <1>0, <1>2, <2>0, <2>6 DEF AllAside, Export!Named, Export!Working
  <2>7. CASE AllMoved(q)
    BY <1>0, <1>2, <2>0, <2>7 DEF AllMoved, Export!Named, Export!Working
  <2>8. ASSUME NEW kept \in SUBSET ENames, NEW astray \in SUBSET ENames, TakesBack(q, kept, astray)
        PROVE  PlacingAt(q)'
    <3>1. "manifest" \notin placed[q]
      BY <2>0, <2>8 DEF TakesBack
    <3> QED
      BY <1>0, <1>2, <2>0, <2>8, <3>1 DEF TakesBack, Export!Named, Export!Working
  <2>9. CASE Drains(q)
    <3>1. EDir(q) \in spoiled'
      BY <2>9 DEF Drains
    <3> QED
      BY <1>0, <1>2, <2>0, <2>9, <3>1 DEF Drains, Export!Named, Export!Working
  <2>10. CASE IsCancelled(q)
    BY <1>0, <1>2, <2>0, <2>10 DEF IsCancelled, Export!Named, Export!Working
  <2>11. CASE Dies(q)
    BY <1>0, <1>2, <2>0, <2>11 DEF Dies, Export!Named, Export!Working
  <2>12. ASSUME NEW rest \in SUBSET ENames, Cleans(q, rest) PROVE PlacingAt(q)'
    BY <1>0, <1>2, <2>0, <2>12 DEF Cleans, Export!Named, Export!Working
  <2> QED
    BY <2>1, <2>2, <2>3, <2>4, <2>5, <2>6, <2>7, <2>8, <2>9, <2>10, <2>11, <2>12 DEF Sorts
<1> QED
  BY <1>1, <1>2

LEMMA OwnedStep ==
  ASSUME ExportTypes, InTurn, Placing, Owned, NEW q \in ECallers, Sorts(q)
  PROVE  Owned'
<1> SUFFICES ASSUME NEW c \in ECallers PROVE OwnManifest(c)'
  BY DEF Owned, OwnManifest
<1>0. "manifest" \in ENames /\ c.run # 0 /\ EDir(q) \in Export!Kinds
  BY ExportCallers
<1>1. placed[c] \subseteq placed'[c]
  <2>1. CASE UNCHANGED placed
    BY <2>1
  <2>2. CASE \E n \in ENames : Moves(q, n)
    BY <2>2 DEF Moves, ExportTypes
  <2> QED
    BY <2>1, <2>2
    DEF Sorts, Begins, Onward, GivesUp, Converts, Publishes, SetsAside, AllAside, AllMoved,
        TakesBack, Drains, IsCancelled, Cleans, Dies, threads
<1>2. OwnManifest(c)
  BY DEF Owned
<1>3. ASSUME NEW k \in Export!Kinds, dir'[k]["manifest"] = c.run PROVE "manifest" \in placed'[c]
  <2>1. CASE c.run = q.run /\ Moves(q, "manifest")
    <3>1. c = q
      BY <2>1, ExportCallers
    <3> QED
      BY <2>1, <3>1 DEF Moves, ExportTypes
  <2>2. \/ dir[k]["manifest"] = c.run \/ aside[q]["manifest"] = c.run
        \/ c.run = q.run /\ Moves(q, "manifest")
    BY <1>0, <1>3, Sources
  <2> QED
    BY <1>1, <1>2, <2>1, <2>2 DEF OwnManifest
<1>4. ASSUME NEW d \in ECallers, aside'[d]["manifest"] = c.run PROVE "manifest" \in placed'[c]
  <2>1. aside[d]["manifest"] = c.run \/ dir[EDir(q)]["manifest"] = c.run
    BY <1>0, <1>4, Sources
  <2> QED
    BY <1>0, <1>1, <1>2, <2>1 DEF OwnManifest
<1> QED
  BY <1>3, <1>4 DEF OwnManifest

LEMMA RecoverableStep ==
  ASSUME ExportTypes, InTurn, Versions, Shipping, Placing, Recoverable, NEW q \in ECallers, Sorts(q)
  PROVE  Recoverable'
<1>0. /\ q.run \in ERuns /\ EDir(q) \in Export!Kinds /\ q.run # 0
      /\ \A c \in ECallers : EDir(c)' = EDir(c) /\ (Spoiled(c) => Spoiled(c)')
  BY ExportCallers, Places DEF EDir, Export!Dir, Spoiled
<1>a. ASSUME \A c \in ECallers : /\ exportAt'[c] = "idle" => aside'[c] = Export!Nothing
                                 /\ ~Spoiled(c)' => RecoverableAt(c)'
      PROVE  Recoverable'
  BY <1>a DEF Recoverable, RecoverableAt, Export!Nothing, Spoiled
<1>b. \A c \in ECallers : /\ exportAt[c] = "idle" => aside[c] = Export!Nothing
                          /\ ~Spoiled(c) => RecoverableAt(c)
  BY DEF Recoverable
<1> SUFFICES ASSUME NEW c \in ECallers
             PROVE  /\ exportAt'[c] = "idle" => aside'[c] = Export!Nothing
                    /\ ~Spoiled(c)' => RecoverableAt(c)'
  BY <1>a
<1>1. exportAt'[c] = "idle" => aside'[c] = Export!Nothing
  <2>1. CASE c # q
    BY <1>b, <2>1, Apart
  <2>2. CASE c = q
    BY <2>2, Places
  <2> QED
    BY <2>1, <2>2
<1> SUFFICES ASSUME ~Spoiled(c)' PROVE RecoverableAt(c)'
  BY <1>1
<1>c. ~Spoiled(c) /\ RecoverableAt(c)
  BY <1>0, <1>b
<1> USE DEF NameAside, NameFree, NameLeft, Untouched, Goes
<1>2. CASE c # q
  <2>1. CASE Exporting(c)
    BY <1>0, <1>2, <1>c, <2>1, Apart DEF RecoverableAt
  <2>2. CASE ~Exporting(c)
    <3>1. exportAt'[c] \in {"idle", "ended"}
      BY <1>2, <2>2, Apart DEF Exporting
    <3> QED
      BY <3>1 DEF RecoverableAt, Export!Working
  <2> QED
    BY <2>1, <2>2
<1>3. CASE c = q
  <2> USE DEF ExportTypes, threads
  <2> SUFFICES RecoverableAt(q)'
    BY <1>3
  <2>0. RecoverableAt(q) /\ EDir(q)' = EDir(q)
    BY <1>c, <1>0, <1>3
  <2>a. overrun[q] = "no" /\ Export!Place(q) = exportAt[q]
    BY <1>c, <1>3 DEF Placing, PlacingAt, Export!Place
  <2>1. CASE Begins(q)
    BY <1>0, <1>b, <2>0, <2>1 DEF Begins, RecoverableAt, Export!Working
  <2>2. CASE Onward(q)
    BY <1>0, <2>0, <2>2 DEF Onward, RecoverableAt, Export!Working
  <2>3. CASE GivesUp(q)
    BY <1>0, <2>3 DEF GivesUp, RecoverableAt, Export!Working
  <2>4. CASE Converts(q)
    <3>1. exportAt[q] = "convert" /\ exportAt'[q] = "publish" /\ UNCHANGED <<aside, dir, before>>
      BY <2>4 DEF Converts
    <3> QED
      BY <3>1, <2>0 DEF RecoverableAt, Export!Working
  <2>5. CASE Publishes(q)
    <3>1. Untouched(q) /\ placed[q] = {}
      BY <2>0, <2>5 DEF Publishes, RecoverableAt, Export!Working, Placing, PlacingAt
    <3>2. /\ UNCHANGED <<aside, dir, before, listed, placed>>
          /\ \/ exportAt'[q] = "aside"
             \/ exportAt'[q] = "move" /\ \A n \in listed[q.run] : dir[EDir(q)][n] = 0
      BY <2>5 DEF Publishes
    <3>3. \A n \in ENames : NameLeft(q, n)
      BY <3>1 DEF Export!Nothing, ENames
    <3>4. CASE exportAt'[q] = "aside"
      BY <3>2, <3>3, <3>4, <2>0 DEF RecoverableAt, Export!Working
    <3>5. CASE exportAt'[q] = "move" /\ \A n \in listed[q.run] : dir[EDir(q)][n] = 0
      <4>1. \A n \in ENames : NameFree(q, n) \/ (NameLeft(q, n) /\ n \notin listed[q.run])
        BY <3>1, <3>3, <3>5
      <4> QED
        BY <3>1, <3>2, <3>5, <4>1, <2>0 DEF RecoverableAt, Export!Working
    <3> QED
      BY <3>2, <3>4, <3>5
  <2>6. ASSUME NEW m \in ENames, SetsAside(q, m) PROVE RecoverableAt(q)'
    <3>1. exportAt[q] = "aside" /\ exportAt'[q] = "aside" /\ before' = before
      BY <2>a, <2>6 DEF SetsAside
    <3>2. \A n \in ENames : /\ aside'[q][n] = IF n = m THEN dir[EDir(q)][m] ELSE aside[q][n]
                            /\ dir'[EDir(q)][n] = IF n = m THEN 0 ELSE dir[EDir(q)][n]
      BY <1>0, <2>6 DEF SetsAside
    <3>3. dir[EDir(q)][m] = before[q][m] /\ dir[EDir(q)][m] # 0
      BY <2>0, <2>6, <3>1 DEF RecoverableAt, SetsAside
    <3>4. \A n \in ENames : \/ NameAside(q, n)' /\ dir'[EDir(q)][n] = 0
                            \/ NameLeft(q, n)'
      BY <2>0, <3>1, <3>2, <3>3 DEF RecoverableAt
    <3> QED
      BY <3>1, <3>4, <2>0 DEF RecoverableAt, Export!Working
  <2>7. CASE AllAside(q)
    <3>1. /\ exportAt[q] = "aside" /\ exportAt'[q] = "move"
          /\ UNCHANGED <<aside, dir, before, listed, placed>>
          /\ \A n \in listed[q.run] : dir[EDir(q)][n] \in {0, q.run} \/ aside[q][n] # 0
          /\ placed[q] = {}
      BY <2>a, <2>7 DEF AllAside, Shipping, Placing, PlacingAt
    <3>2. ASSUME NEW n \in ENames
          PROVE  \/ NameAside(q, n) \/ NameFree(q, n)
                 \/ NameLeft(q, n) /\ n \notin listed[q.run]
      <4>1. \/ NameAside(q, n) /\ dir[EDir(q)][n] = 0
            \/ NameLeft(q, n)
        BY <2>0, <3>1 DEF RecoverableAt
      <4>2. dir[EDir(q)][n] # q.run
        BY <1>0, <3>1 DEF Versions, HasMoved
      <4> QED
        BY <3>1, <4>1, <4>2
    <3> QED
      BY <3>1, <3>2, <2>0 DEF RecoverableAt, Export!Working
  <2>8. ASSUME NEW m \in ENames, Moves(q, m) PROVE RecoverableAt(q)'
    <3>1. /\ exportAt[q] = "move" /\ exportAt'[q] = "move"
          /\ UNCHANGED <<aside, before, listed>> /\ placed'[q] = placed[q] \union {m}
          /\ m \in listed[q.run]
      BY <2>a, <2>8 DEF Moves, Shipping
    <3>2. \A n \in ENames : dir'[EDir(q)][n] = IF n = m THEN q.run ELSE dir[EDir(q)][n]
      BY <1>0, <2>8 DEF Moves
    <3>3. \A n \in ENames : \/ NameAside(q, n)' \/ NameFree(q, n)'
                            \/ NameLeft(q, n)' /\ n \notin listed'[q.run]
      BY <2>0, <3>1, <3>2 DEF RecoverableAt
    <3>4. /\ placed'[q] \subseteq listed'[q.run]
          /\ \A n \in placed'[q] : dir'[EDir(q)][n] = q.run
      <4>1. placed[q] \subseteq ENames
        OBVIOUS
      <4> QED
        BY <1>0, <2>0, <3>1, <3>2, <4>1 DEF RecoverableAt
    <3> QED
      BY <3>1, <3>3, <3>4, <2>0 DEF RecoverableAt, Export!Working
  <2>9. CASE AllMoved(q) \/ \E kept, astray \in SUBSET ENames : TakesBack(q, kept, astray)
    <3>1. exportAt'[q] = "clean"
      BY <2>a, <2>9 DEF AllMoved, TakesBack, Exits
    <3> QED
      BY <3>1 DEF RecoverableAt, Export!Working
  <2>10. CASE Drains(q) \/ IsCancelled(q) \/ Dies(q) \/ \E rest \in SUBSET ENames : Cleans(q, rest)
    <3>1. exportAt'[q] \in {"clean", "ended"}
      BY <2>10 DEF Drains, IsCancelled, Dies, Cleans
    <3> QED
      BY <3>1 DEF RecoverableAt, Export!Working
  <2> QED
    BY <2>1, <2>2, <2>3, <2>4, <2>5, <2>6, <2>7, <2>8, <2>9, <2>10 DEF Sorts
<1> QED
  BY <1>2, <1>3

LEMMA CleanedStep ==
  ASSUME ExportTypes, InTurn, Versions, Shipping, Placing, Recoverable, Cleaned,
         NEW q \in ECallers, Sorts(q)
  PROVE  Cleaned'
<1>a. ASSUME \A c \in ECallers : ~Spoiled(c)' => CleanedAt(c)' PROVE Cleaned'
  BY <1>a DEF Cleaned, CleanedAt, Spoiled
<1> SUFFICES ASSUME NEW c \in ECallers, ~Spoiled(c)' PROVE CleanedAt(c)'
  BY <1>a
<1>b. EDir(c)' = EDir(c) /\ ~Spoiled(c) /\ EDir(q) \in Export!Kinds
  BY Places, ExportCallers DEF EDir, Export!Dir, Spoiled
<1>c. CleanedAt(c)
  BY <1>b DEF Cleaned
<1>1. CASE c # q
  <2>1. exportAt[c] = "clean" => Exporting(c)
    BY DEF Exporting
  <2> QED
    BY <1>1, <1>b, <1>c, <2>1, Apart DEF CleanedAt
<1>2. CASE c = q
  <2> USE DEF ExportTypes, Goes, Comes, threads
  <2> SUFFICES CleanedAt(q)'
    BY <1>2
  <2>0. ~Spoiled(q) /\ ~Spoiled(q)' /\ EDir(q)' = EDir(q) /\ CleanedAt(q)
    BY <1>2, <1>b, <1>c
  <2>a. overrun[q] = "no" /\ Export!Place(q) = exportAt[q]
    BY <2>0 DEF Placing, PlacingAt, Export!Place
  <2>1. CASE Begins(q) \/ Onward(q) \/ Converts(q) \/ Publishes(q) \/ AllAside(q)
    <3>1. exportAt'[q] # "clean"
      BY <2>a, <2>1 DEF Begins, Onward, Converts, Publishes, AllAside, Export!Working
    <3> QED
      BY <3>1 DEF CleanedAt
  <2>2. CASE GivesUp(q)
    <3>1. dir[EDir(q)] = before[q]
      BY <2>0, <2>2 DEF GivesUp, Recoverable, RecoverableAt, Untouched
    <3> QED
      BY <2>0, <3>1, <2>2 DEF GivesUp, CleanedAt
  <2>3. CASE \E n \in ENames : SetsAside(q, n) \/ Moves(q, n)
    <3>1. exportAt'[q] # "clean"
      BY <2>a, <2>3 DEF SetsAside, Moves
    <3> QED
      BY <3>1 DEF CleanedAt
  <2>4. CASE AllMoved(q)
    <3>1. "manifest" \in placed[q]
      BY <2>a, <2>4 DEF AllMoved, Shipping
    <3>2. dir[EDir(q)]["manifest"] = q.run
      BY <2>0, <2>a, <3>1, <2>4 DEF AllMoved, Recoverable, RecoverableAt
    <3> QED
      BY <2>0, <2>a, <3>2, <2>4 DEF AllMoved, Exits, CleanedAt
  <2>5. ASSUME NEW kept \in SUBSET ENames, NEW astray \in SUBSET ENames, TakesBack(q, kept, astray)
        PROVE  CleanedAt(q)'
    <3>1. kept = {} /\ astray = {}
      BY <2>0, <2>5 DEF TakesBack, Spoiled
    <3>2. dir'[EDir(q)] = before'[q]
      BY <1>b, <2>0, <2>5, <3>1, Restored DEF TakesBack
    <3> QED
      BY <2>0, <2>a, <3>2, <2>5 DEF TakesBack, Exits, CleanedAt
  <2>6. CASE Drains(q)
    BY <2>0, <2>6 DEF Drains, Spoiled
  <2>7. CASE IsCancelled(q)
    BY <2>0, <2>7 DEF IsCancelled, CleanedAt
  <2>8. CASE Dies(q) \/ \E rest \in SUBSET ENames : Cleans(q, rest)
    <3>1. exportAt'[q] = "ended"
      BY <2>8 DEF Cleans, Dies
    <3> QED
      BY <3>1 DEF CleanedAt
  <2> QED
    BY <2>1, <2>2, <2>3, <2>4, <2>5, <2>6, <2>7, <2>8 DEF Sorts
<1> QED
  BY <1>1, <1>2

\* What a manifest that is there lists does not change.
LEMMA ListedStays ==
  ASSUME ExportTypes, Versions, NEW q \in ECallers, Sorts(q), NEW d,
         (\E k \in Export!Kinds : d = dir[k]) \/ (\E c \in ECallers : d = before[c]),
         Whole(d, listed)
  PROVE  Whole(d, listed')
<1>1. CASE UNCHANGED listed
  BY <1>1 DEF Whole
<1>2. CASE Converts(q)
  <2>1. q.run \in ERuns /\ "manifest" \in ENames
    BY ExportCallers
  <2>2. exportAt[q] = "convert"
    BY <1>2 DEF Converts
  <2>3. d["manifest"] # q.run
    BY <2>1, <2>2 DEF Versions, HasMoved
  <2>4. \A r \in ERuns : r # q.run => listed'[r] = listed[r]
    BY <1>2, <2>1 DEF Converts, ExportTypes
  <2>5. d["manifest"] \in ERuns \union {0}
    BY <2>1 DEF ExportTypes
  <2> QED
    BY <2>3, <2>4, <2>5 DEF Whole
<1> QED
  BY <1>1, <1>2
  DEF Sorts, Begins, Onward, GivesUp, Publishes, SetsAside, AllAside, Moves, AllMoved, TakesBack,
      Drains, IsCancelled, Cleans, Dies

LEMMA DescribedStep ==
  ASSUME ExportTypes, InTurn, Versions, Shipping, Placing, Recoverable, Described,
         NEW q \in ECallers, Sorts(q)
  PROVE  Described'
<1>0. /\ q.run \in ERuns /\ EDir(q) \in Export!Kinds /\ "manifest" \in ENames
      /\ \A c \in ECallers : EDir(c) \in Export!Kinds /\ c.run \in Nat
      /\ \A c \in ECallers : EDir(c)' = EDir(c)
      /\ spoiled \subseteq spoiled'
  BY ExportCallers, Places DEF EDir, Export!Dir
<1>1. ASSUME NEW c \in ECallers, Exporting(c)', ~Spoiled(c)' PROVE Whole(before'[c], listed')
  <2>0. ~Spoiled(c)
    BY <1>0, <1>1 DEF Spoiled
  <2>1. CASE before'[c] = before[c] /\ Exporting(c)
    BY <2>0, <2>1, ListedStays DEF Described
  <2>2. CASE Begins(q) /\ c = q
    <3>1. before'[c] = dir[EDir(q)]
      BY <2>2 DEF Begins, ExportTypes
    <3>2. ASSUME NEW p \in ECallers, EDir(p) = EDir(q), exportAt[p] \in {"aside", "move"}
          PROVE  FALSE
      <4>1. Exporting(p) /\ p # q /\ p.run # q.run /\ exportAt[q] = "idle"
        BY <2>2, <3>2, ExportCallers DEF Exporting, Begins
      <4>2. ~(p.run < q.run)
        BY <4>1, <3>2, <2>2 DEF Begins
      <4>3. ~(q.run < p.run)
        BY <4>1, <3>2 DEF InTurn
      <4> QED
        BY <1>0, <4>1, <4>2, <4>3
    <3>3. Whole(dir[EDir(q)], listed)
      BY <1>0, <2>0, <2>2, <3>2 DEF Described, Publishing, Spoiled
    <3> QED
      BY <1>0, <3>1, <3>3, ListedStays
  <2>3. CASE c = q /\ ~Begins(q)
    <3>1. exportAt[q] # "idle" /\ exportAt[q] # "ended"
      BY <1>1, <2>3, Places DEF Exporting
    <3>2. before' = before
      BY <2>3 DEF Sorts, Onward, GivesUp, Converts, Publishes, SetsAside, AllAside, Moves, AllMoved,
                  TakesBack, Drains, IsCancelled, Cleans, Dies
    <3> QED
      BY <2>1, <2>3, <3>1, <3>2 DEF Exporting
  <2>4. CASE c # q
    BY <1>1, <2>1, <2>4, Apart DEF Exporting
  <2> QED
    BY <2>2, <2>3, <2>4
<1>2. ASSUME NEW k \in Export!Kinds, k \notin spoiled', ~Publishing(k)' PROVE Whole(dir'[k], listed')
  <2>0. k \notin spoiled
    BY <1>0, <1>2
  <2>1. CASE dir'[k] = dir[k] /\ (exportAt[q] \notin {"aside", "move"} \/ k # EDir(q))
    <3>1. ~Publishing(k)
      BY <1>0, <1>2, <2>1, Places DEF Publishing
    <3> QED
      BY <2>0, <2>1, <3>1, ListedStays DEF Described
  <2>2. CASE k # EDir(q)
    <3>1. dir'[k] = dir[k]
      BY <1>0, <2>2
      DEF Sorts, Begins, Onward, GivesUp, Converts, Publishes, SetsAside, AllAside, Moves, AllMoved,
          TakesBack, Drains, IsCancelled, Cleans, Dies, ExportTypes
    <3> QED
      BY <2>1, <2>2, <3>1
  <2>3. CASE k = EDir(q)
    <3> USE DEF ExportTypes, Goes, Comes
    <3>a. overrun[q] = "no" /\ Export!Place(q) = exportAt[q] /\ ~Spoiled(q)
      BY <2>0, <2>3 DEF Placing, PlacingAt, Spoiled, Export!Place
    <3>1. CASE Begins(q) \/ Onward(q) \/ GivesUp(q) \/ Converts(q) \/ IsCancelled(q)
               \/ \E rest \in SUBSET ENames : Cleans(q, rest)
      <4>1. dir' = dir /\ exportAt[q] \notin {"aside", "move"}
        BY <3>1 DEF Begins, Onward, GivesUp, Converts, IsCancelled, Cleans, Export!Working
      <4> QED
        BY <2>1, <4>1
    <3>2. CASE Publishes(q) \/ AllAside(q)
      <4>1. exportAt'[q] \in {"aside", "move"}
        BY <3>a, <3>2 DEF Publishes, AllAside
      <4> QED
        BY <1>0, <1>2, <2>3, <4>1 DEF Publishing
    <3>3. CASE \E n \in ENames : SetsAside(q, n) \/ Moves(q, n)
      <4>1. exportAt'[q] \in {"aside", "move"}
        BY <3>a, <3>3 DEF SetsAside, Moves
      <4> QED
        BY <1>0, <1>2, <2>3, <4>1 DEF Publishing
    <3>4. CASE Drains(q) \/ (Dies(q) /\ exportAt[q] \in {"aside", "move"})
      BY <1>2, <2>3, <3>a, <3>4 DEF Drains, Dies
    <3>5. CASE Dies(q) /\ exportAt[q] \notin {"aside", "move"}
      BY <2>1, <3>5 DEF Dies
    <3>6. CASE AllMoved(q)
      <4>1. /\ exportAt[q] = "move" /\ dir' = dir /\ listed' = listed
            /\ listed[q.run] \subseteq placed[q]
        BY <3>a, <3>6 DEF AllMoved, Shipping
      <4>2. \A n \in listed[q.run] : dir[k][n] = q.run
        BY <2>3, <3>a, <4>1 DEF Recoverable, RecoverableAt
      <4>3. "manifest" \in listed[q.run]
        BY <4>1 DEF Shipping
      <4> QED
        BY <4>1, <4>2, <4>3 DEF Whole
    <3>7. ASSUME NEW kept \in SUBSET ENames, NEW astray \in SUBSET ENames, TakesBack(q, kept, astray)
          PROVE  Whole(dir'[k], listed')
      <4>1. kept = {} /\ astray = {}
        BY <1>2, <2>3, <3>7 DEF TakesBack
      <4>2. dir'[k] = before[q]
        BY <1>0, <2>3, <3>a, <3>7, <4>1, Restored DEF TakesBack
      <4>3. Exporting(q)
        BY <3>a, <3>7 DEF TakesBack, Exporting
      <4>4. Whole(before[q], listed)
        BY <3>a, <4>3 DEF Described
      <4> QED
        BY <4>2, <4>4, ListedStays
    <3> QED
      BY <3>1, <3>2, <3>3, <3>4, <3>5, <3>6, <3>7 DEF Sorts
  <2> QED
    BY <2>2, <2>3
<1> QED
  BY <1>1, <1>2 DEF Described, Spoiled, Publishing, Exporting

LEMMA ExportInitially == Export!Init => ExportInv
<1> SUFFICES ASSUME Export!Init PROVE ExportInv
  OBVIOUS
<1> USE DEF Export!Init
<1>0. /\ \A c \in ECallers : exportAt[c] \in {"idle", "ended"}
      /\ exportAt \in [ECallers -> {"idle", "ended"}]
      /\ \A c \in ECallers : EDir(c) \in Export!Kinds /\ c.run # 0 /\ c.run \in ERuns
      /\ \A k \in Export!Kinds : dir[k] = Export!Nothing
      /\ \A c \in ECallers : /\ before[c] = Export!Nothing /\ exportOutcome[c] = "none"
                             /\ aside[c] = Export!Nothing /\ names[c] = << >>
                             /\ placed[c] = {} /\ overrun[c] = "no"
      /\ "manifest" \in ENames /\ \A n \in ENames : Export!Nothing[n] = 0
  BY ExportCallers DEF ECallers, ENames, Export!Nothing
<1>1. ExportTypes
  <2>1. exportAt \in [ECallers -> ExportSteps]
    BY <1>0 DEF ExportSteps
  <2>2. /\ exportOutcome \in [ECallers -> Outcomes]
        /\ names \in [ECallers -> Seq(ENames)]
        /\ placed \in [ECallers -> SUBSET ENames]
        /\ overrun \in [ECallers -> {"no", "aside", "move"}]
        /\ listed \in [ERuns -> SUBSET ENames]
    BY DEF Outcomes, ECallers, ERuns
  <2>3. Export!Nothing \in [ENames -> ERuns \union {0}]
    BY DEF Export!Nothing, ENames
  <2>4. /\ aside \in [ECallers -> [ENames -> ERuns \union {0}]]
        /\ dir \in [Export!Kinds -> [ENames -> ERuns \union {0}]]
        /\ before \in [ECallers -> [ENames -> ERuns \union {0}]]
    BY <2>3 DEF ECallers
  <2> QED
    BY <2>1, <2>2, <2>4 DEF ExportTypes
<1>2. InTurn
  BY <1>0 DEF InTurn, Exporting
<1>3. Versions
  BY <1>0 DEF Versions
<1>4. Shipping
  BY <1>0 DEF Shipping
<1>5. Placing
  BY <1>0 DEF Placing, PlacingAt
<1>6. Owned
  BY <1>0 DEF Owned, OwnManifest
<1>7. Recoverable
  BY <1>0 DEF Recoverable, RecoverableAt, Export!Working
<1>8. Cleaned
  BY <1>0 DEF Cleaned, CleanedAt
<1>9. Described
  BY <1>0 DEF Described, Whole, Exporting
<1> QED
  BY <1>1, <1>2, <1>3, <1>4, <1>5, <1>6, <1>7, <1>8, <1>9 DEF ExportInv

LEMMA ExportNext == ExportInv /\ [Export!Next]_exportVars => ExportInv'
<1> SUFFICES ASSUME ExportInv, [Export!Next]_exportVars PROVE ExportInv'
  OBVIOUS
<1>1. ASSUME syncFlag' \in BOOLEAN, Untouching PROVE ExportInv'
  <2>1. /\ UNCHANGED <<exportAt, exportOutcome, names, aside, dir, before, listed>>
        /\ UNCHANGED <<placed, overrun, spoiled>>
    BY <1>1 DEF Untouching, threads
  <2>2. ExportTypes'
    BY <1>1, <2>1 DEF ExportInv, ExportTypes
  <2>3. InTurn' /\ Versions' /\ Cleaned'
    BY <2>1 DEF ExportInv, InTurn, Versions, Cleaned, CleanedAt, Spoiled, Exporting, HasMoved, EDir,
                Export!Dir
  <2>4. Shipping'
    <3>1. \A c \in ECallers : Export!Named(c)' = Export!Named(c)
      BY <2>1 DEF Export!Named
    <3> QED
      BY <2>1, <3>1 DEF ExportInv, Shipping
  <2>5. Placing' /\ Owned'
    BY <2>1 DEF ExportInv, Placing, PlacingAt, Owned, OwnManifest, Export!Named, Export!Place,
                Spoiled, EDir, Export!Dir
  <2>6. Recoverable'
    BY <2>1 DEF ExportInv, Recoverable, RecoverableAt, Spoiled, Untouched, NameAside, NameFree,
                NameLeft, EDir, Export!Dir
  <2>7. Described'
    BY <2>1 DEF ExportInv, Described, Exporting, Publishing, Spoiled, EDir, Export!Dir
  <2> QED
    BY <2>2, <2>3, <2>4, <2>5, <2>6, <2>7 DEF ExportInv
<1>2. CASE UNCHANGED exportVars
  BY <1>1, <1>2 DEF exportVars, Untouching, threads, ExportInv, ExportTypes
<1>3. CASE Export!Prune
  BY <1>1, <1>3 DEF Export!Prune, Export!work, Export!excess, Untouching, threads, ExportInv,
                    ExportTypes
<1>4. ASSUME NEW q \in ECallers, Export!Step(q) PROVE ExportInv'
  <2>1. syncFlag' \in BOOLEAN /\ (Sorts(q) \/ Untouching)
    BY <1>4, StepSorts DEF ExportInv
  <2>2. CASE Sorts(q)
    BY <2>1, <2>2, ExportTypesStep, InTurnStep, VersionsStep, ShippingStep, PlacingStep, OwnedStep,
       RecoverableStep, CleanedStep, DescribedStep DEF ExportInv
  <2>3. CASE Untouching
    BY <1>1, <2>1, <2>3
  <2> QED
    BY <2>1, <2>2, <2>3
<1> QED
  BY <1>2, <1>3, <1>4 DEF Export!Next, ECallers

LEMMA ExportIsWhole == ExportInv => WholeOrUntouched
<1> SUFFICES ASSUME ExportInv PROVE Export!WholeOrUntouched
  BY DEF WholeOrUntouched
<1>1. \A c \in ECallers : exportAt[c] = "clean" /\ EDir(c) \notin spoiled =>
          \/ exportOutcome[c] \in {"failed", "cancelled"} /\ dir[EDir(c)] = before[c]
          \/ exportOutcome[c] \in {"done", "cancelled"} /\ dir[EDir(c)]["manifest"] = c.run
  BY DEF ExportInv, Cleaned, CleanedAt, Spoiled
<1>2. \A k \in Export!Kinds \ spoiled : ~Export!Publishing(k) => Whole(dir[k], listed)
  BY DEF ExportInv, Described, Publishing, Export!Publishing, EDir, ECallers
<1>3. \A k \in Export!Kinds \ spoiled : ~Export!Publishing(k) => Export!Describes(k)
  BY <1>2 DEF Whole, Export!Describes
<1>4. \A c \in ECallers : exportOutcome[c] = "failed" => dir[EDir(c)]["manifest"] # c.run
  BY ExportCallers DEF ExportInv, Placing, PlacingAt, Owned, OwnManifest
<1> QED
  BY <1>1, <1>3, <1>4 DEF Export!WholeOrUntouched, EDir, ECallers

\* Export: an export leaves its directory as it was or puts a whole one there,
\* and outside of a publish a manifest describes the files beside it, unless the
\* taking back failed there, a caller went on without the thread that moves, or a
\* process died in its moves; even then one that failed leaves no manifest.
THEOREM ExportsWholeOrUntouched == Export!Spec => []WholeOrUntouched
<1>1. Export!Init => ExportInv
  BY ExportInitially
<1>2. ExportInv /\ [Export!Next]_exportVars => ExportInv'
  BY ExportNext
<1>3. ExportInv => WholeOrUntouched
  BY ExportIsWhole
<1>4. Export!Spec => Export!Init /\ [][Export!Next]_exportVars
  BY DEF Export!Spec, Export!exportVars, exportVars
<1> QED
  BY <1>1, <1>2, <1>3, <1>4, PTL

-----------------------------------------------------------------------------
(* Ppk *)

PpkFile == [by : Nat, data : BOOLEAN]

PpkTypes ==
  /\ ppkPlan \in Seq(PpkRequests) /\ req \in PpkRequests /\ run \in Nat
  /\ ppkAt \in {"idle", "clear", "rover", "fetch", "convert", "sites", "place", "solve", "again",
                "post", "summary", "report"}
  /\ out \in [Ppk!Names -> PpkFile] /\ given \in [Ppk!Names -> PpkFile]
  /\ used \subseteq DOMAIN LoggedAt /\ seen \subseteq DOMAIN LoggedAt
  /\ hours \subseteq DOMAIN LoggedAt /\ sites \subseteq Sites

\* An input that was in the directory when the run began.
WasThere(n) == n \in Ppk!Inputs(req) /\ given[n].by # 0

\* Inputs stay as they are, since past the clearing those in the directory are kept.
InputsKept ==
  /\ run > 0 => \A n \in Ppk!Names : WasThere(n) => out[n] = given[n]
  /\ ppkAt # "idle" => run > 0
  /\ ppkAt = "clear" => out = given
  /\ ppkAt \notin {"idle", "clear"} => \A n \in Ppk!Names : WasThere(n) => n \in Ppk!Keep(req)

\* Past the clearing there is nothing of another run; a solution with epochs
\* is there from its step on, the track from the next, and a summary only over both.
OneRuns ==
  /\ ppkAt # "idle" => ppkOutcome = "none"
  /\ ppkOutcome \in {"none", "refused", "failed", "done"}
  /\ ppkOutcome = "none" => ppkAt # "idle" \/ run = 0
  /\ ppkAt \notin {"idle", "clear"} \/ ppkOutcome \in {"done", "failed"} =>
       \A n \in Ppk!Names \ Ppk!Keep(req) : out[n].by \in {0, run}
  /\ ppkAt \in {"post", "summary", "report"} => out["pos"] = Ppk!Written(TRUE)
  /\ ppkAt \in {"summary", "report"} => out["track"] = Ppk!Written(TRUE)
  /\ ppkAt \notin {"idle", "clear", "report"} => out["summary"].by = 0
  /\ ppkOutcome \in {"done", "failed"} /\ out["summary"].by # 0 =>
       out["pos"] = Ppk!Written(TRUE) /\ out["track"] = Ppk!Written(TRUE)
  /\ ppkAt = "report" \/ ppkOutcome = "done" => out["summary"] = Ppk!Written(TRUE)

\* Hours only go: those whose sites are read were in the observations.
Spliced ==
  req.base.kind # "upload" /\ (ppkAt = "sites" \/ (req.base.kind = "local" /\ ppkAt = "convert"))
    => hours \subseteq used

\* What the run knows of the site its base hours were logged at, once it read it.
HasRead ==
  /\ req.base.kind # "upload"
  /\ \/ ppkAt \in {"place", "solve", "again", "post", "summary", "report"} \/ ppkOutcome = "done"
     \/ req.base.kind = "remote" /\ ppkAt = "convert"

SiteKnown ==
  /\ req.base.kind = "local" => remoteSite = "none"
  /\ HasRead =>
       /\ seen \subseteq used /\ logged = Ppk!SiteOf(seen) /\ Ppk!OneSite(seen)
       /\ req.base.kind = "remote" /\ req.site = "none" =>
            remoteSite \in {"none", logged} \/ logged \notin sites

\* Where the track is placed.
Placed ==
  /\ req.base.kind # "upload" /\ req.site = "none"
  /\ ppkAt \in {"solve", "again", "post", "summary", "report"} \/ ppkOutcome = "done"
  => /\ place # "none"
     /\ IF req.base.kind = "local" THEN logged = "none" \/ place = logged ELSE place = remoteSite

PpkInv == PpkTypes /\ InputsKept /\ OneRuns /\ Spliced /\ SiteKnown /\ Placed

LEMMA PpkNames ==
  /\ Ppk!Names = {"rover", "rover_MN", "base", "base_MN", "conf", "pos", "track", "events", "log",
                  "summary"}
  /\ \A n \in Ppk!Names : Ppk!Pos(n) \in 1 .. 10
<1>1. Ppk!Names = {"rover", "rover_MN", "base", "base_MN", "conf", "pos", "track", "events", "log",
                   "summary"}
  <2>1. Ppk!Names = {Ppk!Outputs[i] : i \in 1 .. 10}
    BY DEF Ppk!Names, Ppk!Outputs
  <2>2. \A i \in 1 .. 10 : i \in {1, 2, 3, 4, 5, 6, 7, 8, 9, 10}
    OBVIOUS
  <2>3. Ppk!Names = {Ppk!Outputs[i] : i \in {1, 2, 3, 4, 5, 6, 7, 8, 9, 10}}
    BY <2>1, <2>2
  <2> QED
    BY <2>3 DEF Ppk!Outputs
<1>2. ASSUME NEW n \in Ppk!Names PROVE Ppk!Pos(n) \in 1 .. 10
  <2>1. \E i \in 1 .. Len(Ppk!Outputs) : Ppk!Outputs[i] = n
    BY DEF Ppk!Names
  <2>2. Ppk!Pos(n) \in 1 .. Len(Ppk!Outputs)
    BY <2>1 DEF Ppk!Pos
  <2>3. Len(Ppk!Outputs) = 10
    BY DEF Ppk!Outputs
  <2> QED
    BY <2>2, <2>3
<1> QED
  BY <1>1, <1>2

\* What may be kept: observations and navigation files in place.
LEMMA PpkKept ==
  ASSUME PpkTypes
  PROVE  /\ Ppk!Keep(req) \subseteq {"rover", "rover_MN", "base", "base_MN"}
         /\ "rover" \in Ppk!Keep(req) => req.rover.fmt = "obs" /\ req.rover.at = "rover"
         /\ "rover_MN" \in Ppk!Keep(req) => req.rover.fmt = "obs" /\ req.rover.at = "rover"
         /\ "base" \in Ppk!Keep(req) => req.base.fmt = "obs" /\ req.base.at = "base"
         /\ "base_MN" \in Ppk!Keep(req) =>
              /\ req.base.fmt = "obs"
              /\ req.nav = "base_MN" \/ (req.nav = "none" /\ req.base.at = "base")
<1>1. req.nav # "none" => req.base.fmt = "obs"
  BY DEF PpkTypes, PpkRequests
<1> QED
  BY <1>1 DEF Ppk!Keep

\* What a step of a run past its clearing does to the directory: it replaces
\* files by its own, but no input that was there, and no summary.
Own(n) == out'[n].by = run /\ ~WasThere(n) /\ n # "summary"
Replaces(ns) ==
  /\ out' \in [Ppk!Names -> PpkFile]
  /\ \A n \in Ppk!Names : out'[n] = out[n] \/ (n \in ns /\ Own(n))

LEMMA NotKept ==
  ASSUME PpkTypes, InputsKept, ppkAt \notin {"idle", "clear"}
  PROVE  \A n \in {"conf", "pos", "log", "track", "events", "summary"} : ~WasThere(n)
<1>1. \A n \in {"conf", "pos", "log", "track", "events", "summary"} :
        n \in Ppk!Names /\ n \notin Ppk!Keep(req)
  BY PpkNames, PpkKept
<1> QED
  BY <1>1 DEF InputsKept

LEMMA InPlaceReplaces ==
  ASSUME PpkTypes, InputsKept, ppkAt \notin {"idle", "clear"}, NEW navData \in BOOLEAN
  PROVE  /\ req.rover.fmt = "obs" /\ out' = Ppk!InPlace("rover", "rover_MN", req.rover, "none", navData)
              => Replaces({"rover", "rover_MN"})
         /\ req.base.fmt = "obs" /\ out' = Ppk!InPlace("base", "base_MN", req.base, req.nav, navData)
              => Replaces({"base", "base_MN"})
         /\ req.rover.fmt # "obs" /\ out' = Ppk!Converted("rover", "rover_MN", navData)
              => Replaces({"rover", "rover_MN"})
         /\ req.base.fmt # "obs" /\ out' = Ppk!Converted("base", "base_MN", navData)
              => Replaces({"base", "base_MN"})
<1> DEFINE mine(d) == [by |-> run, data |-> d]
<1>0. /\ \A d \in BOOLEAN : mine(d) \in PpkFile /\ mine(d).by = run
      /\ \A n \in Ppk!Names : out[n] \in PpkFile
      /\ {"rover", "rover_MN", "base", "base_MN"} \subseteq Ppk!Names
      /\ \A n \in Ppk!Names : WasThere(n) => n \in Ppk!Keep(req) /\ out[n].by # 0
  BY PpkNames DEF PpkTypes, PpkFile, InputsKept, WasThere
<1> HIDE DEF mine
<1>1. ASSUME req.rover.fmt = "obs",
             out' = Ppk!InPlace("rover", "rover_MN", req.rover, "none", navData)
      PROVE  Replaces({"rover", "rover_MN"})
  <2>1. out' = [n \in Ppk!Names |->
                  IF n = "rover" /\ req.rover.at # "rover" THEN mine(TRUE)
                  ELSE IF n = "rover_MN" /\ (req.rover.at # "rover" \/ out["rover_MN"].by = 0)
                  THEN mine(FALSE) ELSE out[n]]
    BY <1>1 DEF Ppk!InPlace, Ppk!Written, mine
  <2>2. out' \in [Ppk!Names -> PpkFile]
    BY <1>0, <2>1
  <2>3. /\ WasThere("rover") => req.rover.at = "rover"
        /\ WasThere("rover_MN") => req.rover.at = "rover" /\ out["rover_MN"].by # 0
    BY <1>0, PpkKept
  <2>4. \A n \in Ppk!Names :
          out'[n] = out[n] \/ (n \in {"rover", "rover_MN"} /\ out'[n].by = run /\ ~WasThere(n))
    BY <1>0, <2>1, <2>3
  <2> QED
    BY <2>2, <2>4 DEF Replaces, Own
<1>2. ASSUME req.base.fmt = "obs",
             out' = Ppk!InPlace("base", "base_MN", req.base, req.nav, navData)
      PROVE  Replaces({"base", "base_MN"})
  <2>1. out' = [n \in Ppk!Names |->
                  IF n = "base" /\ req.base.at # "base" THEN mine(TRUE)
                  ELSE IF n = "base_MN" /\ req.nav \notin {"none", "base_MN"} THEN mine(navData)
                  ELSE IF n = "base_MN" /\ req.nav = "none" /\ (req.base.at # "base" \/ out["base_MN"].by = 0)
                  THEN mine(FALSE) ELSE out[n]]
    BY <1>2 DEF Ppk!InPlace, Ppk!Written, mine
  <2>2. out' \in [Ppk!Names -> PpkFile]
    BY <1>0, <2>1
  <2>3. /\ WasThere("base") => req.base.at = "base"
        /\ WasThere("base_MN") => /\ req.nav = "base_MN" \/ (req.nav = "none" /\ req.base.at = "base")
                                  /\ out["base_MN"].by # 0
    BY <1>0, PpkKept
  <2>4. \A n \in Ppk!Names :
          out'[n] = out[n] \/ (n \in {"base", "base_MN"} /\ out'[n].by = run /\ ~WasThere(n))
    BY <1>0, <2>1, <2>3
  <2> QED
    BY <2>2, <2>4 DEF Replaces, Own
<1>3. ASSUME req.rover.fmt # "obs", out' = Ppk!Converted("rover", "rover_MN", navData)
      PROVE  Replaces({"rover", "rover_MN"})
  <2>1. ~WasThere("rover") /\ ~WasThere("rover_MN")
    BY <1>0, <1>3, PpkKept
  <2>2. out' = [out EXCEPT !["rover"] = mine(TRUE), !["rover_MN"] = mine(navData)]
    BY <1>3 DEF Ppk!Converted, Ppk!Written, mine
  <2> QED
    BY <1>0, <2>1, <2>2 DEF Replaces, Own, PpkTypes
<1>4. ASSUME req.base.fmt # "obs", out' = Ppk!Converted("base", "base_MN", navData)
      PROVE  Replaces({"base", "base_MN"})
  <2>1. ~WasThere("base") /\ ~WasThere("base_MN")
    BY <1>0, <1>4, PpkKept
  <2>2. out' = [out EXCEPT !["base"] = mine(TRUE), !["base_MN"] = mine(navData)]
    BY <1>4 DEF Ppk!Converted, Ppk!Written, mine
  <2> QED
    BY <1>0, <2>1, <2>2 DEF Replaces, Own, PpkTypes
<1> QED
  BY <1>1, <1>2, <1>3, <1>4

\* A step past the clearing that writes no summary: where it leads and what it writes.
PastSteps == {"rover", "fetch", "convert", "sites", "place", "solve", "again", "post"}
Advances ==
  /\ ppkAt \in PastSteps
  /\ Replaces({"rover", "rover_MN", "base", "base_MN", "conf", "pos", "track", "events", "log"})
  /\ \/ ppkAt' \in PastSteps \union {"summary"} /\ ppkOutcome' = ppkOutcome
     \/ ppkAt' = "idle" /\ ppkOutcome' = "failed"
  /\ ppkAt' \in {"post", "summary"} => out'["pos"] = Ppk!Written(TRUE)
  /\ ppkAt' = "summary" => out'["track"] = Ppk!Written(TRUE)
  /\ UNCHANGED <<ppkPlan, req, run, given>>

LEMMA RunSorts ==
  ASSUME PpkTypes, InputsKept, OneRuns,
         \/ Ppk!RoverSide \/ Ppk!Fetch \/ Ppk!BaseSide \/ Ppk!ReadSites \/ Ppk!Place
         \/ Ppk!Solve("solve", "again") \/ Ppk!Solve("again", "failed") \/ Ppk!Post
  PROVE  Advances
<1> DEFINE mine(d) == [by |-> run, data |-> d]
<1>0. /\ \A d \in BOOLEAN : mine(d) \in PpkFile /\ mine(d).by = run /\ mine(d).data = d
      /\ \A n \in Ppk!Names : out[n] \in PpkFile
      /\ out \in [Ppk!Names -> PpkFile]
      /\ {"rover", "rover_MN", "base", "base_MN", "conf", "pos", "track", "events", "log"}
           \subseteq Ppk!Names
  BY PpkNames DEF PpkTypes, PpkFile
<1>a. Ppk!Written(TRUE) = mine(TRUE) /\ \A d \in BOOLEAN : Ppk!Written(d) = mine(d)
  BY DEF Ppk!Written
<1> HIDE DEF mine
<1>b. out' = out => Replaces({})
  BY <1>0 DEF Replaces
<1>c. ASSUME NEW ns, Replaces(ns),
             ns \subseteq {"rover", "rover_MN", "base", "base_MN", "conf", "pos", "track", "events", "log"}
      PROVE  Replaces({"rover", "rover_MN", "base", "base_MN", "conf", "pos", "track", "events", "log"})
  BY <1>c DEF Replaces
<1> USE DEF PastSteps, Advances, Ppk!End
<1>1. CASE Ppk!RoverSide
  <2>1. ppkAt = "rover"
    BY <1>1 DEF Ppk!RoverSide
  <2>2. Replaces({"rover", "rover_MN"})
    BY <1>1, <2>1, InPlaceReplaces DEF Ppk!RoverSide
  <2> QED
    BY <1>1, <1>c, <2>1, <2>2 DEF Ppk!RoverSide
<1>2. CASE Ppk!Fetch
  BY <1>2, <1>b, <1>c DEF Ppk!Fetch
<1>3. CASE Ppk!BaseSide
  <2>1. ppkAt = "convert"
    BY <1>3 DEF Ppk!BaseSide
  <2>2. Replaces({"base", "base_MN"})
    BY <1>3, <2>1, InPlaceReplaces DEF Ppk!BaseSide
  <2> QED
    BY <1>3, <1>c, <2>1, <2>2 DEF Ppk!BaseSide
<1>4. CASE Ppk!ReadSites
  <2>1. /\ ppkAt = "sites" /\ UNCHANGED <<ppkPlan, req, run, given, out>>
        /\ \/ ppkAt' = "idle" /\ ppkOutcome' = "failed"
           \/ ppkAt' \in {"convert", "place"} /\ ppkOutcome' = ppkOutcome
    BY <1>4 DEF Ppk!ReadSites
  <2> QED
    BY <2>1, <1>b, <1>c
<1>5. CASE Ppk!Place
  <2>1. ppkAt = "place" /\ ~WasThere("conf")
    BY <1>5, NotKept DEF Ppk!Place
  <2>2. out' = out \/ out' = [out EXCEPT !["conf"] = mine(TRUE)]
    BY <1>5, <1>a DEF Ppk!Place
  <2>3. Replaces({"conf"})
    BY <1>0, <2>1, <2>2 DEF Replaces, Own
  <2>4. /\ UNCHANGED <<ppkPlan, req, run, given>>
        /\ \/ ppkAt' = "idle" /\ ppkOutcome' = "failed"
           \/ ppkAt' = "solve" /\ ppkOutcome' = ppkOutcome
    BY <1>5 DEF Ppk!Place
  <2> QED
    BY <2>1, <2>3, <2>4, <1>c
<1>6. ASSUME NEW step \in {"solve", "again"}, NEW after \in {"again", "failed"},
             Ppk!Solve(step, after)
      PROVE  Advances
  <2>1. ppkAt = step /\ \A n \in {"pos", "log", "conf"} : ~WasThere(n)
    BY <1>6, NotKept DEF Ppk!Solve
  <2>2. PICK epochs \in BOOLEAN :
          /\ out' = [out EXCEPT !["pos"] = mine(epochs), !["log"] = mine(TRUE), !["conf"] = mine(TRUE)]
          /\ \/ epochs /\ ppkAt' = "post" /\ ppkOutcome' = ppkOutcome
             \/ ppkAt' = "idle" /\ ppkOutcome' = "failed"
             \/ ppkAt' = "again" /\ ppkOutcome' = ppkOutcome
    BY <1>6, <1>a DEF Ppk!Solve
  <2>3. Replaces({"pos", "log", "conf"})
    BY <1>0, <2>1, <2>2 DEF Replaces, Own
  <2>4. out'["pos"] = mine(epochs) /\ (epochs => mine(epochs) = Ppk!Written(TRUE))
    BY <1>0, <1>a, <2>2
  <2>5. UNCHANGED <<ppkPlan, req, run, given>>
    BY <1>6 DEF Ppk!Solve
  <2> QED
    BY <1>0, <1>c, <2>1, <2>2, <2>3, <2>4, <2>5
<1>7. CASE Ppk!Post
  <2>1. /\ ppkAt = "post" /\ ~WasThere("track") /\ ~WasThere("events")
        /\ out["pos"] = Ppk!Written(TRUE)
        /\ ppkAt' = "summary" /\ UNCHANGED <<ppkPlan, req, run, given, ppkOutcome>>
    BY <1>7, NotKept DEF Ppk!Post, OneRuns
  <2>2. PICK f : /\ out' = [out EXCEPT !["track"] = mine(TRUE), !["events"] = f]
                 /\ f = out["events"] \/ f = mine(TRUE)
    BY <1>7, <1>a DEF Ppk!Post
  <2>3. /\ Replaces({"track", "events"}) /\ out'["pos"] = out["pos"]
        /\ out'["track"] = Ppk!Written(TRUE)
    BY <1>0, <1>a, <2>1, <2>2 DEF Replaces, Own
  <2> QED
    BY <2>1, <2>3, <1>c
<1> QED
  BY <1>1, <1>2, <1>3, <1>4, <1>5, <1>6, <1>7

\* The directory, the request and the outcome after each kind of step.
PpkDirectory ==
  /\ ppkPlan \in Seq(PpkRequests) /\ req \in PpkRequests /\ run \in Nat
  /\ ppkAt \in PastSteps \union {"idle", "clear", "summary", "report"}
  /\ out \in [Ppk!Names -> PpkFile] /\ given \in [Ppk!Names -> PpkFile]
  /\ InputsKept /\ OneRuns

LEMMA AdvanceKeeps ==
  ASSUME PpkTypes, InputsKept, OneRuns, Advances
  PROVE  PpkDirectory'
<1>0. /\ ppkAt \in PastSteps /\ PastSteps \intersect {"idle", "clear", "summary", "report"} = {}
      /\ UNCHANGED <<ppkPlan, req, run, given>>
      /\ \/ ppkAt' \in PastSteps \union {"summary"} /\ ppkOutcome' = ppkOutcome
         \/ ppkAt' = "idle" /\ ppkOutcome' = "failed"
      /\ ppkAt' \in {"post", "summary"} => out'["pos"] = Ppk!Written(TRUE)
      /\ ppkAt' = "summary" => out'["track"] = Ppk!Written(TRUE)
      /\ run > 0 /\ ppkOutcome = "none"
      /\ "summary" \in Ppk!Names
  BY PpkNames DEF Advances, PastSteps, InputsKept, OneRuns
<1>1. /\ out' \in [Ppk!Names -> PpkFile]
      /\ \A n \in Ppk!Names : out'[n] = out[n] \/ Own(n)
  BY DEF Advances, Replaces
<1>2. \A n \in Ppk!Names : WasThere(n)' = WasThere(n) /\ (n \in Ppk!Keep(req))' = (n \in Ppk!Keep(req))
  BY <1>0 DEF WasThere, Ppk!Inputs, Ppk!Keep
<1>3. InputsKept'
  BY <1>0, <1>1, <1>2 DEF InputsKept, Own
<1>4. OneRuns'
  <2>1. \A n \in Ppk!Names \ Ppk!Keep(req) : out'[n].by \in {0, run}
    BY <1>0, <1>1 DEF OneRuns, Own
  <2>2. out'["summary"] = out["summary"] /\ out["summary"].by = 0
    BY <1>0, <1>1 DEF OneRuns, Own
  <2>3. Ppk!Written(TRUE)' = Ppk!Written(TRUE)
    BY <1>0 DEF Ppk!Written
  <2>4. ppkAt' # "report" /\ ppkOutcome' # "done" /\ ppkAt' # "clear"
    BY <1>0
  <2>5. (\A n \in Ppk!Names \ Ppk!Keep(req) : out[n].by \in {0, run})'
    BY <1>0, <1>2, <2>1
  <2> QED
    BY <1>0, <2>2, <2>3, <2>4, <2>5 DEF OneRuns
<1> QED
  BY <1>0, <1>1, <1>3, <1>4 DEF PpkDirectory, PpkTypes

LEMMA StartKeeps ==
  ASSUME PpkTypes, InputsKept, OneRuns, Ppk!Start
  PROVE  PpkDirectory'
<1>1. /\ ppkPlan # <<>> /\ req' = Head(ppkPlan) /\ ppkPlan' = Tail(ppkPlan) /\ run' = run + 1
      /\ ppkAt' = "clear" /\ ppkOutcome' = "none" /\ given' = out /\ out' = out
  BY DEF Ppk!Start
<1>2. req' \in PpkRequests /\ ppkPlan' \in Seq(PpkRequests) /\ run' \in Nat /\ run' > 0
  BY <1>1 DEF PpkTypes
<1>3. InputsKept'
  BY <1>1, <1>2 DEF InputsKept
<1>4. OneRuns'
  BY <1>1 DEF OneRuns
<1>5. out' \in [Ppk!Names -> PpkFile] /\ given' \in [Ppk!Names -> PpkFile]
  BY <1>1 DEF PpkTypes
<1> QED
  BY <1>1, <1>2, <1>3, <1>4, <1>5 DEF PpkDirectory

\* An input that was there is kept or ends the run before it is reached.
LEMMA ClearKeeps ==
  ASSUME PpkTypes, InputsKept, OneRuns, Ppk!Clear \/ Ppk!ClearFails
  PROVE  PpkDirectory'
<1>1. PICK k \in Nat :
        /\ ppkAt = "clear" /\ UNCHANGED <<ppkPlan, req, run, given>> /\ out' = Ppk!Cleared(k)
        /\ \/ Ppk!Clash = {} /\ k = 11 /\ ppkAt' = "rover" /\ ppkOutcome' = ppkOutcome
           \/ ppkAt' = "idle" /\ ppkOutcome' = "refused"
  <2>1. Len(Ppk!Outputs) = 10
    BY DEF Ppk!Outputs
  <2> QED
    BY <2>1 DEF Ppk!Clear, Ppk!ClearFails, Ppk!End
<1>2. /\ Ppk!Clash \subseteq Ppk!Names
      /\ \A n \in Ppk!Names : Ppk!Pos(n) \in Nat /\ Ppk!Pos(n) < 11
  <2>1. Ppk!Clash \subseteq Ppk!Names
    BY DEF Ppk!Clash, Ppk!Inputs
  <2> QED
    BY <2>1, PpkNames
<1>3. \A n \in Ppk!Names : WasThere(n) => n \in Ppk!Clash \/ n \in Ppk!Keep(req)
  BY <1>1 DEF WasThere, InputsKept, Ppk!Clash
<1>4. Ppk!Absent \in PpkFile /\ Ppk!Absent.by = 0 /\ "summary" \in Ppk!Names /\ "summary" \notin Ppk!Keep(req)
  BY PpkNames, PpkKept DEF Ppk!Absent, PpkFile
<1>5. out' = [n \in Ppk!Names |->
                IF n \in Ppk!Keep(req) \/ Ppk!Pos(n) >= k \/ \E c \in Ppk!Clash : Ppk!Pos(c) <= Ppk!Pos(n)
                THEN out[n] ELSE Ppk!Absent]
  BY <1>1 DEF Ppk!Cleared
<1>6. out' \in [Ppk!Names -> PpkFile]
  BY <1>4, <1>5 DEF PpkTypes
<1>7. \A n \in Ppk!Names : WasThere(n) => out'[n] = out[n]
  <2>1. \A n \in Ppk!Clash : Ppk!Pos(n) <= Ppk!Pos(n)
    BY <1>2
  <2> QED
    BY <1>3, <1>5, <2>1
<1>8. \A n \in Ppk!Names : WasThere(n)' = WasThere(n) /\ (n \in Ppk!Keep(req))' = (n \in Ppk!Keep(req))
  BY <1>1 DEF WasThere, Ppk!Inputs, Ppk!Keep
<1>9. run > 0 /\ out = given /\ ppkOutcome = "none"
  BY <1>1 DEF InputsKept, OneRuns
<1>10. InputsKept'
  BY <1>1, <1>3, <1>7, <1>8, <1>9 DEF InputsKept
<1>11. OneRuns'
  <2>1. CASE ppkAt' = "idle" /\ ppkOutcome' = "refused"
    BY <2>1 DEF OneRuns
  <2>2. CASE Ppk!Clash = {} /\ k = 11 /\ ppkAt' = "rover" /\ ppkOutcome' = ppkOutcome
    <3>1. \A n \in Ppk!Names \ Ppk!Keep(req) : out'[n].by = 0
      BY <1>2, <1>4, <1>5, <2>2
    <3> QED
      BY <1>1, <1>4, <1>8, <1>9, <2>2, <3>1 DEF OneRuns
  <2> QED
    BY <1>1, <2>1, <2>2
<1> QED
  BY <1>1, <1>6, <1>10, <1>11 DEF PpkDirectory, PpkTypes, PastSteps

LEMMA SummariseKeeps ==
  ASSUME PpkTypes, InputsKept, OneRuns, Ppk!Summarise \/ Ppk!Report
  PROVE  PpkDirectory'
<1>1. /\ ppkAt \in {"summary", "report"} /\ UNCHANGED <<ppkPlan, req, run, given>>
      /\ \/ ppkAt = "summary" /\ ppkAt' = "report" /\ ppkOutcome' = ppkOutcome
         \/ ppkAt = "report" /\ ppkAt' = "idle" /\ ppkOutcome' = "done"
      /\ \/ ppkAt = "summary" /\ out' = [out EXCEPT !["summary"] = Ppk!Written(TRUE)]
         \/ ppkAt = "report" /\ out' = out
  BY DEF Ppk!Summarise, Ppk!Report, Ppk!End
<1>2. {"summary", "pos", "track"} \subseteq Ppk!Names /\ ~WasThere("summary") /\ run > 0
      /\ ppkOutcome = "none" /\ Ppk!Written(TRUE) \in PpkFile /\ Ppk!Written(TRUE).by = run
  BY <1>1, PpkNames, NotKept DEF InputsKept, OneRuns, PpkTypes, PpkFile, Ppk!Written
<1>3. /\ out'["summary"] = Ppk!Written(TRUE)
      /\ \A n \in Ppk!Names : n # "summary" => out'[n] = out[n]
      /\ out' \in [Ppk!Names -> PpkFile]
  BY <1>1, <1>2 DEF PpkTypes, OneRuns
<1>4. /\ \A n \in Ppk!Names : WasThere(n)' = WasThere(n) /\ (n \in Ppk!Keep(req))' = (n \in Ppk!Keep(req))
      /\ Ppk!Written(TRUE)' = Ppk!Written(TRUE)
  BY <1>1 DEF WasThere, Ppk!Inputs, Ppk!Keep, Ppk!Written
<1>5. InputsKept'
  BY <1>1, <1>2, <1>3, <1>4 DEF InputsKept
<1>6. OneRuns'
  <2>1. \A n \in Ppk!Names \ Ppk!Keep(req) : out[n].by \in {0, run}
    BY <1>1 DEF OneRuns
  <2>2. (\A n \in Ppk!Names \ Ppk!Keep(req) : out[n].by \in {0, run})'
    BY <1>1, <1>2, <1>3, <1>4, <2>1
  <2>3. out'["pos"] = Ppk!Written(TRUE) /\ out'["track"] = Ppk!Written(TRUE)
    BY <1>1, <1>2, <1>3 DEF OneRuns
  <2> QED
    BY <1>1, <1>2, <1>3, <1>4, <2>2, <2>3 DEF OneRuns
<1> QED
  BY <1>1, <1>3, <1>5, <1>6 DEF PpkDirectory, PpkTypes, PastSteps

LEMMA FailsKeeps ==
  ASSUME PpkTypes, InputsKept, OneRuns, Ppk!Fails
  PROVE  PpkDirectory'
<1>1. DOMAIN Ppk!StepWrites = PastSteps \union {"summary", "report"}
  BY DEF Ppk!StepWrites, PastSteps
<1>2. /\ \A step \in DOMAIN Ppk!StepWrites : Ppk!StepWrites[step] \subseteq Ppk!Names
      /\ \A step \in PastSteps : "summary" \notin Ppk!StepWrites[step]
      /\ Ppk!StepWrites["summary"] = {"summary"} /\ Ppk!StepWrites["report"] = {}
  BY PpkNames DEF Ppk!StepWrites, PastSteps
<1>3. PICK some \in SUBSET (Ppk!StepWrites[ppkAt] \ Ppk!Keep(req)) : \E whole \in SUBSET some :
        out' = [n \in Ppk!Names |-> IF n \in whole THEN Ppk!Written(TRUE)
                                   ELSE IF n \in some THEN Ppk!Written(FALSE) ELSE out[n]]
  BY DEF Ppk!Fails
<1>4. /\ ppkAt \in PastSteps \union {"summary", "report"} /\ UNCHANGED <<ppkPlan, req, run, given>>
      /\ ppkAt' = "idle" /\ ppkOutcome' = "failed"
  BY <1>1 DEF Ppk!Fails, Ppk!End
<1>5. /\ some \subseteq Ppk!Names /\ {"summary", "pos", "track"} \subseteq Ppk!Names
      /\ \A n \in some : n \notin Ppk!Keep(req)
      /\ ppkAt \in PastSteps => "summary" \notin some
      /\ ppkAt \notin PastSteps => some \subseteq {"summary"}
  BY <1>1, <1>2, <1>3, <1>4, PpkNames
<1>6. ppkAt \notin {"idle", "clear"} /\ run > 0 /\ (ppkAt \in PastSteps => ppkAt # "report")
  BY <1>4 DEF PastSteps, InputsKept
<1>7. \A n \in some : ~WasThere(n)
  BY <1>5, <1>6 DEF InputsKept
<1>8. \A w \in BOOLEAN : Ppk!Written(w) \in PpkFile /\ Ppk!Written(w).by = run
  BY DEF PpkTypes, PpkFile, Ppk!Written
<1>9. /\ out' \in [Ppk!Names -> PpkFile]
      /\ \A n \in Ppk!Names : IF n \in some THEN out'[n].by = run ELSE out'[n] = out[n]
  BY <1>3, <1>5, <1>8 DEF PpkTypes
<1>10. /\ \A n \in Ppk!Names : WasThere(n)' = WasThere(n) /\ (n \in Ppk!Keep(req))' = (n \in Ppk!Keep(req))
       /\ Ppk!Written(TRUE)' = Ppk!Written(TRUE)
  BY <1>4 DEF WasThere, Ppk!Inputs, Ppk!Keep, Ppk!Written
<1>11. InputsKept'
  BY <1>4, <1>6, <1>7, <1>9, <1>10 DEF InputsKept
<1>12. OneRuns'
  <2>1. (\A n \in Ppk!Names \ Ppk!Keep(req) : out[n].by \in {0, run})'
    BY <1>4, <1>6, <1>9, <1>10 DEF OneRuns
  <2>2. out'["summary"].by # 0 => ppkAt \in {"summary", "report"}
    BY <1>4, <1>5, <1>6, <1>9 DEF OneRuns
  <2>3. ppkAt \in {"summary", "report"} => out'["pos"] = out["pos"] /\ out'["track"] = out["track"]
    <3>1. "summary" \notin PastSteps /\ "report" \notin PastSteps
      BY DEF PastSteps
    <3> QED
      BY <1>5, <1>9, <3>1
  <2>4. out'["summary"].by # 0 => out'["pos"] = Ppk!Written(TRUE) /\ out'["track"] = Ppk!Written(TRUE)
    BY <2>2, <2>3 DEF OneRuns
  <2> QED
    BY <1>4, <1>10, <2>1, <2>4 DEF OneRuns
<1> QED
  BY <1>4, <1>9, <1>11, <1>12 DEF PpkDirectory, PpkTypes

(* Where the base's hours were logged.                                     *)
LEMMA LoggedOnce ==
  ASSUME PpkAssumption, NEW hs \in SUBSET DOMAIN LoggedAt, NEW s \in Ppk!Logged(hs),
         Ppk!Cardinality(Ppk!Logged(hs)) <= 1
  PROVE  Ppk!Logged(hs) = {s} /\ Ppk!SiteOf(hs) = s
<1>1. IsFiniteSet(hs)
  BY FS_Subset DEF PpkAssumption
<1>2. IsFiniteSet(Ppk!InWindow(hs))
  BY <1>1, FS_Subset DEF Ppk!InWindow
<1>3. IsFiniteSet({LoggedAt[h] : h \in Ppk!InWindow(hs)})
  <2> DEFINE W == Ppk!InWindow(hs)
             T == {LoggedAt[h] : h \in W}
             f == [h \in W |-> LoggedAt[h]]
  <2>1. f \in [W -> T] /\ \A y \in T : \E h \in W : f[h] = y
    OBVIOUS
  <2>2. f \in Surjection(W, T)
    BY <2>1, Zenon DEF Surjection
  <2> HIDE DEF W, T, f
  <2>3. IsFiniteSet(T)
    BY <1>2, <2>2, FS_Surjection DEF W
  <2> QED
    BY <2>3 DEF T, W
<1>4. IsFiniteSet(Ppk!Logged(hs))
  BY <1>3, FS_Subset DEF Ppk!Logged
<1>5. Ppk!Cardinality(Ppk!Logged(hs)) = Cardinality(Ppk!Logged(hs))
  BY DEF Ppk!Cardinality, Cardinality
<1>6. Cardinality(Ppk!Logged(hs)) \in Nat /\ Cardinality(Ppk!Logged(hs)) # 0
  BY <1>4, FS_CardinalityType, FS_EmptySet
<1>7. Cardinality(Ppk!Logged(hs)) = 1
  BY <1>5, <1>6
<1>8. PICK x : Ppk!Logged(hs) = {x}
  BY <1>4, <1>7, FS_Singleton
<1>9. Ppk!Logged(hs) = {s}
  BY <1>8
<1> QED
  BY <1>5, <1>7, <1>9 DEF Ppk!SiteOf

PpkPosition ==
  /\ used \subseteq DOMAIN LoggedAt /\ seen \subseteq DOMAIN LoggedAt
  /\ hours \subseteq DOMAIN LoggedAt /\ sites \subseteq Sites
  /\ Spliced /\ SiteKnown /\ Placed

LEMMA StartPlaces ==
  ASSUME PpkTypes, Spliced, SiteKnown, Placed, Ppk!Start \/ Ppk!Clear \/ Ppk!ClearFails \/ Ppk!Fails \/ Ppk!RoverSide,
         OneRuns
  PROVE  PpkPosition'
<1> USE DEF Ppk!host, Ppk!position, Ppk!End
<1>1. UNCHANGED <<hours, sites>> /\ used' \subseteq DOMAIN LoggedAt /\ seen' \subseteq DOMAIN LoggedAt
  BY DEF PpkTypes, Ppk!Start, Ppk!Clear, Ppk!ClearFails, Ppk!Fails, Ppk!RoverSide
<1>2. CASE Ppk!Start
  <2>1. ppkAt' = "clear" /\ ppkOutcome' = "none" /\ remoteSite' = "none"
    BY <1>2 DEF Ppk!Start
  <2>2. ~HasRead'
    BY <2>1 DEF HasRead
  <2> QED
    BY <1>1, <2>1, <2>2 DEF PpkPosition, PpkTypes, Spliced, SiteKnown, Placed
<1>3. CASE Ppk!Clear \/ Ppk!ClearFails \/ Ppk!Fails
  <2>1. /\ ppkAt' \in {"rover", "idle"} /\ ppkOutcome' # "done"
        /\ UNCHANGED <<req, used, seen, logged, remoteSite, place>>
    BY <1>3 DEF Ppk!Clear, Ppk!ClearFails, Ppk!Fails, OneRuns
  <2>2. ~HasRead'
    BY <2>1 DEF HasRead
  <2> QED
    BY <1>1, <2>1, <2>2 DEF PpkPosition, PpkTypes, Spliced, SiteKnown, Placed
<1>4. CASE Ppk!RoverSide
  <2>1. /\ ppkAt' = IF req.base.kind = "upload" THEN "convert" ELSE "fetch"
        /\ UNCHANGED <<req, used, seen, logged, remoteSite, place, ppkOutcome>>
        /\ ppkOutcome = "none"
    BY <1>4 DEF Ppk!RoverSide, OneRuns
  <2>2. ~HasRead'
    BY <2>1 DEF HasRead
  <2> QED
    BY <1>1, <2>1, <2>2 DEF PpkPosition, PpkTypes, Spliced, SiteKnown, Placed
<1> QED
  BY <1>2, <1>3, <1>4

LEMMA KindsOfBase ==
  ASSUME PpkTypes
  PROVE  req.base.kind \in {"upload", "local", "remote"}
BY DEF PpkTypes, PpkRequests, PpkFiles

LEMMA FetchPlaces ==
  ASSUME PpkTypes, Spliced, SiteKnown, Placed, OneRuns, Ppk!Fetch
  PROVE  PpkPosition'
<1>1. /\ ppkAt' \in {"convert", "sites", "idle"} /\ (ppkAt' = "convert" => req.base.kind = "local")
      /\ used' = hours /\ UNCHANGED <<req, hours, sites, seen, logged, remoteSite, place>>
      /\ ppkOutcome' # "done"
  BY DEF Ppk!Fetch, Ppk!host, Ppk!End, OneRuns
<1>2. ~HasRead'
  BY <1>1 DEF HasRead
<1> QED
  BY <1>1, <1>2 DEF PpkPosition, PpkTypes, Spliced, SiteKnown, Placed

LEMMA BasePlaces ==
  ASSUME PpkTypes, Spliced, SiteKnown, Placed, OneRuns, Ppk!BaseSide
  PROVE  PpkPosition'
<1>1. /\ ppkAt = "convert" /\ ppkAt' = IF req.base.kind = "local" THEN "sites" ELSE "place"
      /\ UNCHANGED <<req, hours, sites, used, seen, logged, remoteSite, place, ppkOutcome>>
      /\ ppkOutcome = "none"
  BY DEF Ppk!BaseSide, Ppk!host, Ppk!position, OneRuns
<1>2. HasRead' => HasRead
  BY <1>1, KindsOfBase DEF HasRead
<1>3. Ppk!SiteOf(seen)' = Ppk!SiteOf(seen) /\ Ppk!OneSite(seen)' = Ppk!OneSite(seen)
  BY <1>1 DEF Ppk!SiteOf, Ppk!OneSite, Ppk!Logged
<1> QED
  BY <1>1, <1>2, <1>3 DEF PpkPosition, PpkTypes, Spliced, SiteKnown, Placed

LEMMA ReadPlaces ==
  ASSUME PpkTypes, Spliced, SiteKnown, Placed, OneRuns, Ppk!ReadSites
  PROVE  PpkPosition'
<1>1. PICK hs \in {hours} \union (IF req.base.kind = "remote" THEN {{}} ELSE {}) :
        /\ seen' = hs /\ logged' = Ppk!SiteOf(hs)
        /\ \E site \in {Ppk!RemoteSite(Ppk!SiteOf(hs)), "none"} :
             remoteSite' = IF req.base.kind = "remote" /\ req.site = "none" THEN site ELSE "none"
        /\ \/ ppkAt' = "idle" /\ ppkOutcome' = "failed"
           \/ /\ Ppk!OneSite(hs) /\ ppkOutcome' = ppkOutcome
              /\ ppkAt' = IF req.base.kind = "remote" THEN "convert" ELSE "place"
  BY DEF Ppk!ReadSites, Ppk!End
<1>2. /\ ppkAt = "sites" /\ UNCHANGED <<req, hours, sites, used, place>> /\ ppkOutcome = "none"
  BY DEF Ppk!ReadSites, Ppk!host, OneRuns
<1>3. req.base.kind # "upload" => hs \subseteq used
  BY <1>1, <1>2 DEF Spliced
<1>4. hs \subseteq DOMAIN LoggedAt
  BY <1>1 DEF PpkTypes
<1>5. (Ppk!SiteOf(seen))' = Ppk!SiteOf(hs) /\ (Ppk!OneSite(seen))' = Ppk!OneSite(hs)
  BY <1>1, <1>2 DEF Ppk!SiteOf, Ppk!OneSite, Ppk!Logged
<1>6. req.base.kind = "remote" /\ req.site = "none" =>
        remoteSite' \in {"none", logged'} \/ logged' \notin sites
  BY <1>1 DEF Ppk!RemoteSite
<1>7. SiteKnown'
  <2>1. req.base.kind = "local" => remoteSite' = "none"
    BY <1>1
  <2>2. HasRead' => Ppk!OneSite(hs) /\ req.base.kind # "upload"
    BY <1>1, <1>2 DEF HasRead
  <2> QED
    BY <1>1, <1>2, <1>3, <1>5, <1>6, <2>1, <2>2 DEF SiteKnown
<1>8. Spliced' /\ Placed'
  BY <1>1, <1>2, KindsOfBase DEF Spliced, Placed
<1> QED
  BY <1>1, <1>2, <1>4, <1>7, <1>8 DEF PpkPosition, PpkTypes

LEMMA PlacePlaces ==
  ASSUME PpkAssumption, PpkTypes, Spliced, SiteKnown, Placed, OneRuns, Ppk!Place
  PROVE  PpkPosition'
<1>1. /\ ppkAt = "place" /\ place' = Ppk!Position /\ ppkOutcome = "none"
      /\ UNCHANGED <<req, hours, sites, used, seen, logged, remoteSite>>
      /\ \/ ppkAt' = "idle" /\ ppkOutcome' = "failed"
         \/ ppkAt' = "solve" /\ ppkOutcome' = "none" /\ Ppk!Position # "none"
  BY DEF Ppk!Place, Ppk!End, Ppk!host, OneRuns
<1>2. HasRead' => HasRead
  BY <1>1 DEF HasRead
<1>3. Ppk!SiteOf(seen)' = Ppk!SiteOf(seen) /\ Ppk!OneSite(seen)' = Ppk!OneSite(seen)
  BY <1>1 DEF Ppk!SiteOf, Ppk!OneSite, Ppk!Logged
<1>4. SiteKnown'
  BY <1>1, <1>2, <1>3 DEF SiteKnown
<1>5. Spliced'
  BY <1>1 DEF Spliced
<1>6. Placed'
  <2> SUFFICES ASSUME req.base.kind # "upload", req.site = "none", ppkAt' = "solve"
               PROVE  /\ place' # "none"
                      /\ IF req.base.kind = "local" THEN logged = "none" \/ place' = logged
                         ELSE place' = remoteSite
    BY <1>1 DEF Placed
  <2>1. req.site \notin Sites /\ place' # "none" /\ place' = Ppk!Position
    BY <1>1 DEF PpkAssumption
  <2>2. CASE req.base.kind = "local"
    BY <2>1, <2>2 DEF Ppk!Position
  <2>3. CASE req.base.kind = "remote"
    BY <2>1, <2>3 DEF Ppk!Position
  <2> QED
    BY <2>2, <2>3, KindsOfBase
<1> QED
  BY <1>1, <1>4, <1>5, <1>6 DEF PpkPosition, PpkTypes

LEMMA LatePlaces ==
  ASSUME PpkTypes, Spliced, SiteKnown, Placed, OneRuns,
         \/ Ppk!Solve("solve", "again") \/ Ppk!Solve("again", "failed") \/ Ppk!Post \/ Ppk!Summarise
         \/ Ppk!Report
  PROVE  PpkPosition'
<1>1. /\ UNCHANGED <<req, hours, sites, used, seen, logged, remoteSite, place>>
      /\ ppkAt \in {"solve", "again", "post", "summary", "report"}
      /\ \/ ppkAt' \in {"again", "post", "summary", "report"} /\ ppkOutcome' = ppkOutcome
         \/ ppkAt' = "idle" /\ ppkOutcome' \in {"failed", "done"}
  BY DEF Ppk!Solve, Ppk!Post, Ppk!Summarise, Ppk!Report, Ppk!End, Ppk!host, Ppk!position
<1>2. HasRead' => HasRead
  BY <1>1 DEF HasRead
<1>3. Ppk!SiteOf(seen)' = Ppk!SiteOf(seen) /\ Ppk!OneSite(seen)' = Ppk!OneSite(seen)
  BY <1>1 DEF Ppk!SiteOf, Ppk!OneSite, Ppk!Logged
<1> QED
  BY <1>1, <1>2, <1>3 DEF PpkPosition, PpkTypes, Spliced, SiteKnown, Placed

\* A host that prunes and edits only takes away.
LEMMA HostPlaces ==
  ASSUME PpkInv, Ppk!HostPrunes \/ Ppk!HostEdits
  PROVE  PpkInv'
<1>1. /\ UNCHANGED <<ppkPlan, req, run, ppkAt, ppkOutcome, out, given, used, seen, logged,
                     remoteSite, place>>
      /\ hours' \subseteq hours /\ sites' \subseteq sites
  BY DEF Ppk!HostPrunes, Ppk!HostEdits, Ppk!position
<1>2. PpkTypes'
  BY <1>1 DEF PpkInv, PpkTypes
<1>3. InputsKept' /\ OneRuns'
  BY <1>1 DEF PpkInv, InputsKept, OneRuns, WasThere, Ppk!Inputs, Ppk!Keep, Ppk!Written
<1>4. Ppk!SiteOf(seen)' = Ppk!SiteOf(seen) /\ Ppk!OneSite(seen)' = Ppk!OneSite(seen)
  BY <1>1 DEF Ppk!SiteOf, Ppk!OneSite, Ppk!Logged
<1>5. Spliced' /\ SiteKnown' /\ Placed'
  BY <1>1, <1>4 DEF PpkInv, Spliced, SiteKnown, HasRead, Placed
<1> QED
  BY <1>2, <1>3, <1>5 DEF PpkInv

LEMMA PpkInitially == Ppk!Init => PpkInv
<1> SUFFICES ASSUME Ppk!Init PROVE PpkInv
  OBVIOUS
<1> USE DEF Ppk!Init
<1>1. req \in PpkRequests
  BY PpkNames DEF PpkRequests, PpkFiles, Ppk!NoRequest, Ppk!Log
<1>2. Ppk!Absent \in PpkFile
  BY DEF PpkFile, Ppk!Absent
<1>3. PpkTypes
  BY <1>1, <1>2, PpkAssumption DEF PpkTypes
<1>4. InputsKept /\ OneRuns
  BY DEF InputsKept, OneRuns
<1>5. Spliced /\ Placed
  BY DEF Spliced, Placed
<1>6. SiteKnown
  BY DEF SiteKnown, HasRead
<1> QED
  BY <1>3, <1>4, <1>5, <1>6 DEF PpkInv

LEMMA PpkNext == PpkInv /\ [Ppk!Next]_ppkVars => PpkInv'
<1> SUFFICES ASSUME PpkInv, [Ppk!Next]_ppkVars PROVE PpkInv'
  OBVIOUS
<1>0. PpkDirectory' /\ PpkPosition' => PpkInv'
  BY DEF PpkDirectory, PpkPosition, PpkInv, PpkTypes, PastSteps
<1> USE DEF PpkInv
<1>1. CASE Ppk!Start \/ Ppk!Clear \/ Ppk!ClearFails \/ Ppk!Fails \/ Ppk!RoverSide
  BY <1>0, <1>1, StartKeeps, ClearKeeps, FailsKeeps, RunSorts, AdvanceKeeps, StartPlaces
<1>2. CASE Ppk!Fetch \/ Ppk!BaseSide \/ Ppk!ReadSites \/ Ppk!Place
  BY <1>0, <1>2, RunSorts, AdvanceKeeps, FetchPlaces, BasePlaces, ReadPlaces, PlacePlaces, PpkAssumption
<1>3. CASE Ppk!Solve("solve", "again") \/ Ppk!Solve("again", "failed") \/ Ppk!Post
  BY <1>0, <1>3, RunSorts, AdvanceKeeps, LatePlaces
<1>4. CASE Ppk!Summarise \/ Ppk!Report
  BY <1>0, <1>4, SummariseKeeps, LatePlaces
<1>5. CASE Ppk!HostPrunes \/ Ppk!HostEdits
  BY <1>5, HostPlaces
<1>6. CASE UNCHANGED ppkVars
  <2>1. UNCHANGED <<ppkPlan, req, run, ppkAt, ppkOutcome, out, given, used, seen, logged,
                    remoteSite, place, hours, sites>>
    BY <1>6 DEF ppkVars
  <2>2. Ppk!SiteOf(seen)' = Ppk!SiteOf(seen) /\ Ppk!OneSite(seen)' = Ppk!OneSite(seen)
    BY <2>1 DEF Ppk!SiteOf, Ppk!OneSite, Ppk!Logged
  <2>3. PpkTypes' /\ InputsKept' /\ OneRuns'
    BY <2>1 DEF PpkTypes, InputsKept, OneRuns, WasThere, Ppk!Inputs, Ppk!Keep, Ppk!Written
  <2>4. Spliced' /\ SiteKnown' /\ Placed'
    BY <2>1, <2>2 DEF Spliced, SiteKnown, HasRead, Placed
  <2> QED
    BY <2>3, <2>4
<1> QED
  BY <1>1, <1>2, <1>3, <1>4, <1>5, <1>6 DEF Ppk!Next

LEMMA PpkTracks == PpkInv => TrackIsItsOwn
<1> SUFFICES ASSUME PpkInv PROVE Ppk!TrackIsItsOwn
  BY DEF TrackIsItsOwn
<1>1. run > 0 => \A n \in Ppk!Inputs(req) : given[n].by # 0 => out[n] = given[n]
  BY DEF PpkInv, InputsKept, WasThere, Ppk!Inputs
<1>2. ASSUME run > 0, ppkAt # "clear", ppkOutcome # "refused"
      PROVE  /\ \A n \in Ppk!Names \ Ppk!Keep(req) : out[n].by \in {0, run}
             /\ out["summary"].by # 0 =>
                  out["pos"] = Ppk!Written(TRUE) /\ out["track"] = Ppk!Written(TRUE)
  <2>1. ppkAt \notin {"idle", "clear"} \/ ppkOutcome \in {"done", "failed"}
    BY <1>2 DEF PpkInv, OneRuns, PpkTypes
  <2> QED
    BY <2>1 DEF PpkInv, OneRuns
<1>3. ppkOutcome = "done" => out["summary"] = Ppk!Written(TRUE)
  BY DEF PpkInv, OneRuns
<1>4. ASSUME Ppk!InWindow(used) \subseteq seen PROVE Ppk!PlacedWhereLogged
  <2> SUFFICES ASSUME ppkOutcome = "done", req.base.kind # "upload", req.site = "none",
                      NEW s \in Ppk!Logged(used)
               PROVE  /\ Ppk!Logged(used) = {s}
                      /\ place = s \/ (req.base.kind = "remote" /\ s \notin sites)
    BY DEF Ppk!PlacedWhereLogged
  <2>1. HasRead
    BY DEF HasRead
  <2>2. Ppk!InWindow(used) = Ppk!InWindow(seen)
    BY <1>4, <2>1 DEF PpkInv, SiteKnown, Ppk!InWindow
  <2>3. Ppk!Logged(used) = Ppk!Logged(seen)
    BY <2>2 DEF Ppk!Logged
  <2>4. Ppk!Cardinality(Ppk!Logged(seen)) <= 1
    BY <2>1 DEF PpkInv, SiteKnown, Ppk!OneSite
  <2>5. Ppk!Logged(seen) = {s} /\ logged = s
    BY <2>1, <2>3, <2>4, LoggedOnce, PpkAssumption DEF PpkInv, PpkTypes, SiteKnown
  <2>6. s # "none"
    BY DEF Ppk!Logged
  <2>7. CASE req.base.kind = "local"
    BY <2>3, <2>5, <2>6, <2>7 DEF PpkInv, Placed
  <2>8. CASE req.base.kind = "remote"
    BY <2>1, <2>3, <2>5, <2>6, <2>8 DEF PpkInv, Placed, SiteKnown
  <2> QED
    BY <2>7, <2>8, KindsOfBase DEF PpkInv
<1> QED
  BY <1>1, <1>2, <1>3, <1>4 DEF Ppk!TrackIsItsOwn

\* Ppk: what a cleared directory shows is one run's, a summary stands only over its
\* solution and track, and the track is placed where the base was logged, whatever
\* the runs before it left, whichever step fails or is cancelled, the last included,
\* and whatever the base's host prunes or edits meanwhile.
THEOREM TracksAreTheirOwn == Ppk!Spec => []TrackIsItsOwn
<1>1. Ppk!Init => PpkInv
  BY PpkInitially
<1>2. PpkInv /\ [Ppk!Next]_ppkVars => PpkInv'
  BY PpkNext
<1>3. PpkInv => TrackIsItsOwn
  BY PpkTracks
<1>4. Ppk!Spec => Ppk!Init /\ [][Ppk!Next]_ppkVars
  BY DEF Ppk!Spec, Ppk!ppkVars, ppkVars
<1> QED
  BY <1>1, <1>2, <1>3, <1>4, PTL

=============================================================================
