---------------------------- MODULE SetupProofs ----------------------------
(***************************************************************************)
(* How mtrtk sets its receiver up: proofs about BaseMode, for every set of *)
(* site names, every plan and any number of requests, faults and           *)
(* reconnections, and, in the second part, about ReceiverConfig, for every *)
(* profile, chunk size and plan.                                           *)
(***************************************************************************)
EXTENDS BaseMode, Configures, Integers, FiniteSetTheorems, WellFoundedInduction, TLAPS

Stages == {"idle", "env", "wait", "resolve", "read", "tmode", "fixed", "stop", "survey"}
Sites == Names \X (Nat \ {0})
MaybeName == Names \cup {NoName}
Tasks == [at : Stages, w : Sites \cup {Off, Svin, NoSite}, taken : {"no", "yes", "dropped"}]
Writes == {"tmode", "fixed", "stop", "survey"}

TypeInv ==
  /\ plan \in Plans
  /\ row \in [Names -> Nat] /\ made \in [Names -> Nat] /\ act \in MaybeName
  /\ settings \in [mode : Modes, site : MaybeName]
  /\ mode \in Modes /\ siteName \in MaybeName
  /\ body \in [mode : Modes, site : MaybeName, changed : SUBSET {"mode", "site", "svin"}]
  /\ op \in [Actors -> Tasks] /\ queue \in Seq(Actors)

\* The active row exists: SitesRepo.delete() refuses it.
ActiveExists == act # NoName => row[act] # 0

\* What each task writes, and where.
Ways ==
  /\ \A a \in Actors : op[a].at = "fixed" => op[a].w \in Sites
  /\ \A a \in Actors : op[a].at \in {"resolve", "read", "tmode"} => a \in {"loop", "put"}
  /\ \A a \in Actors : op[a].at \in {"stop", "survey"} => a = "restart"
  /\ op["restart"].at # "fixed"
  /\ op["api"].at # "idle" => op["api"].w \in Sites
  /\ op["restart"].at = "survey" => op["restart"].w = Svin
  /\ \A a \in Actors : op[a].at = "env" => a = "put"

\* Only the holder of _apply_lock is past its wait.
LockHeld == \A a \in Actors : op[a].at \notin {"idle", "env", "wait"} => Holder = a

\* What a write took effect as.
TakenIs == \A a \in Actors : op[a].at \in Writes /\ op[a].taken = "yes" => rcv = op[a].w

\* A change of settings that has still to be applied.
PutPending == op["put"].at \in {"wait", "resolve", "read", "tmode", "fixed"}

\* A write after which the receiver, or the manager, is not where it was.
MidWrite(a) ==
  op[a].at \in {"tmode", "stop", "survey"} \/ (op[a].at = "fixed" /\ op[a].taken # "no")

Clean == mode = Kind(rcv) /\ (mode = "fixed" => applied = rcv)

\* What a task writes is the mode the manager is in, or a settings change that
\* moved it is still to come.
WritesMode ==
  /\ op["loop"].at = "read" => mode # "fixed" \/ PutPending
  /\ op["put"].at = "read" => mode # "fixed"
  /\ op["loop"].at = "tmode" => Kind(op["loop"].w) = mode \/ PutPending
  /\ op["put"].at = "tmode" => Kind(op["put"].w) = mode
  /\ \A a \in {"loop", "put"} : op[a].at = "tmode" => op[a].w \in {Off, Svin}
  /\ op["restart"].at = "survey" => mode = "svin" \/ PutPending

InStep == doubt \/ Clean \/ PutPending \/ \E a \in Actors : MidWrite(a)

\* The row the poll takes for its baseline is the active one, until somebody
\* activates another.
BaselineStands == begun /\ ~fresh => baseline = Active

ModeInv ==
  TypeInv /\ ActiveExists /\ Ways /\ LockHeld /\ TakenIs /\ WritesMode /\ InStep /\ BaselineStands

-----------------------------------------------------------------------------
(* Lemmas *)

Inert == {"idle", "env", "wait"}

\* What the three kinds of TMODE are.
LEMMA KindFacts ==
  /\ Kind(Off) = "off" /\ Kind(Svin) = "svin" /\ \A s \in Sites : Kind(s) = "fixed"
  /\ Off # Svin /\ Off # NoSite /\ Svin # NoSite /\ NoSite \notin Sites
<1>1. \A s \in Sites : s[2] # 0
  BY DEF Sites
<1>2. Off # Svin /\ Off # NoSite /\ Svin # NoSite /\ Off[2] = 0 /\ Svin[2] = 0 /\ NoSite[2] = 0
  BY DEF Off, Svin, NoSite, NoName
<1>3. QED
  BY <1>1, <1>2 DEF Kind

\* A row that exists is a site.
LEMMA SiteFacts ==
  ASSUME TypeInv, ActiveExists
  PROVE  /\ \A n \in Names : row[n] # 0 => <<n, row[n]>> \in Sites
         /\ Active \in Sites \cup {NoSite} /\ (Active = NoSite <=> act = NoName)
         /\ Resolved \in Sites \cup {NoSite}
<1>1. \A n \in Names : row[n] # 0 => <<n, row[n]>> \in Sites
  BY DEF TypeInv, Sites
<1>2. Active \in Sites \cup {NoSite} /\ (Active = NoSite <=> act = NoName)
  <2>1. CASE act = NoName
    BY <2>1 DEF Active
  <2>2. CASE act # NoName
    BY <1>1, <2>2, KindFacts DEF Active, ActiveExists, TypeInv, MaybeName
  <2>3. QED
    BY <2>1, <2>2
<1>3. Resolved \in Sites \cup {NoSite}
  BY <1>1, <1>2 DEF Resolved, TypeInv, MaybeName
<1>4. QED
  BY <1>1, <1>2, <1>3

\* The fields of a task at rest, and of one that waits or writes.
LEMMA TaskFacts ==
  /\ Idle \in Tasks /\ Idle.at = "idle" /\ Idle.taken = "no"
  /\ \A at \in Stages, w \in Sites \cup {Off, Svin, NoSite}, t \in {"no", "yes", "dropped"} :
       LET o == [at |-> at, w |-> w, taken |-> t]
       IN  o \in Tasks /\ o.at = at /\ o.w = w /\ o.taken = t
BY DEF Idle, Tasks, Stages

\* The holder gives the lock back: nobody is past its wait any more.
LEMMA Released ==
  ASSUME ModeInv, NEW a \in Actors, Holder = a, Release(a)
  PROVE  /\ op' \in [Actors -> Tasks] /\ queue' \in Seq(Actors) /\ op'[a] = Idle
         /\ \A b \in Actors : b # a => op'[b] = op[b] /\ op[b].at \in Inert
         /\ Ways' /\ LockHeld' /\ TakenIs' /\ WritesMode' /\ \A b \in Actors : ~MidWrite(b)'
<1>1. op \in [Actors -> Tasks] /\ queue \in Seq(Actors) /\ queue # <<>>
  BY DEF ModeInv, TypeInv, Holder, Actors
<1>2. op' \in [Actors -> Tasks] /\ queue' \in Seq(Actors) /\ op'[a] = Idle
  BY <1>1, TaskFacts DEF Release
<1>3. \A b \in Actors : b # a => op'[b] = op[b] /\ op[b].at \in Inert
  BY <1>1 DEF Release, ModeInv, LockHeld, Inert
<1>4. \A b \in Actors : op'[b].at \in Inert
  BY <1>2, <1>3, TaskFacts DEF Inert
<1>5. Ways'
  BY <1>2, <1>3, <1>4, TaskFacts DEF ModeInv, Ways, Inert, Actors
<1>6. LockHeld' /\ TakenIs' /\ WritesMode' /\ \A b \in Actors : ~MidWrite(b)'
  BY <1>4 DEF LockHeld, TakenIs, WritesMode, MidWrite, Inert, Writes, Actors
<1>7. QED
  BY <1>2, <1>3, <1>5, <1>6

\* The holder goes on to another stage.
LEMMA Advanced ==
  ASSUME ModeInv, NEW a \in Actors, Holder = a, NEW o \in Tasks,
         op' = [op EXCEPT ![a] = o], queue' = queue
  PROVE  /\ op' \in [Actors -> Tasks] /\ queue' \in Seq(Actors) /\ op'[a] = o
         /\ \A b \in Actors : b # a => op'[b] = op[b] /\ op[b].at \in Inert
         /\ LockHeld'
<1>1. op \in [Actors -> Tasks] /\ queue \in Seq(Actors)
  BY DEF ModeInv, TypeInv
<1>2. \A b \in Actors : b # a => op'[b] = op[b] /\ op[b].at \in Inert
  BY <1>1 DEF ModeInv, LockHeld, Inert
<1>3. LockHeld'
  BY <1>2 DEF LockHeld, Holder, Inert
<1>4. QED
  BY <1>1, <1>2, <1>3

\* A task queues for the lock.
LEMMA Queued ==
  ASSUME ModeInv, NEW a \in Actors, NEW w \in Sites \cup {Off, Svin, NoSite},
         op[a].at \in {"idle", "env"}, Wait(a, w)
  PROVE  /\ op' \in [Actors -> Tasks] /\ queue' \in Seq(Actors)
         /\ op'[a].at = "wait" /\ op'[a].w = w
         /\ \A b \in Actors : b # a => op'[b] = op[b]
         /\ LockHeld' /\ (Holder = "nobody" \/ Holder' = Holder)
<1>1. op \in [Actors -> Tasks] /\ queue \in Seq(Actors)
  BY DEF ModeInv, TypeInv
<1> DEFINE o == [at |-> "wait", w |-> w, taken |-> "no"]
<1>2. o \in Tasks /\ o.at = "wait" /\ o.w = w
  BY TaskFacts DEF Stages
<1>3. op' = [op EXCEPT ![a] = o] /\ queue' = Append(queue, a)
  BY DEF Wait
<1> HIDE DEF o
<1>4. op' \in [Actors -> Tasks] /\ op'[a] = o /\ \A b \in Actors : b # a => op'[b] = op[b]
  BY <1>1, <1>2, <1>3
<1>5. queue' \in Seq(Actors) /\ queue' # <<>> /\ (queue # <<>> => Head(queue') = Head(queue))
  BY <1>1, <1>3
<1>6. Holder = "nobody" \/ Holder' = Holder
  BY <1>5 DEF Holder
<1>7. \A b \in Actors : op[b].at \notin Inert => Holder = b /\ Holder # "nobody"
  BY DEF ModeInv, LockHeld, Inert, Actors
<1>8. LockHeld'
  BY <1>2, <1>4, <1>6, <1>7 DEF LockHeld, Inert
<1>9. QED
  BY <1>2, <1>4, <1>5, <1>6, <1>8

-----------------------------------------------------------------------------
(* Steps *)

\* A step that leaves the tasks, the receiver and the manager's mode alone.
LEMMA TasksStill ==
  ASSUME ModeInv, UNCHANGED <<rcv, mode, applied, op, queue, doubt>>
  PROVE  Ways' /\ LockHeld' /\ TakenIs' /\ WritesMode' /\ InStep'
BY DEF ModeInv, Ways, LockHeld, Holder, TakenIs, WritesMode, PutPending, InStep, Clean, MidWrite

\* The connection, the broadcasts, the timer of the check.
LEMMA StepWorld ==
  ASSUME ModeInv, UNCHANGED plan,
         \/ LinkOpens \/ Configured \/ Broadcast \/ Navigates \/ On1005 \/ OnFix
         \/ DeadlinePasses \/ UNCHANGED vars
  PROVE  ModeInv'
<1>1. UNCHANGED <<plan, rcv, mode, applied, op, queue, doubt, row, made, act, settings, siteName, body,
                  begun, fresh, baseline>>
  BY DEF LinkOpens, Configured, Broadcast, Navigates, On1005, OnFix, DeadlinePasses, vars, world,
         rows, config, manager, verdict, tasks, history
<1>2. Ways' /\ LockHeld' /\ TakenIs' /\ WritesMode' /\ InStep'
  BY <1>1, TasksStill
<1>3. TypeInv' /\ ActiveExists' /\ BaselineStands'
  BY <1>1 DEF ModeInv, TypeInv, ActiveExists, BaselineStands, Active
<1>4. QED
  BY <1>2, <1>3 DEF ModeInv

\* The sites table, changed from outside.
LEMMA StepRows ==
  ASSUME ModeInv, UNCHANGED plan, NEW n \in Names, CliActivate(n) \/ CliDelete(n) \/ AddSite(n)
  PROVE  ModeInv'
<1>1. UNCHANGED <<plan, rcv, mode, applied, op, queue, doubt, settings, siteName, body, begun, baseline>>
  BY DEF CliActivate, CliDelete, AddSite, world, rows, config, manager, verdict, tasks, history
<1>2. Ways' /\ LockHeld' /\ TakenIs' /\ WritesMode' /\ InStep'
  BY <1>1, TasksStill
<1>3. row \in [Names -> Nat] /\ made \in [Names -> Nat] /\ act \in MaybeName
  BY DEF ModeInv, TypeInv
<1>4. row' \in [Names -> Nat] /\ made' \in [Names -> Nat] /\ act' \in MaybeName
  BY <1>3 DEF CliActivate, CliDelete, AddSite, rows, MaybeName
<1>5. ActiveExists' /\ (fresh' \/ (fresh' = fresh /\ act' = act /\ (act # NoName => row'[act] = row[act])))
  BY <1>3 DEF CliActivate, CliDelete, AddSite, rows, history, ModeInv, ActiveExists, MaybeName
<1>6. BaselineStands'
  BY <1>1, <1>5 DEF ModeInv, BaselineStands, Active
<1>7. TypeInv'
  BY <1>1, <1>4 DEF ModeInv, TypeInv
<1>8. QED
  BY <1>2, <1>5, <1>6, <1>7 DEF ModeInv

\* A task other than a settings change queues for the lock.
LEMMA StepWait ==
  ASSUME ModeInv, UNCHANGED plan, NEW a \in Actors \ {"put"}, NEW w \in Sites \cup {NoSite},
         a = "api" => w \in Sites, op[a] = Idle, Wait(a, w),
         UNCHANGED <<rcv, mode, applied, doubt, row, made, act, settings, siteName, body, begun,
                     fresh, baseline>>
  PROVE  ModeInv'
<1>1. op[a].at = "idle" /\ a \in Actors
  BY TaskFacts
<1>2. /\ op' \in [Actors -> Tasks] /\ queue' \in Seq(Actors)
      /\ op'[a].at = "wait" /\ op'[a].w = w
      /\ \A b \in Actors : b # a => op'[b] = op[b]
      /\ LockHeld'
  BY <1>1, Queued
<1>3. TypeInv' /\ ActiveExists' /\ BaselineStands'
  BY <1>2 DEF ModeInv, TypeInv, ActiveExists, BaselineStands, Active
<1>4. Ways'
  BY <1>2 DEF ModeInv, Ways, Actors
<1>5. TakenIs'
  BY <1>2 DEF ModeInv, TakenIs, Writes
<1>6. PutPending' <=> PutPending
  BY <1>2 DEF PutPending, Actors
<1>7. WritesMode'
  BY <1>2, <1>6 DEF ModeInv, WritesMode, Actors
<1>8. InStep'
  <2>1. ASSUME NEW b \in Actors, MidWrite(b) PROVE MidWrite(b)'
    BY <1>1, <1>2, <2>1 DEF MidWrite
  <2>2. QED
    BY <1>6, <2>1 DEF ModeInv, InStep, Clean
<1>9. QED
  BY <1>2, <1>3, <1>4, <1>5, <1>7, <1>8 DEF ModeInv

LEMMA StepAsks ==
  ASSUME ModeInv, UNCHANGED plan,
         \/ HandleCapabilities \/ PollDue \/ AskRestart \/ \E n \in Names : AskActivate(n)
  PROVE  ModeInv'
<1> USE DEF world, rows, config, manager, verdict, history
<1>1. CASE HandleCapabilities
  BY <1>1, StepWait DEF HandleCapabilities, Actors
<1>2. CASE PollDue
  BY <1>2, StepWait DEF PollDue, Actors
<1>3. CASE AskRestart
  BY <1>3, StepWait DEF AskRestart, Actors
<1>4. ASSUME NEW n \in Names, AskActivate(n) PROVE ModeInv'
  <2>1. <<n, row[n]>> \in Sites
    BY <1>4, SiteFacts DEF AskActivate, ModeInv
  <2>2. QED
    BY <1>4, <2>1, StepWait DEF AskActivate, Actors
<1>5. QED
  BY <1>1, <1>2, <1>3, <1>4

\* A settings change, up to its write of .env.
LEMMA StepAskPut ==
  ASSUME ModeInv, UNCHANGED plan, NEW b \in plan.bodies, AskPut(b)
  PROVE  ModeInv'
<1> USE DEF world, rows, config, manager, verdict, history
<1>1. UNCHANGED <<plan, rcv, mode, applied, queue, doubt, row, made, act, settings, siteName, begun,
                  fresh, baseline>>
  BY DEF AskPut
<1>2. op["put"] = Idle /\ op' = [op EXCEPT !["put"].at = "env"] /\ op \in [Actors -> Tasks]
  BY DEF AskPut, ModeInv, TypeInv
<1>3. /\ op' \in [Actors -> Tasks] /\ op'["put"].at = "env"
      /\ \A a \in Actors : a # "put" => op'[a] = op[a]
  BY <1>2, TaskFacts DEF Actors, Tasks, Stages
<1>4. body' \in [mode : Modes, site : MaybeName, changed : SUBSET {"mode", "site", "svin"}]
  <2>1. b \in [mode : Modes, site : MaybeName, svin : BOOLEAN]
    BY BaseModeAssumption DEF ModeInv, TypeInv, MaybeName
  <2>2. Changed(b) \subseteq {"mode", "site", "svin"} /\ b.mode \in Modes /\ b.site \in MaybeName
    BY <2>1 DEF Changed
  <2>3. QED
    BY <2>2 DEF AskPut
<1>5. TypeInv' /\ ActiveExists' /\ BaselineStands'
  BY <1>1, <1>3, <1>4 DEF ModeInv, TypeInv, ActiveExists, BaselineStands, Active
<1>6. op["put"].at = "idle"
  BY <1>2, TaskFacts
<1>7. Ways' /\ TakenIs'
  BY <1>1, <1>3 DEF ModeInv, Ways, TakenIs, Writes, Actors
<1>8. LockHeld'
  BY <1>1, <1>3 DEF ModeInv, LockHeld, Holder
<1>9. ~PutPending /\ ~PutPending'
  BY <1>3, <1>6 DEF PutPending
<1>10. WritesMode'
  BY <1>1, <1>3, <1>9 DEF ModeInv, WritesMode, Actors
<1>11. InStep'
  <2>1. ASSUME NEW a \in Actors, MidWrite(a) PROVE MidWrite(a)'
    BY <1>3, <1>6, <2>1 DEF MidWrite
  <2>2. QED
    BY <1>1, <1>9, <2>1 DEF ModeInv, InStep, Clean
<1>12. QED
  BY <1>5, <1>7, <1>8, <1>10, <1>11 DEF ModeInv

\* The rest of a settings change, which moves the mode without the lock.
LEMMA StepPutLive ==
  ASSUME ModeInv, UNCHANGED plan, PutLive
  PROVE  ModeInv'
<1> USE DEF world, rows, verdict, history
<1>1. UNCHANGED <<plan, rcv, applied, doubt, row, made, act, begun, fresh, baseline>>
  BY DEF PutLive
<1>2. /\ op \in [Actors -> Tasks] /\ op["put"].at = "env" /\ "put" \in Actors
      /\ settings \in [mode : Modes, site : MaybeName]
      /\ body \in [mode : Modes, site : MaybeName, changed : SUBSET {"mode", "site", "svin"}]
  BY DEF PutLive, ModeInv, TypeInv, Actors
<1>3. /\ settings' \in [mode : Modes, site : MaybeName]
      /\ mode' = settings'.mode /\ siteName' = settings'.site
  <2>1. /\ settings.mode \in Modes /\ settings.site \in MaybeName
        /\ body.mode \in Modes /\ body.site \in MaybeName
    BY <1>2
  <2>2. QED
    BY <2>1 DEF PutLive
<1>4. mode' \in Modes /\ siteName' \in MaybeName
  BY <1>3
<1>5. body' \in [mode : Modes, site : MaybeName, changed : SUBSET {"mode", "site", "svin"}]
  <2>1. body' = NoBody
    BY DEF PutLive
  <2>2. NoBody \in [mode : Modes, site : MaybeName, changed : SUBSET {"mode", "site", "svin"}]
    BY DEF NoBody, Modes, MaybeName
  <2>3. QED
    BY <2>1, <2>2
<1>6. ActiveExists' /\ BaselineStands'
  BY <1>1 DEF ModeInv, ActiveExists, BaselineStands, Active
<1>7. \A a \in Actors : MidWrite(a) => a # "put"
  BY <1>2 DEF MidWrite
\* It queues: whatever is under way, it has the last word.
<1>8. CASE Wait("put", NoSite)
  <2>1. /\ op' \in [Actors -> Tasks] /\ queue' \in Seq(Actors) /\ op'["put"].at = "wait"
        /\ \A b \in Actors : b # "put" => op'[b] = op[b]
        /\ LockHeld'
    BY <1>2, <1>8, Queued
  <2>2. PutPending'
    BY <2>1 DEF PutPending
  <2>3. Ways' /\ TakenIs'
    BY <1>1, <1>2, <2>1 DEF ModeInv, Ways, TakenIs, Writes, Actors
  <2>4. WritesMode'
    BY <2>1, <2>2 DEF ModeInv, WritesMode, Actors
  <2>5. TypeInv'
    BY <1>1, <1>3, <1>4, <1>5, <2>1 DEF ModeInv, TypeInv
  <2>6. QED
    BY <1>6, <2>1, <2>2, <2>3, <2>4, <2>5 DEF ModeInv, InStep
\* It finds its mode applied: the mode is what it was.
<1>9. CASE mode' = mode /\ op' = [op EXCEPT !["put"] = Idle] /\ queue' = queue
  <2>1. /\ op' \in [Actors -> Tasks] /\ op'["put"].at = "idle"
        /\ \A b \in Actors : b # "put" => op'[b] = op[b]
    BY <1>2, <1>9, TaskFacts
  <2>2. ~PutPending /\ ~PutPending'
    BY <1>2, <2>1 DEF PutPending
  <2>3. Ways' /\ TakenIs' /\ LockHeld'
    BY <1>1, <1>2, <1>9, <2>1 DEF ModeInv, Ways, TakenIs, LockHeld, Holder, Writes, Actors
  <2>4. WritesMode'
    BY <1>9, <2>1, <2>2 DEF ModeInv, WritesMode, Actors
  <2>5. TypeInv'
    BY <1>1, <1>3, <1>4, <1>5, <1>9, <2>1 DEF ModeInv, TypeInv
  <2>6. InStep'
    <3>1. ASSUME NEW a \in Actors, MidWrite(a) PROVE MidWrite(a)'
      BY <1>7, <2>1, <3>1 DEF MidWrite
    <3>2. QED
      BY <1>1, <1>9, <2>2, <3>1 DEF ModeInv, InStep, Clean
  <2>7. QED
    BY <1>6, <2>3, <2>4, <2>5, <2>6 DEF ModeInv
<1>10. QED
  BY <1>8, <1>9 DEF PutLive, AlreadyApplied

\* The holder is done: what it leaves is in step, in doubt, or a settings
\* change's to put right.
LEMMA Finishes ==
  ASSUME ModeInv, NEW a \in Actors, Holder = a, Release(a),
         UNCHANGED <<plan, row, made, body, siteName>>,
         act' \in MaybeName, settings' \in [mode : Modes, site : MaybeName], mode' \in Modes,
         ActiveExists', BaselineStands',
         doubt' \/ Clean' \/ PutPending'
  PROVE  ModeInv'
<1>1. /\ op' \in [Actors -> Tasks] /\ queue' \in Seq(Actors)
      /\ Ways' /\ LockHeld' /\ TakenIs' /\ WritesMode'
  BY Released
<1>2. TypeInv'
  BY <1>1 DEF ModeInv, TypeInv
<1>3. QED
  BY <1>1, <1>2 DEF ModeInv, InStep

\* Nothing but a holder that is past its reads moves the receiver.
LEMMA HolderOnly ==
  ASSUME ModeInv, NEW a \in Actors, Holder = a, ~MidWrite(a)
  PROVE  /\ \A b \in Actors : ~MidWrite(b)
         /\ doubt \/ Clean \/ PutPending
<1>1. \A b \in Actors : b # a => op[b].at \in Inert
  BY DEF ModeInv, LockHeld, Inert
<1>2. \A b \in Actors : ~MidWrite(b)
  BY <1>1 DEF MidWrite, Inert
<1>3. QED
  BY <1>2 DEF ModeInv, InStep

\* The holder, not a settings change itself, goes on or writes.
LEMMA Goes ==
  ASSUME ModeInv, NEW a \in Actors, Holder = a, NEW o \in Tasks,
         op' = [op EXCEPT ![a] = o], queue' = queue,
         UNCHANGED <<plan, row, made, body, siteName, settings, doubt>>,
         act' \in MaybeName, mode' \in Modes,
         ActiveExists', BaselineStands',
         o.at \in Writes /\ o.taken = "yes" => rcv' = o.w,
         o.at \in {"resolve", "read", "tmode"} => a \in {"loop", "put"},
         o.at \in {"stop", "survey"} => a = "restart",
         o.at = "fixed" => o.w \in Sites /\ a # "restart",
         o.at \notin {"idle", "env"}, a = "api" => o.w \in Sites,
         o.at = "survey" => o.w = Svin,
         o.at = "tmode" => o.w \in {Off, Svin},
         o.at = "read" => mode' # "fixed" \/ (a = "loop" /\ PutPending),
         o.at = "tmode" => Kind(o.w) = mode' \/ (a = "loop" /\ PutPending),
         o.at = "survey" => mode' = "svin" \/ PutPending,
         \/ o.at \in {"tmode", "stop", "survey"} \/ (o.at = "fixed" /\ o.taken # "no")
         \/ a = "put" /\ o.at \in {"resolve", "read", "fixed"}
         \/ ~MidWrite(a) /\ UNCHANGED <<rcv, mode, applied>>
  PROVE  ModeInv'
<1>1. /\ op' \in [Actors -> Tasks] /\ queue' \in Seq(Actors) /\ op'[a] = o
      /\ \A b \in Actors : b # a => op'[b] = op[b] /\ op[b].at \in Inert
      /\ LockHeld'
  BY Advanced
<1>2. TypeInv'
  BY <1>1 DEF ModeInv, TypeInv
<1>3. Ways'
  BY <1>1 DEF ModeInv, Ways, Actors, Inert
<1>4. TakenIs'
  BY <1>1 DEF TakenIs, Writes, Inert
<1>5. a # "put" => (PutPending' <=> PutPending)
  BY <1>1 DEF PutPending, Actors
<1>6. WritesMode'
  BY <1>1, <1>5 DEF WritesMode, Actors, Inert
<1>7. InStep'
  <2>1. CASE o.at \in {"tmode", "stop", "survey"} \/ (o.at = "fixed" /\ o.taken # "no")
    BY <1>1, <2>1 DEF InStep, MidWrite
  <2>2. CASE a = "put" /\ o.at \in {"resolve", "read", "fixed"}
    BY <1>1, <2>2 DEF InStep, PutPending
  <2>3. CASE ~MidWrite(a) /\ UNCHANGED <<rcv, mode, applied>>
    <3>1. doubt \/ Clean \/ PutPending
      BY <2>3, HolderOnly
    <3>2. CASE a # "put"
      BY <1>5, <2>3, <3>1, <3>2 DEF InStep, Clean
    <3>3. CASE a = "put" /\ o.at \in {"wait", "resolve", "read", "tmode", "fixed"}
      BY <1>1, <3>3 DEF InStep, PutPending
    <3>4. QED
      BY <2>1, <3>2, <3>3 DEF Tasks, Stages
  <2>4. QED
    BY <2>1, <2>2, <2>3
<1>8. QED
  BY <1>1, <1>2, <1>3, <1>4, <1>6, <1>7 DEF ModeInv

\* apply_mode() takes the lock.
LEMMA StepApplyMode ==
  ASSUME ModeInv, UNCHANGED plan, NEW a \in {"loop", "put"}, ApplyMode(a)
  PROVE  ModeInv'
<1> USE DEF world, rows, config, verdict, history
<1>1. a \in Actors /\ Holder = a /\ op[a].at = "wait" /\ op[a] \in Tasks /\ op \in [Actors -> Tasks]
  BY DEF ApplyMode, Holds, Actors, ModeInv, TypeInv
<1> DEFINE o == [op[a] EXCEPT !.at = IF mode = "fixed" THEN "resolve" ELSE "read"]
<1>2. o \in Tasks /\ o.at = (IF mode = "fixed" THEN "resolve" ELSE "read") /\ o.taken = op[a].taken
      /\ o.w = op[a].w
  BY <1>1 DEF Tasks, Stages
<1>3. op' = [op EXCEPT ![a] = o] /\ queue' = queue
  BY <1>1 DEF ApplyMode
<1> HIDE DEF o
<1>5. ~MidWrite(a) /\ UNCHANGED <<rcv, mode, applied, row, made, act, settings, siteName, body, doubt>>
  BY <1>1 DEF ApplyMode, MidWrite
<1>6. ActiveExists' /\ BaselineStands' /\ mode' \in Modes /\ act' \in MaybeName
  BY DEF ApplyMode, ModeInv, TypeInv, ActiveExists, BaselineStands, Active
<1>7. QED
  BY <1>1, <1>2, <1>3, <1>5, <1>6, Goes DEF Writes

\* A write that leaves the manager in doubt, or in a mode that is to be what it
\* writes.
LEMMA WritesOut ==
  ASSUME ModeInv, NEW a \in Actors, Holder = a, NEW at \in Writes, NEW w \in Sites \cup {Off, Svin},
         Write(a, at, w),
         UNCHANGED <<plan, row, made, body, siteName, settings, rcv>>,
         act' \in MaybeName, mode' \in Modes, ActiveExists', BaselineStands',
         at = "tmode" => a \in {"loop", "put"}, at \in {"stop", "survey"} => a = "restart",
         at = "fixed" => w \in Sites /\ a # "restart", a = "api" => w \in Sites,
         at = "survey" => w = Svin /\ (mode' = "svin" \/ PutPending),
         at = "tmode" => w \in {Off, Svin} /\ (Kind(w) = mode' \/ (a = "loop" /\ PutPending)),
         at = "fixed" => ~MidWrite(a) /\ UNCHANGED <<mode, applied>>
  PROVE  ModeInv'
<1>1. CASE link = "down"
  <2>1. Release(a) /\ doubt' = (doubt \/ Doubtful(a, at))
    BY <1>1 DEF Write
  <2>2. CASE doubt'
    BY <2>1, <2>2, Finishes DEF ModeInv, TypeInv
  <2>3. CASE ~doubt'
    <3>1. at = "fixed" /\ a \notin {"loop", "put"}
      BY <2>1, <2>3 DEF Doubtful
    <3>2. doubt \/ Clean \/ PutPending
      BY <3>1, HolderOnly
    <3>3. PutPending' <=> PutPending
      BY <2>1, <3>1, Released DEF PutPending, Actors
    <3>4. doubt' \/ Clean' \/ PutPending'
      BY <2>1, <3>1, <3>2, <3>3 DEF Clean
    <3>5. QED
      BY <2>1, <3>4, Finishes DEF ModeInv, TypeInv
  <2>4. QED
    BY <2>2, <2>3
<1>2. CASE link # "down"
  <2> DEFINE o == [at |-> at, w |-> w, taken |-> "no"]
  <2>1. o \in Tasks /\ o.at = at /\ o.w = w /\ o.taken = "no"
    <3>1. at \in Stages /\ w \in Sites \cup {Off, Svin, NoSite}
      BY DEF Writes, Stages
    <3>2. QED
      BY <3>1, TaskFacts
  <2>2. op' = [op EXCEPT ![a] = o] /\ queue' = queue /\ doubt' = doubt
    BY <1>2 DEF Write
  <2> HIDE DEF o
  <2>3. QED
    BY <2>1, <2>2, Goes DEF Writes
<1>3. QED
  BY <1>1, <1>2

\* apply_mode() reads the row it is to apply, and writes.
LEMMA StepResolve ==
  ASSUME ModeInv, UNCHANGED plan, NEW a \in {"loop", "put"}, ResolveSite(a)
  PROVE  ModeInv'
<1> USE DEF world, config
<1>1. /\ a \in Actors /\ Holder = a /\ op[a].at = "resolve" /\ ~MidWrite(a)
      /\ TypeInv /\ ActiveExists
  BY DEF ResolveSite, Holds, Actors, ModeInv, MidWrite
<1>2. UNCHANGED <<plan, row, made, body, siteName, settings, rcv>> /\ baseline' = Resolved
  BY DEF ResolveSite
<1>3. CASE Resolved # NoSite
  <2>1. act' = Resolved[1] /\ Write(a, "fixed", Resolved) /\ UNCHANGED <<mode, applied>>
    BY <1>3 DEF ResolveSite, ApplyFixed, verdict
  <2>2. Resolved \in Sites
    BY <1>1, <1>3, SiteFacts
  <2>3. Resolved = <<Resolved[1], row[Resolved[1]]>> /\ Resolved[1] \in Names
    <3>1. \E n \in MaybeName : Resolved = <<n, row[n]>>
      BY <1>1, <1>3 DEF Resolved, Active, TypeInv
    <3>2. QED
      BY <2>2, <3>1 DEF Sites
  <2>4. row[Resolved[1]] # 0
    BY <2>2, <2>3 DEF Sites
  <2>5. Resolved[1] # NoName
    BY <2>3, BaseModeAssumption
  <2>6. act' \in MaybeName /\ ActiveExists' /\ BaselineStands'
    BY <1>2, <2>1, <2>3, <2>4, <2>5 DEF MaybeName, ActiveExists, BaselineStands, Active
  <2>7. QED
    BY <1>1, <1>2, <2>1, <2>2, <2>6, WritesOut DEF Writes, TypeInv
<1>4. CASE Resolved = NoSite
  <2>1. act' = act /\ mode' = "svin" /\ Write(a, "tmode", Svin)
    BY <1>4 DEF ResolveSite, ApplyTmode
  <2>2. Active = NoSite
    <3>1. siteName # NoName /\ row[siteName] # 0 => <<siteName, row[siteName]>> # NoSite
      BY <1>1, SiteFacts, KindFacts DEF TypeInv, MaybeName
    <3>2. QED
      BY <1>4, <3>1 DEF Resolved
  <2>3. ActiveExists' /\ BaselineStands' /\ act' \in MaybeName /\ mode' \in Modes
    BY <1>1, <1>2, <1>4, <2>1, <2>2 DEF ActiveExists, BaselineStands, Active, TypeInv, Modes
  <2>4. QED
    BY <1>1, <1>2, <2>1, <2>3, WritesOut, KindFacts DEF Writes
<1>5. QED
  BY <1>3, <1>4

LEMMA StepReadActive ==
  ASSUME ModeInv, UNCHANGED plan, NEW a \in {"loop", "put"}, ReadActive(a)
  PROVE  ModeInv'
<1> USE DEF world, rows, config
<1>1. a \in Actors /\ Holder = a /\ op[a].at = "read" /\ TypeInv
  BY DEF ReadActive, Holds, Actors, ModeInv
<1>2. UNCHANGED <<plan, row, made, body, siteName, settings, rcv, act, mode>> /\ baseline' = Active
  BY DEF ReadActive
<1>3. PICK w \in {Off, Svin} : w = IF mode = "off" THEN Off ELSE Svin
  OBVIOUS
<1>4. Write(a, "tmode", w)
  BY <1>3 DEF ReadActive, ApplyTmode
<1>5. Kind(w) = mode \/ (a = "loop" /\ PutPending)
  BY <1>1, <1>3, KindFacts DEF ModeInv, WritesMode, TypeInv, Modes
<1>6. ActiveExists' /\ BaselineStands' /\ act' \in MaybeName /\ mode' \in Modes
  BY <1>1, <1>2 DEF ModeInv, ActiveExists, BaselineStands, Active, TypeInv
<1>7. QED
  BY <1>1, <1>2, <1>3, <1>4, <1>5, <1>6, WritesOut DEF Writes

\* activate_site(), the poll and the restart take the lock.
LEMMA StepHolders ==
  ASSUME ModeInv, UNCHANGED plan,
         \/ ActivateSite \/ PollOffers \/ PollFindsNothing \/ RestartStop \/ AckStop
  PROVE  ModeInv'
<1> USE DEF world, rows, config, manager, verdict
<1>1. TypeInv /\ ActiveExists /\ {"api", "poll", "restart"} \subseteq Actors
  BY DEF ModeInv, Actors
<1>2. CASE ActivateSite
  <2>1. PICK n : n = op["api"].w[1]
    OBVIOUS
  <2>2. Holder = "api" /\ op["api"].at = "wait" /\ ~MidWrite("api") /\ n \in Names
    BY <1>2, <2>1 DEF ActivateSite, Holds, MidWrite, ModeInv, Ways, Sites
  <2>3. UNCHANGED <<plan, row, made, body, siteName, settings, rcv, mode, baseline, begun>>
    BY <1>2 DEF ActivateSite
  <2>4. CASE row[n] = 0
    <3>1. Release("api") /\ UNCHANGED <<act, applied, fresh, doubt>>
      BY <1>2, <2>1, <2>4 DEF ActivateSite
    <3>2. doubt \/ Clean \/ PutPending
      BY <1>1, <2>2, HolderOnly
    <3>3. PutPending' <=> PutPending
      BY <1>1, <2>2, <3>1, Released DEF PutPending, Actors
    <3>4. doubt' \/ Clean' \/ PutPending'
      BY <2>3, <3>1, <3>2, <3>3 DEF Clean
    <3>5. ActiveExists' /\ BaselineStands'
      BY <2>3, <3>1 DEF ModeInv, ActiveExists, BaselineStands, Active
    <3>6. QED
      BY <1>1, <2>2, <2>3, <3>1, <3>4, <3>5, Finishes DEF TypeInv
  <2>5. CASE row[n] # 0
    <3>1. act' = n /\ fresh' = TRUE /\ Write("api", "fixed", <<n, row[n]>>) /\ applied' = applied
      BY <1>2, <2>1, <2>5 DEF ActivateSite, ApplyFixed
    <3>2. <<n, row[n]>> \in Sites
      BY <1>1, <2>2, <2>5, SiteFacts
    <3>3. act' \in MaybeName /\ ActiveExists' /\ BaselineStands'
      BY <2>2, <2>3, <2>5, <3>1 DEF MaybeName, ActiveExists, BaselineStands
    <3>4. QED
      BY <1>1, <2>2, <2>3, <3>1, <3>2, <3>3, WritesOut DEF Writes, TypeInv
  <2>6. QED
    BY <2>4, <2>5
<1>3. CASE PollOffers
  <2>1. Holder = "poll" /\ op["poll"].at = "wait" /\ ~MidWrite("poll") /\ Active # NoSite
    BY <1>3 DEF PollOffers, Holds, MidWrite, Offers
  <2>2. UNCHANGED <<plan, row, made, act, body, siteName, settings, rcv, mode, applied, baseline, begun, fresh>>
        /\ Write("poll", "fixed", Active)
    BY <1>3 DEF PollOffers, ApplyFixed
  <2>3. Active \in Sites
    BY <1>1, <2>1, SiteFacts
  <2>4. act' \in MaybeName /\ ActiveExists' /\ BaselineStands'
    BY <1>1, <2>2 DEF ModeInv, TypeInv, ActiveExists, BaselineStands, Active
  <2>5. QED
    BY <1>1, <2>1, <2>2, <2>3, <2>4, WritesOut DEF Writes, TypeInv
<1>4. CASE PollFindsNothing
  <2>1. Holder = "poll" /\ op["poll"].at = "wait" /\ ~MidWrite("poll") /\ Release("poll")
    BY <1>4 DEF PollFindsNothing, Holds, MidWrite
  <2>2. UNCHANGED <<plan, row, made, act, body, siteName, settings, rcv, mode, applied, baseline, begun, fresh, doubt>>
    BY <1>4 DEF PollFindsNothing, history
  <2>3. doubt \/ Clean \/ PutPending
    BY <1>1, <2>1, HolderOnly
  <2>4. PutPending' <=> PutPending
    BY <1>1, <2>1, Released DEF PutPending, Actors
  <2>5. doubt' \/ Clean' \/ PutPending'
    BY <2>2, <2>3, <2>4 DEF Clean
  <2>6. ActiveExists' /\ BaselineStands'
    BY <2>2 DEF ModeInv, ActiveExists, BaselineStands, Active
  <2>7. QED
    BY <1>1, <2>1, <2>2, <2>5, <2>6, Finishes DEF TypeInv
<1>5. CASE RestartStop \/ AckStop
  <2>1. PICK at \in {"stop", "survey"}, w \in {Off, Svin} :
          /\ Write("restart", at, w) /\ (at = "survey" => w = Svin /\ mode' = "svin")
          /\ mode' \in {"off", "svin"}
    BY <1>5 DEF RestartStop, AckStop, ApplyTmode
  <2>2. Holder = "restart"
    BY <1>5 DEF RestartStop, AckStop, Holds, Writing
  <2>3. UNCHANGED <<plan, row, made, act, body, siteName, settings, rcv, baseline, begun, fresh>>
    BY <1>5 DEF RestartStop, AckStop
  <2>4. act' \in MaybeName /\ ActiveExists' /\ BaselineStands' /\ mode' \in Modes
    BY <1>1, <2>1, <2>3 DEF ModeInv, TypeInv, ActiveExists, BaselineStands, Active, Modes
  <2>5. QED
    BY <1>1, <2>1, <2>2, <2>3, <2>4, WritesOut DEF Writes
<1>6. QED
  BY <1>2, <1>3, <1>4, <1>5

\* The receiver takes what it was sent.
LEMMA StepTakes ==
  ASSUME ModeInv, UNCHANGED plan, NEW a \in Actors, ReceiverTakes(a)
  PROVE  ModeInv'
<1> USE DEF rows, config, manager, verdict, history
<1>1. /\ Holder = a /\ op[a].at \in Writes /\ op[a] \in Tasks /\ op \in [Actors -> Tasks]
      /\ rcv' = op[a].w
  BY DEF ReceiverTakes, Writing, Writes, ModeInv, TypeInv
<1> DEFINE o == [op[a] EXCEPT !.taken = "yes"]
<1>2. o \in Tasks /\ o.at = op[a].at /\ o.w = op[a].w /\ o.taken = "yes"
  BY <1>1 DEF Tasks
<1>3. op' = [op EXCEPT ![a] = o] /\ queue' = queue
  BY <1>1 DEF ReceiverTakes
<1> HIDE DEF o
<1>4. UNCHANGED <<plan, row, made, act, body, siteName, settings, doubt, mode, baseline, begun, fresh>>
  BY DEF ReceiverTakes
<1>5. ActiveExists' /\ BaselineStands' /\ act' \in MaybeName /\ mode' \in Modes
  BY <1>4 DEF ModeInv, TypeInv, ActiveExists, BaselineStands, Active
<1>6. /\ o.at = "tmode" => a \in {"loop", "put"}
      /\ o.at \in {"stop", "survey"} => a = "restart"
      /\ o.at = "fixed" => o.w \in Sites /\ a # "restart"
      /\ a = "api" => o.w \in Sites
      /\ o.at = "survey" => o.w = Svin
  BY <1>1, <1>2 DEF ModeInv, Ways, Writes
<1>7. /\ o.at = "tmode" => o.w \in {Off, Svin}
      /\ o.at = "tmode" => Kind(o.w) = mode' \/ (a = "loop" /\ PutPending)
      /\ o.at = "survey" => mode' = "svin" \/ PutPending
  BY <1>2, <1>4, <1>6 DEF ModeInv, WritesMode
<1>8. o.at \in Writes /\ o.at \notin {"idle", "env", "resolve", "read"}
  BY <1>1, <1>2 DEF Writes
<1>9. o.at \in {"tmode", "stop", "survey"} \/ (o.at = "fixed" /\ o.taken # "no")
  BY <1>2, <1>8 DEF Writes
<1>10. QED
  BY <1>1, <1>2, <1>3, <1>4, <1>5, <1>6, <1>7, <1>8, <1>9, Goes

\* A write is acknowledged: the manager is where the receiver is.
LEMMA StepAck ==
  ASSUME ModeInv, UNCHANGED plan, NEW a \in Actors, AckFixed(a) \/ AckTmode(a)
  PROVE  ModeInv'
<1> USE DEF world, rows, config, manager, verdict
<1>1. /\ Holder = a /\ op[a].at \in {"fixed", "tmode", "survey"} /\ op[a].taken = "yes"
      /\ Release(a) /\ op[a] \in Tasks
      /\ settings \in [mode : Modes, site : MaybeName] /\ mode \in Modes /\ act \in MaybeName
  BY DEF AckFixed, AckTmode, Writing, ModeInv, TypeInv
<1>2. rcv = op[a].w
  BY <1>1 DEF ModeInv, TakenIs, Writes
<1>3. UNCHANGED <<plan, rcv, row, made, act, body, siteName, baseline, begun, fresh>>
  BY DEF AckFixed, AckTmode
<1>4. ActiveExists' /\ BaselineStands' /\ act' \in MaybeName
  BY <1>1, <1>3 DEF ModeInv, ActiveExists, BaselineStands, Active
<1>5. CASE AckFixed(a)
  <2>1. mode' = "fixed" /\ applied' = op[a].w /\ Mirror(a, "fixed") /\ op[a].at = "fixed"
    BY <1>5 DEF AckFixed
  <2>2. op[a].w \in Sites
    BY <2>1 DEF ModeInv, Ways
  <2>3. Clean'
    BY <1>2, <1>3, <2>1, <2>2, KindFacts DEF Clean
  <2>4. op[a].w[1] \in MaybeName /\ "fixed" \in Modes
    BY <2>2 DEF Sites, MaybeName, Modes
  <2>5. settings' \in [mode : Modes, site : MaybeName]
    BY <1>1, <2>1, <2>4 DEF Mirror
  <2>6. QED
    BY <1>1, <1>3, <1>4, <2>1, <2>3, <2>4, <2>5, Finishes
<1>6. CASE AckTmode(a)
  <2>1. UNCHANGED <<mode, applied, settings>> /\ op[a].at \in {"tmode", "survey"}
    BY <1>6 DEF AckTmode
  <2>2. op[a].at = "survey" => a = "restart"
    BY DEF ModeInv, Ways
  <2>3. op[a].at = "tmode" => a \in {"loop", "put"}
    BY DEF ModeInv, Ways
  <2>4. (Kind(op[a].w) = mode /\ op[a].w \in {Off, Svin}) \/ (a # "put" /\ PutPending)
    BY <2>1, <2>2, <2>3, KindFacts DEF ModeInv, WritesMode, Ways
  <2>5. a # "put" => (PutPending' <=> PutPending)
    BY <1>1, Released DEF PutPending, Actors
  <2>6. Clean' \/ PutPending'
    BY <1>2, <1>3, <2>1, <2>4, <2>5, KindFacts DEF Clean
  <2>7. QED
    BY <1>1, <1>3, <1>4, <2>1, <2>6, Finishes
<1>7. QED
  BY <1>5, <1>6

\* A write is refused, or its answer is lost.
LEMMA StepNotApplied ==
  ASSUME ModeInv, UNCHANGED plan, NEW a \in Actors, Nak(a) \/ Timeout(a)
  PROVE  ModeInv'
<1> USE DEF world, rows, verdict
<1>1. /\ Holder = a /\ op[a].at \in Writes /\ NotApplied(a) /\ Release(a)
      /\ settings \in [mode : Modes, site : MaybeName] /\ mode \in Modes /\ act \in MaybeName
  BY DEF Nak, Timeout, NotApplied, Writing, Writes, ModeInv, TypeInv
<1>2. UNCHANGED <<plan, rcv, row, made, act, body, siteName, applied, baseline, begun, fresh>>
  BY <1>1 DEF NotApplied
<1>3. ActiveExists' /\ BaselineStands' /\ act' \in MaybeName
  BY <1>1, <1>2 DEF ModeInv, ActiveExists, BaselineStands, Active
<1>4. mode' \in Modes /\ (op[a].at = "fixed" => mode' = mode)
  BY <1>1 DEF NotApplied, Modes
<1>5. settings' \in [mode : Modes, site : MaybeName]
  <2>1. a = "api" => op[a].w[1] \in MaybeName
    BY <1>1 DEF ModeInv, Ways, Sites, MaybeName, Writes
  <2>2. QED
    BY <1>1, <2>1 DEF NotApplied, Mirror
<1>6. doubt' \/ Clean' \/ PutPending'
  <2>1. CASE doubt'
    BY <2>1
  <2>2. CASE ~doubt'
    <3>1. doubt' = (doubt \/ Doubtful(a, op[a].at)) /\ op[a].taken = "no"
      BY <2>2 DEF Nak, Timeout
    <3>2. op[a].at = "fixed" /\ a \notin {"loop", "put"}
      BY <2>2, <3>1 DEF Doubtful
    <3>3. ~MidWrite(a)
      BY <3>1, <3>2 DEF MidWrite
    <3>4. doubt \/ Clean \/ PutPending
      BY <1>1, <3>3, HolderOnly
    <3>5. PutPending' <=> PutPending
      BY <1>1, <3>2, Released DEF PutPending, Actors
    <3>6. QED
      BY <1>2, <1>4, <2>2, <3>1, <3>2, <3>4, <3>5 DEF Clean
  <2>3. QED
    BY <2>1, <2>2
<1>7. QED
  BY <1>1, <1>2, <1>3, <1>4, <1>5, <1>6, Finishes

\* The connection is lost under whatever is being written.
LEMMA StepDrops ==
  ASSUME ModeInv, UNCHANGED plan, LinkDrops
  PROVE  ModeInv'
<1> USE DEF rows, config, manager, verdict
<1>1. UNCHANGED <<plan, row, made, act, body, siteName, settings, mode, applied, queue, baseline, begun, fresh>>
  BY DEF LinkDrops
<1>2. op \in [Actors -> Tasks]
  BY DEF ModeInv, TypeInv
<1>3. \A a \in Actors : /\ op'[a] \in Tasks /\ op'[a].at = op[a].at /\ op'[a].w = op[a].w
                        /\ op'[a].taken = IF Writing(a) THEN "dropped" ELSE op[a].taken
  BY <1>2 DEF LinkDrops, Tasks
<1>4. op' \in [Actors -> Tasks]
  BY <1>3 DEF LinkDrops
<1>5. TypeInv' /\ ActiveExists' /\ BaselineStands'
  BY <1>1, <1>4 DEF ModeInv, TypeInv, ActiveExists, BaselineStands, Active
<1>6. Ways'
  BY <1>3 DEF ModeInv, Ways, Actors
<1>7. LockHeld'
  BY <1>1, <1>3 DEF ModeInv, LockHeld, Holder
<1>8. TakenIs'
  BY <1>3 DEF ModeInv, LockHeld, TakenIs, Writing, Writes
<1>9. PutPending' <=> PutPending
  BY <1>3 DEF PutPending, Actors
<1>10. WritesMode'
  BY <1>1, <1>3, <1>9 DEF ModeInv, WritesMode, Actors
<1>11. InStep'
  <2>1. ASSUME NEW a \in Actors, MidWrite(a) PROVE MidWrite(a)'
    BY <1>3, <2>1 DEF MidWrite
  <2>2. doubt' \/ UNCHANGED <<rcv, doubt>>
    BY DEF LinkDrops
  <2>3. QED
    BY <1>1, <1>9, <2>1, <2>2 DEF ModeInv, InStep, Clean
<1>12. QED
  BY <1>5, <1>6, <1>7, <1>8, <1>10, <1>11 DEF ModeInv

-----------------------------------------------------------------------------
(* Theorems *)

LEMMA ModeInit == Init => ModeInv
<1> SUFFICES ASSUME Init PROVE ModeInv
  OBVIOUS
<1>1. PICK s \in plan.starts : /\ act = s.act /\ mode = s.mode /\ siteName = s.site
                               /\ settings = [mode |-> s.mode, site |-> s.site]
  BY DEF Init
<1>2. s \in [mode : Modes, site : MaybeName, act : MaybeName]
  BY BaseModeAssumption DEF Init, MaybeName
<1>3. act \in MaybeName /\ mode \in Modes /\ siteName \in MaybeName
      /\ settings \in [mode : Modes, site : MaybeName]
  BY <1>1, <1>2
<1>4. op \in [Actors -> Tasks] /\ \A a \in Actors : op[a] = Idle /\ op[a].at = "idle"
  BY TaskFacts DEF Init
<1>5. body \in [mode : Modes, site : MaybeName, changed : SUBSET {"mode", "site", "svin"}]
  BY DEF Init, NoBody, Modes, MaybeName
<1>6. TypeInv
  BY <1>3, <1>4, <1>5 DEF Init, TypeInv
<1>7. ActiveExists
  BY <1>3 DEF Init, ActiveExists, MaybeName
<1>8. Ways /\ LockHeld /\ TakenIs /\ WritesMode
  BY <1>4 DEF Ways, LockHeld, TakenIs, WritesMode, Writes, Actors
<1>9. InStep /\ BaselineStands
  BY DEF Init, InStep, BaselineStands
<1>10. QED
  BY <1>6, <1>7, <1>8, <1>9 DEF ModeInv

LEMMA ModeStep == ModeInv /\ [Next]_vars => ModeInv'
<1> SUFFICES ASSUME ModeInv, [Next]_vars PROVE ModeInv'
  OBVIOUS
<1>1. UNCHANGED plan
  BY DEF Next, vars
<1>2. CASE UNCHANGED vars
  BY <1>1, <1>2, StepWorld
<1>3. CASE \E a \in {"loop", "put"} : ApplyMode(a) \/ ResolveSite(a) \/ ReadActive(a)
  BY <1>1, <1>3, StepApplyMode, StepResolve, StepReadActive
<1>4. CASE ActivateSite \/ PollOffers \/ PollFindsNothing \/ RestartStop \/ AckStop
  BY <1>1, <1>4, StepHolders
<1>5. CASE \E a \in Actors : ReceiverTakes(a) \/ AckFixed(a) \/ AckTmode(a) \/ Nak(a) \/ Timeout(a)
  BY <1>1, <1>5, StepTakes, StepAck, StepNotApplied
<1>6. CASE LinkOpens \/ Configured \/ Broadcast \/ Navigates \/ On1005 \/ OnFix \/ DeadlinePasses
  BY <1>1, <1>6, StepWorld
<1>7. CASE LinkDrops
  BY <1>1, <1>7, StepDrops
<1>8. CASE HandleCapabilities \/ PollDue \/ AskRestart
  BY <1>1, <1>8, StepAsks
<1>9. CASE \E n \in Names : AskActivate(n) \/ CliActivate(n) \/ CliDelete(n) \/ AddSite(n)
  BY <1>1, <1>9, StepAsks, StepRows
<1>10. CASE PutLive
  BY <1>1, <1>10, StepPutLive
<1>11. CASE \E b \in plan.bodies : AskPut(b)
  BY <1>1, <1>11, StepAskPut
<1>12. QED
  BY <1>2, <1>3, <1>4, <1>5, <1>6, <1>7, <1>8, <1>9, <1>10, <1>11 DEF Next

\* The invariant from which the two theorems below follow: who holds
\* _apply_lock, what each task writes, and that a manager out of step with
\* its receiver is in doubt, in the middle of a write, or about to be put
\* right by a settings change that has queued for the lock.
THEOREM ModeInvariant == Spec => []ModeInv
<1>1. QED
  BY ModeInit, ModeStep, PTL DEF Spec

\* When no request is in progress and the last write was acknowledged, the
\* mode and the site the manager reports are the ones the receiver is in
\* (_apply_lock; _apply_fixed, _apply_tmode), whatever the requests, faults
\* and reconnections were.
THEOREM ModeAlwaysMatches == Spec => []ModeMatchesReceiver
<1>1. ModeInv => ModeMatchesReceiver
  <2> SUFFICES ASSUME ModeInv, Quiet, ~doubt PROVE Clean
    BY DEF ModeMatchesReceiver, Clean
  <2>1. \A a \in Actors : op[a].at = "idle"
    BY TaskFacts DEF Quiet
  <2>2. ~PutPending /\ \A a \in Actors : ~MidWrite(a)
    BY <2>1 DEF PutPending, MidWrite, Actors
  <2>3. QED
    BY <2>2 DEF ModeInv, InStep
<1>2. QED
  BY <1>1, ModeInvariant, PTL

\* The poll ends a survey-in, or leaves TMODE off, only for a row somebody
\* activated after the mode was applied (_poll_baseline).
THEOREM SurveysUndisturbed == Spec => SurveyUndisturbed
<1> DEFINE A == op["poll"].at = "wait" /\ op'["poll"].at = "fixed" /\ mode # "fixed" => fresh \/ ~begun
<1>1. ModeInv /\ [Next]_vars => [A]_vars
  <2> SUFFICES ASSUME ModeInv, Next, op["poll"].at = "wait", op'["poll"].at = "fixed",
                      mode # "fixed", begun, ~fresh
               PROVE  FALSE
    OBVIOUS
  <2>1. op \in [Actors -> Tasks] /\ "poll" \in Actors /\ baseline = Active
    BY DEF ModeInv, TypeInv, BaselineStands, Actors
  <2>2. ~PollOffers
    BY <2>1 DEF PollOffers, Offers
  <2>3. Idle.at # "fixed"
    BY TaskFacts
  <2>4. ASSUME NEW a \in Actors, Release(a) PROVE FALSE
    BY <2>1, <2>3, <2>4 DEF Release
  <2>5. ASSUME NEW a \in Actors, NEW w, Wait(a, w) PROVE FALSE
    BY <2>1, <2>5 DEF Wait
  <2>6. ASSUME NEW a \in Actors \ {"poll"}, NEW at, NEW w, Write(a, at, w) PROVE FALSE
    BY <2>1, <2>4, <2>6 DEF Write
  <2>7. op' # op
    OBVIOUS
  <2>8. ~PollFindsNothing /\ ~PollDue /\ ~HandleCapabilities /\ ~AskRestart
        /\ \A n \in Names : ~AskActivate(n)
    BY <2>4, <2>5 DEF PollFindsNothing, PollDue, HandleCapabilities, AskRestart, AskActivate, Actors
  <2>9. ~RestartStop /\ ~AckStop /\ ~ActivateSite
    BY <2>4, <2>6 DEF RestartStop, AckStop, ActivateSite, ApplyTmode, ApplyFixed, Actors
  <2>10. ASSUME NEW a \in {"loop", "put"} PROVE ~ResolveSite(a) /\ ~ReadActive(a) /\ ~ApplyMode(a)
    BY <2>1, <2>6 DEF ResolveSite, ReadActive, ApplyMode, ApplyTmode, ApplyFixed, Actors
  <2>11. ASSUME NEW a \in Actors PROVE ~AckFixed(a) /\ ~AckTmode(a) /\ ~Nak(a) /\ ~Timeout(a)
    BY <2>4 DEF AckFixed, AckTmode, Nak, Timeout, NotApplied
  <2>12. ASSUME NEW a \in Actors PROVE ~ReceiverTakes(a)
    BY <2>1 DEF ReceiverTakes, Writing
  <2>13. ~LinkDrops
    BY <2>1 DEF LinkDrops, Writing
  <2>14. ~PutLive /\ \A b \in plan.bodies : ~AskPut(b)
    BY <2>1, <2>5 DEF PutLive, AskPut, Actors
  <2>15. /\ ~LinkOpens /\ ~Configured /\ ~Broadcast /\ ~Navigates /\ ~On1005 /\ ~OnFix
         /\ ~DeadlinePasses
    BY <2>7 DEF LinkOpens, Configured, Broadcast, Navigates, On1005, OnFix, DeadlinePasses, tasks
  <2>16. \A n \in Names : ~CliActivate(n) /\ ~CliDelete(n) /\ ~AddSite(n)
    BY <2>7 DEF CliActivate, CliDelete, AddSite, tasks
  <2>17. QED
    BY <2>2, <2>8, <2>9, <2>10, <2>11, <2>12, <2>13, <2>14, <2>15, <2>16 DEF Next
<1>2. QED
  BY <1>1, ModeInvariant, PTL DEF Spec, SurveyUndisturbed

-----------------------------------------------------------------------------
(***************************************************************************)
(* The configuration of the receiver.                                      *)
(***************************************************************************)

LEMMA SameCardinality == \A S : Cfg!Cardinality(S) = Cardinality(S)
BY DEF Cfg!Cardinality, Cardinality

(* A set of naturals that is not empty has a least element. *)
LEMMA Least ==
  ASSUME NEW S \in SUBSET Nat, S # {}
  PROVE  \E n \in S : \A m \in S : n <= m
<1>1. \E n \in S : \A m \in S : ~ (<<m, n>> \in OpToRel(<, Nat))
  BY NatLessThanWellFounded, WFMin
<1>2. PICK n \in S : \A m \in S : ~ (<<m, n>> \in OpToRel(<, Nat))
  BY <1>1
<1>3. ASSUME NEW m \in S PROVE n <= m
  <2>1. ~ (m < n)
    BY <1>2 DEF OpToRel
  <2> QED
    BY <2>1
<1> QED
  BY <1>3

LEMMA Minimum ==
  ASSUME NEW S \in SUBSET Nat, S # {}
  PROVE  Cfg!Min(S) \in S
BY Least DEF Cfg!Min

(* The place of each of the chosen elements of a sequence. *)
Chosen(s, ks, n) == {j \in 1 .. n : s[j] \in ks}

LEMMA UptoIs ==
  ASSUME NEW s, NEW ks, NEW n
  PROVE  Cfg!Upto(s, ks, n) = Cardinality(Chosen(s, ks, n))
BY SameCardinality DEF Cfg!Upto, Chosen

LEMMA UptoFacts ==
  ASSUME NEW s, NEW ks, NEW n \in Nat
  PROVE  /\ IsFiniteSet(Chosen(s, ks, n))
         /\ Cfg!Upto(s, ks, n) \in Nat
         /\ Cfg!Upto(s, ks, 0) = 0
<1>1. IsFiniteSet(1 .. n)
  BY FS_Interval
<1>2. Chosen(s, ks, n) \in SUBSET (1 .. n)
  BY DEF Chosen
<1>3. IsFiniteSet(Chosen(s, ks, n))
  BY <1>1, <1>2, FS_Subset
<1>4. Chosen(s, ks, 0) = {}
  BY DEF Chosen
<1> QED
  BY <1>3, <1>4, FS_CardinalityType, FS_EmptySet, UptoIs

LEMMA UptoNext ==
  ASSUME NEW s, NEW ks, NEW n \in Nat
  PROVE  /\ s[n + 1] \in ks => Cfg!Upto(s, ks, n + 1) = Cfg!Upto(s, ks, n) + 1
         /\ s[n + 1] \notin ks => Cfg!Upto(s, ks, n + 1) = Cfg!Upto(s, ks, n)
<1>1. CASE s[n + 1] \in ks
  <2>1. Chosen(s, ks, n + 1) = Chosen(s, ks, n) \cup {n + 1}
    BY <1>1 DEF Chosen
  <2>2. n + 1 \notin Chosen(s, ks, n)
    BY DEF Chosen
  <2> QED
    BY <1>1, <2>1, <2>2, FS_AddElement, UptoFacts, UptoIs
<1>2. CASE s[n + 1] \notin ks
  <2>1. Chosen(s, ks, n + 1) = Chosen(s, ks, n)
    BY <1>2 DEF Chosen
  <2> QED
    BY <1>2, <2>1, UptoIs
<1> QED
  BY <1>1, <1>2

LEMMA UptoStep ==
  ASSUME NEW s, NEW ks, NEW m \in Nat, m # 0
  PROVE  /\ Cfg!Upto(s, ks, m) \in Nat /\ Cfg!Upto(s, ks, m - 1) \in Nat
         /\ s[m] \in ks => Cfg!Upto(s, ks, m) = Cfg!Upto(s, ks, m - 1) + 1
         /\ s[m] \notin ks => Cfg!Upto(s, ks, m) = Cfg!Upto(s, ks, m - 1)
<1>1. PICK p \in Nat : p = m - 1 /\ m = p + 1
  OBVIOUS
<1>2. /\ Cfg!Upto(s, ks, p) \in Nat /\ Cfg!Upto(s, ks, p + 1) \in Nat
      /\ s[p + 1] \in ks => Cfg!Upto(s, ks, p + 1) = Cfg!Upto(s, ks, p) + 1
      /\ s[p + 1] \notin ks => Cfg!Upto(s, ks, p + 1) = Cfg!Upto(s, ks, p)
  <2>1. p + 1 \in Nat
    OBVIOUS
  <2>2. Cfg!Upto(s, ks, p) \in Nat /\ Cfg!Upto(s, ks, p + 1) \in Nat
    BY <2>1, UptoFacts
  <2>3. /\ s[p + 1] \in ks => Cfg!Upto(s, ks, p + 1) = Cfg!Upto(s, ks, p) + 1
        /\ s[p + 1] \notin ks => Cfg!Upto(s, ks, p + 1) = Cfg!Upto(s, ks, p)
    BY UptoNext
  <2> QED
    BY <2>1, <2>2, <2>3
<1> QED
  BY <1>1, <1>2

(* As many as are chosen up to n, each has its place. *)
LEMMA Placed ==
  ASSUME NEW s, NEW ks, NEW n \in Nat, NEW c \in 1 .. Cfg!Upto(s, ks, n)
  PROVE  \E m \in 1 .. n : s[m] \in ks /\ Cfg!Upto(s, ks, m) = c
<1> DEFINE S == {m \in 0 .. n : Cfg!Upto(s, ks, m) >= c}
<1> HIDE DEF S
<1>1. S \in SUBSET Nat /\ n \in S
  BY UptoFacts DEF S
<1>2. PICK m \in S : \A o \in S : m <= o
  BY <1>1, Least
<1>3. m \in 0 .. n /\ Cfg!Upto(s, ks, m) >= c /\ m # 0
  BY <1>2, UptoFacts DEF S
<1>4. m - 1 \in 0 .. n /\ m \in Nat
  BY <1>3
<1>5. ~ (Cfg!Upto(s, ks, m - 1) >= c)
  BY <1>2, <1>3, <1>4 DEF S
<1>6. /\ Cfg!Upto(s, ks, m) \in Nat /\ Cfg!Upto(s, ks, m - 1) \in Nat
      /\ s[m] \in ks => Cfg!Upto(s, ks, m) = Cfg!Upto(s, ks, m - 1) + 1
      /\ s[m] \notin ks => Cfg!Upto(s, ks, m) = Cfg!Upto(s, ks, m - 1)
  BY <1>3, <1>4, UptoStep
<1>7. m \in 1 .. n /\ c \in Nat
  BY <1>3
<1> QED
  BY <1>3, <1>5, <1>6, <1>7

LEMMA UptoGrows ==
  ASSUME NEW s, NEW ks, NEW n \in Nat, NEW m \in 1 .. n, s[m] \in ks
  PROVE  /\ Cfg!Upto(s, ks, m) \in 1 .. Cfg!Upto(s, ks, n)
         /\ \A o \in 1 .. n : s[o] \in ks /\ Cfg!Upto(s, ks, o) = Cfg!Upto(s, ks, m) => o = m
<1>1. ASSUME NEW a \in 0 .. n, NEW b \in 0 .. n, a <= b
      PROVE  Cfg!Upto(s, ks, a) <= Cfg!Upto(s, ks, b)
  <2>1. IsFiniteSet(1 .. b)
    BY FS_Interval
  <2>2. IsFiniteSet(Chosen(s, ks, b))
    BY <2>1, FS_Subset DEF Chosen
  <2>3. Chosen(s, ks, a) \in SUBSET Chosen(s, ks, b)
    BY <1>1 DEF Chosen
  <2> QED
    BY <2>2, <2>3, FS_Subset, UptoIs
<1>2. ASSUME NEW a \in 1 .. n, s[a] \in ks
      PROVE  Cfg!Upto(s, ks, a) = Cfg!Upto(s, ks, a - 1) + 1 /\ Cfg!Upto(s, ks, a - 1) \in Nat
  <2>1. a \in Nat /\ a # 0
    OBVIOUS
  <2> QED
    BY <1>2, <2>1, UptoStep
<1>3. Cfg!Upto(s, ks, n) \in Nat /\ Cfg!Upto(s, ks, m) \in Nat
  <2>1. n \in Nat /\ m \in Nat
    OBVIOUS
  <2> QED
    BY <2>1, UptoFacts
<1>4. Cfg!Upto(s, ks, m) <= Cfg!Upto(s, ks, n)
  BY <1>1
<1>5. Cfg!Upto(s, ks, m) = Cfg!Upto(s, ks, m - 1) + 1 /\ Cfg!Upto(s, ks, m - 1) \in Nat
  BY <1>2
<1>6. ASSUME NEW o \in 1 .. n, s[o] \in ks, Cfg!Upto(s, ks, o) = Cfg!Upto(s, ks, m), o # m
      PROVE  FALSE
  <2>1. CASE o < m
    <3>1. Cfg!Upto(s, ks, o) <= Cfg!Upto(s, ks, m - 1)
      BY <1>1, <2>1
    <3> QED
      BY <1>5, <1>6, <3>1
  <2>2. CASE m < o
    <3>1. Cfg!Upto(s, ks, m) <= Cfg!Upto(s, ks, o - 1)
      BY <1>1, <2>2
    <3>2. Cfg!Upto(s, ks, o) = Cfg!Upto(s, ks, o - 1) + 1 /\ Cfg!Upto(s, ks, o - 1) \in Nat
      BY <1>2, <1>6
    <3> QED
      BY <1>3, <1>6, <3>1, <3>2
  <2> QED
    BY <1>6, <2>1, <2>2
<1> QED
  BY <1>3, <1>4, <1>5, <1>6

(* Those keeps the keys it is told to keep. *)
LEMMA ThoseFacts ==
  ASSUME NEW K, NEW s \in Seq(K), NEW ks
  PROVE  /\ Cfg!Those(s, ks) \in Seq(K)
         /\ Cfg!Range(Cfg!Those(s, ks)) = Cfg!Range(s) \cap ks
<1> DEFINE N == Cfg!Upto(s, ks, Len(s))
           At(c) == CHOOSE n \in 1 .. Len(s) : s[n] \in ks /\ Cfg!Upto(s, ks, n) = c
           t == [c \in 1 .. N |-> s[At(c)]]
<1>1. Cfg!Those(s, ks) = t
  BY DEF Cfg!Those
<1>2. N \in Nat /\ Len(s) \in Nat /\ s = [n \in 1 .. Len(s) |-> s[n]]
  <2>1. Len(s) \in Nat /\ s = [n \in 1 .. Len(s) |-> s[n]]
    OBVIOUS
  <2> QED
    BY <2>1, UptoFacts
<1>3. ASSUME NEW c \in 1 .. N
      PROVE  At(c) \in 1 .. Len(s) /\ s[At(c)] \in ks /\ Cfg!Upto(s, ks, At(c)) = c
  <2>1. \E n \in 1 .. Len(s) : s[n] \in ks /\ Cfg!Upto(s, ks, n) = c
    BY <1>2, Placed
  <2> QED
    BY <2>1
<1>4. ASSUME NEW m \in 1 .. Len(s), s[m] \in ks
      PROVE  Cfg!Upto(s, ks, m) \in 1 .. N /\ At(Cfg!Upto(s, ks, m)) = m
  <2>1. /\ Cfg!Upto(s, ks, m) \in 1 .. N
        /\ \A o \in 1 .. Len(s) : s[o] \in ks /\ Cfg!Upto(s, ks, o) = Cfg!Upto(s, ks, m) => o = m
    BY <1>2, <1>4, UptoGrows
  <2> QED
    BY <1>4, <2>1
<1> HIDE DEF N, At
<1>5. t \in Seq(K)
  BY <1>2, <1>3
<1>6. ASSUME NEW k \in Cfg!Range(t)
      PROVE  k \in Cfg!Range(s) /\ k \in ks
  BY <1>2, <1>3 DEF Cfg!Range
<1>7. ASSUME NEW k \in Cfg!Range(s), k \in ks
      PROVE  k \in Cfg!Range(t)
  <2>1. PICK m \in 1 .. Len(s) : k = s[m]
    BY <1>2 DEF Cfg!Range
  <2>2. Cfg!Upto(s, ks, m) \in 1 .. N /\ t[Cfg!Upto(s, ks, m)] = k
    BY <1>4, <1>7, <2>1
  <2> QED
    BY <2>2 DEF Cfg!Range
<1> QED
  BY <1>1, <1>5, <1>6, <1>7

-----------------------------------------------------------------------------
(* Chunks and halves of a list of keys. *)

LEMMA DivFacts ==
  ASSUME NEW a \in Nat, NEW d \in Nat \ {0}
  PROVE  /\ a \div d \in Nat
         /\ d * (a \div d) <= a
         /\ a < d * (a \div d) + d
<1>1. a \div d \in Nat
  OBVIOUS
<1>2. d * (a \div d) <= a
  OBVIOUS
<1>3. a < d * (a \div d) + d
  OBVIOUS
<1> QED
  BY <1>1, <1>2, <1>3

LEMMA Times ==
  ASSUME NEW d \in Nat \ {0}, NEW a \in Nat, NEW b \in Nat
  PROVE /\ d * a \in Nat /\ d * (a + 1) = d * a + d
        /\ a <= b => d * a <= d * b
        /\ d * a < d * b + d => a <= b
<1>1. d * a \in Nat /\ d * b \in Nat
  OBVIOUS
<1>2. d * (a + 1) = d * a + d
  OBVIOUS
<1>3. a <= b => d * a <= d * b
  OBVIOUS
<1>4. b + 1 <= a => d * (b + 1) <= d * a
  OBVIOUS
<1>5. d * (b + 1) = d * b + d
  OBVIOUS
<1> QED
  BY <1>1, <1>2, <1>3, <1>4, <1>5

Within(s, a, b) == 1 <= a /\ a <= b /\ b <= Len(s)

LEMMA Slices ==
  ASSUME NEW K, NEW s \in Seq(K), NEW a \in Nat, NEW b \in Nat, Within(s, a, b)
  PROVE  /\ SubSeq(s, a, b) \in Seq(K) /\ SubSeq(s, a, b) # <<>>
         /\ Len(SubSeq(s, a, b)) = b - a + 1
         /\ Cfg!Range(SubSeq(s, a, b)) \subseteq Cfg!Range(s)
         /\ \A n \in a .. b : s[n] \in Cfg!Range(SubSeq(s, a, b))
<1> DEFINE t == SubSeq(s, a, b)
<1>1. t \in Seq(K) /\ Len(t) = b - a + 1 /\ \A n \in 1 .. b - a + 1 : t[n] = s[n + a - 1]
  BY DEF Within
<1> HIDE DEF t
<1>2. t # <<>>
  BY <1>1 DEF Within
<1>3. DOMAIN t = 1 .. b - a + 1 /\ DOMAIN s = 1 .. Len(s)
  BY <1>1
<1>4. ASSUME NEW k \in Cfg!Range(t)
      PROVE  k \in Cfg!Range(s)
  <2>1. PICK n \in 1 .. b - a + 1 : k = t[n]
    BY <1>3 DEF Cfg!Range
  <2>2. n + a - 1 \in DOMAIN s /\ k = s[n + a - 1]
    BY <1>1, <1>3, <2>1 DEF Within
  <2> QED
    BY <2>2 DEF Cfg!Range
<1>5. ASSUME NEW n \in a .. b
      PROVE  s[n] \in Cfg!Range(t)
  <2>1. n - a + 1 \in 1 .. b - a + 1 /\ t[n - a + 1] = s[n]
    BY <1>1 DEF Within
  <2> QED
    BY <1>3, <2>1 DEF Cfg!Range
<1> QED
  BY <1>1, <1>2, <1>4, <1>5 DEF t

(* The chunks of a list: not empty, and its keys are theirs. *)
Covers(ss, ks) == \A k \in ks : \E n \in 1 .. Len(ss) : k \in Cfg!Range(ss[n])
PartsOf(ss, ks) == \A n \in 1 .. Len(ss) : ss[n] # <<>> /\ Cfg!Range(ss[n]) \subseteq ks

LEMMA ChunkFacts ==
  ASSUME NEW K, NEW s \in Seq(K), ChunkSize \in Nat \ {0}
  PROVE  /\ Cfg!chunked(s) \in Seq(Seq(K))
         /\ PartsOf(Cfg!chunked(s), Cfg!Range(s))
         /\ Covers(Cfg!chunked(s), Cfg!Range(s))
<1> DEFINE d == ChunkSize
           L == Len(s)
           Q == (L + d - 1) \div d
           e(c) == IF c * d < L THEN c * d ELSE L
           t == Cfg!chunked(s)
<1>1. d \in Nat \ {0} /\ L \in Nat /\ L + d - 1 \in Nat /\ DOMAIN s = 1 .. L
  OBVIOUS
<1>2. t = [c \in 1 .. Q |-> SubSeq(s, (c - 1) * d + 1, e(c))]
  BY DEF Cfg!chunked
<1> HIDE DEF d, L, t
<1>3. Q \in Nat /\ d * Q <= L + d - 1 /\ L + d - 1 < d * Q + d
  BY <1>1, DivFacts
<1> HIDE DEF Q
<1>4. ASSUME NEW c \in 1 .. Q
      PROVE  /\ (c - 1) * d + 1 \in Nat /\ e(c) \in Nat /\ c * d \in Nat
             /\ c * d = (c - 1) * d + d
             /\ Within(s, (c - 1) * d + 1, e(c))
  <2>1. PICK p \in Nat : c = p + 1 /\ p = c - 1
    BY <1>3
  <2>2. d * p \in Nat /\ d * (p + 1) = d * p + d /\ d * (p + 1) <= d * Q
    <3>1. p + 1 \in Nat /\ p + 1 <= Q
      BY <1>3, <2>1
    <3> QED
      BY <1>1, <1>3, <3>1, Times
  <2>3. (c - 1) * d = d * p /\ c * d = d * (p + 1)
    BY <1>1, <2>1
  <2>4. d * Q \in Nat
    BY <1>1, <1>3, Times
  <2>5. d * p + 1 <= L
    BY <1>1, <1>3, <2>2, <2>4
  <2> QED
    BY <1>1, <2>1, <2>2, <2>3, <2>5 DEF Within, L
<1>5. ASSUME NEW c \in 1 .. Q
      PROVE  /\ t[c] \in Seq(K) /\ t[c] # <<>> /\ Cfg!Range(t[c]) \subseteq Cfg!Range(s)
             /\ \A n \in (c - 1) * d + 1 .. e(c) : s[n] \in Cfg!Range(t[c])
  <2> DEFINE lo == (c - 1) * d + 1
             hi == e(c)
  <2>1. t[c] = SubSeq(s, lo, hi)
    BY <1>2
  <2>2. lo \in Nat /\ hi \in Nat /\ Within(s, lo, hi)
    BY <1>4
  <2> HIDE DEF lo, hi
  <2> DEFINE u == SubSeq(s, lo, hi)
  <2>3. /\ u \in Seq(K) /\ u # <<>> /\ Cfg!Range(u) \subseteq Cfg!Range(s)
        /\ \A n \in lo .. hi : s[n] \in Cfg!Range(u)
    BY <2>2, Slices
  <2> HIDE DEF u
  <2>4. t[c] = u
    BY <2>1 DEF u
  <2> QED
    BY <2>3, <2>4 DEF lo, hi
<1>6. t \in Seq(Seq(K)) /\ Len(t) = Q
  <2> HIDE DEF e
  <2>1. t = [c \in 1 .. Q |-> t[c]]
    BY <1>2
  <2> QED
    BY <1>3, <1>5, <2>1
<1>7. ASSUME NEW k \in Cfg!Range(s)
      PROVE  \E n \in 1 .. Q : k \in Cfg!Range(t[n])
  <2>1. PICK n \in 1 .. L : k = s[n]
    BY <1>1 DEF Cfg!Range
  <2> DEFINE p == (n - 1) \div d
  <2>2. n - 1 \in Nat
    BY <2>1
  <2>3. p \in Nat /\ d * p <= n - 1 /\ n - 1 < d * p + d
    BY <1>1, <2>2, DivFacts
  <2> HIDE DEF p
  <2>4. p + 1 \in 1 .. Q
    <3>1. d * (p + 1) = d * p + d /\ d * p \in Nat /\ d * Q \in Nat /\ p + 1 \in Nat
      BY <1>1, <1>3, <2>3, Times
    <3>2. d * (p + 1) < d * Q + d
      BY <1>1, <1>3, <2>1, <2>3, <3>1
    <3>3. p + 1 <= Q
      BY <1>1, <1>3, <3>1, <3>2, Times
    <3> QED
      BY <1>3, <2>3, <3>3
  <2>5. ((p + 1) - 1) * d + 1 <= n /\ n <= e(p + 1)
    <3>1. d * (p + 1) = d * p + d /\ d * p \in Nat
      BY <1>1, <2>3, Times
    <3>2. ((p + 1) - 1) * d = d * p /\ (p + 1) * d = d * (p + 1)
      BY <1>1, <2>3
    <3> QED
      BY <1>1, <2>1, <2>3, <3>1, <3>2
  <2> DEFINE q == p + 1
  <2>6. q \in 1 .. Q /\ (q - 1) * d + 1 <= n /\ n <= e(q)
    BY <2>4, <2>5
  <2> HIDE DEF q
  <2>7. n \in (q - 1) * d + 1 .. e(q)
    <3> HIDE DEF e
    <3>1. (q - 1) * d + 1 \in Nat /\ e(q) \in Nat
      BY <1>4, <2>6
    <3> QED
      BY <2>1, <2>6, <3>1
  <2>8. s[n] \in Cfg!Range(t[q])
    <3> HIDE DEF e
    <3> QED
      BY <1>5, <2>6, <2>7
  <2> QED
    BY <2>1, <2>6, <2>8
<1> QED
  BY <1>5, <1>6, <1>7 DEF Covers, PartsOf, t

(* The halves of a list. *)
LEMMA Halves ==
  ASSUME NEW K, NEW s \in Seq(K), s # <<>>
  PROVE  /\ Cfg!bisect(s) \in Seq(Seq(K))
         /\ PartsOf(Cfg!bisect(s), Cfg!Range(s))
         /\ Len(s) # 1 => Covers(Cfg!bisect(s), Cfg!Range(s))
         /\ Len(s) = 1 => Cfg!bisect(s) = <<>> /\ Cfg!Range(s) = {s[1]}
<1> DEFINE mid == Len(s) \div 2
           a == SubSeq(s, 1, mid)
           b == SubSeq(s, mid + 1, Len(s))
<1>1. Len(s) \in Nat \ {0} /\ DOMAIN s = 1 .. Len(s)
  OBVIOUS
<1>2. CASE Len(s) = 1
  BY <1>1, <1>2 DEF Cfg!bisect, PartsOf, Cfg!Range
<1>3. CASE Len(s) # 1
  <2>1. Cfg!bisect(s) = <<a, b>>
    BY <1>3 DEF Cfg!bisect
  <2>2. mid \in Nat /\ 1 <= mid /\ mid + 1 <= Len(s)
    BY <1>1, <1>3
  <2> HIDE DEF mid
  <2>3. /\ a \in Seq(K) /\ a # <<>> /\ Cfg!Range(a) \subseteq Cfg!Range(s)
        /\ \A n \in 1 .. mid : s[n] \in Cfg!Range(a)
    <3>1. Within(s, 1, mid)
      BY <1>1, <2>2 DEF Within
    <3> QED
      BY <2>2, <3>1, Slices
  <2>4. /\ b \in Seq(K) /\ b # <<>> /\ Cfg!Range(b) \subseteq Cfg!Range(s)
        /\ \A n \in mid + 1 .. Len(s) : s[n] \in Cfg!Range(b)
    <3> DEFINE lo == mid + 1
    <3>1. Within(s, lo, Len(s)) /\ lo \in Nat /\ Len(s) \in Nat
      BY <1>1, <2>2 DEF Within
    <3> HIDE DEF lo
    <3>2. /\ SubSeq(s, lo, Len(s)) \in Seq(K) /\ SubSeq(s, lo, Len(s)) # <<>>
          /\ Cfg!Range(SubSeq(s, lo, Len(s))) \subseteq Cfg!Range(s)
          /\ \A n \in lo .. Len(s) : s[n] \in Cfg!Range(SubSeq(s, lo, Len(s)))
      BY <3>1, Slices
    <3> QED
      BY <3>2 DEF lo
  <2> HIDE DEF a, b
  <2>5. ASSUME NEW k \in Cfg!Range(s)
        PROVE  k \in Cfg!Range(a) \/ k \in Cfg!Range(b)
    <3>1. PICK n \in 1 .. Len(s) : k = s[n]
      BY <1>1 DEF Cfg!Range
    <3>2. n \in 1 .. mid \/ n \in mid + 1 .. Len(s)
      BY <1>1, <2>2, <3>1
    <3> QED
      BY <2>3, <2>4, <3>1, <3>2
  <2> QED
    BY <1>3, <2>1, <2>3, <2>4, <2>5 DEF Covers, PartsOf
<1> QED
  BY <1>2, <1>3

-----------------------------------------------------------------------------
(* Types, and what a request costs and leaves. *)

Replies == [kind : {"data", "nak"}, has : SUBSET Cfg!Keys, good : SUBSET Cfg!Keys]
Faults == {"lost", "late", "stray"}
Subjects == {"core", "signals", "optional", "verify"}
Readbacks == [of : Subjects \cup {"none"}, chunks : Seq(Seq(Cfg!Keys)), ones : Seq(Cfg!Keys),
              got : SUBSET Cfg!Keys, good : SUBSET Cfg!Keys, lost : SUBSET Cfg!Keys]

FaultType ==
  /\ left \in [Faults -> Nat]
  /\ left["lost"] <= cfgPlan.lost /\ left["late"] <= cfgPlan.late /\ left["stray"] <= cfgPlan.stray

CfgType ==
  /\ cfgPlan \in CfgPlans
  /\ fw \in [Cfg!Keys -> {"ok", "readonly", "unknown"}] /\ ram \in [Cfg!Keys -> BOOLEAN]
  /\ cfgOwed \in Seq(Replies) /\ FaultType
  /\ i \in 1 .. Len(Features) /\ attempt \in Nat \ {0} /\ naks \in Nat
  /\ rb \in Readbacks /\ todo \in Seq(Seq(Cfg!Keys))
  /\ rejected \in SUBSET Cfg!Required /\ unsupported \in SUBSET Cfg!Optional
  /\ seen \in SUBSET Cfg!Optional /\ once \in BOOLEAN /\ pending \in SUBSET Cfg!Required

LEMMA ProfileFacts ==
  ASSUME Cfg!WellFormed
  PROVE  /\ Core \in Seq(Cfg!Keys) /\ Signals \in Seq(Cfg!Keys) /\ Features \in Seq(Cfg!Keys)
         /\ Cfg!Range(Core) \subseteq Cfg!Required /\ Cfg!Range(Signals) \subseteq Cfg!Required
         /\ Cfg!Required \subseteq Cfg!Keys /\ Cfg!Optional \subseteq Cfg!Keys
         /\ Cfg!Required = Cfg!Range(Core) \cup Cfg!Range(Signals)
         /\ Len(Features) \in Nat \ {0}
         /\ \A n \in 1 .. Len(Features) : Features[n] \in Cfg!Optional /\ Features[n] \notin Cfg!Required
         /\ ChunkSize \in Nat \ {0}
<1>1. Features \in Seq(Cfg!Keys) /\ Features # <<>>
  BY DEF Cfg!WellFormed
<1>2. Len(Features) \in Nat \ {0} /\ DOMAIN Features = 1 .. Len(Features)
  BY <1>1
<1>3. \A n \in 1 .. Len(Features) : Features[n] \in Cfg!Optional
  BY <1>2 DEF Cfg!Optional, Cfg!Range
<1> QED
  BY <1>1, <1>2, <1>3 DEF Cfg!WellFormed, Cfg!Keys, Cfg!Required, Cfg!Optional

LEMMA WantedFacts ==
  ASSUME Cfg!WellFormed
  PROVE  /\ Cfg!Wanted \in Seq(Cfg!Keys)
         /\ Cfg!Range(Cfg!Wanted) = Cfg!Required \ rejected
<1> DEFINE s == Core \o Signals
<1>1. Core \in Seq(Cfg!Keys) /\ Signals \in Seq(Cfg!Keys)
  BY ProfileFacts
<1>2. /\ s \in Seq(Cfg!Keys) /\ Len(s) = Len(Core) + Len(Signals)
      /\ \A n \in 1 .. Len(Core) : s[n] = Core[n]
      /\ \A n \in 1 .. Len(Signals) : s[Len(Core) + n] = Signals[n]
      /\ \A n \in 1 .. Len(s) : \/ n \in 1 .. Len(Core)
                                \/ n - Len(Core) \in 1 .. Len(Signals) /\ s[n] = Signals[n - Len(Core)]
  BY <1>1
<1> HIDE DEF s
<1>3. DOMAIN s = 1 .. Len(s) /\ DOMAIN Core = 1 .. Len(Core) /\ DOMAIN Signals = 1 .. Len(Signals)
  BY <1>1, <1>2
<1>4. Cfg!Range(s) \subseteq Cfg!Required
  <2>1. ASSUME NEW n \in 1 .. Len(s) PROVE s[n] \in Cfg!Required
    <3>1. CASE n \in 1 .. Len(Core)
      <4>1. Core[n] \in Cfg!Range(Core) /\ s[n] = Core[n]
        BY <1>2, <1>3, <3>1 DEF Cfg!Range
      <4> QED
        BY <4>1, ProfileFacts
    <3>2. CASE n - Len(Core) \in 1 .. Len(Signals) /\ s[n] = Signals[n - Len(Core)]
      <4>1. s[n] \in Cfg!Range(Signals)
        BY <1>3, <3>2 DEF Cfg!Range
      <4> QED
        BY <4>1, ProfileFacts
    <3> QED
      BY <1>2, <3>1, <3>2
  <2> QED
    BY <1>3, <2>1 DEF Cfg!Range
<1>5. Cfg!Required \subseteq Cfg!Range(s)
  <2>1. ASSUME NEW n \in 1 .. Len(Core) PROVE Core[n] \in Cfg!Range(s)
    <3>1. n \in DOMAIN s
      BY <1>1, <1>2, <1>3
    <3> QED
      BY <1>2, <3>1 DEF Cfg!Range
  <2>2. ASSUME NEW n \in 1 .. Len(Signals) PROVE Signals[n] \in Cfg!Range(s)
    <3>1. Len(Core) + n \in DOMAIN s
      BY <1>1, <1>2, <1>3
    <3> QED
      BY <1>2, <3>1 DEF Cfg!Range
  <2> QED
    BY <1>3, <2>1, <2>2, ProfileFacts DEF Cfg!Range
<1>6. Cfg!Those(s, Cfg!Required \ rejected) \in Seq(Cfg!Keys)
      /\ Cfg!Range(Cfg!Those(s, Cfg!Required \ rejected)) = Cfg!Range(s) \cap (Cfg!Required \ rejected)
  BY <1>2, ThoseFacts
<1> QED
  BY <1>4, <1>5, <1>6 DEF Cfg!Wanted, s

(* What a request costs. *)
Spent(c) == left[c] > 0 /\ left' = [left EXCEPT ![c] = @ - 1]

LEMMA SpentFacts ==
  ASSUME FaultType, NEW c \in Faults, Spent(c), cfgPlan' = cfgPlan, Cfg!WellFormed, cfgPlan \in CfgPlans
  PROVE  /\ FaultType'
         /\ left'[c] = left[c] - 1
         /\ \A d \in Faults \ {c} : left'[d] = left[d]
<1>1. left[c] \in Nat /\ left[c] > 0
  BY DEF FaultType, Spent
<1>2. left' = [d \in Faults |-> IF d = c THEN left[c] - 1 ELSE left[d]]
  BY DEF FaultType, Spent
<1>3. left'[c] = left[c] - 1 /\ \A d \in Faults \ {c} : left'[d] = left[d]
  BY <1>2
<1>4. left' \in [Faults -> Nat]
  BY <1>1, <1>2 DEF FaultType
<1>5. cfgPlan.lost \in Nat /\ cfgPlan.late \in Nat /\ cfgPlan.stray \in Nat
  BY DEF Cfg!WellFormed
<1>6. left["lost"] \in Nat /\ left["late"] \in Nat /\ left["stray"] \in Nat
  BY DEF FaultType, Faults
<1>7. left'["lost"] <= left["lost"] /\ left'["late"] <= left["late"] /\ left'["stray"] <= left["stray"]
      /\ left'["lost"] \in Nat /\ left'["late"] \in Nat /\ left'["stray"] \in Nat
  BY <1>1, <1>3, <1>4, <1>6 DEF Faults
<1> QED
  BY <1>3, <1>4, <1>5, <1>6, <1>7 DEF FaultType

Due(ks) == Append(cfgOwed, Cfg!Reply(ks))

LEMMA Asked ==
  ASSUME CfgType, NEW ks \in SUBSET Cfg!Keys, NEW o \in Cfg!valget(ks), Cfg!Pays(o)
  PROVE  /\ cfgOwed' = o.owed
         /\ \/ /\ o.cost = "none" /\ left' = left
               /\ o.kind = Head(Due(ks)).kind /\ o.owed = Tail(Due(ks))
               /\ o.has = Head(Due(ks)).has /\ o.good = Head(Due(ks)).good
            \/ /\ o.has = {} /\ o.good = {}
               /\ \/ o.kind = "nak" /\ o.owed = Due(ks) /\ Spent("stray")
                  \/ o.kind = "timeout" /\ ~Cfg!Known(ks) /\ o.owed = cfgOwed /\ Spent("late")
                  \/ o.kind \in {"timeout", "nodata"} /\ Cfg!Known(ks) /\ o.owed = Due(ks) /\ Spent("late")
                  \/ o.kind \in {"timeout", "nodata"} /\ cfgOwed = <<>> /\ o.owed = <<>> /\ Spent("lost")
<1>1. cfgOwed' = o.owed
  BY DEF Cfg!Pays
<1>2. o.cost \in Faults => Spent(o.cost)
  BY DEF Cfg!Pays, Spent, Faults
<1>3. o.cost = "none" => left' = left
  BY DEF Cfg!Pays
<1>4. CASE o = Cfg!Told(Head(Due(ks)), Tail(Due(ks)), "none")
  BY <1>1, <1>3, <1>4 DEF Cfg!Told
<1>5. CASE o = Cfg!Told0("nak", Due(ks), "stray")
  BY <1>1, <1>2, <1>5 DEF Cfg!Told, Cfg!Told0, Cfg!Nothing, Faults
<1>6. CASE o = Cfg!Told0("timeout", IF Cfg!Known(ks) THEN Due(ks) ELSE cfgOwed, "late")
  BY <1>1, <1>2, <1>6 DEF Cfg!Told, Cfg!Told0, Cfg!Nothing, Faults
<1>7. CASE Cfg!Known(ks) /\ o = Cfg!Told0("nodata", Due(ks), "late")
  BY <1>1, <1>2, <1>7 DEF Cfg!Told, Cfg!Told0, Cfg!Nothing, Faults
<1>8. CASE cfgOwed = <<>> /\ o = Cfg!Told0("timeout", <<>>, "lost")
  BY <1>1, <1>2, <1>8 DEF Cfg!Told, Cfg!Told0, Cfg!Nothing, Faults
<1>9. CASE cfgOwed = <<>> /\ o = Cfg!Told0("nodata", <<>>, "lost")
  BY <1>1, <1>2, <1>9 DEF Cfg!Told, Cfg!Told0, Cfg!Nothing, Faults
<1> QED
  BY <1>4, <1>5, <1>6, <1>7, <1>8, <1>9 DEF Cfg!valget, Due

(* What holds of every answer under way and of the new one holds of the answer that is *)
(* given and of those that are still under way.                                        *)
LEMMA Answers ==
  ASSUME CfgType, Cfg!WellFormed, cfgPlan' = cfgPlan,
         NEW ks \in SUBSET Cfg!Keys, NEW o \in Cfg!valget(ks), Cfg!Pays(o),
         NEW R \in SUBSET Replies, cfgOwed \in Seq(R), Cfg!Reply(ks) \in R
  PROVE  /\ cfgOwed' \in Seq(R) /\ FaultType'
         /\ o.kind \in {"data", "nak", "nodata", "timeout"}
         /\ o.kind = "data" => \E r \in R : r.kind = "data" /\ o.has = r.has /\ o.good = r.good
         /\ o.has \in SUBSET Cfg!Keys /\ o.good \in SUBSET Cfg!Keys
         /\ o.kind = "nak" => Spent("stray") \/ \E r \in R : r.kind = "nak"
<1>1. Due(ks) \in Seq(R) /\ Due(ks) # <<>>
  BY DEF Due
<1>2. Head(Due(ks)) \in R /\ Tail(Due(ks)) \in Seq(R)
  BY <1>1
<1>3. Head(Due(ks)) \in Replies
  BY <1>2
<1>4. <<>> \in Seq(R)
  OBVIOUS
<1>5. FaultType /\ cfgPlan \in CfgPlans
  BY DEF CfgType
<1>6. left' = left => FaultType'
  BY <1>5 DEF FaultType
<1>7. ASSUME NEW c \in Faults, Spent(c) PROVE FaultType'
  BY <1>5, <1>7, SpentFacts
<1>8. {"lost", "late", "stray"} \subseteq Faults
  BY DEF Faults
<1>9. cfgOwed' = o.owed
  BY Asked
<1>10. CASE /\ o.cost = "none" /\ left' = left
            /\ o.kind = Head(Due(ks)).kind /\ o.owed = Tail(Due(ks))
            /\ o.has = Head(Due(ks)).has /\ o.good = Head(Due(ks)).good
  <2>1. PICK r \in R : r = Head(Due(ks))
    BY <1>2
  <2>2. o.kind = r.kind /\ o.has = r.has /\ o.good = r.good /\ cfgOwed' \in Seq(R)
    BY <1>2, <1>9, <1>10, <2>1
  <2>3. r.kind \in {"data", "nak"} /\ r.has \in SUBSET Cfg!Keys /\ r.good \in SUBSET Cfg!Keys
    BY <1>3, <2>1 DEF Replies
  <2> QED
    BY <1>6, <1>10, <2>1, <2>2, <2>3
<1>11. CASE o.has = {} /\ o.good = {} /\ o.kind = "nak" /\ o.owed = Due(ks) /\ Spent("stray")
  BY <1>1, <1>7, <1>8, <1>9, <1>11
<1>12. CASE /\ o.has = {} /\ o.good = {} /\ o.kind \in {"timeout", "nodata"}
            /\ o.owed \in {Due(ks), cfgOwed, <<>>} /\ (Spent("late") \/ Spent("lost"))
  BY <1>1, <1>4, <1>7, <1>8, <1>9, <1>12
<1> QED
  BY <1>10, <1>11, <1>12, Asked

LEMMA ReplyFacts ==
  ASSUME CfgType, NEW ks \in SUBSET Cfg!Keys
  PROVE  /\ Cfg!Reply(ks) \in Replies
         /\ \A k \in Cfg!Reply(ks).good : ram[k]
         /\ Cfg!Known(ks) => /\ Cfg!Reply(ks).kind = "data" /\ Cfg!Reply(ks).has = ks
                             /\ \A k \in ks : ram[k] => k \in Cfg!Reply(ks).good
BY DEF Cfg!Reply, Cfg!Nothing, Replies, CfgType

(* A VALSET: all of it or nothing, said or not. *)
LEMMA Set ==
  ASSUME CfgType, Cfg!WellFormed, cfgPlan' = cfgPlan,
         NEW ks \in SUBSET Cfg!Keys, NEW o \in Cfg!valset(ks), Cfg!Pays(o), Cfg!Writes(o)
  PROVE  /\ cfgOwed' \in {<<>>, cfgOwed} /\ FaultType'
         /\ o.verdict \in {"ack", "nak", "timeout"}
         /\ o.verdict # "timeout" => cfgOwed' = <<>>
         /\ o.verdict = "ack" => Spent("stray") \/ (Cfg!Accepts(ks) /\ \A k \in ks : ram'[k])
         /\ o.verdict = "nak" => Spent("stray") \/ ~Cfg!Accepts(ks)
         /\ o.verdict = "timeout" => left'["stray"] = left["stray"]
         /\ ram' \in [Cfg!Keys -> BOOLEAN]
         /\ \A k \in Cfg!Keys : ram[k] => ram'[k]
         /\ \A k \in Cfg!Keys : k \notin ks => ram'[k] = ram[k]
<1>1. cfgOwed' = o.owed
  BY DEF Cfg!Pays
<1>2. o.cost \in Faults => Spent(o.cost)
  BY DEF Cfg!Pays, Spent, Faults
<1>3. o.cost = "none" => left' = left
  BY DEF Cfg!Pays
<1>4. FaultType /\ cfgPlan \in CfgPlans /\ ram \in [Cfg!Keys -> BOOLEAN]
  BY DEF CfgType
<1>5. /\ ram' \in [Cfg!Keys -> BOOLEAN]
      /\ \A k \in Cfg!Keys : ram'[k] = (ram[k] \/ k \in o.written)
  BY DEF Cfg!Writes
<1>6. /\ o.written = {} \/ (Cfg!Accepts(ks) /\ o.written = ks)
      /\ o.owed \in {<<>>, cfgOwed} /\ o.cost \in Faults \cup {"none"}
      /\ o.verdict \in {"ack", "nak", "timeout"}
      /\ o.verdict # "timeout" => o.owed = <<>>
      /\ o.verdict = "ack" /\ o.cost # "stray" => o.cost = "none" /\ o.written = ks /\ Cfg!Accepts(ks)
      /\ o.verdict = "nak" /\ o.cost # "stray" => o.cost = "none" /\ ~Cfg!Accepts(ks)
      /\ o.verdict = "timeout" => o.cost = "lost"
  BY DEF Cfg!valset, Cfg!Said, Faults
<1>7. FaultType'
  <2>1. CASE o.cost = "none"
    BY <1>3, <1>4, <2>1 DEF FaultType
  <2>2. CASE o.cost \in Faults
    BY <1>2, <1>4, <2>2, SpentFacts
  <2> QED
    BY <1>6, <2>1, <2>2
<1>8. o.cost = "lost" => left'["stray"] = left["stray"]
  BY <1>2, <1>4, SpentFacts DEF Faults
<1>9. o.cost = "stray" => Spent("stray")
  BY <1>2 DEF Faults
<1>10. \A k \in Cfg!Keys : ram[k] => ram'[k]
  BY <1>5, Zenon
<1>11. \A k \in Cfg!Keys : k \notin ks => ram'[k] = ram[k]
  <2>1. \A k \in Cfg!Keys : k \notin ks => k \notin o.written
    BY <1>6
  <2> QED
    BY <1>4, <1>5, <2>1
<1>12. o.written = ks => \A k \in ks : ram'[k]
  BY <1>5, Zenon
<1> QED
  BY <1>1, <1>6, <1>7, <1>8, <1>9, <1>10, <1>11, <1>12, <1>5

-----------------------------------------------------------------------------
(* What a configure that succeeded has verified. *)

Stands == {"probe", "read", "write", "signals", "optional", "done"}

(* What is read, and when nothing is. *)
StandInv ==
  /\ cfgAt \in Stands
  /\ cfgAt = "read" => rb.of \in Subjects
  /\ cfgAt # "read" => rb = Cfg!NoRead
  /\ cfgAt # "done" => result = "none"

(* Core keys are refused only in their own write, which a strict daemon    *)
(* does not outlive.                                                       *)
Unwritten == cfgAt = "probe" \/ (cfgAt = "read" /\ rb.of = "core")
Further == cfgAt \in {"signals", "optional"} \/ (cfgAt = "read" /\ rb.of # "core")
RefusedInv ==
  /\ Unwritten => rejected = {}
  /\ Further /\ cfgPlan.strict => rejected = {}

(* What was read, or is still to be heard, as the profile's is in the      *)
(* receiver's RAM.                                                         *)
TrueReplies == {r \in Replies : \A k \in r.good : ram[k]}
HeardInv == cfgOwed \in Seq(TrueReplies) /\ \A k \in rb.good : ram[k]

(* What is still to be written is of what differed. *)
TodoInv == cfgAt = "write" => PartsOf(todo, pending)

HonestInv == CfgType /\ StandInv /\ RefusedInv /\ HeardInv /\ TodoInv /\ Cfg!VerifiedHolds

LEMMA NoReadFacts ==
  /\ Cfg!NoRead \in Readbacks /\ Cfg!NoRead.good = {} /\ Cfg!NoRead.lost = {}
  /\ Cfg!NoRead.got = {} /\ Cfg!NoRead.ones = <<>> /\ Cfg!NoRead.chunks = <<>>
  /\ Cfg!NoRead.of = "none"
<1>1. Cfg!NoRead = [of |-> "none", chunks |-> <<>>, ones |-> <<>>, got |-> {}, good |-> {}, lost |-> {}]
  BY DEF Cfg!NoRead
<1>2. <<>> \in Seq(Seq(Cfg!Keys)) /\ <<>> \in Seq(Cfg!Keys) /\ {} \in SUBSET Cfg!Keys
  OBVIOUS
<1>3. \A a \in Seq(Seq(Cfg!Keys)), b \in Seq(Cfg!Keys) :
        [of |-> "none", chunks |-> a, ones |-> b, got |-> {}, good |-> {}, lost |-> {}] \in Readbacks
  BY DEF Readbacks, Subjects
<1>4. Cfg!NoRead \in Readbacks
  BY <1>1, <1>2, <1>3
<1> QED
  BY <1>1, <1>4

LEMMA ReadbackFacts ==
  ASSUME Cfg!WellFormed, NEW of \in Subjects, NEW s \in Seq(Cfg!Keys)
  PROVE  LET r == Cfg!Readback(of, s)
         IN  /\ r \in Readbacks /\ r.of = of /\ r.good = {} /\ r.lost = {} /\ r.got = {}
             /\ r.ones = <<>> /\ r.chunks = Cfg!chunked(s)
             /\ Covers(r.chunks, Cfg!Range(s))
<1> DEFINE r == Cfg!Readback(of, s)
<1>1. Cfg!chunked(s) \in Seq(Seq(Cfg!Keys)) /\ Covers(Cfg!chunked(s), Cfg!Range(s))
  BY ChunkFacts, ProfileFacts
<1>2. r = [Cfg!NoRead EXCEPT !.of = of, !.chunks = Cfg!chunked(s)]
  BY DEF Cfg!Readback
<1>3. r = [of |-> of, chunks |-> Cfg!chunked(s), ones |-> <<>>, got |-> {}, good |-> {}, lost |-> {}]
  BY <1>2 DEF Cfg!NoRead
<1> QED
  BY <1>1, <1>3 DEF Readbacks, Subjects

(* The true answers stay true, as nothing takes a key back. *)
LEMMA TrueStays ==
  ASSUME CfgType, NEW q \in Seq(TrueReplies), ram' \in [Cfg!Keys -> BOOLEAN],
         \A k \in Cfg!Keys : ram[k] => ram'[k]
  PROVE  q \in Seq(TrueReplies')
<1>1. TrueReplies \subseteq TrueReplies'
  <2>1. ASSUME NEW r \in TrueReplies PROVE r \in TrueReplies'
    <3>1. r \in Replies /\ \A k \in r.good : ram[k]
      BY DEF TrueReplies
    <3>2. r.good \subseteq Cfg!Keys
      BY <3>1 DEF Replies
    <3>3. \A k \in r.good : ram'[k]
      BY <3>1, <3>2
    <3> QED
      BY <3>1, <3>3 DEF TrueReplies
  <2> QED
    BY <2>1
<1>2. Len(q) \in Nat /\ q = [n \in 1 .. Len(q) |-> q[n]] /\ \A n \in 1 .. Len(q) : q[n] \in TrueReplies
  OBVIOUS
<1> QED
  BY <1>1, <1>2

(* Asking takes and leaves true answers. *)
LEMMA TrueAsked ==
  ASSUME CfgType, HeardInv, Cfg!WellFormed, cfgPlan' = cfgPlan, ram' = ram,
         NEW ks \in SUBSET Cfg!Keys, NEW o \in Cfg!valget(ks), Cfg!Pays(o)
  PROVE  /\ cfgOwed' \in Seq(TrueReplies') /\ cfgOwed' \in Seq(Replies) /\ FaultType'
         /\ o.kind = "data" => \A k \in o.good : ram[k]
         /\ o.has \in SUBSET Cfg!Keys /\ o.good \in SUBSET Cfg!Keys
         /\ o.kind \in {"data", "nak", "nodata", "timeout"}
<1>1. Cfg!Reply(ks) \in TrueReplies /\ TrueReplies \in SUBSET Replies
  BY ReplyFacts DEF TrueReplies
<1>2. cfgOwed \in Seq(TrueReplies)
  BY DEF HeardInv
<1>3. /\ cfgOwed' \in Seq(TrueReplies) /\ FaultType'
      /\ o.kind = "data" => \E r \in TrueReplies : r.kind = "data" /\ o.has = r.has /\ o.good = r.good
      /\ o.has \in SUBSET Cfg!Keys /\ o.good \in SUBSET Cfg!Keys
      /\ o.kind \in {"data", "nak", "nodata", "timeout"}
  BY <1>1, <1>2, Answers
<1>4. TrueReplies' = TrueReplies
  BY DEF TrueReplies
<1>5. cfgOwed' \in Seq(Replies)
  <2>1. CfgType /\ Cfg!Reply(ks) \in Replies /\ Replies \in SUBSET Replies /\ cfgOwed \in Seq(Replies)
    BY ReplyFacts DEF CfgType
  <2> QED
    BY <2>1, Answers
<1> QED
  BY <1>3, <1>4, <1>5 DEF TrueReplies
  
LEMMA Still ==
  ASSUME HonestInv, UNCHANGED Cfg!vars
  PROVE  HonestInv'
BY DEF HonestInv, Cfg!vars, Cfg!wire, Cfg!count, Cfg!kept, Cfg!found, CfgType, FaultType, StandInv,
       RefusedInv, Unwritten, Further, TrueReplies, HeardInv, TodoInv, Cfg!VerifiedHolds

LEMMA HonestInit ==
  ASSUME Cfg!WellFormed, Cfg!Init
  PROVE  HonestInv
<1>1. left = [lost |-> cfgPlan.lost, late |-> cfgPlan.late, stray |-> cfgPlan.stray]
  BY DEF Cfg!Init
<1>2. cfgPlan.lost \in Nat /\ cfgPlan.late \in Nat /\ cfgPlan.stray \in Nat
  BY DEF Cfg!Init, Cfg!WellFormed
<1>3. FaultType
  <2>1. left \in [Faults -> Nat]
    BY <1>1, <1>2 DEF Faults
  <2> QED
    BY <1>1, <1>2, <2>1 DEF FaultType
<1>4. CfgType
  <2>1. fw \in [Cfg!Keys -> {"ok", "readonly", "unknown"}] /\ ram \in [Cfg!Keys -> BOOLEAN]
    BY DEF Cfg!Init
  <2>2. rb \in Readbacks
    BY NoReadFacts DEF Cfg!Init
  <2>3. /\ cfgPlan \in CfgPlans /\ cfgOwed = <<>> /\ todo = <<>> /\ i = 1 /\ attempt = 1 /\ naks = 0
        /\ rejected = {} /\ unsupported = {} /\ seen = {} /\ once = FALSE /\ pending = {}
    BY DEF Cfg!Init
  <2>4. 1 \in 1 .. Len(Features)
    BY ProfileFacts
  <2>5. <<>> \in Seq(Replies) /\ <<>> \in Seq(Seq(Cfg!Keys))
    OBVIOUS
  <2>6. cfgOwed \in Seq(Replies) /\ todo \in Seq(Seq(Cfg!Keys))
    BY <2>3, <2>5
  <2>7. /\ attempt \in Nat \ {0} /\ naks \in Nat /\ i \in 1 .. Len(Features)
        /\ rejected \in SUBSET Cfg!Required /\ unsupported \in SUBSET Cfg!Optional
        /\ seen \in SUBSET Cfg!Optional /\ pending \in SUBSET Cfg!Required
    BY <2>3, <2>4
  <2>8. once \in BOOLEAN
    BY <2>3
  <2> QED
    BY <1>3, <2>1, <2>2, <2>3, <2>6, <2>7, <2>8 DEF CfgType
<1>5. StandInv /\ RefusedInv /\ TodoInv
  BY DEF StandInv, Stands, RefusedInv, Further, TodoInv, Cfg!Init
<1>6. HeardInv /\ Cfg!VerifiedHolds
  BY NoReadFacts DEF HeardInv, Cfg!VerifiedHolds, Cfg!Init
<1> QED
  BY <1>4, <1>5, <1>6 DEF HonestInv

LEMMA RangeIn ==
  ASSUME NEW K, NEW s \in Seq(K)
  PROVE  Cfg!Range(s) \in SUBSET K /\ (s # <<>> => Head(s) \in Cfg!Range(s) /\ Tail(s) \in Seq(K))
<1>1. DOMAIN s = 1 .. Len(s) /\ Len(s) \in Nat
  OBVIOUS
<1>2. s # <<>> => 1 \in DOMAIN s /\ Head(s) = s[1]
  BY <1>1
<1> QED
  BY <1>1, <1>2 DEF Cfg!Range

LEMMA FirstOf ==
  ASSUME NEW K, NEW ss \in Seq(Seq(K)), ss # <<>>
  PROVE  Head(ss) \in Seq(K) /\ Tail(ss) \in Seq(Seq(K)) /\ Cfg!Range(Head(ss)) \in SUBSET K
<1>1. Head(ss) \in Seq(K) /\ Tail(ss) \in Seq(Seq(K))
  OBVIOUS
<1> QED
  BY <1>1, RangeIn

(* An end that is no success leaves nothing to show. *)
LEMMA EndsHonest ==
  ASSUME HonestInv, cfgPlan' = cfgPlan, NEW r, r # "ok", Cfg!Ends(r),
         UNCHANGED <<fw, i, attempt, naks, rejected, unsupported, pending>>,
         FaultType', ram' \in [Cfg!Keys -> BOOLEAN],
         cfgOwed' \in Seq(Replies), cfgOwed' \in Seq(TrueReplies')
  PROVE  HonestInv'
<1>1. /\ cfgAt' = "done" /\ result' = r /\ rb' = Cfg!NoRead /\ todo' = <<>> /\ seen' = seen
      /\ once' = (once \/ r = "ok")
  BY DEF Cfg!Ends
<1>2. once' \in BOOLEAN
  BY <1>1
<1>3. rb' \in Readbacks /\ rb'.good = {}
  BY <1>1, NoReadFacts
<1>4. todo' \in Seq(Seq(Cfg!Keys))
  BY <1>1
<1>5. CfgType'
  BY <1>1, <1>2, <1>3, <1>4 DEF HonestInv, CfgType
<1>6. StandInv' /\ RefusedInv' /\ TodoInv'
  BY <1>1 DEF StandInv, Stands, RefusedInv, Unwritten, Further, TodoInv
<1>7. HeardInv' /\ Cfg!VerifiedHolds'
  BY <1>1, <1>3 DEF HeardInv, Cfg!VerifiedHolds
<1> QED
  BY <1>5, <1>6, <1>7 DEF HonestInv

LEMMA AskEndsHonest ==
  ASSUME HonestInv, Cfg!WellFormed, cfgPlan' = cfgPlan, NEW r, r # "ok", Cfg!Ends(r),
         UNCHANGED <<fw, ram, i, attempt, naks, rejected, unsupported, pending>>,
         NEW ks \in SUBSET Cfg!Keys, NEW o \in Cfg!valget(ks), Cfg!Pays(o)
  PROVE  HonestInv'
<1>1. CfgType /\ HeardInv
  BY DEF HonestInv
<1>2. cfgOwed' \in Seq(TrueReplies') /\ cfgOwed' \in Seq(Replies) /\ FaultType'
  BY <1>1, TrueAsked
<1>3. ram' \in [Cfg!Keys -> BOOLEAN]
  BY <1>1 DEF CfgType
<1> QED
  BY <1>2, <1>3, EndsHonest

LEMMA StillEndsHonest ==
  ASSUME HonestInv, Cfg!WellFormed, cfgPlan' = cfgPlan, NEW r, r # "ok", Cfg!Ends(r),
         UNCHANGED <<fw, ram, i, attempt, naks, rejected, unsupported, pending, cfgOwed, left>>
  PROVE  HonestInv'
<1>1. CfgType /\ HeardInv
  BY DEF HonestInv
<1>2. TrueReplies' = TrueReplies
  BY DEF TrueReplies
<1>3. cfgOwed' \in Seq(TrueReplies') /\ cfgOwed' \in Seq(Replies) /\ FaultType'
  BY <1>1, <1>2 DEF CfgType, HeardInv, FaultType
<1>4. ram' \in [Cfg!Keys -> BOOLEAN]
  BY <1>1 DEF CfgType
<1> QED
  BY <1>3, <1>4, EndsHonest

(* A step that goes on. *)
LEMMA GoesHonest ==
  ASSUME HonestInv, cfgPlan' = cfgPlan, fw' = fw, cfgAt # "done", result' = result,
         cfgAt' \in Stands \ {"done"}, FaultType', ram' \in [Cfg!Keys -> BOOLEAN],
         cfgOwed' \in Seq(Replies), cfgOwed' \in Seq(TrueReplies'),
         i' \in 1 .. Len(Features), attempt' \in Nat \ {0}, naks' \in Nat,
         rb' \in Readbacks, \A k \in rb'.good : ram'[k],
         cfgAt' = "read" => rb'.of \in Subjects, cfgAt' # "read" => rb' = Cfg!NoRead,
         todo' \in Seq(Seq(Cfg!Keys)), rejected' \in SUBSET Cfg!Required,
         unsupported' \in SUBSET Cfg!Optional, seen' \in SUBSET Cfg!Optional, once' = once,
         pending' \in SUBSET Cfg!Required, RefusedInv', TodoInv'
  PROVE  HonestInv'
<1>1. CfgType'
  BY DEF HonestInv, CfgType
<1>2. result' = "none"
  BY DEF HonestInv, StandInv
<1>3. StandInv'
  BY <1>2 DEF StandInv
<1> QED
  BY <1>1, <1>2, <1>3 DEF HonestInv, HeardInv, Cfg!VerifiedHolds

LEMMA HonestProbe ==
  ASSUME HonestInv, Cfg!WellFormed, cfgPlan' = cfgPlan, Cfg!Probe
  PROVE  HonestInv'
<1>1. CfgType /\ HeardInv /\ cfgAt = "probe" /\ rejected = {} /\ rb = Cfg!NoRead
  BY DEF HonestInv, Cfg!Probe, RefusedInv, Unwritten, StandInv
<1>2. PICK o \in Cfg!valget({Features[i]}) :
         /\ Cfg!Pays(o)
         /\ LET decided == Cfg!ProbeVerdict(o)
            IN  \/ /\ decided \in {"yes", "no"} /\ Cfg!ProbeDecided(decided)
                   /\ UNCHANGED <<once, round, result>>
                \/ /\ decided = "again"
                   /\ attempt' = attempt + 1
                   /\ naks' = naks + (IF o.kind = "nak" THEN 1 ELSE 0)
                   /\ UNCHANGED <<cfgAt, i, rb, unsupported, Cfg!kept, result>>
  BY DEF Cfg!Probe
<1>3. UNCHANGED <<fw, ram, todo, rejected, pending>>
  BY DEF Cfg!Probe
<1>4. Features[i] \in Cfg!Optional /\ Features[i] \in Cfg!Keys
  BY <1>1, ProfileFacts DEF CfgType
<1>5. cfgOwed' \in Seq(TrueReplies') /\ cfgOwed' \in Seq(Replies) /\ FaultType'
  <2>1. {Features[i]} \in SUBSET Cfg!Keys
    BY <1>4
  <2> QED
    BY <1>1, <1>2, <1>3, <2>1, TrueAsked
<1>6. CASE /\ Cfg!ProbeDecided(Cfg!ProbeVerdict(o)) /\ UNCHANGED <<once, round, result>>
  <2> DEFINE decided == Cfg!ProbeVerdict(o)
             lacks == unsupported \cup (IF decided = "no" THEN {Features[i]} ELSE {})
             last == i = Len(Features)
  <2>1. /\ unsupported' = lacks /\ attempt' = 1 /\ naks' = 0
        /\ i' = IF last THEN 1 ELSE i + 1
        /\ seen' = IF last THEN seen \cup (Cfg!Optional \ lacks) ELSE seen
        /\ IF last THEN Cfg!Reads("core", Core) ELSE UNCHANGED <<cfgAt, rb>>
    BY <1>6 DEF Cfg!ProbeDecided
  <2>2. lacks \in SUBSET Cfg!Optional
    BY <1>1, <1>4 DEF CfgType
  <2> HIDE DEF lacks, decided
  <2>3. unsupported' \in SUBSET Cfg!Optional /\ seen' \in SUBSET Cfg!Optional
    BY <1>1, <2>1, <2>2 DEF CfgType
  <2>4. i' \in 1 .. Len(Features) /\ attempt' \in Nat \ {0} /\ naks' \in Nat
    <3>1. Len(Features) \in Nat \ {0} /\ i \in 1 .. Len(Features)
      BY <1>1, ProfileFacts DEF CfgType
    <3> QED
      BY <2>1, <3>1
  <2>5. /\ rb' \in Readbacks /\ rb'.good = {}
        /\ \/ cfgAt' = "read" /\ rb'.of = "core"
           \/ cfgAt' = "probe" /\ rb' = Cfg!NoRead
    <3>1. CASE last
      BY <2>1, <3>1, ReadbackFacts, ProfileFacts DEF Cfg!Reads, Subjects
    <3>2. CASE ~last
      BY <1>1, <2>1, <3>2, NoReadFacts
    <3> QED
      BY <3>1, <3>2
  <2>6. RefusedInv'
    BY <1>1, <1>3, <2>5 DEF RefusedInv
  <2>7. TodoInv'
    BY <2>5 DEF TodoInv
  <2> QED
    BY <1>1, <1>3, <1>5, <1>6, <2>3, <2>4, <2>5, <2>6, <2>7, GoesHonest DEF CfgType, Stands, Subjects
<1>7. CASE /\ attempt' = attempt + 1
           /\ naks' = naks + (IF o.kind = "nak" THEN 1 ELSE 0)
           /\ UNCHANGED <<cfgAt, i, rb, unsupported, Cfg!kept, result>>
  <2>1. attempt' \in Nat \ {0} /\ naks' \in Nat
    BY <1>1, <1>7 DEF CfgType
  <2>2. RefusedInv' /\ TodoInv'
    BY <1>1, <1>3, <1>7 DEF RefusedInv, TodoInv
  <2> QED
    BY <1>1, <1>3, <1>5, <1>7, <2>1, <2>2, GoesHonest, NoReadFacts DEF CfgType, Stands, Cfg!kept
<1> QED
  BY <1>2, <1>6, <1>7

LEMMA HonestProbeStale ==
  ASSUME HonestInv, Cfg!WellFormed, cfgPlan' = cfgPlan, Cfg!ProbeStale
  PROVE  HonestInv'
<1>1. CfgType
  BY DEF HonestInv
<1>2. PICK o \in Cfg!valget({Features[i]}) : Cfg!Pays(o)
  BY DEF Cfg!ProbeStale
<1>3. {Features[i]} \in SUBSET Cfg!Keys
  BY <1>1, ProfileFacts DEF CfgType
<1>4. Cfg!Ends("timeout") /\ UNCHANGED <<fw, ram, i, attempt, naks, rejected, unsupported, pending>>
  BY DEF Cfg!ProbeStale, Cfg!count, Cfg!found
<1> QED
  BY <1>2, <1>3, <1>4, AskEndsHonest

LEMMA HonestReadTimesOut ==
  ASSUME HonestInv, Cfg!WellFormed, cfgPlan' = cfgPlan, Cfg!ReadTimesOut
  PROVE  HonestInv'
<1> DEFINE ks == IF rb.ones # <<>> THEN {Head(rb.ones)} ELSE Cfg!Range(Head(rb.chunks))
<1>1. rb \in Readbacks
  BY DEF HonestInv, CfgType
<1>2. rb.ones \in Seq(Cfg!Keys) /\ rb.chunks \in Seq(Seq(Cfg!Keys))
  BY <1>1 DEF Readbacks
<1>3. ks \in SUBSET Cfg!Keys
  BY <1>2, RangeIn, FirstOf DEF Cfg!ReadTimesOut
<1>4. PICK o \in Cfg!valget(ks) : Cfg!Pays(o)
  BY DEF Cfg!ReadTimesOut
<1>5. Cfg!Ends("timeout") /\ UNCHANGED <<fw, ram, i, attempt, naks, rejected, unsupported, pending>>
  BY DEF Cfg!ReadTimesOut, Cfg!count, Cfg!found
<1> HIDE DEF ks
<1> QED
  BY <1>3, <1>4, <1>5, AskEndsHonest

(* What is heard is true. *)
LEMMA HeardFacts ==
  ASSUME HonestInv, NEW o, o.has \in SUBSET Cfg!Keys, o.good \in SUBSET Cfg!Keys, \A k \in o.good : ram[k]
  PROVE  LET h == Cfg!Heard(o)
         IN  /\ h = [rb EXCEPT !.got = rb.got \cup o.has, !.good = (rb.good \ o.has) \cup o.good]
             /\ h \in Readbacks /\ h.of = rb.of /\ h.ones = rb.ones /\ h.chunks = rb.chunks
             /\ h.lost = rb.lost
             /\ h.good = (rb.good \ o.has) \cup o.good
             /\ \A k \in h.good : ram[k]
<1> DEFINE h == Cfg!Heard(o)
<1>1. rb \in Readbacks /\ \A k \in rb.good : ram[k]
  BY DEF HonestInv, CfgType, HeardInv
<1>2. h = [rb EXCEPT !.got = rb.got \cup o.has, !.good = (rb.good \ o.has) \cup o.good]
  BY DEF Cfg!Heard
<1>3. h \in Readbacks /\ h.of = rb.of /\ h.ones = rb.ones /\ h.chunks = rb.chunks
             /\ h.lost = rb.lost
             /\ h.good = (rb.good \ o.has) \cup o.good
  BY <1>1, <1>2 DEF Readbacks
<1> HIDE DEF h
<1>4. \A k \in h.good : ram[k]
  BY <1>1, <1>3
<1> QED
  BY <1>2, <1>3, <1>4 DEF h

LEMMA HonestReadChunk ==
  ASSUME HonestInv, Cfg!WellFormed, cfgPlan' = cfgPlan, Cfg!ReadChunk
  PROVE  HonestInv'
<1> DEFINE names == Head(rb.chunks)
<1>1. CfgType /\ HeardInv /\ cfgAt = "read" /\ rb.chunks # <<>> /\ rb.of \in Subjects
  BY DEF HonestInv, Cfg!ReadChunk, StandInv
<1>2. PICK o \in Cfg!valget(Cfg!Range(names)) :
         /\ Cfg!Pays(o)
         /\ o.kind # "timeout"
         /\ rb' = IF o.kind = "data"
                  THEN [Cfg!Heard(o) EXCEPT !.chunks = Tail(@),
                                            !.lost = @ \cup (Cfg!Range(names) \ o.has)]
                  ELSE [rb EXCEPT !.chunks = Tail(@), !.ones = names]
  BY DEF Cfg!ReadChunk
<1>3. UNCHANGED <<fw, ram, cfgAt, i, attempt, naks, todo, rejected, unsupported, seen, once, round, result, pending>>
  BY DEF Cfg!ReadChunk, Cfg!count, Cfg!found, Cfg!kept
<1>4. /\ names \in Seq(Cfg!Keys) /\ Tail(rb.chunks) \in Seq(Seq(Cfg!Keys))
      /\ Cfg!Range(names) \in SUBSET Cfg!Keys /\ rb \in Readbacks
  <2>1. rb.chunks \in Seq(Seq(Cfg!Keys)) /\ rb \in Readbacks
    BY <1>1 DEF CfgType, Readbacks
  <2> QED
    BY <1>1, <2>1, FirstOf
<1> HIDE DEF names
<1>5. /\ cfgOwed' \in Seq(TrueReplies') /\ cfgOwed' \in Seq(Replies) /\ FaultType'
      /\ o.kind = "data" => \A k \in o.good : ram[k]
      /\ o.has \in SUBSET Cfg!Keys /\ o.good \in SUBSET Cfg!Keys
  BY <1>1, <1>2, <1>3, <1>4, TrueAsked
<1>6. rb' \in Readbacks /\ rb'.of = rb.of /\ \A k \in rb'.good : ram[k]
  <2>1. CASE o.kind = "data"
    <3>1. /\ Cfg!Heard(o) \in Readbacks /\ Cfg!Heard(o).of = rb.of
          /\ Cfg!Heard(o).chunks = rb.chunks /\ \A k \in Cfg!Heard(o).good : ram[k]
      BY <1>5, <2>1, HeardFacts
    <3> DEFINE h == Cfg!Heard(o)
    <3> HIDE DEF h
    <3>2. rb' = [h EXCEPT !.chunks = Tail(rb.chunks), !.lost = h.lost \cup (Cfg!Range(names) \ o.has)]
      BY <1>2, <2>1, <3>1 DEF h
    <3>3. h \in Readbacks /\ h.of = rb.of /\ \A k \in h.good : ram[k]
      BY <3>1 DEF h
    <3> QED
      BY <1>4, <3>2, <3>3 DEF Readbacks
  <2>2. CASE o.kind # "data"
    <3>1. rb' = [rb EXCEPT !.chunks = Tail(rb.chunks), !.ones = names]
      BY <1>2, <2>2
    <3> QED
      BY <1>1, <1>4, <3>1 DEF HeardInv, Readbacks
  <2> QED
    BY <2>1, <2>2
<1>7. RefusedInv' /\ TodoInv'
  BY <1>1, <1>3, <1>6 DEF HonestInv, RefusedInv, Unwritten, Further, TodoInv
<1> QED
  BY <1>1, <1>3, <1>5, <1>6, <1>7, GoesHonest DEF CfgType, Stands

LEMMA HonestReadOne ==
  ASSUME HonestInv, Cfg!WellFormed, cfgPlan' = cfgPlan, Cfg!ReadOne
  PROVE  HonestInv'
<1> DEFINE name == Head(rb.ones)
<1>1. CfgType /\ HeardInv /\ cfgAt = "read" /\ rb.ones # <<>> /\ rb.of \in Subjects
  BY DEF HonestInv, Cfg!ReadOne, StandInv
<1>2. PICK o \in Cfg!valget({name}) :
       LET silent == o.kind = "nodata" \/ (o.kind = "data" /\ name \notin o.has)
       IN  /\ Cfg!Pays(o)
           /\ o.kind # "timeout"
           /\ rb' = [(IF o.kind = "data" THEN Cfg!Heard(o) ELSE rb) EXCEPT
                       !.ones = Tail(@),
                       !.lost = @ \cup (IF silent THEN {name} ELSE {})]
  BY DEF Cfg!ReadOne
<1>3. UNCHANGED <<fw, ram, cfgAt, i, attempt, naks, todo, rejected, unsupported, seen, once, round, result, pending>>
  BY DEF Cfg!ReadOne, Cfg!count, Cfg!found, Cfg!kept
<1>4. name \in Cfg!Keys /\ Tail(rb.ones) \in Seq(Cfg!Keys) /\ rb \in Readbacks /\ {name} \in SUBSET Cfg!Keys
  <2>1. rb.ones \in Seq(Cfg!Keys) /\ rb \in Readbacks
    BY <1>1 DEF CfgType, Readbacks
  <2> QED
    BY <1>1, <2>1
<1> HIDE DEF name
<1>5. /\ cfgOwed' \in Seq(TrueReplies') /\ cfgOwed' \in Seq(Replies) /\ FaultType'
      /\ o.kind = "data" => \A k \in o.good : ram[k]
      /\ o.has \in SUBSET Cfg!Keys /\ o.good \in SUBSET Cfg!Keys
  BY <1>1, <1>2, <1>3, <1>4, TrueAsked
<1> DEFINE h == IF o.kind = "data" THEN Cfg!Heard(o) ELSE rb
           silent == o.kind = "nodata" \/ (o.kind = "data" /\ name \notin o.has)
           mute == IF silent THEN {name} ELSE {}
<1>6. h \in Readbacks /\ h.of = rb.of /\ h.ones = rb.ones /\ \A k \in h.good : ram[k]
  <2>1. CASE o.kind = "data"
    BY <1>5, <2>1, HeardFacts
  <2>2. CASE o.kind # "data"
    BY <1>1, <1>4, <2>2 DEF HeardInv
  <2> QED
    BY <2>1, <2>2
<1>7. rb' = [h EXCEPT !.ones = Tail(h.ones), !.lost = h.lost \cup mute]
  BY <1>2
<1>8. mute \in SUBSET Cfg!Keys
  BY <1>4
<1> HIDE DEF h, mute
<1>9. rb' \in Readbacks /\ rb'.of = rb.of /\ \A k \in rb'.good : ram[k]
  BY <1>4, <1>6, <1>7, <1>8 DEF Readbacks
<1>10. RefusedInv' /\ TodoInv'
  BY <1>1, <1>3, <1>9 DEF HonestInv, RefusedInv, Unwritten, Further, TodoInv
<1> QED
  BY <1>1, <1>3, <1>5, <1>9, <1>10, GoesHonest DEF CfgType, Stands

(* Nothing said and nothing written. *)
LEMMA Silent ==
  ASSUME CfgType, HeardInv, UNCHANGED <<cfgPlan, ram, cfgOwed, left>>
  PROVE  /\ cfgOwed' \in Seq(TrueReplies') /\ cfgOwed' \in Seq(Replies) /\ FaultType'
         /\ ram' \in [Cfg!Keys -> BOOLEAN]
<1>1. TrueReplies' = TrueReplies
  BY DEF TrueReplies
<1> QED
  BY <1>1 DEF CfgType, HeardInv, FaultType

LEMMA TrueSet ==
  ASSUME CfgType, HeardInv, Cfg!WellFormed, cfgPlan' = cfgPlan,
         NEW ks \in SUBSET Cfg!Keys, NEW o \in Cfg!valset(ks), Cfg!Pays(o), Cfg!Writes(o)
  PROVE  /\ cfgOwed' \in Seq(TrueReplies') /\ cfgOwed' \in Seq(Replies) /\ FaultType'
         /\ ram' \in [Cfg!Keys -> BOOLEAN]
<1>1. /\ cfgOwed' \in {<<>>, cfgOwed} /\ FaultType' /\ ram' \in [Cfg!Keys -> BOOLEAN]
      /\ \A k \in Cfg!Keys : ram[k] => ram'[k]
  BY Set
<1>2. cfgOwed \in Seq(TrueReplies') /\ cfgOwed \in Seq(Replies)
  BY <1>1, TrueStays DEF HeardInv, CfgType
<1>3. <<>> \in Seq(TrueReplies') /\ <<>> \in Seq(Replies)
  OBVIOUS
<1> QED
  BY <1>1, <1>2, <1>3

LEMMA Reading ==
  ASSUME Cfg!WellFormed, NEW of \in Subjects, NEW s \in Seq(Cfg!Keys), Cfg!Reads(of, s)
  PROVE  /\ cfgAt' = "read" /\ rb' \in Readbacks /\ rb'.of = of /\ rb'.good = {} /\ rb'.lost = {}
         /\ rb'.ones = <<>> /\ Covers(rb'.chunks, Cfg!Range(s))
BY ReadbackFacts DEF Cfg!Reads

LEMMA HonestCoreRead ==
  ASSUME HonestInv, Cfg!WellFormed, cfgPlan' = cfgPlan, Cfg!CoreRead
  PROVE  HonestInv'
<1> DEFINE differs == Cfg!Those(Core, Cfg!Required \ rb.good)
<1>1. CfgType /\ HeardInv /\ cfgAt = "read" /\ rb.of = "core" /\ rejected = {}
  BY DEF HonestInv, Cfg!CoreRead, Cfg!ReadOver, RefusedInv, Unwritten
<1>2. /\ pending' = Cfg!Range(differs)
      /\ IF differs = <<>>
           THEN Cfg!Reads("signals", Signals) /\ UNCHANGED todo
           ELSE cfgAt' = "write" /\ rb' = Cfg!NoRead /\ todo' = Cfg!chunked(differs)
      /\ UNCHANGED <<fw, ram, cfgOwed, left, i, attempt, naks, rejected, unsupported, seen, once,
                     round, result>>
  BY DEF Cfg!CoreRead, Cfg!wire, Cfg!count, Cfg!found, Cfg!kept
<1>3. differs \in Seq(Cfg!Keys) /\ Cfg!Range(differs) \in SUBSET Cfg!Required
  BY ProfileFacts, ThoseFacts
<1> HIDE DEF differs
<1>4. Cfg!chunked(differs) \in Seq(Seq(Cfg!Keys)) /\ PartsOf(Cfg!chunked(differs), Cfg!Range(differs))
  BY <1>3, ChunkFacts, ProfileFacts
<1>5. /\ rb' \in Readbacks /\ rb'.good = {} /\ todo' \in Seq(Seq(Cfg!Keys))
      /\ \/ cfgAt' = "read" /\ rb'.of \in Subjects
         \/ cfgAt' = "write" /\ rb' = Cfg!NoRead
  <2>1. CASE differs = <<>>
    <3>1. Cfg!Reads("signals", Signals) /\ "signals" \in Subjects /\ todo' = todo
      BY <1>2, <2>1 DEF Subjects
    <3> QED
      BY <1>1, <3>1, Reading, ProfileFacts DEF CfgType
  <2>2. CASE differs # <<>>
    BY <1>2, <1>4, <2>2, NoReadFacts
  <2> QED
    BY <2>1, <2>2
<1>6. RefusedInv' /\ TodoInv'
  <2>1. TodoInv'
    <3>1. CASE differs = <<>>
      BY <1>2, <3>1 DEF Cfg!Reads, TodoInv
    <3>2. CASE differs # <<>>
      BY <1>2, <1>4, <3>2 DEF TodoInv
    <3> QED
      BY <3>1, <3>2
  <2> QED
    BY <1>1, <1>2, <2>1 DEF RefusedInv
<1>7. cfgOwed' \in Seq(TrueReplies') /\ cfgOwed' \in Seq(Replies) /\ FaultType' /\ ram' \in [Cfg!Keys -> BOOLEAN]
  BY <1>1, <1>2, Silent
<1> QED
  BY <1>1, <1>2, <1>3, <1>5, <1>6, <1>7, GoesHonest DEF CfgType, Stands

LEMMA Joined ==
  ASSUME NEW K, NEW ss \in Seq(Seq(K)), NEW tt \in Seq(Seq(K))
  PROVE  ss \o tt \in Seq(Seq(K))
OBVIOUS

LEMMA PartsRest ==
  ASSUME NEW K, NEW ks, NEW ss \in Seq(Seq(K)), ss # <<>>, PartsOf(ss, ks)
  PROVE  Head(ss) # <<>> /\ Cfg!Range(Head(ss)) \subseteq ks /\ PartsOf(Tail(ss), ks)
<1>1. /\ Len(ss) \in Nat \ {0} /\ Head(ss) = ss[1] /\ Len(Tail(ss)) = Len(ss) - 1
      /\ \A n \in 1 .. Len(Tail(ss)) : Tail(ss)[n] = ss[n + 1]
  OBVIOUS
<1> QED
  BY <1>1 DEF PartsOf

LEMMA CoversRest ==
  ASSUME NEW K, NEW ss \in Seq(Seq(K)), ss # <<>>, NEW ls, Covers(ss, ls), NEW k \in ls
  PROVE  k \in Cfg!Range(Head(ss)) \/ \E n \in 1 .. Len(Tail(ss)) : k \in Cfg!Range(Tail(ss)[n])
<1>1. /\ Len(ss) \in Nat \ {0} /\ Head(ss) = ss[1] /\ Len(Tail(ss)) = Len(ss) - 1
      /\ \A n \in 1 .. Len(Tail(ss)) : Tail(ss)[n] = ss[n + 1]
  OBVIOUS
<1>2. PICK n \in 1 .. Len(ss) : k \in Cfg!Range(ss[n])
  BY DEF Covers
<1>3. CASE n = 1
  BY <1>1, <1>2, <1>3
<1>4. CASE n # 1
  <2>1. n - 1 \in 1 .. Len(Tail(ss)) /\ (n - 1) + 1 = n
    BY <1>1, <1>4
  <2>2. Tail(ss)[n - 1] = ss[n]
    BY <1>1, <2>1
  <2> QED
    BY <1>2, <2>1, <2>2
<1> QED
  BY <1>3, <1>4

LEMMA PartsJoined ==
  ASSUME NEW K, NEW ks, NEW ss \in Seq(Seq(K)), NEW tt \in Seq(Seq(K)), PartsOf(ss, ks), PartsOf(tt, ks)
  PROVE  /\ PartsOf(ss \o tt, ks)
         /\ \A k, n : n \in 1 .. Len(ss) /\ k \in Cfg!Range(ss[n]) =>
              \E m \in 1 .. Len(ss \o tt) : k \in Cfg!Range((ss \o tt)[m])
         /\ \A k, n : n \in 1 .. Len(tt) /\ k \in Cfg!Range(tt[n]) =>
              \E m \in 1 .. Len(ss \o tt) : k \in Cfg!Range((ss \o tt)[m])
<1> DEFINE j == ss \o tt
<1>1. /\ Len(j) = Len(ss) + Len(tt) /\ Len(ss) \in Nat /\ Len(tt) \in Nat
      /\ \A n \in 1 .. Len(ss) : j[n] = ss[n]
      /\ \A n \in 1 .. Len(tt) : j[Len(ss) + n] = tt[n]
      /\ \A n \in 1 .. Len(j) : n \in 1 .. Len(ss) \/ (n - Len(ss) \in 1 .. Len(tt) /\ j[n] = tt[n - Len(ss)])
  OBVIOUS
<1> HIDE DEF j
<1>2. ASSUME NEW n \in 1 .. Len(j) PROVE j[n] # <<>> /\ Cfg!Range(j[n]) \subseteq ks
  <2>1. CASE n \in 1 .. Len(ss)
    BY <1>1, <2>1 DEF PartsOf
  <2>2. CASE n - Len(ss) \in 1 .. Len(tt) /\ j[n] = tt[n - Len(ss)]
    BY <2>2 DEF PartsOf
  <2> QED
    BY <1>1, <2>1, <2>2
<1>3. ASSUME NEW k, NEW n \in 1 .. Len(ss), k \in Cfg!Range(ss[n])
      PROVE  \E m \in 1 .. Len(j) : k \in Cfg!Range(j[m])
  <2>1. n \in 1 .. Len(j) /\ j[n] = ss[n]
    BY <1>1
  <2> QED
    BY <1>3, <2>1
<1>4. ASSUME NEW k, NEW n \in 1 .. Len(tt), k \in Cfg!Range(tt[n])
      PROVE  \E m \in 1 .. Len(j) : k \in Cfg!Range(j[m])
  <2>1. Len(ss) + n \in 1 .. Len(j) /\ j[Len(ss) + n] = tt[n]
    BY <1>1
  <2> QED
    BY <1>4, <2>1
<1> QED
  BY <1>2, <1>3, <1>4 DEF PartsOf, j

LEMMA HonestWriteCore ==
  ASSUME HonestInv, Cfg!WellFormed, cfgPlan' = cfgPlan, Cfg!WriteCore
  PROVE  HonestInv'
<1> DEFINE s == Head(todo)
<1>1. CfgType /\ HeardInv /\ cfgAt = "write" /\ todo # <<>> /\ rb = Cfg!NoRead
  BY DEF HonestInv, Cfg!WriteCore, StandInv
<1>2. PICK o \in Cfg!valset(Cfg!Range(s)) :
         /\ Cfg!Pays(o) /\ Cfg!Writes(o)
         /\ o.verdict # "timeout"
         /\ todo' = (IF o.verdict = "nak" THEN Cfg!bisect(s) ELSE <<>>) \o Tail(todo)
         /\ rejected' = rejected \cup
              (IF o.verdict = "nak" /\ Len(s) = 1 THEN {s[1]} ELSE {})
  BY DEF Cfg!WriteCore
<1>3. UNCHANGED <<fw, cfgAt, i, attempt, naks, rb, unsupported, seen, once, round, result, pending>>
  BY DEF Cfg!WriteCore, Cfg!count, Cfg!kept
<1>4. /\ s \in Seq(Cfg!Keys) /\ Tail(todo) \in Seq(Seq(Cfg!Keys)) /\ Cfg!Range(s) \in SUBSET Cfg!Keys
      /\ s # <<>> /\ Cfg!Range(s) \subseteq pending /\ PartsOf(Tail(todo), pending)
      /\ pending \subseteq Cfg!Required
  <2>1. todo \in Seq(Seq(Cfg!Keys)) /\ PartsOf(todo, pending) /\ pending \subseteq Cfg!Required
    BY <1>1 DEF HonestInv, TodoInv, CfgType
  <2> QED
    BY <1>1, <2>1, FirstOf, PartsRest
<1> HIDE DEF s
<1>5. cfgOwed' \in Seq(TrueReplies') /\ cfgOwed' \in Seq(Replies) /\ FaultType' /\ ram' \in [Cfg!Keys -> BOOLEAN]
  BY <1>1, <1>2, <1>4, TrueSet
<1>6. /\ Cfg!bisect(s) \in Seq(Seq(Cfg!Keys)) /\ PartsOf(Cfg!bisect(s), pending)
      /\ Len(s) = 1 => s[1] \in Cfg!Required
  <2>1. /\ Cfg!bisect(s) \in Seq(Seq(Cfg!Keys)) /\ PartsOf(Cfg!bisect(s), Cfg!Range(s))
        /\ Len(s) = 1 => Cfg!Range(s) = {s[1]}
    BY <1>4, Halves
  <2> QED
    BY <1>4, <2>1 DEF PartsOf
<1>7. todo' \in Seq(Seq(Cfg!Keys)) /\ rejected' \in SUBSET Cfg!Required
  <2>1. <<>> \in Seq(Seq(Cfg!Keys))
    OBVIOUS
  <2>2. todo' \in Seq(Seq(Cfg!Keys))
    BY <1>2, <1>4, <1>6, <2>1, Joined
  <2>3. rejected' \in SUBSET Cfg!Required
    BY <1>1, <1>2, <1>6 DEF CfgType
  <2> QED
    BY <2>2, <2>3
<1>8. RefusedInv' /\ TodoInv'
  <2>1. <<>> \in Seq(Seq(Cfg!Keys)) /\ PartsOf(<<>>, pending)
    BY DEF PartsOf
  <2>2. PartsOf(todo', pending)
    BY <1>2, <1>4, <1>6, <2>1, PartsJoined
  <2> QED
    BY <1>1, <1>3, <2>2 DEF RefusedInv, Unwritten, Further, TodoInv
<1>9. rb' \in Readbacks /\ rb'.good = {} /\ rb' = Cfg!NoRead
  BY <1>1, <1>3, NoReadFacts
<1> QED
  BY <1>1, <1>3, <1>5, <1>7, <1>8, <1>9, GoesHonest DEF CfgType, Stands

LEMMA HonestWriteTimesOut ==
  ASSUME HonestInv, Cfg!WellFormed, cfgPlan' = cfgPlan, Cfg!WriteTimesOut
  PROVE  HonestInv'
<1> DEFINE ks == IF cfgAt = "write" THEN Cfg!Range(Head(todo)) ELSE Cfg!Range(Signals)
<1>1. CfgType /\ HeardInv /\ (cfgAt = "write" => todo # <<>>)
  BY DEF HonestInv, Cfg!WriteTimesOut
<1>2. PICK o \in Cfg!valset(ks) : Cfg!Pays(o) /\ Cfg!Writes(o)
  BY DEF Cfg!WriteTimesOut
<1>3. ks \in SUBSET Cfg!Keys
  <2>1. todo # <<>> => Cfg!Range(Head(todo)) \in SUBSET Cfg!Keys
    BY <1>1, FirstOf DEF CfgType
  <2>2. Cfg!Range(Signals) \in SUBSET Cfg!Keys
    BY ProfileFacts
  <2> QED
    BY <1>1, <2>1, <2>2
<1> HIDE DEF ks
<1>4. cfgOwed' \in Seq(TrueReplies') /\ cfgOwed' \in Seq(Replies) /\ FaultType' /\ ram' \in [Cfg!Keys -> BOOLEAN]
  BY <1>1, <1>2, <1>3, TrueSet
<1>5. Cfg!Ends("timeout") /\ UNCHANGED <<fw, i, attempt, naks, rejected, unsupported, pending>>
  BY DEF Cfg!WriteTimesOut, Cfg!count, Cfg!found
<1> QED
  BY <1>4, <1>5, EndsHonest

LEMMA HonestCoreWritten ==
  ASSUME HonestInv, Cfg!WellFormed, cfgPlan' = cfgPlan, Cfg!CoreWritten
  PROVE  HonestInv'
<1>1. CfgType /\ HeardInv /\ cfgAt = "write"
  BY DEF HonestInv, Cfg!CoreWritten
<1>2. UNCHANGED <<fw, ram, cfgOwed, left, i, attempt, naks, rejected, unsupported, pending>>
  BY DEF Cfg!CoreWritten, Cfg!wire, Cfg!count, Cfg!found
<1>3. CASE Cfg!Ends("profile")
  BY <1>2, <1>3, StillEndsHonest
<1>4. CASE /\ rejected = {} \/ ~cfgPlan.strict
           /\ Cfg!Reads("signals", Signals)
           /\ UNCHANGED <<Cfg!kept, todo, result>>
  <2>1. cfgAt' = "read" /\ rb' \in Readbacks /\ rb'.of = "signals" /\ rb'.good = {}
    <3>1. "signals" \in Subjects /\ Signals \in Seq(Cfg!Keys)
      BY ProfileFacts DEF Subjects
    <3> QED
      BY <1>4, <3>1, Reading
  <2>2. RefusedInv' /\ TodoInv'
    BY <1>2, <1>4, <2>1 DEF RefusedInv, Unwritten, Further, TodoInv
  <2>3. cfgOwed' \in Seq(TrueReplies') /\ cfgOwed' \in Seq(Replies) /\ FaultType' /\ ram' \in [Cfg!Keys -> BOOLEAN]
    BY <1>1, <1>2, Silent
  <2> QED
    BY <1>1, <1>2, <1>4, <2>1, <2>2, <2>3, GoesHonest DEF CfgType, Stands, Subjects, Cfg!kept
<1> QED
  BY <1>3, <1>4 DEF Cfg!CoreWritten

(* The next feature, or the verification. *)
LEMMA NextFeature ==
  ASSUME CfgType, Cfg!WellFormed, NEW n \in 1 .. Len(Features) + 1, Cfg!OptionalFrom(n)
  PROVE  /\ i' \in 1 .. Len(Features) /\ cfgAt' = "read" /\ rb' \in Readbacks /\ rb'.good = {}
         /\ rb'.lost = {} /\ rb'.ones = <<>>
         /\ \/ rb'.of = "verify" /\ Covers(rb'.chunks, Cfg!Required \ rejected)
            \/ rb'.of = "optional"
<1> DEFINE rest == {j \in n .. Len(Features) : Features[j] \notin unsupported}
<1>1. Len(Features) \in Nat \ {0}
  BY ProfileFacts
<1>2. CASE rest = {}
  <2>1. i' = 1 /\ Cfg!Reads("verify", Cfg!Wanted)
    BY <1>2 DEF Cfg!OptionalFrom
  <2>2. "verify" \in Subjects /\ Cfg!Wanted \in Seq(Cfg!Keys)
        /\ Cfg!Range(Cfg!Wanted) = Cfg!Required \ rejected
    BY WantedFacts DEF Subjects
  <2>3. /\ cfgAt' = "read" /\ rb' \in Readbacks /\ rb'.good = {} /\ rb'.lost = {} /\ rb'.ones = <<>>
        /\ rb'.of = "verify" /\ Covers(rb'.chunks, Cfg!Required \ rejected)
    BY <2>1, <2>2, Reading
  <2>4. i' \in 1 .. Len(Features)
    BY <1>1, <2>1
  <2> QED
    BY <2>3, <2>4
<1>3. CASE rest # {}
  <2> DEFINE m == Cfg!Min(rest)
  <2>1. i' = m /\ Cfg!Reads("optional", <<Features[m]>>)
    BY <1>3 DEF Cfg!OptionalFrom
  <2>2. m \in rest
    <3>1. rest \in SUBSET Nat
      BY <1>1
    <3> QED
      BY <1>3, <3>1, Minimum
  <2>3. m \in 1 .. Len(Features)
    BY <1>1, <2>2
  <2> HIDE DEF m, rest
  <2>4. <<Features[m]>> \in Seq(Cfg!Keys) /\ "optional" \in Subjects
    BY <2>3, ProfileFacts DEF Subjects
  <2> QED
    BY <2>1, <2>3, <2>4, Reading
<1> QED
  BY <1>2, <1>3

(* What a step that goes on to the next feature leaves. *)
LEMMA FeatureHonest ==
  ASSUME HonestInv, Cfg!WellFormed, cfgPlan' = cfgPlan, fw' = fw, cfgAt # "done", ~Unwritten,
         cfgAt # "write",
         result' = result, NEW n \in 1 .. Len(Features) + 1, Cfg!OptionalFrom(n),
         FaultType', ram' \in [Cfg!Keys -> BOOLEAN],
         cfgOwed' \in Seq(Replies), cfgOwed' \in Seq(TrueReplies'),
         attempt' \in Nat \ {0}, UNCHANGED <<naks, todo, rejected, seen, once, pending>>,
         unsupported' \in SUBSET Cfg!Optional
  PROVE  HonestInv'
<1>1. CfgType
  BY DEF HonestInv
<1>2. /\ i' \in 1 .. Len(Features) /\ cfgAt' = "read" /\ rb' \in Readbacks /\ rb'.good = {}
      /\ rb'.of \in {"verify", "optional"}
  BY <1>1, NextFeature
<1>3. cfgPlan.strict => rejected = {}
  BY DEF HonestInv, StandInv, Stands, RefusedInv, Unwritten, Further
<1>4. RefusedInv' /\ TodoInv'
  BY <1>2, <1>3 DEF RefusedInv, Unwritten, Further, TodoInv
<1> QED
  BY <1>1, <1>2, <1>4, GoesHonest DEF CfgType, Stands, Subjects

LEMMA HonestSignalsRead ==
  ASSUME HonestInv, Cfg!WellFormed, cfgPlan' = cfgPlan, Cfg!SignalsRead
  PROVE  HonestInv'
<1>1. CfgType /\ HeardInv /\ cfgAt = "read" /\ rb.of = "signals"
  BY DEF HonestInv, Cfg!SignalsRead, Cfg!ReadOver
<1>2. UNCHANGED <<fw, ram, cfgOwed, left, attempt, naks, todo, rejected, unsupported, seen, once, round, result, pending>>
  BY DEF Cfg!SignalsRead, Cfg!wire, Cfg!found, Cfg!kept
<1>3. cfgOwed' \in Seq(TrueReplies') /\ cfgOwed' \in Seq(Replies) /\ FaultType' /\ ram' \in [Cfg!Keys -> BOOLEAN]
  BY <1>1, <1>2, Silent
<1>4. attempt' \in Nat \ {0} /\ unsupported' \in SUBSET Cfg!Optional
  BY <1>1, <1>2 DEF CfgType
<1>5. CASE Cfg!OptionalFrom(1)
  <2>1. 1 \in 1 .. Len(Features) + 1 /\ ~Unwritten
    BY <1>1, ProfileFacts DEF Unwritten
  <2> QED
    BY <1>1, <1>2, <1>3, <1>4, <1>5, <2>1, FeatureHonest
<1>6. CASE cfgAt' = "signals" /\ rb' = Cfg!NoRead /\ UNCHANGED i
  <2>1. rb' \in Readbacks /\ rb'.good = {}
    BY <1>6, NoReadFacts
  <2>2. RefusedInv' /\ TodoInv'
    BY <1>1, <1>2, <1>6 DEF HonestInv, RefusedInv, Unwritten, Further, TodoInv
  <2> QED
    BY <1>1, <1>2, <1>3, <1>6, <2>1, <2>2, GoesHonest DEF CfgType, Stands
<1> QED
  BY <1>5, <1>6 DEF Cfg!SignalsRead

LEMMA HonestWriteSignals ==
  ASSUME HonestInv, Cfg!WellFormed, cfgPlan' = cfgPlan, Cfg!WriteSignals
  PROVE  HonestInv'
<1>1. CfgType /\ HeardInv /\ cfgAt = "signals"
  BY DEF HonestInv, Cfg!WriteSignals
<1>2. PICK o \in Cfg!valset(Cfg!Range(Signals)) :
         /\ Cfg!Pays(o) /\ Cfg!Writes(o)
         /\ \/ /\ o.verdict = "nak"
               /\ Cfg!Ends("profile") /\ UNCHANGED i
            \/ /\ o.verdict = "ack"
               /\ Cfg!OptionalFrom(1)
               /\ UNCHANGED <<todo, Cfg!kept, result>>
  BY DEF Cfg!WriteSignals
<1>3. UNCHANGED <<fw, attempt, naks, rejected, unsupported, pending>>
  BY DEF Cfg!WriteSignals, Cfg!found
<1>4. cfgOwed' \in Seq(TrueReplies') /\ cfgOwed' \in Seq(Replies) /\ FaultType' /\ ram' \in [Cfg!Keys -> BOOLEAN]
  <2>1. Cfg!Range(Signals) \in SUBSET Cfg!Keys
    BY ProfileFacts
  <2> QED
    BY <1>1, <1>2, <2>1, TrueSet
<1>5. CASE Cfg!Ends("profile") /\ UNCHANGED i
  BY <1>3, <1>4, <1>5, EndsHonest
<1>6. CASE Cfg!OptionalFrom(1) /\ UNCHANGED <<todo, Cfg!kept, result>>
  <2>1. 1 \in 1 .. Len(Features) + 1 /\ ~Unwritten
    BY <1>1, ProfileFacts DEF Unwritten
  <2>2. attempt' \in Nat \ {0} /\ unsupported' \in SUBSET Cfg!Optional
    BY <1>1, <1>3 DEF CfgType
  <2> QED
    BY <1>1, <1>3, <1>4, <1>6, <2>1, <2>2, FeatureHonest DEF Cfg!kept
<1> QED
  BY <1>2, <1>5, <1>6

LEMMA HonestOptionalRead ==
  ASSUME HonestInv, Cfg!WellFormed, cfgPlan' = cfgPlan, Cfg!OptionalRead
  PROVE  HonestInv'
<1>1. CfgType /\ HeardInv /\ cfgAt = "read" /\ rb.of = "optional"
  BY DEF HonestInv, Cfg!OptionalRead, Cfg!ReadOver
<1>2. UNCHANGED <<fw, ram, cfgOwed, left, attempt, naks, todo, rejected, unsupported, seen, once, round, result, pending>>
  BY DEF Cfg!OptionalRead, Cfg!wire, Cfg!found, Cfg!kept
<1>3. cfgOwed' \in Seq(TrueReplies') /\ cfgOwed' \in Seq(Replies) /\ FaultType' /\ ram' \in [Cfg!Keys -> BOOLEAN]
  BY <1>1, <1>2, Silent
<1>4. attempt' \in Nat \ {0} /\ unsupported' \in SUBSET Cfg!Optional
  BY <1>1, <1>2 DEF CfgType
<1>5. CASE Cfg!OptionalFrom(i + 1)
  <2>1. i + 1 \in 1 .. Len(Features) + 1 /\ ~Unwritten
    BY <1>1, ProfileFacts DEF Unwritten, CfgType
  <2> QED
    BY <1>1, <1>2, <1>3, <1>4, <1>5, <2>1, FeatureHonest
<1>6. CASE cfgAt' = "optional" /\ rb' = Cfg!NoRead /\ UNCHANGED i
  <2>1. rb' \in Readbacks /\ rb'.good = {}
    BY <1>6, NoReadFacts
  <2>2. RefusedInv' /\ TodoInv'
    BY <1>1, <1>2, <1>6 DEF HonestInv, RefusedInv, Unwritten, Further, TodoInv
  <2> QED
    BY <1>1, <1>2, <1>3, <1>6, <2>1, <2>2, GoesHonest DEF CfgType, Stands
<1> QED
  BY <1>5, <1>6 DEF Cfg!OptionalRead

LEMMA HonestWriteOptional ==
  ASSUME HonestInv, Cfg!WellFormed, cfgPlan' = cfgPlan, Cfg!WriteOptional
  PROVE  HonestInv'
<1>1. CfgType /\ HeardInv /\ cfgAt = "optional" /\ rb = Cfg!NoRead
  BY DEF HonestInv, Cfg!WriteOptional, StandInv
<1>2. PICK o \in Cfg!valset({Features[i]}) :
       /\ Cfg!Pays(o) /\ Cfg!Writes(o)
       /\ \/ /\ o.verdict = "timeout" /\ attempt = 1 /\ ~Cfg!Demotes(o)
             /\ attempt' = 2
             /\ UNCHANGED <<cfgAt, i, rb, unsupported>>
          \/ /\ o.verdict # "timeout" \/ attempt = 2 \/ Cfg!Demotes(o)
             /\ attempt' = 1
             /\ unsupported' = unsupported \cup (IF Cfg!Demotes(o) THEN {Features[i]} ELSE {})
             /\ Cfg!OptionalFrom(i + 1)
  BY DEF Cfg!WriteOptional
<1>3. UNCHANGED <<fw, naks, todo, rejected, seen, once, round, result, pending>>
  BY DEF Cfg!WriteOptional, Cfg!kept
<1>4. Features[i] \in Cfg!Optional /\ {Features[i]} \in SUBSET Cfg!Keys /\ i + 1 \in 1 .. Len(Features) + 1
  BY <1>1, ProfileFacts DEF CfgType
<1>5. cfgOwed' \in Seq(TrueReplies') /\ cfgOwed' \in Seq(Replies) /\ FaultType' /\ ram' \in [Cfg!Keys -> BOOLEAN]
  BY <1>1, <1>2, <1>4, TrueSet
<1>6. CASE attempt' = 2 /\ UNCHANGED <<cfgAt, i, rb, unsupported>>
  <2>1. rb' \in Readbacks /\ rb'.good = {}
    BY <1>1, <1>6, NoReadFacts
  <2>2. RefusedInv' /\ TodoInv'
    BY <1>1, <1>3, <1>6 DEF HonestInv, RefusedInv, Unwritten, Further, TodoInv
  <2> QED
    BY <1>1, <1>3, <1>5, <1>6, <2>1, <2>2, GoesHonest DEF CfgType, Stands
<1>7. CASE /\ attempt' = 1 /\ Cfg!OptionalFrom(i + 1)
           /\ unsupported' = unsupported \cup (IF Cfg!Demotes(o) THEN {Features[i]} ELSE {})
  <2>1. unsupported' \in SUBSET Cfg!Optional
    BY <1>1, <1>4, <1>7 DEF CfgType
  <2>2. ~Unwritten
    BY <1>1 DEF Unwritten
  <2> QED
    BY <1>1, <1>3, <1>4, <1>5, <1>7, <2>1, <2>2, FeatureHonest
<1> QED
  BY <1>2, <1>6, <1>7

(* A verification that finds every key wanted is right. *)
LEMMA HonestVerifyOk ==
  ASSUME HonestInv, Cfg!WellFormed, cfgPlan' = cfgPlan, Cfg!VerifyOk
  PROVE  HonestInv'
<1>1. CfgType /\ HeardInv /\ cfgAt = "read" /\ rb.of = "verify" /\ Cfg!Mismatches = {}
  BY DEF HonestInv, Cfg!VerifyOk, Cfg!Verified, Cfg!ReadOver
<1>2. UNCHANGED <<fw, ram, cfgOwed, left, i, attempt, naks, rejected, unsupported, pending>>
  BY DEF Cfg!VerifyOk, Cfg!wire, Cfg!count, Cfg!found
<1>3. /\ cfgAt' = "done" /\ result' = "ok" /\ rb' = Cfg!NoRead /\ todo' = <<>> /\ seen' = seen
      /\ once' = TRUE
  BY DEF Cfg!VerifyOk, Cfg!Ends
<1>4. Cfg!VerifiedHolds'
  <2>1. cfgPlan.strict => rejected = {}
    BY <1>1 DEF HonestInv, RefusedInv, Further
  <2>2. \A k \in Cfg!Required \ rejected : k \in rb.good
    BY <1>1, WantedFacts DEF Cfg!Mismatches
  <2>3. \A k \in Cfg!Required \ rejected : ram[k]
    BY <1>1, <2>2 DEF HeardInv
  <2> QED
    BY <1>2, <2>1, <2>3 DEF Cfg!VerifiedHolds
<1>5. rb' \in Readbacks /\ rb'.good = {} /\ once' \in BOOLEAN /\ todo' \in Seq(Seq(Cfg!Keys))
  BY <1>3, NoReadFacts
<1>6. cfgOwed' \in Seq(TrueReplies') /\ cfgOwed' \in Seq(Replies) /\ FaultType' /\ ram' \in [Cfg!Keys -> BOOLEAN]
  BY <1>1, <1>2, Silent
<1>7. CfgType'
  BY <1>1, <1>2, <1>3, <1>5, <1>6 DEF CfgType
<1>8. StandInv' /\ RefusedInv' /\ TodoInv'
  BY <1>3 DEF StandInv, Stands, RefusedInv, Unwritten, Further, TodoInv
<1>9. HeardInv'
  BY <1>5, <1>6 DEF HeardInv
<1> QED
  BY <1>4, <1>7, <1>8, <1>9 DEF HonestInv

LEMMA HonestVerifyFails ==
  ASSUME HonestInv, Cfg!WellFormed, cfgPlan' = cfgPlan, Cfg!VerifyRefuted \/ Cfg!VerifyUnanswered
  PROVE  HonestInv'
<1>1. UNCHANGED <<fw, ram, cfgOwed, left, i, attempt, naks, rejected, unsupported, pending>>
  BY DEF Cfg!VerifyRefuted, Cfg!VerifyUnanswered, Cfg!wire, Cfg!count, Cfg!found
<1>2. \E r \in {"profile", "timeout", "unanswered"} : Cfg!Ends(r)
  BY DEF Cfg!VerifyRefuted, Cfg!VerifyUnanswered
<1> QED
  BY <1>1, <1>2, StillEndsHonest

LEMMA HonestVerifyAgain ==
  ASSUME HonestInv, Cfg!WellFormed, cfgPlan' = cfgPlan, Cfg!VerifyAgain
  PROVE  HonestInv'
<1>1. CfgType /\ HeardInv /\ cfgAt = "read" /\ rb.of = "verify"
  BY DEF HonestInv, Cfg!VerifyAgain, Cfg!ReadOver
<1>2. /\ UNCHANGED <<fw, ram, left, i, naks, todo, rejected, unsupported, seen, once, round, result, pending>>
      /\ cfgOwed' = <<>> /\ attempt' = attempt + 1 /\ Cfg!Reads("verify", Cfg!Wanted)
  BY DEF Cfg!VerifyAgain, Cfg!found, Cfg!kept
<1>3. cfgAt' = "read" /\ rb' \in Readbacks /\ rb'.good = {} /\ rb'.of = "verify" /\ "verify" \in Subjects
  <2>1. "verify" \in Subjects /\ Cfg!Wanted \in Seq(Cfg!Keys)
    BY WantedFacts DEF Subjects
  <2> QED
    BY <1>2, <2>1, Reading
<1>4. /\ cfgOwed' \in Seq(TrueReplies') /\ cfgOwed' \in Seq(Replies) /\ FaultType'
      /\ ram' \in [Cfg!Keys -> BOOLEAN] /\ attempt' \in Nat \ {0}
  BY <1>1, <1>2 DEF CfgType, FaultType
<1>5. RefusedInv' /\ TodoInv'
  BY <1>1, <1>2, <1>3 DEF HonestInv, RefusedInv, Unwritten, Further, TodoInv
<1> QED
  BY <1>1, <1>2, <1>3, <1>4, <1>5, GoesHonest DEF CfgType, Stands

LEMMA HonestAgain ==
  ASSUME HonestInv, Cfg!WellFormed, cfgPlan' = cfgPlan, Cfg!Again
  PROVE  HonestInv'
<1>1. CfgType /\ rb = Cfg!NoRead
  BY DEF HonestInv, StandInv, Cfg!Again
<1>2. /\ ram' \in {ram, [k \in Cfg!Keys |-> FALSE]}
      /\ cfgOwed' = <<>> /\ cfgAt' = "probe" /\ i' = 1 /\ attempt' = 1 /\ naks' = 0
      /\ rejected' = {} /\ unsupported' = {} /\ result' = "none" /\ pending' = {}
      /\ UNCHANGED <<fw, left, rb, todo, seen, once>>
  BY DEF Cfg!Again
<1>3. ram' \in [Cfg!Keys -> BOOLEAN]
  BY <1>1, <1>2 DEF CfgType
<1>4. cfgOwed' \in Seq(TrueReplies') /\ cfgOwed' \in Seq(Replies) /\ FaultType'
  BY <1>1, <1>2 DEF CfgType, FaultType
<1>5. rb' \in Readbacks /\ rb'.good = {} /\ 1 \in 1 .. Len(Features)
  BY <1>1, <1>2, NoReadFacts, ProfileFacts
<1>6. CfgType'
  BY <1>1, <1>2, <1>3, <1>4, <1>5 DEF CfgType
<1>7. StandInv' /\ RefusedInv' /\ TodoInv'
  BY <1>1, <1>2 DEF StandInv, Stands, RefusedInv, Further, TodoInv
<1>8. HeardInv' /\ Cfg!VerifiedHolds'
  BY <1>2, <1>4, <1>5 DEF HeardInv, Cfg!VerifiedHolds
<1> QED
  BY <1>6, <1>7, <1>8 DEF HonestInv

LEMMA HonestStep ==
  ASSUME HonestInv, Cfg!WellFormed, [Cfg!Next]_(Cfg!vars)
  PROVE  HonestInv'
<1>1. CASE UNCHANGED Cfg!vars
  BY <1>1, Still
<1>2. CASE Cfg!Next
  <2>1. cfgPlan' = cfgPlan
    BY <1>2 DEF Cfg!Next
  <2> QED
    BY <1>2, <2>1, HonestProbe, HonestProbeStale, HonestReadChunk, HonestReadOne, HonestReadTimesOut,
       HonestCoreRead, HonestWriteCore, HonestWriteTimesOut, HonestCoreWritten, HonestSignalsRead,
       HonestWriteSignals, HonestOptionalRead, HonestWriteOptional, HonestVerifyOk,
       HonestVerifyFails, HonestVerifyAgain, HonestAgain DEF Cfg!Next
<1> QED
  BY <1>1, <1>2

-----------------------------------------------------------------------------
(* Bisecting finds what is refused. *)

(* Every answer so far is the request's own. *)
NoStray == left["stray"] = cfgPlan.stray

(* What bisecting has found, and what it has still to look at. *)
BisectInv ==
  NoStray =>
    /\ \A k \in rejected : fw[k] # "ok"
    /\ cfgAt = "write" =>
         /\ rejected \subseteq pending
         /\ \A k \in pending : \/ k \in rejected
                               \/ fw[k] = "ok" /\ ram[k]
                               \/ \E n \in 1 .. Len(todo) : k \in Cfg!Range(todo[n])

LEMMA DotFacts ==
  ASSUME CfgType, Cfg!WellFormed
  PROVE  left.stray = left["stray"] /\ left.late = left["late"] /\ left.lost = left["lost"]
OBVIOUS

LEMMA BisectShows ==
  ASSUME CfgType, Cfg!WellFormed, BisectInv
  PROVE  Cfg!BisectExact
<1> SUFFICES ASSUME cfgAt = "write", todo = <<>>, left.stray = cfgPlan.stray
             PROVE  /\ rejected = {k \in pending : fw[k] # "ok"}
                    /\ \A k \in pending \ rejected : ram[k]
  BY DEF Cfg!BisectExact
<1>1. NoStray
  BY DotFacts DEF NoStray
<1>2. /\ \A k \in rejected : fw[k] # "ok"
      /\ rejected \subseteq pending
      /\ \A k \in pending : k \in rejected \/ (fw[k] = "ok" /\ ram[k])
  BY <1>1 DEF BisectInv
<1> QED
  BY <1>2

(* A stray answer stays spent. *)
LEMMA StraysStay ==
  ASSUME CfgType, Cfg!WellFormed, Spent("stray"), cfgPlan' = cfgPlan
  PROVE  ~NoStray'
<1>1. left' = [left EXCEPT !["stray"] = left["stray"] - 1] /\ left["stray"] > 0
  BY DEF Spent
<1>2. left \in [Faults -> Nat] /\ left["stray"] <= cfgPlan.stray /\ cfgPlan.stray \in Nat
  BY DEF CfgType, FaultType, Cfg!WellFormed
<1>3. left'["stray"] = left["stray"] - 1 /\ left["stray"] \in Nat
  BY <1>1, <1>2 DEF Faults
<1> QED
  BY <1>2, <1>3 DEF NoStray

(* Nor does any other step take one back. *)
LEMMA StraysFall ==
  ASSUME CfgType, Cfg!WellFormed, cfgPlan' = cfgPlan, NEW o, Cfg!Pays(o), NoStray'
  PROVE  NoStray /\ ~Spent("stray")
<1>1. ~Spent("stray")
  BY StraysStay
<1>2. left \in [Faults -> Nat]
  BY DEF CfgType, FaultType
<1>3. left' = left \/ \E c \in Faults : left' = [left EXCEPT ![c] = left[c] - 1] /\ left[c] > 0
  BY <1>2 DEF Cfg!Pays
<1>4. CASE left' = left
  BY <1>1, <1>4 DEF NoStray
<1>5. CASE \E c \in Faults : left' = [left EXCEPT ![c] = left[c] - 1] /\ left[c] > 0
  <2>1. PICK c \in Faults : Spent(c)
    BY <1>5 DEF Spent
  <2>2. c # "stray"
    BY <1>1, <2>1
  <2>3. left'["stray"] = left["stray"]
    BY <1>2, <2>1, <2>2 DEF Spent, Faults
  <2> QED
    BY <1>1, <2>3 DEF NoStray
<1> QED
  BY <1>3, <1>4, <1>5

LEMMA NoStrayBefore ==
  ASSUME CfgType, Cfg!WellFormed, cfgPlan' = cfgPlan, Cfg!Next, NoStray'
  PROVE  NoStray
<1>1. ASSUME left' = left PROVE NoStray
  BY <1>1 DEF NoStray
<1>2. CASE Cfg!Probe
  BY <1>2, StraysFall DEF Cfg!Probe
<1>3. CASE Cfg!ProbeStale
  BY <1>3, StraysFall DEF Cfg!ProbeStale
<1>4. CASE Cfg!ReadChunk
  BY <1>4, StraysFall DEF Cfg!ReadChunk
<1>5. CASE Cfg!ReadOne
  BY <1>5, StraysFall DEF Cfg!ReadOne
<1>6. CASE Cfg!ReadTimesOut
  BY <1>6, StraysFall DEF Cfg!ReadTimesOut
<1>7. CASE Cfg!WriteCore
  BY <1>7, StraysFall DEF Cfg!WriteCore
<1>8. CASE Cfg!WriteTimesOut
  BY <1>8, StraysFall DEF Cfg!WriteTimesOut
<1>9. CASE Cfg!WriteSignals
  BY <1>9, StraysFall DEF Cfg!WriteSignals
<1>10. CASE Cfg!WriteOptional
  BY <1>10, StraysFall DEF Cfg!WriteOptional
<1>11. CASE \/ Cfg!CoreRead \/ Cfg!CoreWritten \/ Cfg!SignalsRead \/ Cfg!OptionalRead
            \/ Cfg!VerifyOk \/ Cfg!VerifyRefuted \/ Cfg!VerifyUnanswered
            \/ Cfg!VerifyAgain \/ Cfg!Again
  <2>1. left' = left
    BY <1>11 DEF Cfg!CoreRead, Cfg!CoreWritten, Cfg!SignalsRead, Cfg!OptionalRead, Cfg!VerifyOk,
       Cfg!VerifyRefuted, Cfg!VerifyUnanswered, Cfg!VerifyAgain, Cfg!Again, Cfg!wire
  <2> QED
    BY <1>1, <2>1
<1> QED
  BY <1>2, <1>3, <1>4, <1>5, <1>6, <1>7, <1>8, <1>9, <1>10, <1>11 DEF Cfg!Next

(* Where nothing is written of the core, nothing more is found. *)
LEMMA BisectElsewhere ==
  ASSUME BisectInv, NoStray' => NoStray, cfgAt' # "write", fw' = fw, rejected' \in {{}, rejected}
  PROVE  BisectInv'
BY DEF BisectInv

LEMMA BisectCoreRead ==
  ASSUME CfgType, RefusedInv, BisectInv, Cfg!WellFormed, NoStray' => NoStray, Cfg!CoreRead
  PROVE  BisectInv'
<1> DEFINE differs == Cfg!Those(Core, Cfg!Required \ rb.good)
<1>1. rejected = {} /\ rejected' = {} /\ pending' = Cfg!Range(differs)
  BY DEF Cfg!CoreRead, Cfg!ReadOver, Cfg!found, RefusedInv, Unwritten
<1>2. cfgAt' = "write" => todo' = Cfg!chunked(differs)
  BY DEF Cfg!CoreRead, Cfg!Reads
<1>3. differs \in Seq(Cfg!Keys)
  BY ProfileFacts, ThoseFacts
<1> HIDE DEF differs
<1>4. Covers(Cfg!chunked(differs), Cfg!Range(differs))
  BY <1>3, ChunkFacts, ProfileFacts
<1> QED
  BY <1>1, <1>2, <1>4 DEF BisectInv, Covers

LEMMA BisectWriteCore ==
  ASSUME CfgType, TodoInv, BisectInv, Cfg!WellFormed, cfgPlan' = cfgPlan, Cfg!WriteCore
  PROVE  BisectInv'
<1> SUFFICES ASSUME NoStray'
             PROVE  /\ \A k \in rejected' : fw'[k] # "ok"
                    /\ rejected' \subseteq pending'
                    /\ \A k \in pending' : \/ k \in rejected'
                                           \/ fw'[k] = "ok" /\ ram'[k]
                                           \/ \E n \in 1 .. Len(todo') : k \in Cfg!Range(todo'[n])
  BY DEF BisectInv
<1> DEFINE s == Head(todo)
<1>1. cfgAt = "write" /\ todo # <<>> /\ todo \in Seq(Seq(Cfg!Keys)) /\ pending \subseteq Cfg!Required
      /\ PartsOf(todo, pending)
  BY DEF Cfg!WriteCore, CfgType, TodoInv
<1>2. PICK o \in Cfg!valset(Cfg!Range(s)) :
         /\ Cfg!Pays(o) /\ Cfg!Writes(o)
         /\ o.verdict # "timeout"
         /\ todo' = (IF o.verdict = "nak" THEN Cfg!bisect(s) ELSE <<>>) \o Tail(todo)
         /\ rejected' = rejected \cup
              (IF o.verdict = "nak" /\ Len(s) = 1 THEN {s[1]} ELSE {})
  BY DEF Cfg!WriteCore
<1>3. fw' = fw /\ pending' = pending
  BY DEF Cfg!WriteCore
<1>4. NoStray /\ ~Spent("stray")
  BY <1>2, StraysFall
<1>5. /\ \A k \in rejected : fw[k] # "ok"
      /\ rejected \subseteq pending
      /\ \A k \in pending : \/ k \in rejected
                            \/ fw[k] = "ok" /\ ram[k]
                            \/ \E n \in 1 .. Len(todo) : k \in Cfg!Range(todo[n])
  BY <1>1, <1>4 DEF BisectInv
<1>6. s \in Seq(Cfg!Keys) /\ Tail(todo) \in Seq(Seq(Cfg!Keys)) /\ Cfg!Range(s) \in SUBSET Cfg!Keys
  BY <1>1, FirstOf
<1>7. s # <<>> /\ Cfg!Range(s) \subseteq pending /\ PartsOf(Tail(todo), pending)
  BY <1>1, PartsRest
<1> DEFINE listed == {k \in pending : \E n \in 1 .. Len(todo) : k \in Cfg!Range(todo[n])}
<1>8. \A k \in listed : k \in Cfg!Range(s) \/ \E n \in 1 .. Len(Tail(todo)) : k \in Cfg!Range(Tail(todo)[n])
  <2>1. Covers(todo, listed)
    BY DEF Covers
  <2> HIDE DEF listed
  <2>2. ASSUME NEW k \in listed
        PROVE  k \in Cfg!Range(Head(todo)) \/ \E n \in 1 .. Len(Tail(todo)) : k \in Cfg!Range(Tail(todo)[n])
    BY <1>1, <2>1, CoversRest
  <2> QED
    BY <2>2
<1> HIDE DEF s, listed
<1>9. /\ o.verdict \in {"ack", "nak"}
      /\ o.verdict = "ack" => Cfg!Accepts(Cfg!Range(s)) /\ \A k \in Cfg!Range(s) : ram'[k]
      /\ o.verdict = "nak" => ~Cfg!Accepts(Cfg!Range(s))
      /\ \A k \in Cfg!Keys : ram[k] => ram'[k]
  BY <1>2, <1>4, <1>6, Set
<1> DEFINE parts == IF o.verdict = "nak" THEN Cfg!bisect(s) ELSE <<>>
<1>10. todo' = parts \o Tail(todo)
  BY <1>2
<1>11. parts \in Seq(Seq(Cfg!Keys)) /\ PartsOf(parts, pending)
       /\ (o.verdict = "nak" /\ Len(s) # 1 => Covers(parts, Cfg!Range(s)))
  <2>1. /\ Cfg!bisect(s) \in Seq(Seq(Cfg!Keys)) /\ PartsOf(Cfg!bisect(s), Cfg!Range(s))
        /\ Len(s) # 1 => Covers(Cfg!bisect(s), Cfg!Range(s))
    BY <1>6, <1>7, Halves
  <2>2. PartsOf(Cfg!bisect(s), pending)
    BY <1>7, <2>1 DEF PartsOf
  <2>3. <<>> \in Seq(Seq(Cfg!Keys)) /\ PartsOf(<<>>, pending)
    BY DEF PartsOf
  <2> QED
    BY <2>1, <2>2, <2>3
<1> HIDE DEF parts
<1>12. /\ \A k, n : n \in 1 .. Len(parts) /\ k \in Cfg!Range(parts[n]) =>
             \E m \in 1 .. Len(todo') : k \in Cfg!Range(todo'[m])
       /\ \A k, n : n \in 1 .. Len(Tail(todo)) /\ k \in Cfg!Range(Tail(todo)[n]) =>
             \E m \in 1 .. Len(todo') : k \in Cfg!Range(todo'[m])
  <2> DEFINE tt == Tail(todo)
  <2>1. tt \in Seq(Seq(Cfg!Keys)) /\ PartsOf(tt, pending)
    BY <1>6, <1>7
  <2> HIDE DEF tt
  <2>2. /\ \A k, n : n \in 1 .. Len(parts) /\ k \in Cfg!Range(parts[n]) =>
             \E m \in 1 .. Len(parts \o tt) : k \in Cfg!Range((parts \o tt)[m])
        /\ \A k, n : n \in 1 .. Len(tt) /\ k \in Cfg!Range(tt[n]) =>
             \E m \in 1 .. Len(parts \o tt) : k \in Cfg!Range((parts \o tt)[m])
    BY <1>11, <2>1, PartsJoined
  <2> QED
    BY <1>10, <2>2 DEF tt
<1>13. Len(s) = 1 => Cfg!Range(s) = {s[1]}
  BY <1>6, <1>7, Halves
<1>14. \A k \in rejected' : fw'[k] # "ok"
  <2>1. o.verdict = "nak" /\ Len(s) = 1 => fw[s[1]] # "ok"
    BY <1>9, <1>13 DEF Cfg!Accepts
  <2> QED
    BY <1>2, <1>3, <1>5, <2>1 DEF s
<1>15. rejected' \subseteq pending'
  <2>1. Len(s) = 1 => s[1] \in pending
    BY <1>7, <1>13
  <2> QED
    BY <1>2, <1>3, <1>5, <2>1 DEF s
<1>16. ASSUME NEW k \in pending
       PROVE  \/ k \in rejected'
              \/ fw'[k] = "ok" /\ ram'[k]
              \/ \E n \in 1 .. Len(todo') : k \in Cfg!Range(todo'[n])
  <2>1. CASE k \in rejected
    BY <1>2, <2>1
  <2>2. CASE fw[k] = "ok" /\ ram[k]
    <3>1. k \in Cfg!Keys
      BY <1>1, ProfileFacts
    <3> QED
      BY <1>3, <1>9, <2>2, <3>1
  <2>3. CASE \E n \in 1 .. Len(todo) : k \in Cfg!Range(todo[n])
    <3>1. k \in Cfg!Range(s) \/ \E n \in 1 .. Len(Tail(todo)) : k \in Cfg!Range(Tail(todo)[n])
      BY <1>8, <2>3 DEF listed
    <3>2. CASE \E n \in 1 .. Len(Tail(todo)) : k \in Cfg!Range(Tail(todo)[n])
      BY <1>12, <3>2
    <3>3. CASE k \in Cfg!Range(s) /\ o.verdict = "ack"
      BY <1>3, <1>9, <3>3 DEF Cfg!Accepts
    <3>4. CASE k \in Cfg!Range(s) /\ o.verdict = "nak" /\ Len(s) # 1
      BY <1>11, <1>12, <3>4 DEF Covers
    <3>5. CASE k \in Cfg!Range(s) /\ o.verdict = "nak" /\ Len(s) = 1
      BY <1>2, <1>13, <3>5 DEF s
    <3> QED
      BY <1>9, <3>1, <3>2, <3>3, <3>4, <3>5
  <2> QED
    BY <1>5, <2>1, <2>2, <2>3
<1> QED
  BY <1>3, <1>14, <1>15, <1>16

LEMMA BisectStep ==
  ASSUME HonestInv, BisectInv, Cfg!WellFormed, [Cfg!Next]_(Cfg!vars)
  PROVE  BisectInv'
<1>1. CfgType /\ RefusedInv /\ TodoInv
  BY DEF HonestInv
<1>2. CASE UNCHANGED Cfg!vars
  BY <1>2 DEF BisectInv, NoStray, Cfg!vars, Cfg!wire, Cfg!count, Cfg!kept, Cfg!found
<1>3. CASE Cfg!Next
  <2>1. cfgPlan' = cfgPlan
    BY <1>3 DEF Cfg!Next
  <2>2. NoStray' => NoStray
    BY <1>1, <1>3, <2>1, NoStrayBefore
  <2>3. CASE Cfg!CoreRead
    BY <1>1, <2>2, <2>3, BisectCoreRead
  <2>4. CASE Cfg!WriteCore
    BY <1>1, <2>1, <2>4, BisectWriteCore
  <2>5. CASE ~Cfg!CoreRead /\ ~Cfg!WriteCore
    <3>1. fw' = fw /\ rejected' \in {{}, rejected}
      BY <1>3, <2>5 DEF Cfg!Next, Cfg!Probe, Cfg!ProbeStale, Cfg!ReadChunk, Cfg!ReadOne,
         Cfg!ReadTimesOut, Cfg!WriteTimesOut, Cfg!CoreWritten, Cfg!SignalsRead, Cfg!WriteSignals,
         Cfg!OptionalRead, Cfg!WriteOptional, Cfg!VerifyOk, Cfg!VerifyRefuted, Cfg!VerifyAgain,
         Cfg!VerifyUnanswered, Cfg!Again, Cfg!found
    <3>2. cfgAt' # "write"
      BY <1>3, <2>5 DEF Cfg!Next, Cfg!Probe, Cfg!ProbeDecided, Cfg!ProbeStale, Cfg!ReadChunk, Cfg!ReadOne,
         Cfg!ReadTimesOut, Cfg!WriteTimesOut, Cfg!CoreWritten, Cfg!SignalsRead, Cfg!WriteSignals,
         Cfg!OptionalRead, Cfg!WriteOptional, Cfg!VerifyOk, Cfg!VerifyRefuted, Cfg!VerifyAgain,
         Cfg!VerifyUnanswered, Cfg!Again, Cfg!Ends, Cfg!Reads, Cfg!OptionalFrom
    <3> QED
      BY <2>2, <3>1, <3>2, BisectElsewhere
  <2> QED
    BY <2>3, <2>4, <2>5
<1> QED
  BY <1>2, <1>3

-----------------------------------------------------------------------------
(* Silence is not reported as a refusal. *)

(* A receiver that takes every key, and no answer of another request.      *)
Cooperative == NoStray /\ Cfg!Accepts(Cfg!Keys)

(* An answer says of each key it names whether it is set.                  *)
ExactReplies ==
  {r \in Replies : r.kind = "data" /\ \A k \in r.has \cap Cfg!Required : ram[k] => k \in r.good}

CoreIn == \A k \in Cfg!Range(Core) : ram[k]
SignalsIn == \A k \in Cfg!Range(Signals) : ram[k]

(* The signals are written too. *)
Later == cfgAt = "optional" \/ (cfgAt = "read" /\ rb.of \in {"optional", "verify"})

(* Of each key the verification knows that it is set, knows that it was    *)
(* not told, or has still to ask.                                          *)
ToldInv ==
  cfgAt = "read" /\ rb.of = "verify" =>
    \A k \in Cfg!Required : \/ k \in rb.good \cup rb.lost
                            \/ k \in Cfg!Range(rb.ones)
                            \/ \E n \in 1 .. Len(rb.chunks) : k \in Cfg!Range(rb.chunks[n])

WrittenInv ==
  /\ cfgAt = "write" => \A k \in Cfg!Range(Core) : ram[k] \/ k \in pending
  /\ Further => CoreIn
  /\ Later => SignalsIn

ExactInv == cfgAt # "done" => cfgOwed \in Seq(ExactReplies)

SilenceInv == Cooperative => result # "profile" /\ ExactInv /\ WrittenInv /\ ToldInv

LEMMA SilenceShows ==
  ASSUME CfgType, Cfg!WellFormed, SilenceInv
  PROVE  Cfg!SilenceIsNoRefusal
BY DotFacts DEF SilenceInv, Cooperative, NoStray, Cfg!SilenceIsNoRefusal

LEMMA ExactNow ==
  ASSUME CfgType, Cooperative, NEW ks \in SUBSET Cfg!Keys
  PROVE  Cfg!Reply(ks) \in ExactReplies
<1>1. Cfg!Known(ks)
  BY DEF Cooperative, Cfg!Accepts, Cfg!Known
<1> QED
  BY <1>1, ReplyFacts DEF ExactReplies

(* Nobody's refusal is under way. *)
LEMMA ExactAsked ==
  ASSUME CfgType, Cfg!WellFormed, Cooperative, cfgOwed \in Seq(ExactReplies), cfgPlan' = cfgPlan,
         ram' = ram, ~Spent("stray"), NEW ks \in SUBSET Cfg!Keys, NEW o \in Cfg!valget(ks), Cfg!Pays(o)
  PROVE  /\ cfgOwed' \in Seq(ExactReplies') /\ o.kind \in {"data", "nodata", "timeout"}
         /\ o.kind = "data" => \A k \in o.has \cap Cfg!Required : ram[k] => k \in o.good
<1>1. Cfg!Reply(ks) \in ExactReplies /\ ExactReplies \in SUBSET Replies
  BY ExactNow DEF ExactReplies
<1>2. /\ cfgOwed' \in Seq(ExactReplies)
      /\ o.kind \in {"data", "nak", "nodata", "timeout"}
      /\ o.kind = "data" => \E r \in ExactReplies : r.kind = "data" /\ o.has = r.has /\ o.good = r.good
      /\ o.kind = "nak" => Spent("stray") \/ \E r \in ExactReplies : r.kind = "nak"
  BY <1>1, Answers
<1>3. ExactReplies' = ExactReplies
  BY DEF ExactReplies
<1>4. \A r \in ExactReplies : r.kind # "nak"
  BY DEF ExactReplies
<1> QED
  BY <1>2, <1>3, <1>4 DEF ExactReplies

LEMMA ExactStays ==
  ASSUME CfgType, cfgOwed \in Seq(ExactReplies), \A k \in Cfg!Required : ram'[k] = ram[k]
  PROVE  cfgOwed \in Seq(ExactReplies')
<1>1. ExactReplies' = ExactReplies
  BY DEF ExactReplies
<1> QED
  BY <1>1

LEMMA SilenceDone ==
  ASSUME cfgAt' = "done", result' # "profile"
  PROVE  SilenceInv'
BY DEF SilenceInv, ExactInv, WrittenInv, ToldInv, Further, Later

(* Before the core keys are written. *)
LEMMA SilenceUnwritten ==
  ASSUME SilenceInv, Cooperative' => Cooperative, Unwritten', result' \in {"none", result},
         Cooperative' => cfgOwed' \in Seq(ExactReplies')
  PROVE  SilenceInv'
BY DEF SilenceInv, ExactInv, WrittenInv, ToldInv, Further, Later, Unwritten

(* On to the next feature, or to the verification. *)
LEMMA SilenceNext ==
  ASSUME CfgType, Cfg!WellFormed, BisectInv, SilenceInv, Cooperative' => Cooperative, result' = result,
         NEW n \in 1 .. Len(Features) + 1, Cfg!OptionalFrom(n),
         Cooperative' => cfgOwed' \in Seq(ExactReplies') /\ CoreIn' /\ SignalsIn'
  PROVE  SilenceInv'
<1> SUFFICES ASSUME Cooperative'
             PROVE  result' # "profile" /\ ExactInv' /\ WrittenInv' /\ ToldInv'
  BY DEF SilenceInv
<1>1. result' # "profile" /\ cfgOwed' \in Seq(ExactReplies') /\ CoreIn' /\ SignalsIn' /\ Cooperative
  BY DEF SilenceInv
<1>2. rejected = {}
  <2>1. \A k \in rejected : fw[k] # "ok" /\ k \in Cfg!Keys
    BY <1>1, ProfileFacts DEF BisectInv, Cooperative, CfgType
  <2> QED
    BY <1>1, <2>1 DEF Cooperative, Cfg!Accepts
<1>3. /\ cfgAt' = "read"
      /\ \/ rb'.of = "verify" /\ Covers(rb'.chunks, Cfg!Required \ rejected)
         \/ rb'.of = "optional"
  BY NextFeature
<1>4. WrittenInv' /\ ExactInv'
  BY <1>1, <1>3 DEF WrittenInv, ExactInv
<1>5. ToldInv'
  <2>1. CASE rb'.of = "verify" /\ Covers(rb'.chunks, Cfg!Required \ rejected)
    BY <1>2, <2>1 DEF ToldInv, Covers
  <2>2. CASE rb'.of = "optional"
    BY <2>2 DEF ToldInv
  <2> QED
    BY <1>3, <2>1, <2>2
<1> QED
  BY <1>1, <1>4, <1>5

LEMMA SilenceProbe ==
  ASSUME CfgType, Cfg!WellFormed, SilenceInv, Cooperative' => Cooperative, cfgPlan' = cfgPlan, Cfg!Probe
  PROVE  SilenceInv'
<1>1. PICK o \in Cfg!valget({Features[i]}) : Cfg!Pays(o)
  BY DEF Cfg!Probe
<1>2. {Features[i]} \in SUBSET Cfg!Keys
  BY ProfileFacts DEF CfgType
<1>3. Cooperative' => cfgOwed' \in Seq(ExactReplies')
  <2> SUFFICES ASSUME Cooperative' PROVE cfgOwed' \in Seq(ExactReplies')
    OBVIOUS
  <2>1. Cooperative /\ cfgOwed \in Seq(ExactReplies) /\ ram' = ram
    BY DEF SilenceInv, ExactInv, Cfg!Probe
  <2>2. ~Spent("stray")
    BY <1>1, StraysFall DEF Cooperative
  <2> QED
    BY <1>1, <1>2, <2>1, <2>2, ExactAsked
<1>4. result' = result
  BY DEF Cfg!Probe
<1>5. Unwritten'
  <2>1. cfgAt' = "probe" \/ (cfgAt' = "read" /\ rb' = Cfg!Readback("core", Core))
    BY DEF Cfg!Probe, Cfg!ProbeDecided, Cfg!Reads
  <2>2. "core" \in Subjects /\ Core \in Seq(Cfg!Keys)
    BY ProfileFacts DEF Subjects
  <2> QED
    BY <2>1, <2>2, ReadbackFacts DEF Unwritten
<1> QED
  BY <1>3, <1>4, <1>5, SilenceUnwritten

(* A step of a readback, in which what it has been told grows. *)
LEMMA SilenceReading ==
  ASSUME SilenceInv, Cooperative' => Cooperative, cfgAt = "read", cfgAt' = "read", rb'.of = rb.of,
         result' = result, ram' = ram,
         Cooperative' => cfgOwed' \in Seq(ExactReplies') /\ ToldInv'
  PROVE  SilenceInv'
<1>1. WrittenInv => WrittenInv'
  BY DEF WrittenInv, Further, Later, CoreIn, SignalsIn
<1> QED
  BY <1>1 DEF SilenceInv, ExactInv

LEMMA SilenceReadChunk ==
  ASSUME HonestInv, Cfg!WellFormed, SilenceInv, Cooperative' => Cooperative, cfgPlan' = cfgPlan, Cfg!ReadChunk
  PROVE  SilenceInv'
<1> DEFINE names == Head(rb.chunks)
<1>1. CfgType /\ HeardInv /\ cfgAt = "read" /\ rb.chunks # <<>> /\ rb.ones = <<>>
  BY DEF HonestInv, Cfg!ReadChunk
<1>2. PICK o \in Cfg!valget(Cfg!Range(names)) :
         /\ Cfg!Pays(o)
         /\ o.kind # "timeout"
         /\ rb' = IF o.kind = "data"
                  THEN [Cfg!Heard(o) EXCEPT !.chunks = Tail(@),
                                            !.lost = @ \cup (Cfg!Range(names) \ o.has)]
                  ELSE [rb EXCEPT !.chunks = Tail(@), !.ones = names]
  BY DEF Cfg!ReadChunk
<1>3. ram' = ram /\ cfgAt' = "read" /\ result' = result
  BY <1>1 DEF Cfg!ReadChunk
<1>4. /\ names \in Seq(Cfg!Keys) /\ Tail(rb.chunks) \in Seq(Seq(Cfg!Keys))
      /\ Cfg!Range(names) \in SUBSET Cfg!Keys /\ rb \in Readbacks /\ rb.chunks \in Seq(Seq(Cfg!Keys))
  <2>1. rb.chunks \in Seq(Seq(Cfg!Keys)) /\ rb \in Readbacks
    BY <1>1 DEF CfgType, Readbacks
  <2> QED
    BY <1>1, <2>1, FirstOf
<1>5. ASSUME NEW ls, Covers(rb.chunks, ls), NEW k \in ls
      PROVE  k \in Cfg!Range(names) \/ \E n \in 1 .. Len(Tail(rb.chunks)) : k \in Cfg!Range(Tail(rb.chunks)[n])
  BY <1>1, <1>4, <1>5, CoversRest
<1> HIDE DEF names
<1>6. /\ o.kind = "data" => \A k \in o.good : ram[k]
      /\ o.has \in SUBSET Cfg!Keys /\ o.good \in SUBSET Cfg!Keys
  BY <1>1, <1>2, <1>3, <1>4, TrueAsked
<1>7. CASE o.kind = "data"
  <2> DEFINE h == Cfg!Heard(o)
  <2>1. /\ h \in Readbacks /\ h.of = rb.of /\ h.ones = rb.ones /\ h.chunks = rb.chunks /\ h.lost = rb.lost
        /\ h.good = (rb.good \ o.has) \cup o.good
    BY <1>6, <1>7, HeardFacts
  <2> HIDE DEF h
  <2>2. rb' = [h EXCEPT !.chunks = Tail(rb.chunks), !.lost = rb.lost \cup (Cfg!Range(names) \ o.has)]
    BY <1>2, <1>7, <2>1 DEF h
  <2>3. /\ rb'.of = rb.of /\ rb'.good = (rb.good \ o.has) \cup o.good /\ rb'.chunks = Tail(rb.chunks)
        /\ rb'.lost = rb.lost \cup (Cfg!Range(names) \ o.has) /\ rb'.ones = <<>>
    BY <1>1, <2>1, <2>2 DEF Readbacks
  <2>4. ASSUME Cooperative' PROVE cfgOwed' \in Seq(ExactReplies') /\ ToldInv'
    <3>1. /\ Cooperative /\ cfgOwed \in Seq(ExactReplies) /\ ToldInv
          /\ (rb.of = "verify" => CoreIn /\ SignalsIn)
      BY <1>1, <2>4 DEF SilenceInv, ExactInv, WrittenInv, Further, Later
    <3>2. ~Spent("stray")
      BY <1>1, <1>2, <2>4, StraysFall DEF Cooperative
    <3>3. /\ cfgOwed' \in Seq(ExactReplies')
          /\ \A k \in o.has \cap Cfg!Required : ram[k] => k \in o.good
      BY <1>1, <1>2, <1>3, <1>4, <1>7, <3>1, <3>2, ExactAsked
    <3>4. ASSUME rb.of = "verify", NEW k \in Cfg!Required
          PROVE  \/ k \in rb'.good \cup rb'.lost
                 \/ \E n \in 1 .. Len(rb'.chunks) : k \in Cfg!Range(rb'.chunks[n])
      <4>1. ram[k]
        BY <3>1, <3>4, ProfileFacts DEF CoreIn, SignalsIn
      <4>2. CASE k \in rb.good \cup rb.lost
        BY <2>3, <3>3, <4>1, <4>2
      <4>3. CASE k \in Cfg!Range(names)
        BY <2>3, <3>3, <4>1, <4>3
      <4>4. CASE \E n \in 1 .. Len(Tail(rb.chunks)) : k \in Cfg!Range(Tail(rb.chunks)[n])
        BY <2>3, <4>4
      <4>5. CASE \E n \in 1 .. Len(rb.chunks) : k \in Cfg!Range(rb.chunks[n])
        <5>1. Covers(rb.chunks, {k}) /\ k \in {k}
          BY <4>5 DEF Covers
        <5> QED
          BY <1>5, <4>3, <4>4, <5>1
      <4>6. k \notin Cfg!Range(<<>>)
        BY DEF Cfg!Range
      <4> QED
        BY <1>1, <3>1, <3>4, <4>2, <4>5, <4>6 DEF ToldInv
    <3> QED
      BY <2>3, <3>3, <3>4 DEF ToldInv
  <2> QED
    BY <1>1, <1>3, <2>3, <2>4, SilenceReading
<1>8. CASE o.kind # "data"
  <2>1. rb' = [rb EXCEPT !.chunks = Tail(rb.chunks), !.ones = names]
    BY <1>2, <1>8
  <2>2. /\ rb'.of = rb.of /\ rb'.good = rb.good /\ rb'.lost = rb.lost /\ rb'.chunks = Tail(rb.chunks)
        /\ rb'.ones = names
    BY <1>4, <2>1 DEF Readbacks
  <2>3. ASSUME Cooperative' PROVE cfgOwed' \in Seq(ExactReplies') /\ ToldInv'
    <3>1. Cooperative /\ cfgOwed \in Seq(ExactReplies) /\ ToldInv
      BY <1>1, <2>3 DEF SilenceInv, ExactInv
    <3>2. ~Spent("stray")
      BY <1>1, <1>2, <2>3, StraysFall DEF Cooperative
    <3>3. cfgOwed' \in Seq(ExactReplies')
      BY <1>1, <1>2, <1>3, <1>4, <3>1, <3>2, ExactAsked
    <3>4. ASSUME rb.of = "verify", NEW k \in Cfg!Required
          PROVE  \/ k \in rb'.good \cup rb'.lost
                 \/ k \in Cfg!Range(rb'.ones)
                 \/ \E n \in 1 .. Len(rb'.chunks) : k \in Cfg!Range(rb'.chunks[n])
      <4>1. CASE \E n \in 1 .. Len(rb.chunks) : k \in Cfg!Range(rb.chunks[n])
        <5>1. Covers(rb.chunks, {k}) /\ k \in {k}
          BY <4>1 DEF Covers
        <5> QED
          BY <1>5, <2>2, <5>1
      <4>2. k \notin Cfg!Range(<<>>)
        BY DEF Cfg!Range
      <4> QED
        BY <1>1, <2>2, <3>1, <3>4, <4>1, <4>2 DEF ToldInv
    <3> QED
      BY <2>2, <3>3, <3>4 DEF ToldInv
  <2> QED
    BY <1>1, <1>3, <2>2, <2>3, SilenceReading
<1> QED
  BY <1>7, <1>8

LEMMA SilenceReadOne ==
  ASSUME HonestInv, Cfg!WellFormed, SilenceInv, Cooperative' => Cooperative, cfgPlan' = cfgPlan, Cfg!ReadOne
  PROVE  SilenceInv'
<1> DEFINE name == Head(rb.ones)
<1>1. CfgType /\ HeardInv /\ cfgAt = "read" /\ rb.ones # <<>>
  BY DEF HonestInv, Cfg!ReadOne
<1>2. PICK o \in Cfg!valget({name}) :
       LET silent == o.kind = "nodata" \/ (o.kind = "data" /\ name \notin o.has)
       IN  /\ Cfg!Pays(o)
           /\ o.kind # "timeout"
           /\ rb' = [(IF o.kind = "data" THEN Cfg!Heard(o) ELSE rb) EXCEPT
                       !.ones = Tail(@),
                       !.lost = @ \cup (IF silent THEN {name} ELSE {})]
  BY DEF Cfg!ReadOne
<1>3. ram' = ram /\ cfgAt' = "read" /\ result' = result
  BY <1>1 DEF Cfg!ReadOne
<1>4. /\ name \in Cfg!Keys /\ Tail(rb.ones) \in Seq(Cfg!Keys) /\ rb \in Readbacks /\ {name} \in SUBSET Cfg!Keys
      /\ \A k \in Cfg!Range(rb.ones) : k = name \/ k \in Cfg!Range(Tail(rb.ones))
  <2>1. rb.ones \in Seq(Cfg!Keys) /\ rb \in Readbacks
    BY <1>1 DEF CfgType, Readbacks
  <2>2. /\ Len(rb.ones) \in Nat \ {0} /\ name = rb.ones[1] /\ Tail(rb.ones) \in Seq(Cfg!Keys)
        /\ Len(Tail(rb.ones)) = Len(rb.ones) - 1
        /\ \A n \in 1 .. Len(Tail(rb.ones)) : Tail(rb.ones)[n] = rb.ones[n + 1]
        /\ DOMAIN rb.ones = 1 .. Len(rb.ones) /\ DOMAIN Tail(rb.ones) = 1 .. Len(Tail(rb.ones))
    BY <1>1, <2>1
  <2>3. ASSUME NEW k \in Cfg!Range(rb.ones), k # name PROVE k \in Cfg!Range(Tail(rb.ones))
    <3>1. PICK n \in 1 .. Len(rb.ones) : k = rb.ones[n]
      BY <2>2 DEF Cfg!Range
    <3>2. n - 1 \in DOMAIN Tail(rb.ones) /\ (n - 1) + 1 = n
      BY <2>2, <2>3, <3>1
    <3>3. Tail(rb.ones)[n - 1] = k
      BY <2>2, <3>1, <3>2
    <3> QED
      BY <3>2, <3>3 DEF Cfg!Range
  <2>4. name \in Cfg!Keys
    BY <1>1, <2>1
  <2> QED
    BY <2>1, <2>2, <2>3, <2>4
<1> HIDE DEF name
<1>5. /\ o.kind = "data" => \A k \in o.good : ram[k]
      /\ o.has \in SUBSET Cfg!Keys /\ o.good \in SUBSET Cfg!Keys
  BY <1>1, <1>2, <1>3, <1>4, TrueAsked
<1> DEFINE h == IF o.kind = "data" THEN Cfg!Heard(o) ELSE rb
           silent == o.kind = "nodata" \/ (o.kind = "data" /\ name \notin o.has)
           mute == IF silent THEN {name} ELSE {}
<1>6. /\ h \in Readbacks /\ h.of = rb.of /\ h.ones = rb.ones /\ h.chunks = rb.chunks /\ h.lost = rb.lost
      /\ o.kind = "data" => h.good = (rb.good \ o.has) \cup o.good
      /\ o.kind # "data" => h.good = rb.good
  <2>1. CASE o.kind = "data"
    BY <1>5, <2>1, HeardFacts
  <2>2. CASE o.kind # "data"
    BY <1>1, <1>4, <2>2
  <2> QED
    BY <2>1, <2>2
<1>7. rb' = [h EXCEPT !.ones = Tail(h.ones), !.lost = h.lost \cup mute]
  BY <1>2
<1> HIDE DEF h, mute
<1>8. /\ rb'.of = rb.of /\ rb'.good = h.good /\ rb'.chunks = rb.chunks
      /\ rb'.ones = Tail(rb.ones) /\ rb'.lost = rb.lost \cup mute
  BY <1>6, <1>7 DEF Readbacks
<1>9. ASSUME Cooperative' PROVE cfgOwed' \in Seq(ExactReplies') /\ ToldInv'
  <2>1. /\ Cooperative /\ cfgOwed \in Seq(ExactReplies) /\ ToldInv
        /\ (rb.of = "verify" => CoreIn /\ SignalsIn)
    BY <1>1, <1>9 DEF SilenceInv, ExactInv, WrittenInv, Further, Later
  <2>2. ~Spent("stray")
    BY <1>1, <1>2, <1>9, StraysFall DEF Cooperative
  <2>3. /\ cfgOwed' \in Seq(ExactReplies') /\ o.kind \in {"data", "nodata", "timeout"}
        /\ o.kind = "data" => \A k \in o.has \cap Cfg!Required : ram[k] => k \in o.good
    BY <1>1, <1>2, <1>3, <1>4, <2>1, <2>2, ExactAsked
  <2>4. o.kind # "timeout"
    BY <1>2
  <2>5. ASSUME rb.of = "verify", NEW k \in Cfg!Required
        PROVE  \/ k \in rb'.good \cup rb'.lost
               \/ k \in Cfg!Range(rb'.ones)
               \/ \E n \in 1 .. Len(rb'.chunks) : k \in Cfg!Range(rb'.chunks[n])
    <3>1. ram[k]
      BY <2>1, <2>5, ProfileFacts DEF CoreIn, SignalsIn
    <3>2. CASE k \in rb.good \cup rb.lost
      BY <1>6, <1>8, <2>3, <3>1, <3>2
    <3>3. CASE k = name
      BY <1>6, <1>8, <2>3, <2>4, <3>1, <3>3 DEF mute
    <3>4. CASE k \in Cfg!Range(rb.ones)
      BY <1>4, <1>8, <3>3, <3>4
    <3>5. CASE \E n \in 1 .. Len(rb.chunks) : k \in Cfg!Range(rb.chunks[n])
      BY <1>8, <3>5
    <3> QED
      BY <1>1, <2>1, <2>5, <3>2, <3>4, <3>5 DEF ToldInv
  <2> QED
    BY <1>8, <2>3, <2>5 DEF ToldInv
<1> QED
  BY <1>1, <1>3, <1>8, <1>9, SilenceReading

LEMMA SilenceCoreRead ==
  ASSUME HonestInv, Cfg!WellFormed, SilenceInv, Cooperative' => Cooperative, Cfg!CoreRead
  PROVE  SilenceInv'
<1> DEFINE differs == Cfg!Those(Core, Cfg!Required \ rb.good)
<1>1. CfgType /\ HeardInv /\ cfgAt = "read"
  BY DEF HonestInv, Cfg!CoreRead, Cfg!ReadOver
<1>2. /\ pending' = Cfg!Range(differs)
      /\ IF differs = <<>>
           THEN Cfg!Reads("signals", Signals)
           ELSE cfgAt' = "write"
      /\ ram' = ram /\ cfgOwed' = cfgOwed /\ result' = result
  BY DEF Cfg!CoreRead, Cfg!wire
<1>3. Cfg!Range(differs) = Cfg!Range(Core) \cap (Cfg!Required \ rb.good)
  BY ProfileFacts, ThoseFacts
<1>4. \A k \in Cfg!Range(Core) : ram[k] \/ k \in Cfg!Range(differs)
  <2>1. \A k \in Cfg!Range(Core) : k \in Cfg!Required
    BY ProfileFacts
  <2>2. \A k \in rb.good : ram[k]
    BY <1>1 DEF HeardInv
  <2> QED
    BY <1>3, <2>1, <2>2
<1> HIDE DEF differs
<1>5. Cooperative' => ExactInv' /\ result' # "profile"
  <2>1. ExactReplies' = ExactReplies
    BY <1>2 DEF ExactReplies
  <2> QED
    BY <1>1, <1>2, <2>1 DEF SilenceInv, ExactInv
<1>6. CASE differs = <<>>
  <2>1. cfgAt' = "read" /\ rb'.of = "signals"
    <3>1. "signals" \in Subjects /\ Signals \in Seq(Cfg!Keys)
      BY ProfileFacts DEF Subjects
    <3> QED
      BY <1>2, <1>6, <3>1, Reading
  <2>2. CoreIn'
    <3>1. Cfg!Range(<<>>) = {}
      BY DEF Cfg!Range
    <3> QED
      BY <1>2, <1>4, <1>6, <3>1 DEF CoreIn
  <2>3. WrittenInv' /\ ToldInv'
    BY <2>1, <2>2 DEF WrittenInv, Further, Later, ToldInv
  <2> QED
    BY <1>5, <2>3 DEF SilenceInv
<1>7. CASE differs # <<>>
  <2>1. WrittenInv' /\ ToldInv'
    BY <1>2, <1>4, <1>7 DEF WrittenInv, Further, Later, ToldInv
  <2> QED
    BY <1>5, <2>1 DEF SilenceInv
<1> QED
  BY <1>6, <1>7

LEMMA SilenceWriteCore ==
  ASSUME HonestInv, Cfg!WellFormed, SilenceInv, Cooperative' => Cooperative, cfgPlan' = cfgPlan, Cfg!WriteCore
  PROVE  SilenceInv'
<1> DEFINE s == Head(todo)
<1>1. CfgType /\ cfgAt = "write" /\ cfgAt' = "write" /\ Cfg!Range(s) \in SUBSET Cfg!Keys
  <2>1. CfgType /\ cfgAt = "write" /\ cfgAt' = "write" /\ todo # <<>> /\ todo \in Seq(Seq(Cfg!Keys))
    BY DEF HonestInv, CfgType, Cfg!WriteCore
  <2> QED
    BY <2>1, FirstOf
<1>2. PICK o \in Cfg!valset(Cfg!Range(s)) : Cfg!Pays(o) /\ Cfg!Writes(o) /\ o.verdict # "timeout"
  BY DEF Cfg!WriteCore
<1>3. result' = result /\ pending' = pending
  BY DEF Cfg!WriteCore
<1> HIDE DEF s
<1>4. cfgOwed' = <<>> /\ \A k \in Cfg!Keys : ram[k] => ram'[k]
  BY <1>1, <1>2, Set
<1>5. cfgOwed' \in Seq(ExactReplies')
  BY <1>4
<1>6. \A k \in Cfg!Range(Core) : k \in Cfg!Keys
  BY ProfileFacts
<1>7. WrittenInv => WrittenInv'
  BY <1>1, <1>3, <1>4, <1>6 DEF WrittenInv, Further, Later
<1> QED
  BY <1>1, <1>3, <1>5, <1>7 DEF SilenceInv, ExactInv, ToldInv

LEMMA SilenceCoreWritten ==
  ASSUME HonestInv, Cfg!WellFormed, BisectInv, SilenceInv, Cooperative' => Cooperative, Cfg!CoreWritten
  PROVE  SilenceInv'
<1>1. /\ CfgType /\ cfgAt = "write" /\ todo = <<>> /\ ram' = ram /\ cfgOwed' = cfgOwed
  BY DEF HonestInv, Cfg!CoreWritten, Cfg!wire
<1> SUFFICES ASSUME Cooperative'
             PROVE  result' # "profile" /\ ExactInv' /\ WrittenInv' /\ ToldInv'
  BY DEF SilenceInv
<1>2. /\ Cooperative /\ result # "profile" /\ cfgOwed \in Seq(ExactReplies)
      /\ \A k \in Cfg!Range(Core) : ram[k] \/ k \in pending
  BY <1>1 DEF SilenceInv, ExactInv, WrittenInv
<1>3. rejected = {} /\ \A k \in pending : ram[k]
  <2>1. /\ \A k \in rejected : fw[k] # "ok"
        /\ rejected \subseteq pending
        /\ \A k \in pending : k \in rejected \/ (fw[k] = "ok" /\ ram[k])
    BY <1>1, <1>2 DEF BisectInv, Cooperative
  <2>2. rejected = {}
    <3>1. \A k \in rejected : fw[k] # "ok" /\ k \in Cfg!Keys
      BY <1>1, <2>1, ProfileFacts DEF CfgType
    <3> QED
      BY <1>2, <3>1 DEF Cooperative, Cfg!Accepts
  <2> QED
    BY <2>1, <2>2
<1>4. Cfg!Reads("signals", Signals) /\ result' = result
  BY <1>3 DEF Cfg!CoreWritten
<1>5. cfgAt' = "read" /\ rb'.of = "signals"
  <2>1. "signals" \in Subjects /\ Signals \in Seq(Cfg!Keys)
    BY ProfileFacts DEF Subjects
  <2> QED
    BY <1>4, <2>1, Reading
<1>6. CoreIn'
  BY <1>1, <1>2, <1>3 DEF CoreIn
<1>7. cfgOwed' \in Seq(ExactReplies')
  <2>1. ExactReplies' = ExactReplies
    BY <1>1 DEF ExactReplies
  <2> QED
    BY <1>1, <1>2, <2>1
<1> QED
  BY <1>2, <1>4, <1>5, <1>6, <1>7 DEF ExactInv, WrittenInv, Further, Later, ToldInv

LEMMA SilenceSignalsRead ==
  ASSUME HonestInv, Cfg!WellFormed, BisectInv, SilenceInv, Cooperative' => Cooperative, Cfg!SignalsRead
  PROVE  SilenceInv'
<1>1. CfgType /\ HeardInv /\ cfgAt = "read" /\ rb.of = "signals"
  BY DEF HonestInv, Cfg!SignalsRead, Cfg!ReadOver
<1>2. ram' = ram /\ cfgOwed' = cfgOwed /\ result' = result
  BY DEF Cfg!SignalsRead, Cfg!wire
<1>3. Cooperative' => cfgOwed' \in Seq(ExactReplies') /\ CoreIn' /\ result' # "profile"
  <2>1. ExactReplies' = ExactReplies /\ CoreIn' = CoreIn
    BY <1>2 DEF ExactReplies, CoreIn
  <2> QED
    BY <1>1, <1>2, <2>1 DEF SilenceInv, ExactInv, WrittenInv, Further
<1>4. CASE (\A k \in Cfg!Range(Signals) : k \in rb.good) /\ Cfg!OptionalFrom(1)
  <2>1. SignalsIn'
    BY <1>1, <1>2, <1>4 DEF HeardInv, SignalsIn
  <2>2. 1 \in 1 .. Len(Features) + 1
    BY ProfileFacts
  <2> QED
    BY <1>1, <1>2, <1>3, <1>4, <2>1, <2>2, SilenceNext
<1>5. CASE cfgAt' = "signals"
  BY <1>3, <1>5 DEF SilenceInv, ExactInv, WrittenInv, Further, Later, ToldInv
<1> QED
  BY <1>4, <1>5 DEF Cfg!SignalsRead

LEMMA SilenceWriteSignals ==
  ASSUME HonestInv, Cfg!WellFormed, BisectInv, SilenceInv, Cooperative' => Cooperative, cfgPlan' = cfgPlan,
         Cfg!WriteSignals
  PROVE  SilenceInv'
<1>1. CfgType /\ cfgAt = "signals" /\ Cfg!Range(Signals) \in SUBSET Cfg!Keys
  BY ProfileFacts DEF HonestInv, Cfg!WriteSignals
<1>2. PICK o \in Cfg!valset(Cfg!Range(Signals)) :
         /\ Cfg!Pays(o) /\ Cfg!Writes(o)
         /\ \/ /\ o.verdict = "nak"
               /\ Cfg!Ends("profile")
            \/ /\ o.verdict = "ack"
               /\ Cfg!OptionalFrom(1)
               /\ UNCHANGED <<todo, Cfg!kept, result>>
  BY DEF Cfg!WriteSignals
<1>3. ASSUME Cooperative'
      PROVE  /\ o.verdict # "nak" /\ cfgOwed' \in Seq(ExactReplies') /\ CoreIn'
             /\ o.verdict = "ack" => SignalsIn'
  <2>1. Cooperative /\ CoreIn
    BY <1>1, <1>3 DEF SilenceInv, WrittenInv, Further
  <2>2. ~Spent("stray")
    BY <1>1, <1>2, <1>3, StraysFall DEF Cooperative
  <2>3. Cfg!Accepts(Cfg!Range(Signals))
    BY <1>1, <2>1 DEF Cooperative, Cfg!Accepts
  <2>4. /\ o.verdict # "nak" /\ (o.verdict = "ack" => \A k \in Cfg!Range(Signals) : ram'[k])
        /\ \A k \in Cfg!Keys : ram[k] => ram'[k]
        /\ o.verdict # "timeout" => cfgOwed' = <<>>
    BY <1>1, <1>2, <2>2, <2>3, Set
  <2>5. CoreIn'
    BY <2>1, <2>4, ProfileFacts DEF CoreIn
  <2>6. cfgOwed' \in Seq(ExactReplies')
    <3>1. <<>> \in Seq(ExactReplies')
      OBVIOUS
    <3>2. o.verdict # "timeout"
      BY <1>2
    <3> QED
      BY <2>4, <3>1, <3>2
  <2> QED
    BY <2>4, <2>5, <2>6 DEF SignalsIn
<1>4. CASE o.verdict = "nak"
  BY <1>3, <1>4 DEF SilenceInv
<1>5. CASE o.verdict = "ack" /\ Cfg!OptionalFrom(1) /\ result' = result
  <2>1. 1 \in 1 .. Len(Features) + 1
    BY ProfileFacts
  <2> QED
    BY <1>1, <1>3, <1>5, <2>1, SilenceNext
<1> QED
  BY <1>2, <1>4, <1>5

LEMMA SilenceOptionalRead ==
  ASSUME HonestInv, Cfg!WellFormed, BisectInv, SilenceInv, Cooperative' => Cooperative, Cfg!OptionalRead
  PROVE  SilenceInv'
<1>1. CfgType /\ cfgAt = "read" /\ rb.of = "optional"
  BY DEF HonestInv, Cfg!OptionalRead, Cfg!ReadOver
<1>2. ram' = ram /\ cfgOwed' = cfgOwed /\ result' = result
  BY DEF Cfg!OptionalRead, Cfg!wire
<1>3. Cooperative' => cfgOwed' \in Seq(ExactReplies') /\ CoreIn' /\ SignalsIn' /\ result' # "profile"
  <2>1. ExactReplies' = ExactReplies /\ CoreIn' = CoreIn /\ SignalsIn' = SignalsIn
    BY <1>2 DEF ExactReplies, CoreIn, SignalsIn
  <2> QED
    BY <1>1, <1>2, <2>1 DEF SilenceInv, ExactInv, WrittenInv, Further, Later
<1>4. CASE Cfg!OptionalFrom(i + 1)
  <2>1. i + 1 \in 1 .. Len(Features) + 1
    BY <1>1, ProfileFacts DEF CfgType
  <2> QED
    BY <1>1, <1>2, <1>3, <1>4, <2>1, SilenceNext
<1>5. CASE cfgAt' = "optional"
  BY <1>3, <1>5 DEF SilenceInv, ExactInv, WrittenInv, Further, Later, ToldInv
<1> QED
  BY <1>4, <1>5 DEF Cfg!OptionalRead

LEMMA SilenceWriteOptional ==
  ASSUME HonestInv, Cfg!WellFormed, BisectInv, SilenceInv, Cooperative' => Cooperative, cfgPlan' = cfgPlan,
         Cfg!WriteOptional
  PROVE  SilenceInv'
<1>1. CfgType /\ cfgAt = "optional"
  BY DEF HonestInv, Cfg!WriteOptional
<1>2. PICK o \in Cfg!valset({Features[i]}) :
       /\ Cfg!Pays(o) /\ Cfg!Writes(o)
       /\ cfgAt' = cfgAt \/ Cfg!OptionalFrom(i + 1)
  BY DEF Cfg!WriteOptional
<1>3. result' = result
  BY DEF Cfg!WriteOptional
<1>4. Features[i] \in Cfg!Keys \ Cfg!Required /\ i + 1 \in 1 .. Len(Features) + 1
  BY <1>1, ProfileFacts DEF CfgType
<1>5. /\ cfgOwed' \in {<<>>, cfgOwed}
      /\ \A k \in Cfg!Required : ram'[k] = ram[k]
  <2>1. {Features[i]} \in SUBSET Cfg!Keys
    BY <1>4
  <2>2. cfgOwed' \in {<<>>, cfgOwed} /\ \A k \in Cfg!Keys : k \notin {Features[i]} => ram'[k] = ram[k]
    BY <1>1, <1>2, <2>1, Set
  <2> QED
    BY <1>4, <2>2, ProfileFacts
<1>6. Cooperative' => cfgOwed' \in Seq(ExactReplies') /\ CoreIn' /\ SignalsIn' /\ result' # "profile"
  <2> SUFFICES ASSUME Cooperative'
               PROVE  cfgOwed' \in Seq(ExactReplies') /\ CoreIn' /\ SignalsIn' /\ result' # "profile"
    OBVIOUS
  <2>1. cfgOwed \in Seq(ExactReplies) /\ CoreIn /\ SignalsIn /\ result # "profile"
    BY <1>1 DEF SilenceInv, ExactInv, WrittenInv, Further, Later
  <2>2. cfgOwed \in Seq(ExactReplies')
    BY <1>1, <1>5, <2>1, ExactStays
  <2>3. <<>> \in Seq(ExactReplies')
    OBVIOUS
  <2>4. CoreIn' /\ SignalsIn'
    BY <1>5, <2>1, ProfileFacts DEF CoreIn, SignalsIn
  <2> QED
    BY <1>3, <1>5, <2>1, <2>2, <2>3, <2>4
<1>7. CASE cfgAt' = cfgAt
  BY <1>1, <1>6, <1>7 DEF SilenceInv, ExactInv, WrittenInv, Further, Later, ToldInv
<1>8. CASE Cfg!OptionalFrom(i + 1)
  BY <1>1, <1>3, <1>4, <1>6, <1>8, SilenceNext
<1> QED
  BY <1>2, <1>7, <1>8

LEMMA SilenceVerifyRefuted ==
  ASSUME HonestInv, Cfg!WellFormed, SilenceInv, Cooperative' => Cooperative, Cfg!VerifyRefuted
  PROVE  SilenceInv'
<1>1. /\ cfgAt = "read" /\ rb.of = "verify" /\ rb.ones = <<>> /\ rb.chunks = <<>>
      /\ Cfg!Mismatches \ rb.lost # {}
  BY DEF Cfg!VerifyRefuted, Cfg!ReadOver, Cfg!Refuted
<1>2. ~Cooperative
  <2> SUFFICES ASSUME Cooperative PROVE FALSE
    OBVIOUS
  <2>1. Cfg!Range(<<>>) = {} /\ Len(<<>>) = 0
    BY DEF Cfg!Range
  <2>2. \A k \in Cfg!Required : k \in rb.good \cup rb.lost
    BY <1>1, <2>1 DEF SilenceInv, ToldInv
  <2>3. Cfg!Mismatches \subseteq Cfg!Required \ rb.good
    BY WantedFacts DEF Cfg!Mismatches
  <2> QED
    BY <1>1, <2>2, <2>3
<1> QED
  BY <1>2 DEF SilenceInv

LEMMA SilenceVerifyAgain ==
  ASSUME HonestInv, Cfg!WellFormed, BisectInv, SilenceInv, Cooperative' => Cooperative, Cfg!VerifyAgain
  PROVE  SilenceInv'
<1>1. CfgType /\ cfgAt = "read" /\ rb.of = "verify"
  BY DEF HonestInv, Cfg!VerifyAgain, Cfg!ReadOver
<1>2. /\ ram' = ram /\ cfgOwed' = <<>> /\ result' = result /\ Cfg!Reads("verify", Cfg!Wanted)
  BY DEF Cfg!VerifyAgain
<1>3. cfgAt' = "read" /\ rb'.of = "verify" /\ Covers(rb'.chunks, Cfg!Required \ rejected)
  <2>1. "verify" \in Subjects /\ Cfg!Wanted \in Seq(Cfg!Keys)
        /\ Cfg!Range(Cfg!Wanted) = Cfg!Required \ rejected
    BY WantedFacts DEF Subjects
  <2>2. cfgAt' = "read" /\ rb'.of = "verify" /\ Covers(rb'.chunks, Cfg!Range(Cfg!Wanted))
    BY <1>2, <2>1, Reading
  <2> QED
    BY <2>1, <2>2
<1>4. Cooperative => rejected = {}
  <2>1. Cooperative => \A k \in rejected : fw[k] # "ok" /\ k \in Cfg!Keys
    BY <1>1, ProfileFacts DEF BisectInv, Cooperative, CfgType
  <2> QED
    BY <2>1 DEF Cooperative, Cfg!Accepts
<1>5. Cooperative => ToldInv'
  BY <1>3, <1>4 DEF ToldInv, Covers
<1>6. ExactInv'
  BY <1>2 DEF ExactInv
<1>7. WrittenInv => WrittenInv'
  BY <1>1, <1>2, <1>3 DEF WrittenInv, Further, Later, CoreIn, SignalsIn
<1> QED
  BY <1>2, <1>5, <1>6, <1>7 DEF SilenceInv

LEMMA SilenceAgain ==
  ASSUME SilenceInv, Cooperative' => Cooperative, Cfg!Again
  PROVE  SilenceInv'
<1>1. cfgAt' = "probe" /\ result' = "none" /\ cfgOwed' = <<>>
  BY DEF Cfg!Again
<1>2. cfgOwed' \in Seq(ExactReplies')
  BY <1>1
<1> QED
  BY <1>1, <1>2, SilenceUnwritten DEF Unwritten

LEMMA SilenceStep ==
  ASSUME HonestInv, BisectInv, SilenceInv, Cfg!WellFormed, [Cfg!Next]_(Cfg!vars)
  PROVE  SilenceInv'
<1>1. CfgType
  BY DEF HonestInv
<1>2. CASE UNCHANGED Cfg!vars
  BY <1>2 DEF SilenceInv, Cooperative, NoStray, ExactInv, WrittenInv, ToldInv, Further, Later, CoreIn, SignalsIn,
     ExactReplies, Cfg!Accepts, Cfg!vars, Cfg!wire, Cfg!count, Cfg!kept, Cfg!found
<1>3. CASE Cfg!Next
  <2>1. cfgPlan' = cfgPlan
    BY <1>3 DEF Cfg!Next
  <2>2. fw' = fw
    BY <1>3 DEF Cfg!Next, Cfg!Probe, Cfg!ProbeStale, Cfg!ReadChunk, Cfg!ReadOne,
       Cfg!ReadTimesOut, Cfg!CoreRead, Cfg!WriteCore, Cfg!WriteTimesOut, Cfg!CoreWritten,
       Cfg!SignalsRead, Cfg!WriteSignals, Cfg!OptionalRead, Cfg!WriteOptional, Cfg!VerifyOk,
       Cfg!VerifyRefuted, Cfg!VerifyAgain, Cfg!VerifyUnanswered, Cfg!Again
  <2>3. Cooperative' => Cooperative
    <3>1. NoStray' => NoStray
      BY <1>1, <1>3, <2>1, NoStrayBefore
    <3> QED
      BY <2>2, <3>1 DEF Cooperative, Cfg!Accepts
  <2>4. CASE \/ Cfg!ProbeStale \/ Cfg!ReadTimesOut \/ Cfg!WriteTimesOut
             \/ Cfg!VerifyOk \/ Cfg!VerifyUnanswered
    <3>1. cfgAt' = "done" /\ result' # "profile"
      BY <2>4 DEF Cfg!ProbeStale, Cfg!ReadTimesOut, Cfg!WriteTimesOut, Cfg!VerifyOk,
         Cfg!VerifyUnanswered, Cfg!Ends
    <3> QED
      BY <3>1, SilenceDone
  <2> QED
    BY <1>1, <1>3, <2>1, <2>3, <2>4, SilenceProbe, SilenceReadChunk, SilenceReadOne, SilenceCoreRead,
       SilenceWriteCore, SilenceCoreWritten, SilenceSignalsRead, SilenceWriteSignals,
       SilenceOptionalRead, SilenceWriteOptional, SilenceVerifyRefuted, SilenceVerifyAgain,
       SilenceAgain DEF Cfg!Next
<1> QED
  BY <1>2, <1>3

(* ConfigureHonest: a configure that succeeded left every key it asked for *)
(* in the receiver; bisecting reports what is refused and nothing else;    *)
(* and a receiver that takes every key is never said to refuse the profile *)
(* for lost or late answers (_verify_or_raise, _bisect).                   *)
THEOREM ConfigureIsHonest ==
  Cfg!Spec => []ConfigureHonest
<1> Cfg!WellFormed
  BY ConfigAssumption
<1> DEFINE IInv == HonestInv /\ BisectInv /\ SilenceInv
<1>1. Cfg!Init => IInv
  <2> SUFFICES ASSUME Cfg!Init PROVE IInv
    OBVIOUS
  <2>1. HonestInv
    BY HonestInit
  <2>2. BisectInv
    BY DEF BisectInv, Cfg!Init
  <2>3. SilenceInv
    <3>1. cfgOwed = <<>> /\ cfgAt = "probe" /\ result = "none"
      BY DEF Cfg!Init
    <3>2. cfgOwed \in Seq(ExactReplies)
      BY <3>1
    <3> QED
      BY <3>1, <3>2 DEF SilenceInv, ExactInv, WrittenInv, ToldInv, Further, Later
  <2> QED
    BY <2>1, <2>2, <2>3
<1>2. IInv /\ [Cfg!Next]_(Cfg!vars) => IInv'
  BY HonestStep, BisectStep, SilenceStep
<1>3. IInv => ConfigureHonest
  <2>1. IInv => CfgType /\ Cfg!VerifiedHolds
    BY DEF HonestInv
  <2> QED
    BY <2>1, BisectShows, SilenceShows DEF ConfigureHonest, Cfg!ConfigureHonest
<1> QED
  BY <1>1, <1>2, <1>3, PTL DEF Cfg!Spec

-----------------------------------------------------------------------------
(* Features are not given up for silence. *)

(* The faults of the link so far. *)
StraysNow == cfgPlan.stray - left["stray"]
ShiftsNow == cfgPlan.late - left["late"] + StraysNow
FaultsNow == cfgPlan.lost - left["lost"] + ShiftsNow

DataReplies == {r \in Replies : r.kind = "data"}

(* The last answers under way, but for m of them, are the feature's own.   *)
(* Each of the m, and each refusal the probe has heard, was put off by a   *)
(* request of its own.                                                     *)
Behind(m) ==
  /\ \A n \in m + 1 .. Len(cfgOwed) : cfgOwed[n].kind = "data" /\ Features[i] \in cfgOwed[n].has
  /\ naks + m <= ShiftsNow
  /\ attempt - 1 + m <= FaultsNow

FeatureInv ==
  /\ Len(cfgOwed) <= ShiftsNow
  /\ cfgAt = "probe" =>
       /\ Cfg!Known(Cfg!Optional) => naks <= StraysNow /\ cfgOwed \in Seq(DataReplies)
       /\ fw[Features[i]] = "ok" => \E m \in 0 .. Len(cfgOwed) : Behind(m)

LEMMA Counted ==
  ASSUME CfgType, Cfg!WellFormed, cfgPlan' = cfgPlan
  PROVE  /\ StraysNow \in Nat /\ ShiftsNow \in Nat /\ FaultsNow \in Nat
         /\ StraysNow <= ShiftsNow /\ ShiftsNow <= FaultsNow
         /\ left' = left => StraysNow' = StraysNow /\ ShiftsNow' = ShiftsNow /\ FaultsNow' = FaultsNow
         /\ Spent("stray") => /\ StraysNow' = StraysNow + 1 /\ ShiftsNow' = ShiftsNow + 1
                              /\ FaultsNow' = FaultsNow + 1
         /\ Spent("late") => /\ StraysNow' = StraysNow /\ ShiftsNow' = ShiftsNow + 1
                             /\ FaultsNow' = FaultsNow + 1
         /\ Spent("lost") => /\ StraysNow' = StraysNow /\ ShiftsNow' = ShiftsNow
                             /\ FaultsNow' = FaultsNow + 1
<1>1. /\ cfgPlan.lost \in Nat /\ cfgPlan.late \in Nat /\ cfgPlan.stray \in Nat
      /\ left["lost"] \in Nat /\ left["late"] \in Nat /\ left["stray"] \in Nat
      /\ left["lost"] <= cfgPlan.lost /\ left["late"] <= cfgPlan.late /\ left["stray"] <= cfgPlan.stray
  <2>1. left \in [Faults -> Nat] /\ cfgPlan \in CfgPlans
    BY DEF CfgType, FaultType
  <2>2. cfgPlan.lost \in Nat /\ cfgPlan.late \in Nat /\ cfgPlan.stray \in Nat
    BY <2>1 DEF Cfg!WellFormed
  <2> QED
    BY <2>1, <2>2 DEF CfgType, FaultType, Faults
<1>2. ASSUME NEW c \in Faults, Spent(c)
      PROVE  left'[c] = left[c] - 1 /\ \A d \in Faults \ {c} : left'[d] = left[d]
  BY <1>2, SpentFacts DEF CfgType
<1>3. StraysNow \in Nat /\ ShiftsNow \in Nat /\ FaultsNow \in Nat
  BY <1>1 DEF StraysNow, ShiftsNow, FaultsNow
<1>4. StraysNow <= ShiftsNow /\ ShiftsNow <= FaultsNow
  BY <1>1 DEF StraysNow, ShiftsNow, FaultsNow
<1>5. left' = left => StraysNow' = StraysNow /\ ShiftsNow' = ShiftsNow /\ FaultsNow' = FaultsNow
  BY DEF StraysNow, ShiftsNow, FaultsNow
<1>6. ASSUME Spent("stray")
      PROVE  StraysNow' = StraysNow + 1 /\ ShiftsNow' = ShiftsNow + 1 /\ FaultsNow' = FaultsNow + 1
  <2>1. left'["stray"] = left["stray"] - 1 /\ left'["late"] = left["late"] /\ left'["lost"] = left["lost"]
    BY <1>2, <1>6 DEF Faults
  <2> QED
    BY <1>1, <2>1 DEF StraysNow, ShiftsNow, FaultsNow
<1>7. ASSUME Spent("late")
      PROVE  StraysNow' = StraysNow /\ ShiftsNow' = ShiftsNow + 1 /\ FaultsNow' = FaultsNow + 1
  <2>1. left'["late"] = left["late"] - 1 /\ left'["stray"] = left["stray"] /\ left'["lost"] = left["lost"]
    BY <1>2, <1>7 DEF Faults
  <2> QED
    BY <1>1, <2>1 DEF StraysNow, ShiftsNow, FaultsNow
<1>8. ASSUME Spent("lost")
      PROVE  StraysNow' = StraysNow /\ ShiftsNow' = ShiftsNow /\ FaultsNow' = FaultsNow + 1
  <2>1. left'["lost"] = left["lost"] - 1 /\ left'["stray"] = left["stray"] /\ left'["late"] = left["late"]
    BY <1>2, <1>8 DEF Faults
  <2> QED
    BY <1>1, <2>1 DEF StraysNow, ShiftsNow, FaultsNow
<1> QED
  BY <1>3, <1>4, <1>5, <1>6, <1>7, <1>8

LEMMA DueFacts ==
  ASSUME CfgType, NEW ks \in SUBSET Cfg!Keys
  PROVE  /\ Len(cfgOwed) \in Nat /\ Len(Due(ks)) = Len(cfgOwed) + 1
         /\ \A n \in 1 .. Len(cfgOwed) : Due(ks)[n] = cfgOwed[n]
         /\ Due(ks)[Len(cfgOwed) + 1] = Cfg!Reply(ks)
         /\ Head(Due(ks)) = Due(ks)[1] /\ Len(Tail(Due(ks))) = Len(cfgOwed)
         /\ \A n \in 1 .. Len(cfgOwed) : Tail(Due(ks))[n] = Due(ks)[n + 1]
<1>1. cfgOwed \in Seq(Replies) /\ Cfg!Reply(ks) \in Replies
  BY ReplyFacts DEF CfgType
<1> DEFINE r == Cfg!Reply(ks)
<1> HIDE DEF r
<1>2. ASSUME r \in Replies
      PROVE  /\ Len(cfgOwed) \in Nat /\ Len(Append(cfgOwed, r)) = Len(cfgOwed) + 1
             /\ \A n \in 1 .. Len(cfgOwed) : Append(cfgOwed, r)[n] = cfgOwed[n]
             /\ Append(cfgOwed, r)[Len(cfgOwed) + 1] = r
             /\ Append(cfgOwed, r) \in Seq(Replies)
  BY <1>1, <1>2
<1>3. Due(ks) = Append(cfgOwed, r)
  BY DEF Due, r
<1>4. r \in Replies
  BY <1>1 DEF r
<1> DEFINE d == Due(ks)
<1>5. /\ Len(cfgOwed) \in Nat /\ Len(d) = Len(cfgOwed) + 1
      /\ \A n \in 1 .. Len(cfgOwed) : d[n] = cfgOwed[n]
      /\ d[Len(cfgOwed) + 1] = r /\ d \in Seq(Replies)
  BY <1>2, <1>3, <1>4
<1> HIDE DEF d
<1>6. Head(d) = d[1] /\ Len(Tail(d)) = Len(cfgOwed) /\ \A n \in 1 .. Len(cfgOwed) : Tail(d)[n] = d[n + 1]
  BY <1>5
<1> QED
  BY <1>5, <1>6 DEF d, r

(* An answer is put off by a request that shifts. *)
LEMMA ShiftsAsked ==
  ASSUME CfgType, Cfg!WellFormed, cfgPlan' = cfgPlan, Len(cfgOwed) <= ShiftsNow,
         NEW ks \in SUBSET Cfg!Keys, NEW o \in Cfg!valget(ks), Cfg!Pays(o)
  PROVE  Len(cfgOwed') <= ShiftsNow'
<1>1. ShiftsNow \in Nat /\ Len(cfgOwed) \in Nat
      /\ Len(Due(ks)) = Len(cfgOwed) + 1 /\ Len(Tail(Due(ks))) = Len(cfgOwed)
  BY Counted, DueFacts
<1>2. CASE left' = left /\ cfgOwed' = Tail(Due(ks))
  BY <1>1, <1>2, Counted
<1>3. CASE (Spent("stray") \/ Spent("late")) /\ cfgOwed' \in {Due(ks), cfgOwed}
  BY <1>1, <1>3, Counted
<1>4. CASE Spent("lost") /\ cfgOwed' = <<>>
  <2>1. ShiftsNow' = ShiftsNow
    BY <1>4, Counted
  <2>2. Len(<<>>) = 0
    OBVIOUS
  <2> QED
    BY <1>1, <1>4, <2>1, <2>2
<1> QED
  BY <1>2, <1>3, <1>4, Asked

LEMMA ShiftsSet ==
  ASSUME CfgType, Cfg!WellFormed, cfgPlan' = cfgPlan, Len(cfgOwed) <= ShiftsNow,
         NEW ks \in SUBSET Cfg!Keys, NEW o \in Cfg!valset(ks), Cfg!Pays(o)
  PROVE  Len(cfgOwed') <= ShiftsNow'
<1>1. ShiftsNow \in Nat /\ Len(cfgOwed) \in Nat /\ Len(<<>>) = 0
  <2>1. cfgOwed \in Seq(Replies) /\ ShiftsNow \in Nat
    BY Counted DEF CfgType
  <2>2. Len(<<>>) = 0
    OBVIOUS
  <2> QED
    BY <2>1, <2>2
<1>2. cfgOwed' \in {<<>>, cfgOwed}
  BY DEF Cfg!valset, Cfg!Said, Cfg!Pays
<1>3. o.cost \in Faults \cup {"none"}
  BY DEF Cfg!valset, Cfg!Said, Faults
<1>4. ShiftsNow' = ShiftsNow \/ ShiftsNow' = ShiftsNow + 1
  <2>1. CASE o.cost = "none"
    <3>1. left' = left
      BY <2>1 DEF Cfg!Pays
    <3> QED
      BY <1>1, <3>1, Counted
  <2>2. CASE o.cost \in Faults
    <3>1. Spent(o.cost)
      BY <2>2 DEF Cfg!Pays, Spent, Faults
    <3>2. ShiftsNow' = ShiftsNow \/ ShiftsNow' = ShiftsNow + 1
      BY <2>2, <3>1, Counted DEF Faults
    <3> QED
      BY <1>1, <3>2
  <2> QED
    BY <1>3, <2>1, <2>2
<1>5. CASE cfgOwed' = cfgOwed
  BY <1>1, <1>4, <1>5
<1>6. CASE cfgOwed' = <<>>
  BY <1>1, <1>4, <1>6
<1> QED
  BY <1>2, <1>5, <1>6

(* The refusals a probe has heard with this answer. *)
Refusals(o) == naks + (IF o.kind = "nak" THEN 1 ELSE 0)

LEMMA KnownAsked ==
  ASSUME CfgType, Cfg!WellFormed, cfgPlan' = cfgPlan, Cfg!Known(Cfg!Optional),
         naks <= StraysNow, cfgOwed \in Seq(DataReplies),
         NEW o \in Cfg!valget({Features[i]}), Cfg!Pays(o)
  PROVE  cfgOwed' \in Seq(DataReplies) /\ Refusals(o) <= StraysNow'
<1> DEFINE ks == {Features[i]}
<1>1. ks \in SUBSET Cfg!Keys /\ Cfg!Known(ks)
  BY ProfileFacts DEF CfgType, Cfg!Known
<1> HIDE DEF ks
<1>2. Cfg!Reply(ks) \in DataReplies /\ DataReplies \in SUBSET Replies
  BY <1>1, ReplyFacts DEF DataReplies
<1>3. o \in Cfg!valget(ks)
  BY DEF ks
<1>4. /\ cfgOwed' \in Seq(DataReplies) /\ o.kind \in {"data", "nak", "nodata", "timeout"}
      /\ o.kind = "nak" => Spent("stray") \/ \E r \in DataReplies : r.kind = "nak"
  BY <1>1, <1>2, <1>3, Answers
<1>5. o.kind = "nak" => Spent("stray")
  BY <1>4 DEF DataReplies
<1>6. naks \in Nat /\ StraysNow \in Nat
  BY Counted DEF CfgType
<1>7. StraysNow' \in {StraysNow, StraysNow + 1}
  <2>1. left' = left \/ Spent("stray") \/ Spent("late") \/ Spent("lost")
    BY <1>1, <1>3, Asked
  <2> QED
    BY <2>1, Counted
<1>8. CASE o.kind = "nak"
  <2>1. StraysNow' = StraysNow + 1
    BY <1>5, <1>8, Counted
  <2> QED
    BY <1>4, <1>6, <1>8, <2>1 DEF Refusals
<1>9. CASE o.kind # "nak"
  BY <1>4, <1>6, <1>7, <1>9 DEF Refusals
<1> QED
  BY <1>8, <1>9

(* A feature the firmware has is found, or the probe has heard another     *)
(* request's answer, which is then no more under way, or a fault.          *)
LEMMA FoundAsked ==
  ASSUME CfgType, Cfg!WellFormed, cfgPlan' = cfgPlan, fw[Features[i]] = "ok",
         NEW m \in 0 .. Len(cfgOwed), Behind(m),
         NEW o \in Cfg!valget({Features[i]}), Cfg!Pays(o)
  PROVE  \/ o.kind = "data" /\ Features[i] \in o.has
         \/ \E p \in 0 .. Len(cfgOwed') :
              /\ \A n \in p + 1 .. Len(cfgOwed') :
                   cfgOwed'[n].kind = "data" /\ Features[i] \in cfgOwed'[n].has
              /\ Refusals(o) + p <= ShiftsNow'
              /\ attempt + p <= FaultsNow'
<1> DEFINE k == Features[i]
           ks == {k}
           d == Due(ks)
           L == Len(cfgOwed)
           Own(r) == r.kind = "data" /\ k \in r.has
<1>1. ks \in SUBSET Cfg!Keys /\ Cfg!Known(ks)
  BY ProfileFacts DEF CfgType, Cfg!Known
<1>2. Own(Cfg!Reply(ks))
  BY <1>1, ReplyFacts
<1> HIDE DEF ks
<1>3. /\ L \in Nat /\ Len(d) = L + 1 /\ (\A n \in 1 .. L : d[n] = cfgOwed[n])
      /\ d[L + 1] = Cfg!Reply(ks) /\ Head(d) = d[1] /\ Len(Tail(d)) = L
      /\ \A n \in 1 .. L : Tail(d)[n] = d[n + 1]
  BY <1>1, DueFacts
<1>4. /\ naks \in Nat /\ attempt \in Nat \ {0} /\ ShiftsNow \in Nat /\ FaultsNow \in Nat
      /\ naks + m <= ShiftsNow /\ attempt - 1 + m <= FaultsNow
  BY Counted DEF CfgType, Behind
<1>5. o \in Cfg!valget(ks)
  BY DEF ks
<1>6. \A n \in m + 1 .. L + 1 : Own(d[n])
  <2>1. \A n \in m + 1 .. L : Own(cfgOwed[n])
    BY DEF Behind
  <2> HIDE DEF d, L, Own
  <2>2. ASSUME NEW n \in m + 1 .. L + 1 PROVE Own(d[n])
    <3>1. CASE n = L + 1
      BY <1>2, <1>3, <3>1
    <3>2. CASE n # L + 1
      <4>1. n \in m + 1 .. L /\ n \in 1 .. L
        BY <1>3, <2>2, <3>2 DEF L
      <4> QED
        BY <1>3, <2>1, <4>1
    <3> QED
      BY <3>1, <3>2
  <2> QED
    BY <2>2
<1>7. m \in Nat /\ m <= L
  BY <1>3
<1> HIDE DEF d, L, Own
<1>8. ASSUME NEW p \in Nat, p <= Len(cfgOwed'), Len(cfgOwed') \in Nat,
             \A n \in p + 1 .. Len(cfgOwed') : Own(cfgOwed'[n]),
             Refusals(o) + p <= ShiftsNow', attempt + p <= FaultsNow'
      PROVE  \E q \in 0 .. Len(cfgOwed') :
               /\ \A n \in q + 1 .. Len(cfgOwed') :
                    cfgOwed'[n].kind = "data" /\ Features[i] \in cfgOwed'[n].has
               /\ Refusals(o) + q <= ShiftsNow'
               /\ attempt + q <= FaultsNow'
  <2>1. p \in 0 .. Len(cfgOwed')
    BY <1>8
  <2>2. \A n \in p + 1 .. Len(cfgOwed') : cfgOwed'[n].kind = "data" /\ Features[i] \in cfgOwed'[n].has
    BY <1>8 DEF Own
  <2> QED
    BY <1>8, <2>1, <2>2
<1>9. CASE /\ left' = left /\ o.kind = Head(d).kind /\ o.has = Head(d).has /\ cfgOwed' = Tail(d)
  <2>1. CASE m = 0
    <3>1. Own(Head(d))
      BY <1>3, <1>6, <1>7, <2>1
    <3> QED
      BY <1>9, <3>1 DEF Own
  <2>2. CASE m # 0
    <3>1. m - 1 \in Nat /\ m - 1 <= Len(cfgOwed') /\ Len(cfgOwed') \in Nat /\ Len(cfgOwed') = L
      BY <1>3, <1>7, <1>9, <2>2
    <3>2. ASSUME NEW n \in (m - 1) + 1 .. Len(cfgOwed') PROVE Own(cfgOwed'[n])
      <4>1. n \in 1 .. L /\ n + 1 \in m + 1 .. L + 1
        BY <1>3, <1>7, <2>2, <3>1
      <4>2. cfgOwed'[n] = d[n + 1]
        BY <1>3, <1>9, <4>1
      <4> QED
        BY <1>6, <4>1, <4>2
    <3>3. ShiftsNow' = ShiftsNow /\ FaultsNow' = FaultsNow
      BY <1>9, Counted
    <3>4. Refusals(o) + (m - 1) <= ShiftsNow' /\ attempt + (m - 1) <= FaultsNow'
      BY <1>4, <1>7, <3>3 DEF Refusals
    <3> QED
      BY <1>8, <3>1, <3>2, <3>4
  <2> QED
    BY <2>1, <2>2
<1>10. ASSUME cfgOwed' = d, ShiftsNow' = ShiftsNow + 1, FaultsNow' = FaultsNow + 1
       PROVE  \E q \in 0 .. Len(cfgOwed') :
               /\ \A n \in q + 1 .. Len(cfgOwed') :
                    cfgOwed'[n].kind = "data" /\ Features[i] \in cfgOwed'[n].has
               /\ Refusals(o) + q <= ShiftsNow'
               /\ attempt + q <= FaultsNow'
  <2>1. m <= Len(cfgOwed') /\ Len(cfgOwed') \in Nat /\ Len(cfgOwed') = L + 1
    BY <1>3, <1>7, <1>10
  <2>2. \A n \in m + 1 .. Len(cfgOwed') : Own(cfgOwed'[n])
    BY <1>6, <1>10, <2>1
  <2>3. Refusals(o) + m <= ShiftsNow' /\ attempt + m <= FaultsNow'
    BY <1>4, <1>7, <1>10 DEF Refusals
  <2> QED
    BY <1>7, <1>8, <2>1, <2>2, <2>3
<1>11. CASE Spent("stray") /\ cfgOwed' = d
  BY <1>10, <1>11, Counted
<1>12. CASE Spent("late") /\ cfgOwed' = d
  BY <1>10, <1>12, Counted
<1>13. CASE Spent("lost") /\ cfgOwed = <<>> /\ cfgOwed' = <<>> /\ o.kind \in {"timeout", "nodata"}
  <2>1. Len(<<>>) = 0
    OBVIOUS
  <2>2. m = 0 /\ Len(cfgOwed') = 0
    BY <1>7, <1>13, <2>1 DEF L
  <2>3. ShiftsNow' = ShiftsNow /\ FaultsNow' = FaultsNow + 1
    BY <1>13, Counted
  <2>4. Refusals(o) = naks
    BY <1>4, <1>13 DEF Refusals
  <2>5. Refusals(o) + 0 <= ShiftsNow' /\ attempt + 0 <= FaultsNow'
    BY <1>4, <2>2, <2>3, <2>4
  <2>6. \A n \in 0 + 1 .. Len(cfgOwed') : Own(cfgOwed'[n])
    BY <2>2
  <2> QED
    BY <1>8, <2>2, <2>5, <2>6
<1>14. /\ cfgOwed' = o.owed
       /\ \/ /\ left' = left
             /\ o.kind = Head(d).kind /\ o.owed = Tail(d) /\ o.has = Head(d).has
          \/ o.owed = d /\ (Spent("stray") \/ Spent("late"))
          \/ o.kind \in {"timeout", "nodata"} /\ cfgOwed = <<>> /\ o.owed = <<>> /\ Spent("lost")
  BY <1>1, <1>5, Asked DEF d
<1> QED
  BY <1>9, <1>11, <1>12, <1>13, <1>14

(* What is said of a feature that is given up. *)
GivenUp(k) ==
  Cfg!Accepts({k}) =>
    IF cfgAt = "optional" THEN Cfg!Strays >= 1
    ELSE \/ Cfg!Strays >= Cfg!PROBE_NAKS_FINAL
         \/ ~Cfg!Known(Cfg!Optional) /\ Cfg!Shifts >= Cfg!PROBE_NAKS_FINAL
         \/ k \notin seen /\ Cfg!FaultsSoFar >= Cfg!PROBE_ATTEMPTS

LEMMA CountsAre ==
  ASSUME CfgType', Cfg!WellFormed, cfgPlan' = cfgPlan
  PROVE  Cfg!Strays = StraysNow' /\ Cfg!Shifts = ShiftsNow' /\ Cfg!FaultsSoFar = FaultsNow'
<1>1. left'.stray = left'["stray"] /\ left'.late = left'["late"] /\ left'.lost = left'["lost"]
  OBVIOUS
<1>2. Cfg!Strays = cfgPlan.stray - left'["stray"] /\ StraysNow' = cfgPlan.stray - left'["stray"]
  BY <1>1 DEF Cfg!Strays, StraysNow
<1>3. Cfg!Shifts = cfgPlan.late - left'["late"] + (cfgPlan.stray - left'["stray"])
      /\ ShiftsNow' = cfgPlan.late - left'["late"] + (cfgPlan.stray - left'["stray"])
  BY <1>1, <1>2 DEF Cfg!Shifts, ShiftsNow
<1>4. Cfg!FaultsSoFar = cfgPlan.lost - left'["lost"] + Cfg!Shifts /\ FaultsNow' = cfgPlan.lost - left'["lost"] + ShiftsNow'
  BY <1>1 DEF Cfg!FaultsSoFar, FaultsNow
<1> QED
  BY <1>2, <1>3, <1>4

LEMMA FeatureProbe ==
  ASSUME CfgType, CfgType', FeatureInv, Cfg!WellFormed, cfgPlan' = cfgPlan, Cfg!Probe
  PROVE  FeatureInv' /\ \A k \in unsupported' \ unsupported : GivenUp(k)
<1>1. PICK o \in Cfg!valget({Features[i]}) :
         /\ Cfg!Pays(o)
         /\ LET decided == Cfg!ProbeVerdict(o)
            IN  \/ /\ decided \in {"yes", "no"} /\ Cfg!ProbeDecided(decided)
                   /\ UNCHANGED <<once, round, result>>
                \/ /\ decided = "again"
                   /\ attempt' = attempt + 1
                   /\ naks' = naks + (IF o.kind = "nak" THEN 1 ELSE 0)
                   /\ UNCHANGED <<cfgAt, i, rb, unsupported, Cfg!kept, result>>
  BY DEF Cfg!Probe
<1>2. cfgAt = "probe" /\ fw' = fw
  BY DEF Cfg!Probe
<1>3. {Features[i]} \in SUBSET Cfg!Keys
  BY ProfileFacts DEF CfgType
<1>4. Len(cfgOwed') <= ShiftsNow'
  BY <1>1, <1>3, ShiftsAsked DEF FeatureInv
<1>5. Cfg!Known(Cfg!Optional) => cfgOwed' \in Seq(DataReplies) /\ Refusals(o) <= StraysNow'
  BY <1>1, <1>2, KnownAsked DEF FeatureInv
<1>6. fw[Features[i]] = "ok" =>
        \/ o.kind = "data" /\ Features[i] \in o.has
        \/ \E p \in 0 .. Len(cfgOwed') :
             /\ \A n \in p + 1 .. Len(cfgOwed') :
                  cfgOwed'[n].kind = "data" /\ Features[i] \in cfgOwed'[n].has
             /\ Refusals(o) + p <= ShiftsNow'
             /\ attempt + p <= FaultsNow'
  <2> SUFFICES ASSUME fw[Features[i]] = "ok"
               PROVE  \/ o.kind = "data" /\ Features[i] \in o.has
                      \/ \E p \in 0 .. Len(cfgOwed') :
                           /\ \A n \in p + 1 .. Len(cfgOwed') :
                                cfgOwed'[n].kind = "data" /\ Features[i] \in cfgOwed'[n].has
                           /\ Refusals(o) + p <= ShiftsNow'
                           /\ attempt + p <= FaultsNow'
    OBVIOUS
  <2>1. PICK m \in 0 .. Len(cfgOwed) : Behind(m)
    BY <1>2 DEF FeatureInv
  <2> QED
    BY <1>1, <2>1, FoundAsked
<1>7. /\ Refusals(o) \in Nat /\ StraysNow' \in Nat /\ ShiftsNow' \in Nat /\ FaultsNow' \in Nat
      /\ StraysNow' <= ShiftsNow' /\ ShiftsNow' <= FaultsNow' /\ Len(cfgOwed') \in Nat
      /\ attempt \in Nat \ {0}
  <2>1. left' = left \/ Spent("stray") \/ Spent("late") \/ Spent("lost")
    BY <1>1, <1>3, Asked
  <2>2. StraysNow' \in Nat /\ ShiftsNow' \in Nat /\ FaultsNow' \in Nat
        /\ StraysNow' <= ShiftsNow' /\ ShiftsNow' <= FaultsNow'
    BY <2>1, Counted
  <2>3. cfgOwed' \in Seq(Replies) /\ naks \in Nat /\ attempt \in Nat \ {0}
    BY DEF CfgType
  <2> QED
    BY <2>2, <2>3 DEF Refusals
<1>8. CASE /\ Cfg!ProbeVerdict(o) \in {"yes", "no"} /\ Cfg!ProbeDecided(Cfg!ProbeVerdict(o))
  <2> DEFINE decided == Cfg!ProbeVerdict(o)
  <2>1. /\ unsupported' = unsupported \cup (IF decided = "no" THEN {Features[i]} ELSE {})
        /\ attempt' = 1 /\ naks' = 0
        /\ cfgAt' = "read" \/ (cfgAt' = cfgAt)
    BY <1>8 DEF Cfg!ProbeDecided, Cfg!Reads
  <2>2. FeatureInv'
    <3>1. Cfg!Known(Cfg!Optional)' <=> Cfg!Known(Cfg!Optional)
      BY <1>2 DEF Cfg!Known
    <3>2. Behind(Len(cfgOwed))'
      BY <1>4, <1>7, <2>1 DEF Behind
    <3>3. \E m \in 0 .. Len(cfgOwed') : Behind(m)'
      BY <1>7, <3>2
    <3>4. naks' <= StraysNow'
      BY <1>7, <2>1
    <3> QED
      BY <1>4, <1>5, <3>1, <3>3, <3>4 DEF FeatureInv
  <2>3. ASSUME NEW k \in unsupported' \ unsupported, Cfg!Accepts({k})
        PROVE  \/ Cfg!Strays >= Cfg!PROBE_NAKS_FINAL
               \/ ~Cfg!Known(Cfg!Optional) /\ Cfg!Shifts >= Cfg!PROBE_NAKS_FINAL
               \/ k \notin seen /\ Cfg!FaultsSoFar >= Cfg!PROBE_ATTEMPTS
    <3>1. k = Features[i] /\ decided = "no" /\ fw[Features[i]] = "ok"
      BY <2>1, <2>3 DEF Cfg!Accepts
    <3>2. /\ ~(o.kind = "data" /\ Features[i] \in o.has)
          /\ \/ Refusals(o) >= 2
             \/ attempt = 3 /\ k \notin seen
      BY <3>1 DEF Cfg!ProbeVerdict, Refusals, Cfg!PROBE_NAKS_FINAL, Cfg!PROBE_ATTEMPTS
    <3>3. PICK p \in 0 .. Len(cfgOwed') : Refusals(o) + p <= ShiftsNow' /\ attempt + p <= FaultsNow'
      BY <1>6, <3>1, <3>2
    <3>4. Refusals(o) <= ShiftsNow' /\ attempt <= FaultsNow'
      BY <1>7, <3>3
    <3>5. Cfg!Strays = StraysNow' /\ Cfg!Shifts = ShiftsNow' /\ Cfg!FaultsSoFar = FaultsNow'
      BY CountsAre
    <3>6. CASE Refusals(o) >= 2 /\ Cfg!Known(Cfg!Optional)
      <4>1. StraysNow' >= 2
        BY <1>5, <1>7, <3>6
      <4> QED
        BY <3>5, <4>1 DEF Cfg!PROBE_NAKS_FINAL
    <3>7. CASE Refusals(o) >= 2 /\ ~Cfg!Known(Cfg!Optional)
      <4>1. ShiftsNow' >= 2
        BY <1>7, <3>4, <3>7
      <4> QED
        BY <3>5, <3>7, <4>1 DEF Cfg!PROBE_NAKS_FINAL
    <3>8. CASE attempt = 3 /\ k \notin seen
      <4>1. FaultsNow' >= 3
        BY <1>7, <3>4, <3>8
      <4> QED
        BY <3>5, <3>8, <4>1 DEF Cfg!PROBE_ATTEMPTS
    <3> QED
      BY <3>2, <3>6, <3>7, <3>8
  <2> QED
    BY <1>2, <2>2, <2>3 DEF GivenUp
<1>9. CASE /\ Cfg!ProbeVerdict(o) = "again"
           /\ attempt' = attempt + 1
           /\ naks' = naks + (IF o.kind = "nak" THEN 1 ELSE 0)
           /\ UNCHANGED <<cfgAt, i, unsupported>>
  <2>1. naks' = Refusals(o)
    BY <1>9 DEF Refusals
  <2>2. Cfg!Known(Cfg!Optional)' <=> Cfg!Known(Cfg!Optional)
    BY <1>2 DEF Cfg!Known
  <2>3. ~(o.kind = "data" /\ Features[i] \in o.has)
    BY <1>9 DEF Cfg!ProbeVerdict
  <2>4. ASSUME NEW p \in 0 .. Len(cfgOwed'),
               \A n \in p + 1 .. Len(cfgOwed') :
                  cfgOwed'[n].kind = "data" /\ Features[i] \in cfgOwed'[n].has,
               Refusals(o) + p <= ShiftsNow', attempt + p <= FaultsNow'
        PROVE  Behind(p)'
    <3>1. attempt' - 1 + p = attempt + p
      BY <1>7, <1>9, <2>4
    <3> QED
      BY <1>9, <2>1, <2>4, <3>1 DEF Behind
  <2>5. fw'[Features[i']] = "ok" => \E m \in 0 .. Len(cfgOwed') : Behind(m)'
    BY <1>2, <1>6, <1>9, <2>3, <2>4
  <2>6. FeatureInv'
    BY <1>4, <1>5, <2>1, <2>2, <2>5 DEF FeatureInv
  <2> QED
    BY <1>9, <2>6
<1> QED
  BY <1>1, <1>8, <1>9 DEF Cfg!kept

LEMMA FeatureAgain ==
  ASSUME CfgType, FeatureInv, Cfg!WellFormed, cfgPlan' = cfgPlan, Cfg!Again
  PROVE  FeatureInv' /\ unsupported' = {}
<1>1. /\ cfgOwed' = <<>> /\ attempt' = 1 /\ naks' = 0 /\ left' = left /\ unsupported' = {}
  BY DEF Cfg!Again
<1>2. Len(cfgOwed') = 0 /\ cfgOwed' \in Seq(DataReplies)
  BY <1>1
<1>3. StraysNow' \in Nat /\ ShiftsNow' \in Nat /\ FaultsNow' \in Nat
  BY <1>1, Counted
<1>4. Behind(0)'
  BY <1>1, <1>2, <1>3 DEF Behind
<1>5. \E m \in 0 .. Len(cfgOwed') : Behind(m)'
  <2>1. 0 \in 0 .. Len(cfgOwed')
    BY <1>2
  <2> QED
    BY <1>4, <2>1
<1>6. naks' <= StraysNow' /\ Len(cfgOwed') <= ShiftsNow'
  BY <1>1, <1>2, <1>3
<1> QED
  BY <1>1, <1>2, <1>5, <1>6 DEF FeatureInv

LEMMA FeatureElsewhere ==
  ASSUME Len(cfgOwed') <= ShiftsNow', cfgAt' # "probe"
  PROVE  FeatureInv'
BY DEF FeatureInv

(* Later, only the number of answers under way matters. *)
LEMMA ShiftsLater ==
  ASSUME HonestInv, FeatureInv, Cfg!WellFormed, cfgPlan' = cfgPlan, Cfg!Next, ~Cfg!Again
  PROVE  Len(cfgOwed') <= ShiftsNow'
<1>1. CfgType /\ Len(cfgOwed) <= ShiftsNow
  BY DEF HonestInv, FeatureInv
<1>2. \A n \in 1 .. Len(Features) : {Features[n]} \in SUBSET Cfg!Keys
  BY ProfileFacts
<1>3. i \in 1 .. Len(Features) /\ rb \in Readbacks /\ todo \in Seq(Seq(Cfg!Keys))
  BY <1>1 DEF CfgType
<1>4. rb.ones \in Seq(Cfg!Keys) /\ rb.chunks \in Seq(Seq(Cfg!Keys))
  BY <1>3 DEF Readbacks
<1>5. /\ rb.chunks # <<>> => Cfg!Range(Head(rb.chunks)) \in SUBSET Cfg!Keys
      /\ rb.ones # <<>> => {Head(rb.ones)} \in SUBSET Cfg!Keys
      /\ todo # <<>> => Cfg!Range(Head(todo)) \in SUBSET Cfg!Keys
      /\ Cfg!Range(Signals) \in SUBSET Cfg!Keys
  <2>1. rb.ones # <<>> => {Head(rb.ones)} \in SUBSET Cfg!Keys
    BY <1>4
  <2> QED
    BY <1>3, <1>4, <2>1, FirstOf, ProfileFacts
<1>6. CASE Cfg!Probe \/ Cfg!ProbeStale
  <2>1. PICK o \in Cfg!valget({Features[i]}) : Cfg!Pays(o)
    BY <1>6 DEF Cfg!Probe, Cfg!ProbeStale
  <2> QED
    BY <1>1, <1>2, <1>3, <2>1, ShiftsAsked
<1>7. CASE Cfg!ReadChunk
  <2>1. PICK o \in Cfg!valget(Cfg!Range(Head(rb.chunks))) : Cfg!Pays(o)
    BY <1>7 DEF Cfg!ReadChunk
  <2>2. Cfg!Range(Head(rb.chunks)) \in SUBSET Cfg!Keys
    BY <1>5, <1>7 DEF Cfg!ReadChunk
  <2> QED
    BY <1>1, <2>1, <2>2, ShiftsAsked
<1>8. CASE Cfg!ReadOne
  <2>1. PICK o \in Cfg!valget({Head(rb.ones)}) : Cfg!Pays(o)
    BY <1>8 DEF Cfg!ReadOne
  <2>2. {Head(rb.ones)} \in SUBSET Cfg!Keys
    BY <1>5, <1>8 DEF Cfg!ReadOne
  <2> QED
    BY <1>1, <2>1, <2>2, ShiftsAsked
<1>9. CASE Cfg!ReadTimesOut
  <2> DEFINE ks == IF rb.ones # <<>> THEN {Head(rb.ones)} ELSE Cfg!Range(Head(rb.chunks))
  <2>1. PICK o \in Cfg!valget(ks) : Cfg!Pays(o)
    BY <1>9 DEF Cfg!ReadTimesOut
  <2>2. ks \in SUBSET Cfg!Keys
    BY <1>5, <1>9 DEF Cfg!ReadTimesOut
  <2> HIDE DEF ks
  <2> QED
    BY <1>1, <2>1, <2>2, ShiftsAsked
<1>10. CASE Cfg!WriteCore
  <2>1. PICK o \in Cfg!valset(Cfg!Range(Head(todo))) : Cfg!Pays(o)
    BY <1>10 DEF Cfg!WriteCore
  <2>2. Cfg!Range(Head(todo)) \in SUBSET Cfg!Keys
    BY <1>5, <1>10 DEF Cfg!WriteCore
  <2> QED
    BY <1>1, <2>1, <2>2, ShiftsSet
<1>11. CASE Cfg!WriteTimesOut
  <2> DEFINE ks == IF cfgAt = "write" THEN Cfg!Range(Head(todo)) ELSE Cfg!Range(Signals)
  <2>1. PICK o \in Cfg!valset(ks) : Cfg!Pays(o)
    BY <1>11 DEF Cfg!WriteTimesOut
  <2>2. ks \in SUBSET Cfg!Keys
    BY <1>5, <1>11 DEF Cfg!WriteTimesOut
  <2> HIDE DEF ks
  <2> QED
    BY <1>1, <2>1, <2>2, ShiftsSet
<1>12. CASE Cfg!WriteSignals
  <2>1. PICK o \in Cfg!valset(Cfg!Range(Signals)) : Cfg!Pays(o)
    BY <1>12 DEF Cfg!WriteSignals
  <2> QED
    BY <1>1, <1>5, <2>1, ShiftsSet
<1>13. CASE Cfg!WriteOptional
  <2>1. PICK o \in Cfg!valset({Features[i]}) : Cfg!Pays(o)
    BY <1>13 DEF Cfg!WriteOptional
  <2> QED
    BY <1>1, <1>2, <1>3, <2>1, ShiftsSet
<1>14. CASE \/ Cfg!CoreRead \/ Cfg!CoreWritten \/ Cfg!SignalsRead \/ Cfg!OptionalRead
            \/ Cfg!VerifyOk \/ Cfg!VerifyRefuted \/ Cfg!VerifyUnanswered \/ Cfg!VerifyAgain
  <2>1. left' = left /\ cfgOwed' \in {cfgOwed, <<>>}
    BY <1>14 DEF Cfg!CoreRead, Cfg!CoreWritten, Cfg!SignalsRead, Cfg!OptionalRead, Cfg!VerifyOk,
       Cfg!VerifyRefuted, Cfg!VerifyUnanswered, Cfg!VerifyAgain, Cfg!wire
  <2>2. ShiftsNow' = ShiftsNow /\ ShiftsNow \in Nat /\ Len(<<>>) = 0
    <3>1. Len(<<>>) = 0
      OBVIOUS
    <3> QED
      BY <1>1, <2>1, <3>1, Counted
  <2> QED
    BY <1>1, <2>1, <2>2
<1> QED
  BY <1>6, <1>7, <1>8, <1>9, <1>10, <1>11, <1>12, <1>13, <1>14 DEF Cfg!Next

LEMMA FeatureWritten ==
  ASSUME CfgType, CfgType', Cfg!WellFormed, cfgPlan' = cfgPlan, Cfg!WriteOptional
  PROVE  \A k \in unsupported' \ unsupported : GivenUp(k)
<1> SUFFICES ASSUME NEW k \in unsupported' \ unsupported, Cfg!Accepts({k})
             PROVE  Cfg!Strays >= 1
  BY DEF GivenUp, Cfg!WriteOptional
<1>1. PICK o \in Cfg!valset({Features[i]}) :
         /\ Cfg!Pays(o) /\ Cfg!Writes(o)
         /\ unsupported' = unsupported \/ unsupported' = unsupported \cup (IF Cfg!Demotes(o) THEN {Features[i]} ELSE {})
  BY DEF Cfg!WriteOptional
<1>2. k = Features[i] /\ o.verdict = "nak"
  BY <1>1 DEF Cfg!Demotes
<1>3. {Features[i]} \in SUBSET Cfg!Keys
  BY ProfileFacts DEF CfgType
<1>4. Spent("stray")
  BY <1>1, <1>2, <1>3, Set
<1>5. StraysNow' = StraysNow + 1 /\ StraysNow \in Nat
  BY <1>4, Counted
<1> QED
  BY <1>5, CountsAre

LEMMA FeatureStep ==
  ASSUME HonestInv, HonestInv', FeatureInv, Cfg!WellFormed, [Cfg!Next]_(Cfg!vars)
  PROVE  FeatureInv' /\ [\A k \in unsupported' \ unsupported : GivenUp(k)]_(Cfg!vars)
<1>1. CfgType /\ CfgType'
  BY DEF HonestInv
<1>2. CASE UNCHANGED Cfg!vars
  BY <1>2 DEF FeatureInv, Behind, StraysNow, ShiftsNow, FaultsNow, Cfg!Known, Cfg!vars, Cfg!wire,
     Cfg!count, Cfg!kept, Cfg!found
<1>3. CASE Cfg!Next
  <2>1. cfgPlan' = cfgPlan
    BY <1>3 DEF Cfg!Next
  <2>2. CASE Cfg!Probe
    BY <1>1, <2>1, <2>2, FeatureProbe
  <2>3. CASE Cfg!Again
    <3>1. FeatureInv' /\ unsupported' = {}
      BY <1>1, <2>1, <2>3, FeatureAgain
    <3> QED
      BY <3>1
  <2>4. CASE ~Cfg!Probe /\ ~Cfg!Again
    <3>1. cfgAt' # "probe"
      BY <1>3, <2>4 DEF Cfg!Next, Cfg!ProbeStale, Cfg!ReadChunk, Cfg!ReadOne, Cfg!CoreRead, Cfg!WriteCore,
         Cfg!ReadTimesOut, Cfg!WriteTimesOut, Cfg!CoreWritten, Cfg!SignalsRead, Cfg!WriteSignals,
         Cfg!OptionalRead, Cfg!WriteOptional, Cfg!VerifyOk, Cfg!VerifyRefuted, Cfg!VerifyAgain,
         Cfg!VerifyUnanswered, Cfg!Ends, Cfg!Reads, Cfg!OptionalFrom
    <3>2. FeatureInv'
      BY <1>3, <2>1, <2>4, <3>1, ShiftsLater, FeatureElsewhere
    <3>3. CASE Cfg!WriteOptional
      BY <1>1, <2>1, <3>2, <3>3, FeatureWritten
    <3>4. CASE ~Cfg!WriteOptional
      <4>1. unsupported' = unsupported
        BY <1>3, <2>4, <3>4 DEF Cfg!Next, Cfg!ProbeStale, Cfg!ReadChunk, Cfg!ReadOne, Cfg!CoreRead,
           Cfg!WriteCore, Cfg!ReadTimesOut, Cfg!WriteTimesOut, Cfg!CoreWritten, Cfg!SignalsRead,
           Cfg!WriteSignals, Cfg!OptionalRead, Cfg!VerifyOk, Cfg!VerifyRefuted, Cfg!VerifyAgain,
           Cfg!VerifyUnanswered, Cfg!found
      <4> QED
        BY <3>2, <4>1
    <3> QED
      BY <3>3, <3>4
  <2> QED
    BY <2>2, <2>3, <2>4
<1> QED
  BY <1>2, <1>3

(* FeatureKept: a feature the firmware has is given up only for the faults *)
(* of the link that FeatureKept counts, however many features the profile  *)
(* has and however often it is configured (_probe_feature,                 *)
(* _apply_optional).                                                       *)
THEOREM FeaturesAreKept ==
  Cfg!Spec => FeatureKept
<1> Cfg!WellFormed
  BY ConfigAssumption
<1> DEFINE IInv == HonestInv /\ FeatureInv
           Kept == \A k \in unsupported' \ unsupported : GivenUp(k)
<1>1. Cfg!Init => IInv
  <2> SUFFICES ASSUME Cfg!Init PROVE IInv
    OBVIOUS
  <2>1. HonestInv
    BY HonestInit
  <2>2. /\ left = [lost |-> cfgPlan.lost, late |-> cfgPlan.late, stray |-> cfgPlan.stray]
        /\ cfgOwed = <<>> /\ attempt = 1 /\ naks = 0
    BY DEF Cfg!Init
  <2>3. cfgPlan.lost \in Nat /\ cfgPlan.late \in Nat /\ cfgPlan.stray \in Nat
    BY DEF Cfg!Init, Cfg!WellFormed
  <2>4. StraysNow = 0 /\ ShiftsNow = 0 /\ FaultsNow = 0
    BY <2>2, <2>3 DEF StraysNow, ShiftsNow, FaultsNow
  <2>5. Len(cfgOwed) = 0 /\ cfgOwed \in Seq(DataReplies)
    BY <2>2
  <2>6. Behind(0) /\ 0 \in 0 .. Len(cfgOwed)
    BY <2>2, <2>4, <2>5 DEF Behind
  <2>7. FeatureInv
    BY <2>2, <2>4, <2>5, <2>6 DEF FeatureInv
  <2> QED
    BY <2>1, <2>7
<1>2. IInv /\ [Cfg!Next]_(Cfg!vars) => IInv' /\ [Kept]_(Cfg!vars)
  BY HonestStep, FeatureStep
<1>3. Kept <=> \A k \in unsupported' \ unsupported : Cfg!Accepts({k}) =>
        IF cfgAt = "optional" THEN Cfg!Strays >= 1
        ELSE \/ Cfg!Strays >= Cfg!PROBE_NAKS_FINAL
             \/ ~Cfg!Known(Cfg!Optional) /\ Cfg!Shifts >= Cfg!PROBE_NAKS_FINAL
             \/ k \notin seen /\ Cfg!FaultsSoFar >= Cfg!PROBE_ATTEMPTS
  BY DEF GivenUp
<1> HIDE DEF Kept
<1>4. Cfg!Spec => [][Kept]_(Cfg!vars)
  BY <1>1, <1>2, PTL DEF Cfg!Spec
<1> QED
  BY <1>4, PTL DEF FeatureKept, Cfg!FeatureKept, Kept, GivenUp

=============================================================================
