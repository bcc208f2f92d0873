--------------------------- MODULE ReceiverConfig ---------------------------
(***************************************************************************)
(* What ReceiverController._configure asks of the receiver, key by key     *)
(* (src/mtrtk/core/receiver.py): probe the optional features, read the     *)
(* core keys back and write those that differ, halving what is refused,    *)
(* then the signals, then the features, then verify.                       *)
(*                                                                         *)
(* A key holds the profile's value or another one.  CFG-VALGET is answered *)
(* by a data frame, then by an ACK; neither names the request, so an       *)
(* answer that comes late is given to the next VALGET (core/link.py).      *)
(* owed holds the answers that are still under way; a VALSET's own answer  *)
(* comes after them, and they are dropped, nobody waiting for them.        *)
(***************************************************************************)
EXTENDS Naturals, Sequences, SequencesExt, FiniteSetsExt

CONSTANTS
  Core, Signals,   \* the profile's keys, in order
  Features,        \* its optional features, each of one key
  ChunkSize,       \* MAX_KEYS_PER_VALSET
  Plans            \* the situations to check: RECEIVER_STRICT (strict), and bounds on
                   \* the keys the firmware lacks or refuses to change (odd), on
                   \* answers that are lost (lost) or outlive their request (late),
                   \* on verdicts of another request taken for this one's (stray)
                   \* and on configures (rounds)

PROBE_ATTEMPTS == 3
PROBE_NAKS_FINAL == 2
VERIFY_ATTEMPTS == 3

Required == Range(Core) \cup Range(Signals)
Optional == Range(Features)
Keys == Required \cup Optional

(* What a profile is: its features have keys of their own. *)
WellFormed ==
  /\ ChunkSize \in Nat \ {0}
  /\ Core \in Seq(Keys) /\ Signals \in Seq(Keys) /\ Features \in Seq(Keys)
  /\ Features # <<>> /\ Optional \cap Required = {}
  /\ Plans \subseteq [strict : BOOLEAN, odd : Nat, lost : Nat, late : Nat, stray : Nat, rounds : Nat]

VARIABLES
  plan,      \* the situation of this run; never changes
  fw,        \* fw[k]: the firmware has the key ("ok"), will not change it
             \* ("readonly") or does not know it ("unknown")
  ram,       \* ram[k]: the receiver holds the profile's value
  owed,      \* answers to earlier VALGETs that are still to come
  at,        \* where _configure stands
  i, attempt, naks,  \* the feature, the try and the refusals it counts
  rb,        \* the _readback that runs
  todo,      \* chunks and halves still to be written, in order
  rejected,  \* core keys the receiver refused
  unsupported,       \* caps.unsupported
  seen,      \* _seen_supported
  once,      \* _configured_once
  result,    \* how the configure ended
  left,      \* budget of faults
  round,     \* configures so far
  pending    \* what _apply_core set out to write                   (history)

wire == <<owed, left>>
count == <<i, attempt, naks>>
kept == <<seen, once, round>>
found == <<rejected, unsupported>>
vars == <<plan, fw, ram, wire, at, count, rb, todo, found, kept, result, pending>>

NoRead == [of |-> "none", chunks |-> <<>>, ones |-> <<>>, got |-> {}, good |-> {}, lost |-> {}]

chunked(s) ==
  [c \in 1 .. (Len(s) + ChunkSize - 1) \div ChunkSize |->
     SubSeq(s, (c - 1) * ChunkSize + 1,
            IF c * ChunkSize < Len(s) THEN c * ChunkSize ELSE Len(s))]

Readback(of, keys) == [NoRead EXCEPT !.of = of, !.chunks = chunked(keys)]

(* The keys of s that are in ks, in order: the c-th is the one where c of  *)
(* them are counted.                                                       *)
Upto(s, ks, n) == Cardinality({j \in 1 .. n : s[j] \in ks})
Those(s, ks) ==
  [c \in 1 .. Upto(s, ks, Len(s)) |->
     s[CHOOSE n \in 1 .. Len(s) : s[n] \in ks /\ Upto(s, ks, n) = c]]

Wanted == Those(Core \o Signals, Required \ rejected)

-----------------------------------------------------------------------------
(* The link: what a request can be answered with. *)

Known(ks) == \A k \in ks : fw[k] # "unknown"
Accepts(ks) == \A k \in ks : fw[k] = "ok"
Nothing == [kind |-> "none", has |-> {}, good |-> {}]
Reply(ks) ==
  IF Known(ks) THEN [kind |-> "data", has |-> ks, good |-> {k \in ks : ram[k]}]
  ELSE [Nothing EXCEPT !.kind = "nak"]

Told(reply, frames, cost) ==
  [kind |-> reply.kind, has |-> reply.has, good |-> reply.good, owed |-> frames, cost |-> cost]
Told0(kind, frames, cost) == Told([Nothing EXCEPT !.kind = kind], frames, cost)

(* Answers come in the order of their requests: the first one that is due *)
(* answers.  The refusal of a request that timed out is dropped when it   *)
(* comes, its data are not.  An ACK alone is a data frame lost or late.   *)
valget(ks) ==
  LET due == Append(owed, Reply(ks))
  IN  {Told(Head(due), Tail(due), "none"),
       Told0("nak", due, "stray"),
       Told0("timeout", IF Known(ks) THEN due ELSE owed, "late")}
      \cup (IF Known(ks) THEN {Told0("nodata", due, "late")} ELSE {})
      \cup (IF owed = <<>> THEN {Told0("timeout", <<>>, "lost")} ELSE {})
      \cup (IF owed = <<>> /\ Known(ks) THEN {Told0("nodata", <<>>, "lost")} ELSE {})

Said(verdict, ks, frames, cost) ==
  [verdict |-> verdict, written |-> ks, owed |-> frames, cost |-> cost]

(* All or nothing of one VALSET is written.  Silence is all three tries.   *)
valset(ks) ==
  LET done == IF Accepts(ks) THEN ks ELSE {}
  IN  {Said(IF Accepts(ks) THEN "ack" ELSE "nak", done, <<>>, "none"),
       Said(IF Accepts(ks) THEN "nak" ELSE "ack", done, <<>>, "stray"),
       Said("timeout", done, owed, "lost"),
       Said("timeout", {}, owed, "lost")}

Pays(o) ==
  /\ o.cost \in {"none"} \cup {c \in DOMAIN left : left[c] > 0}
  /\ left' = IF o.cost = "none" THEN left ELSE [left EXCEPT ![o.cost] = @ - 1]
  /\ owed' = o.owed

Writes(o) == ram' = [k \in Keys |-> ram[k] \/ k \in o.written]

-----------------------------------------------------------------------------
Init ==
  /\ plan \in Plans
  /\ fw \in {f \in [Keys -> {"ok", "readonly", "unknown"}] :
               Cardinality({k \in Keys : f[k] # "ok"}) <= plan.odd}
  /\ ram \in {r \in [Keys -> BOOLEAN] : \A k \in Keys : fw[k] = "unknown" => ~r[k]}
  /\ owed = <<>> /\ left = [lost |-> plan.lost, late |-> plan.late, stray |-> plan.stray]
  /\ at = "probe" /\ i = 1 /\ attempt = 1 /\ naks = 0
  /\ rb = NoRead /\ todo = <<>>
  /\ rejected = {} /\ unsupported = {} /\ seen = {} /\ once = FALSE
  /\ result = "none" /\ round = 1
  /\ pending = {}

Reads(of, keys) == at' = "read" /\ rb' = Readback(of, keys)

Ends(r) ==
  /\ at' = "done" /\ result' = r
  /\ once' = (once \/ r = "ok")
  /\ rb' = NoRead /\ todo' = <<>>
  /\ UNCHANGED <<seen, round>>

-----------------------------------------------------------------------------
(* probe() and _probe_feature() *)

(* Mutant of ProbeVerdict: an earlier answer counts for nothing. *)
ProbeVerdictForgets(o) ==
  LET k == Features[i]
      refusals == naks + (IF o.kind = "nak" THEN 1 ELSE 0)
  IN  IF o.kind = "data" /\ k \in o.has THEN "yes"
      ELSE IF refusals >= PROBE_NAKS_FINAL \/ attempt = PROBE_ATTEMPTS THEN "no"
      ELSE "again"

ProbeVerdict(o) ==
  LET k == Features[i]
      refusals == naks + (IF o.kind = "nak" THEN 1 ELSE 0)
  IN  IF o.kind = "data" /\ k \in o.has THEN "yes"
      ELSE IF refusals >= PROBE_NAKS_FINAL THEN "no"
      ELSE IF attempt = PROBE_ATTEMPTS THEN IF k \in seen THEN "yes" ELSE "no"
      ELSE "again"

ProbeDecided(verdict) ==
  LET lacks == unsupported \cup (IF verdict = "no" THEN {Features[i]} ELSE {})
      last == i = Len(Features)
  IN  /\ unsupported' = lacks
      /\ attempt' = 1 /\ naks' = 0
      /\ i' = IF last THEN 1 ELSE i + 1
      /\ seen' = IF last THEN seen \cup (Optional \ lacks) ELSE seen
      /\ IF last THEN Reads("core", Core) ELSE UNCHANGED <<at, rb>>

Probe ==
  /\ at = "probe"
  /\ \E o \in valget({Features[i]}) :
       /\ Pays(o)
       /\ LET verdict == ProbeVerdict(o)
          IN  \/ /\ verdict \in {"yes", "no"} /\ ProbeDecided(verdict)
                 /\ UNCHANGED <<once, round, result>>
              \/ /\ verdict = "again"
                 /\ attempt' = attempt + 1
                 /\ naks' = naks + (IF o.kind = "nak" THEN 1 ELSE 0)
                 /\ UNCHANGED <<at, i, rb, unsupported, kept, result>>
  /\ UNCHANGED <<fw, ram, todo, rejected, pending>>

(* _stream_stale(): the stream is silent too, the link is going down. *)
ProbeStale ==
  /\ at = "probe"
  /\ \E o \in {v \in valget({Features[i]}) : v.kind = "timeout"} : Pays(o)
  /\ Ends("timeout")
  /\ UNCHANGED <<fw, ram, count, found, pending>>

-----------------------------------------------------------------------------
(* _readback(): chunk by chunk; a refused chunk key by key. *)

Heard(o) == [rb EXCEPT !.got = @ \cup o.has, !.good = (@ \ o.has) \cup o.good]

ReadChunk ==
  /\ at = "read" /\ rb.ones = <<>> /\ rb.chunks # <<>>
  /\ \E o \in valget(Range(Head(rb.chunks))) :
       LET names == Head(rb.chunks)
       IN  /\ Pays(o)
           /\ o.kind # "timeout"
           /\ rb' = IF o.kind = "data"
                    THEN [Heard(o) EXCEPT !.chunks = Tail(@),
                                          !.lost = @ \cup (Range(names) \ o.has)]
                    ELSE [rb EXCEPT !.chunks = Tail(@), !.ones = names]
  /\ UNCHANGED <<fw, ram, at, count, todo, found, kept, result, pending>>

ReadOne ==
  /\ at = "read" /\ rb.ones # <<>>
  /\ \E o \in valget({Head(rb.ones)}) :
       LET name == Head(rb.ones)
           silent == o.kind = "nodata" \/ (o.kind = "data" /\ name \notin o.has)
       IN  /\ Pays(o)
           /\ o.kind # "timeout"
           /\ rb' = [(IF o.kind = "data" THEN Heard(o) ELSE rb) EXCEPT
                       !.ones = Tail(@),
                       !.lost = @ \cup (IF silent THEN {name} ELSE {})]
  /\ UNCHANGED <<fw, ram, at, count, todo, found, kept, result, pending>>

ReadTimesOut ==
  /\ at = "read" /\ (rb.ones # <<>> \/ rb.chunks # <<>>)
  /\ \E o \in {v \in valget(IF rb.ones # <<>> THEN {Head(rb.ones)} ELSE Range(Head(rb.chunks))) :
                 v.kind = "timeout"} : Pays(o)
  /\ Ends("timeout")
  /\ UNCHANGED <<fw, ram, count, found, pending>>

ReadOver(of) == at = "read" /\ rb.of = of /\ rb.ones = <<>> /\ rb.chunks = <<>>

-----------------------------------------------------------------------------
(* _apply_core(), _apply_with_bisect() and _bisect() *)

CoreRead ==
  LET differs == Those(Core, Required \ rb.good)
  IN  /\ ReadOver("core")
      /\ pending' = Range(differs)
      /\ IF differs = <<>>
           THEN Reads("signals", Signals) /\ UNCHANGED todo
           ELSE at' = "write" /\ rb' = NoRead /\ todo' = chunked(differs)
      /\ UNCHANGED <<fw, ram, wire, count, found, kept, result>>

(* The two halves, in order; a single key is refused for good. *)
bisect(s) ==
  LET mid == Len(s) \div 2
  IN  IF Len(s) = 1 THEN <<>> ELSE <<SubSeq(s, 1, mid), SubSeq(s, mid + 1, Len(s))>>

WriteCore ==
  /\ at = "write" /\ todo # <<>>
  /\ \E o \in valset(Range(Head(todo))) :
       LET s == Head(todo)
       IN  /\ Pays(o) /\ Writes(o)
           /\ o.verdict # "timeout"
           /\ todo' = (IF o.verdict = "nak" THEN bisect(s) ELSE <<>>) \o Tail(todo)
           /\ rejected' = rejected \cup
                (IF o.verdict = "nak" /\ Len(s) = 1 THEN {s[1]} ELSE {})
  /\ UNCHANGED <<fw, at, count, rb, unsupported, kept, result, pending>>

WriteTimesOut ==
  /\ \/ at = "write" /\ todo # <<>>
     \/ at = "signals"
  /\ \E o \in {v \in valset(IF at = "write" THEN Range(Head(todo)) ELSE Range(Signals)) :
                 v.verdict = "timeout"} : Pays(o) /\ Writes(o)
  /\ Ends("timeout")
  /\ UNCHANGED <<fw, count, found, pending>>

CoreWritten ==
  /\ at = "write" /\ todo = <<>>
  /\ \/ /\ rejected # {} /\ plan.strict
        /\ Ends("profile")
     \/ /\ rejected = {} \/ ~plan.strict
        /\ Reads("signals", Signals)
        /\ UNCHANGED <<kept, todo, result>>
  /\ UNCHANGED <<fw, ram, wire, count, found, pending>>

-----------------------------------------------------------------------------
(* The signals, then _apply_optional() for the features the probe left. *)

OptionalFrom(n) ==
  LET rest == {j \in n .. Len(Features) : Features[j] \notin unsupported}
  IN  IF rest = {}
      THEN i' = 1 /\ Reads("verify", Wanted)
      ELSE /\ i' = Min(rest)
           /\ Reads("optional", <<Features[Min(rest)]>>)

SignalsRead ==
  /\ ReadOver("signals")
  /\ \/ /\ \A k \in Range(Signals) : k \in rb.good
        /\ OptionalFrom(1)
     \/ /\ \E k \in Range(Signals) : k \notin rb.good
        /\ at' = "signals" /\ rb' = NoRead
        /\ UNCHANGED i
  /\ UNCHANGED <<fw, ram, wire, attempt, naks, todo, found, kept, result, pending>>

WriteSignals ==
  /\ at = "signals"
  /\ \E o \in valset(Range(Signals)) :
       /\ Pays(o) /\ Writes(o)
       /\ \/ /\ o.verdict = "nak"
             /\ Ends("profile") /\ UNCHANGED i
          \/ /\ o.verdict = "ack"
             /\ OptionalFrom(1)
             /\ UNCHANGED <<todo, kept, result>>
  /\ UNCHANGED <<fw, attempt, naks, found, pending>>

OptionalRead ==
  /\ ReadOver("optional")
  /\ \/ /\ Features[i] \in rb.good
        /\ OptionalFrom(i + 1)
     \/ /\ Features[i] \notin rb.good
        /\ at' = "optional" /\ rb' = NoRead
        /\ UNCHANGED i
  /\ UNCHANGED <<fw, ram, wire, attempt, naks, todo, found, kept, result, pending>>

(* A refusal demotes the feature; silence, heard twice, keeps it. *)
Demotes(o) == o.verdict = "nak"

WriteOptional ==
  /\ at = "optional"
  /\ \E o \in valset({Features[i]}) :
       /\ Pays(o) /\ Writes(o)
       /\ \/ /\ o.verdict = "timeout" /\ attempt = 1 /\ ~Demotes(o)
             /\ attempt' = 2
             /\ UNCHANGED <<at, i, rb, unsupported>>
          \/ /\ o.verdict # "timeout" \/ attempt = 2 \/ Demotes(o)
             /\ attempt' = 1
             /\ unsupported' = unsupported \cup (IF Demotes(o) THEN {Features[i]} ELSE {})
             /\ OptionalFrom(i + 1)
  /\ UNCHANGED <<fw, naks, todo, rejected, kept, result, pending>>

-----------------------------------------------------------------------------
(* verify() and _verify_or_raise() *)

Mismatches == Range(Wanted) \ rb.good
Blank == Mismatches \ rb.got

RefutedBySilence == Mismatches # {}

(* The receiver's own verdict, as opposed to the link's silence. *)
Refuted == Mismatches \ rb.lost # {} /\ Blank # Range(Wanted)

Verified == ReadOver("verify") /\ Mismatches = {}

VerifyOk ==
  /\ Verified
  /\ Ends("ok")
  /\ UNCHANGED <<fw, ram, wire, count, found, pending>>

VerifyRefuted ==
  /\ ReadOver("verify") /\ ~Verified /\ Refuted
  /\ Ends("profile")
  /\ UNCHANGED <<fw, ram, wire, count, found, pending>>

(* A first start pauses and reads again: late answers come meanwhile. *)
VerifyAgain ==
  /\ ReadOver("verify") /\ ~Verified /\ ~Refuted
  /\ ~once /\ attempt < VERIFY_ATTEMPTS
  /\ attempt' = attempt + 1
  /\ Reads("verify", Wanted)
  /\ owed' = <<>>
  /\ UNCHANGED <<fw, ram, left, i, naks, todo, found, kept, result, pending>>

VerifyUnanswered ==
  /\ ReadOver("verify") /\ ~Verified /\ ~Refuted
  /\ once \/ attempt = VERIFY_ATTEMPTS
  /\ Ends(IF once THEN "timeout" ELSE "unanswered")
  /\ UNCHANGED <<fw, ram, wire, count, found, pending>>

-----------------------------------------------------------------------------
(* The session's next configure; a receiver that restarted has lost RAM.  *)
(* A first start that was refused has none: run() raises.                 *)
Again ==
  /\ at = "done" /\ round < plan.rounds
  /\ once \/ result \in {"ok", "timeout"}
  /\ ram' \in {ram, [k \in Keys |-> FALSE]}
  /\ owed' = <<>>
  /\ at' = "probe" /\ i' = 1 /\ attempt' = 1 /\ naks' = 0
  /\ rejected' = {} /\ unsupported' = {}
  /\ result' = "none" /\ round' = round + 1
  /\ pending' = {}
  /\ UNCHANGED <<fw, left, rb, todo, seen, once>>

Next ==
  /\ \/ Probe \/ ProbeStale
     \/ ReadChunk \/ ReadOne \/ ReadTimesOut
     \/ CoreRead \/ WriteCore \/ WriteTimesOut \/ CoreWritten
     \/ SignalsRead \/ WriteSignals
     \/ OptionalRead \/ WriteOptional
     \/ VerifyOk \/ VerifyRefuted \/ VerifyAgain \/ VerifyUnanswered
     \/ Again
  /\ UNCHANGED plan

Spec == Init /\ [][Next]_vars

-----------------------------------------------------------------------------

(* A configure that says it succeeded (_verify_or_raise returned) left     *)
(* every key of the profile in the receiver, whatever was lost, late or    *)
(* answered by another request's verdict, except the core keys reported as *)
(* refused, of which a strict daemon has none.                             *)
VerifiedHolds ==
  result = "ok" =>
    /\ \A k \in Required \ rejected : ram[k]
    /\ plan.strict => rejected = {}

(* Bisecting finds exactly the keys that are refused: each answer being    *)
(* the request's own, those and no others are reported, and every other    *)
(* key that differed is written (_bisect).                                 *)
BisectExact ==
  at = "write" /\ todo = <<>> /\ left.stray = plan.stray =>
    /\ rejected = {k \in pending : fw[k] # "ok"}
    /\ \A k \in pending \ rejected : ram[k]

(* A receiver that has every key of the profile and changes it when asked  *)
(* is never said to refuse the profile because of lost or late answers:    *)
(* they cost a reconnect, not the daemon (_verify_or_raise).               *)
SilenceIsNoRefusal ==
  left.stray = plan.stray /\ Accepts(Keys) => result # "profile"

Strays == plan.stray - left'.stray
Shifts == plan.late - left'.late + Strays
FaultsSoFar == plan.lost - left'.lost + Shifts

(* A feature the firmware has is not given up for silence.  A write drops  *)
(* it when it hears another request's refusal; a probe when it hears two,  *)
(* or, if the probe did not find the feature before, after PROBE_ATTEMPTS  *)
(* faults of the link.  Where the firmware knows every feature, nobody's   *)
(* refusal is under way, and the two were mistaken for this probe's; where *)
(* it lacks one, the late answers that put off that one's refusals count   *)
(* (_probe_feature, _apply_optional).                                      *)
FeatureKept ==
  [][\A k \in unsupported' \ unsupported : Accepts({k}) =>
        IF at = "optional" THEN Strays >= 1
        ELSE \/ Strays >= PROBE_NAKS_FINAL
             \/ ~Known(Optional) /\ Shifts >= PROBE_NAKS_FINAL
             \/ k \notin seen /\ FaultsSoFar >= PROBE_ATTEMPTS]_vars

(* What a configure reports is what the receiver holds, and silence is not *)
(* reported as a refusal (_verify_or_raise, _bisect).                      *)
ConfigureHonest == VerifiedHolds /\ BisectExact /\ SilenceIsNoRefusal

=============================================================================
