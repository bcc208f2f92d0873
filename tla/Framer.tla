------------------------------- MODULE Framer -------------------------------
(***************************************************************************)
(* The incremental framer (core/frames.py): bytes in any chunking, frames  *)
(* of three protocols out, with resynchronisation after garbage and        *)
(* damaged frames.  Two framers read one stream side by side: `a` in       *)
(* chunks, as a port delivers them, and `b` in one piece.                  *)
(* A byte is a small number; the three protocols keep their shape (sync,   *)
(* length or terminator, checksum) with one length and one checksum byte.  *)
(***************************************************************************)
EXTENDS Naturals, Sequences, SequencesExt, FiniteSets

CONSTANTS
  Streams,      \* the byte streams
  UbxMax,       \* UBX_MAX_PAYLOAD
  NmeaMax       \* NMEA_MAX_LEN

VARIABLES
  stream,       \* what the port sends
  fed,          \* how much of it `a` has been fed
  a, b          \* the two framers

vars == <<stream, fed, a, b>>

\* The bytes that mean something; 0..4 are data.
Sync1 == 5
Sync2 == 6
Preamble == 7
Dollar == 8
Star == 9
Newline == 10
SyncBytes == {Sync1, Preamble, Dollar}

Checksum(bytes) == FoldLeft(LAMBDA sum, x : (sum + x) % 5, 0, bytes)

Fresh(buf) == [buf |-> buf, frames |-> <<>>, garbage |-> 0, errors |-> 0]

Init ==
  /\ stream \in Streams /\ fed = 0
  /\ a = Fresh(<<>>) /\ b = Fresh(stream)

----------------------------------------------------------------------------
\* What a _try_* answers: wait for more bytes, not a frame here, a frame
\* whose checksum is wrong, or the length of the frame.
Wait == "wait"
No == "no"
Bad == "bad"

\* Mutant: a frame that is not complete yet is taken for a damaged one.
FramedHasty(buf, total, sum) ==
  IF Len(buf) < total THEN Bad ELSE IF buf[total] # sum THEN Bad ELSE "frame"

\* A frame of known length.
Framed(buf, total, sum) ==
  IF Len(buf) < total THEN Wait
  ELSE IF buf[total] # sum THEN Bad
  ELSE "frame"

TryUbx(buf) ==
  LET total == buf[3] + 4 IN
  IF Len(buf) < 2           THEN [is |-> Wait, n |-> 0]
  ELSE IF buf[2] # Sync2    THEN [is |-> No, n |-> 0]
  ELSE IF Len(buf) < 3      THEN [is |-> Wait, n |-> 0]
  ELSE IF buf[3] > UbxMax   THEN [is |-> No, n |-> 0]
  ELSE [is |-> Framed(buf, total, Checksum(SubSeq(buf, 3, total - 1))), n |-> total]

TryRtcm(buf) ==
  LET total == buf[2] + 3 IN
  IF Len(buf) < 2     THEN [is |-> Wait, n |-> 0]
  ELSE IF buf[2] > 4  THEN [is |-> No, n |-> 0]     \* the reserved bits are set
  ELSE [is |-> Framed(buf, total, Checksum(SubSeq(buf, 1, total - 1))), n |-> total]

\* A sentence ends at the first newline, looked for in its first bytes only.
TryNmea(buf) ==
  LET ends == {i \in 1..Len(buf) : i <= NmeaMax + 1 /\ buf[i] = Newline}
      end == CHOOSE i \in ends : \A j \in ends : i <= j
      star == end - 2
  IN CASE ends = {} -> [is |-> IF Len(buf) < NmeaMax THEN Wait ELSE No, n |-> 0]
       [] ends # {} /\ (star < 2 \/ buf[star] # Star \/ buf[end - 1] > 4)   \* not hexadecimal
            -> [is |-> No, n |-> 0]
       [] OTHER -> [is |-> Framed(buf, end - 1, Checksum(SubSeq(buf, 2, star - 1))), n |-> end]

\* The answer for the head of the buffer.
Try(buf) ==
  CASE Head(buf) = Sync1    -> TryUbx(buf)
    [] Head(buf) = Preamble -> TryRtcm(buf)
    [] OTHER                -> TryNmea(buf)

\* feed() has stopped: nothing is left, or more bytes are needed.
Blocked(f) == IF f.buf = <<>> THEN TRUE ELSE Head(f.buf) \in SyncBytes /\ Try(f.buf).is = Wait

\* _next_sync: how many bytes to skip.
NextSync(buf) ==
  LET at == {i \in 2..Len(buf) : buf[i] \in SyncBytes}
  IN IF at = {} THEN Len(buf) ELSE (CHOOSE i \in at : \A j \in at : i <= j) - 1

Drop(f, n) == [f EXCEPT !.buf = SubSeq(@, n + 1, Len(@)), !.garbage = @ + n]

\* Not a frame at this offset: resynchronise one byte later.
Reject(f, t) == IF t.is = Bad THEN [Drop(f, 1) EXCEPT !.errors = @ + 1] ELSE Drop(f, 1)

Emit(f, n) ==
  [f EXCEPT !.frames = Append(@, SubSeq(f.buf, 1, n)), !.buf = SubSeq(@, n + 1, Len(@))]

\* One turn of the loop in feed().
Turn(f) ==
  LET t == Try(f.buf) IN
  IF Head(f.buf) \notin SyncBytes THEN Drop(f, NextSync(f.buf))
  ELSE IF t.is = "frame" THEN Emit(f, t.n)
  ELSE Reject(f, t)

\* feed(): the next chunk, of any length.
Feed ==
  /\ Blocked(a) /\ fed < Len(stream)
  /\ \E to \in fed + 1 .. Len(stream) :
       /\ fed' = to
       /\ a' = [a EXCEPT !.buf = @ \o SubSeq(stream, fed + 1, to)]
  /\ UNCHANGED <<stream, b>>

TurnA == ~Blocked(a) /\ a' = Turn(a) /\ UNCHANGED <<stream, fed, b>>

TurnB ==
  /\ Blocked(a) /\ fed = Len(stream) /\ ~Blocked(b)
  /\ b' = Turn(b) /\ UNCHANGED <<stream, fed, a>>

Next == Feed \/ TurnA \/ TurnB

----------------------------------------------------------------------------
Bytes(f) == FoldLeft(LAMBDA n, x : n + Len(x), 0, f.frames) + f.garbage + Len(f.buf)

\* The protocols' own account of a frame: a length or a terminator that fits
\* and the right checksum.
WellFormed(x) ==
  \/ x[1] = Sync1 /\ x[2] = Sync2 /\ Len(x) = x[3] + 4
       /\ x[Len(x)] = Checksum(SubSeq(x, 3, Len(x) - 1))
  \/ x[1] = Preamble /\ Len(x) = x[2] + 3 /\ x[Len(x)] = Checksum(SubSeq(x, 1, Len(x) - 1))
  \/ x[1] = Dollar /\ x[Len(x)] = Newline /\ x[Len(x) - 2] = Star
       /\ x[Len(x) - 1] = Checksum(SubSeq(x, 2, Len(x) - 3))

\* A sentence that ends one byte past NmeaMax: whether it is found depends on
\* whether the framer is asked while its last byte is still missing.
OnTheBrink ==
  \E i \in 1..Len(stream) - NmeaMax : stream[i] = Dollar /\ stream[i + NmeaMax] = Newline

SameFrames == (fed = Len(stream) /\ Blocked(a) /\ Blocked(b)) => a = b

\* How a port cuts the stream does not matter, unless a sentence is just too
\* long: fed in chunks, the framer finds the same frames, the same garbage and
\* the same errors as fed at once; it accounts for every byte; and it emits
\* only frames the protocol accepts.
ChunksDoNotMatter ==
  /\ Bytes(a) = fed
  /\ \A i \in 1..Len(a.frames) : WellFormed(a.frames[i])
  /\ OnTheBrink \/ SameFrames

\* "Feed bytes in any chunking; get back complete, checksum-verified frames":
\* the same frames, in any chunking.
AnyChunking == SameFrames

=============================================================================
