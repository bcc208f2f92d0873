----------------------------- MODULE SerialSink -----------------------------
(***************************************************************************)
(* The serial or pty output (rover/sinks.py, SerialSink).  An epoch's      *)
(* sentences join the bytes still pending, as much as the kernel takes is  *)
(* written, and a full kernel queue is discarded for the newest bytes.     *)
(* The reader takes bytes from the kernel at its own pace, between any two *)
(* of the sink's system calls.                                             *)
(***************************************************************************)
EXTENDS Integers, Sequences

CONSTANTS
  Payloads,      \* epochs: sequences of sentence lengths
  KernelSize,    \* bytes the kernel queues
  BacklogLimit   \* SERIAL_BACKLOG_LIMIT

VARIABLES
  at,        \* "idle", "send", "blocked", "resend", "trim"
  pending,   \* bytes not yet written
  kernel,    \* bytes the kernel holds
  turn,      \* number of the next epoch, modulo 3
  last,      \* last byte the reader got, NoByte at first
  tailless,  \* the reader got a sentence that another one cut short
  headless   \* the reader got a byte that does not follow its sentence's last one

serialVars == <<at, pending, kernel, turn, last, tailless, headless>>

\* The k-th of n bytes of a sentence; the first is the dollar sign, the last
\* the line end.
Byte(k, n, id) == [k |-> k, n |-> n, id |-> id]
IsStart(b) == b.k = 1
IsEnd(b) == b.k = b.n
NoByte == Byte(1, 1, <<0, 0>>)

Sentence(n, id) == [k \in 1..n |-> Byte(k, n, id)]
Bytes(payload) ==
  LET upTo[i \in 0..Len(payload)] ==
        IF i = 0 THEN <<>> ELSE upTo[i - 1] \o Sentence(payload[i], <<turn, i>>)
  IN  upTo[Len(payload)]

Init ==
  /\ at = "idle" /\ pending = <<>> /\ kernel = <<>> /\ turn = 0
  /\ last = NoByte /\ tailless = FALSE /\ headless = FALSE

reader == <<last, tailless, headless>>

\* write: the new bytes go behind what is pending.
Write ==
  /\ at = "idle"
  /\ \E p \in Payloads : pending' = pending \o Bytes(p)
  /\ at' = "send" /\ turn' = (turn + 1) % 3
  /\ UNCHANGED <<kernel, reader>>

Room == KernelSize - Len(kernel)
Fits == IF Len(pending) <= Room THEN Len(pending) ELSE Room

\* _send: one os.write, which may be short.
Send ==
  /\ at \in {"send", "resend"} /\ pending # <<>> /\ Room > 0
  /\ kernel' = kernel \o SubSeq(pending, 1, Fits)
  /\ pending' = SubSeq(pending, Fits + 1, Len(pending))
  /\ UNCHANGED <<at, reader, turn>>

Sent ==
  /\ at \in {"send", "resend"} /\ pending = <<>>
  /\ at' = "trim"
  /\ UNCHANGED <<pending, kernel, reader, turn>>

\* A full kernel: the first time what is queued is discarded, the second time
\* the rest waits for the next epoch.
Blocks ==
  /\ at \in {"send", "resend"} /\ pending # <<>> /\ Room = 0
  /\ at' = IF at = "send" THEN "blocked" ELSE "trim"
  /\ UNCHANGED <<pending, kernel, reader, turn>>

\* The rest of a sentence whose start went with the queue goes too.
WholeSentencesNot(bs) == bs
WholeSentences(bs) ==
  IF bs = <<>> \/ IsStart(Head(bs)) THEN bs
  ELSE LET ends == {i \in 1..Len(bs) : IsEnd(bs[i])}
           first == CHOOSE i \in ends : \A j \in ends : i <= j
       IN  SubSeq(bs, first + 1, Len(bs))

\* _discard_queued: the kernel's queue is flushed.
Discard ==
  /\ at = "blocked"
  /\ kernel' = <<>> /\ pending' = WholeSentences(pending)
  /\ at' = "resend"
  /\ UNCHANGED <<turn, reader>>

\* The newest sentences that keep the backlog within its limit.  When the
\* bytes left are already fewer, the negative start of bytes.find counts from
\* their end.
Newest(bs) ==
  LET least == IF Len(bs) >= BacklogLimit THEN Len(bs) - BacklogLimit + 1
               ELSE 2 * Len(bs) - BacklogLimit + 1
      from == {i \in 1..Len(bs) : IsStart(bs[i]) /\ i >= least}
  IN  IF from = {} THEN <<>>
      ELSE SubSeq(bs, CHOOSE i \in from : \A j \in from : i <= j, Len(bs))

Trim ==
  /\ at = "trim"
  /\ IF Len(pending) > BacklogLimit
     THEN kernel' = <<>> /\ pending' = Newest(WholeSentences(pending))
     ELSE UNCHANGED <<kernel, pending>>
  /\ at' = "idle"
  /\ UNCHANGED <<turn, reader>>

\* The reader, or the wire, takes a byte.
Read ==
  /\ kernel # <<>>
  /\ LET b == Head(kernel)
     IN  /\ tailless' = (IsStart(b) /\ ~IsEnd(last))
         /\ headless' = (~IsStart(b) /\ b # [last EXCEPT !.k = @ + 1])
         /\ last' = b
  /\ kernel' = Tail(kernel)
  /\ UNCHANGED <<at, pending, turn>>

Next == Write \/ Send \/ Sent \/ Blocks \/ Discard \/ Trim \/ Read

Spec == Init /\ [][Next]_serialVars

TypeOK == at \in {"idle", "send", "blocked", "resend", "trim"} /\ Len(kernel) <= KernelSize

\* A reader never gets the rest of a sentence whose start was discarded, and
\* between two epochs the bytes held back stay within the limit, whatever
\* mixture of short writes, full queues and discards it reads through.
TailFollowsHead == ~headless /\ (at = "idle" => Len(pending) <= BacklogLimit)

\* "a reader never sees two sentences spliced together" (SerialSink): it does
\* when the queue is discarded after it took a sentence's first bytes.
NeverSpliced == ~tailless

=============================================================================
