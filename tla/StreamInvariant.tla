--------------------------- MODULE StreamInvariant ---------------------------
(***************************************************************************)
(* The facts that make the rings queues (control points, indices and the   *)
(* interrupt bit), those that make a line's text what it should be (the    *)
(* flags), and those that keep the host's count right (what has been       *)
(* taken, what is on its way). Each is kept by every step of Stream,       *)
(* together with the others of its group. StreamProofs proves so.          *)
(***************************************************************************)
EXTENDS StreamProperties

MainType ==
  main \in [pc : {"boot", "flush", "read", "eol", "idle", "answer"}, answer : Seq(TxChars)]

\* What the host has sent is a position in its text.
HostType ==
  /\ host \in [text : Seq(CharSet), counts : BOOLEAN, resets : Nat, cancels : Nat,
               sent : Nat, acked : {host.acked}, greeted : BOOLEAN]
  /\ Len(host.text) <= MaxText

HistType ==
  hist \in [raw : {hist.raw}, last : {hist.last}, burst : Nat, cancelled : BOOLEAN, overtaken : BOOLEAN]

SysType == sys \in [reset : BOOLEAN, jog : BOOLEAN]

-----------------------------------------------------------------------------
\* As long as serial_read() is under way, its copy of the tail is the tail.
AtTail ==
  /\ reader.at # "out" => reader.tail = rx.tail
  /\ reader.at = "store" => ~Empty(rx) /\ reader.data = rx.buf[rx.tail]

\* It is under way in the main loop only, and nobody else moves the tail but a jog
\* cancel.
ReaderInvariant ==
  /\ reader.at # "out" => main.pc = "read"
  /\ reader.at = "out" \/ ~hist.cancelled => ~hist.overtaken
  /\ ~hist.overtaken => AtTail

\* The slots from t up to the head, and what a tail at t leaves to be read: characters
\* newer than p.
From(t) ==
  {s \in 0..RxRing-1 : IF t <= rx.head THEN t <= s /\ s < rx.head ELSE s >= t \/ s < rx.head}
Newer(t, p) == \A s \in From(t) : rx.buf[s] # None /\ rx.buf[s] > p

\* Behind each character there are newer ones up to the head, whether or not they have
\* been read or discarded. So it does not matter for their order which tail serial_read()
\* writes back, nor how many characters the interrupt has stored since it read it.
OrderInvariant ==
  /\ hist.last \in 0..host.sent
  /\ \A s \in 0..RxRing-1 :
       rx.buf[s] # None =>
         /\ rx.buf[s] <= host.sent
         /\ \A u \in From(s) : u # s => rx.buf[u] # None /\ rx.buf[u] > rx.buf[s]
  /\ Newer(rx.tail, hist.last)
  /\ reader.at = "compare" => Newer(reader.tail, hist.last)
  /\ reader.at = "store" =>
       /\ reader.data # None /\ hist.last < reader.data /\ reader.data <= host.sent
       /\ Newer(Advance(reader.tail, RxRing), reader.data)

\* serial_write() has a character in hand, and it stores it into a free slot.
WriterInvariant ==
  /\ writer.at \in {"wait", "store"} => writer.data \in TxChars
  /\ writer.at = "store" => ~Full(tx, TxRing)

\* The transmit interrupt is enabled only with something to send. A character stored
\* while it was enabled leaves one more behind it, so that the one transmission that
\* fits before serial_write() enables the interrupt again does not empty the ring.
InterruptInvariant ==
  /\ tx.udrie => ~Empty(tx)
  /\ writer.at = "enable" =>
       /\ ~Empty(tx)
       /\ tx.udrie /\ hist.burst = 0 => Advance(tx.tail, TxRing) # tx.head

RxInvariant == SerialType /\ MainType /\ HostType /\ ReaderInvariant

TxInvariant == SerialType /\ MainType /\ HistType /\ WriterInvariant /\ InterruptInvariant

-----------------------------------------------------------------------------
(* The line under assembly.                                                 *)

\* A character after those of raw would be inside parentheses, or behind a semicolon.
Open(raw) == \E j \in DOMAIN raw : raw[j] = "(" /\ \A k \in DOMAIN raw : k >= j => raw[k] # ")"
Closed(raw) == \E j \in DOMAIN raw : raw[j] = Semicolon /\ \A k \in 1..j - 1 : ~Opened(raw, k, j)

\* The flags of the main loop mean what they say until the line is too long; from then
\* on nothing is added to it.
Flagged(raw, l) ==
  "OVERFLOW" \notin l.flags =>
    /\ "SEMICOLON" \in l.flags <=> Closed(raw)
    /\ ~Closed(raw) => ("PARENTHESES" \in l.flags <=> Open(raw))

\* A line's text is a sequence, of whatever characters the host sends.
IsLine(l) ==
  /\ l = [text |-> l.text, flags |-> l.flags] /\ l.flags \subseteq LineFlags
  /\ Len(l.text) \in Nat /\ l.text = [i \in 1..Len(l.text) |-> l.text[i]]

LineType == hist.raw \in Seq(RxChars \cup {None}) /\ IsLine(line)

LineInvariant == LineType /\ Flagged(RawText, line) /\ LineIsCleaned

-----------------------------------------------------------------------------
(* The host's count.                                                        *)

\* An answer is written from the state that asked for it only.
AnswerInvariant ==
  /\ main.answer \in {<<>>, <<"hello">>, <<"ok", "end">>, <<"error", "end">>, <<"end">>}
  /\ main.pc # "answer" => main.answer = <<>> /\ writer.at = "out"

\* The slots of the transmit ring that hold character c.
Occupied(ring, s) ==
  IF ring.tail <= ring.head THEN ring.tail <= s /\ s < ring.head ELSE s >= ring.tail \/ s < ring.head
Holding(c) == {s \in 0..TxRing-1 : Occupied(tx, s) /\ tx.buf[s] = c}

\* Character c is in the hand of serial_write(), or is to be given to it.
InHand(c) == writer.at \in {"wait", "store"} /\ writer.data = c
ToWrite(c) == \E i \in DOMAIN main.answer : main.answer[i] = c

OnItsWay(c) == Holding(c) # {} \/ InHand(c) \/ ToWrite(c)

\* The greeting is the last character on its way, and nothing has been received.
LastOnWay(c) ==
  /\ ToWrite(c) => writer.at = "out" /\ Holding(c) = {}
  /\ ~ToWrite(c) => main.answer = <<>>
  /\ InHand(c) => Holding(c) = {}
  /\ ~ToWrite(c) /\ ~InHand(c) => writer.at \in {"out", "enable"}
  /\ \A s \in Holding(c) : Advance(s, TxRing) = tx.head

Greeting ==
  /\ OnItsWay("hello") /\ LastOnWay("hello")
  /\ Empty(rx) /\ hist.raw = <<>> /\ main.pc \in {"answer", "read", "idle"}

\* A host that waits for the greeting stands between two lines, and the greeting is on
\* its way unless the initialisation is still to come.
GreetingInvariant ==
  /\ sys.reset \/ main.pc \in {"boot", "flush"} => ~host.greeted
  /\ main.pc = "flush" => ~sys.reset
  /\ host.greeted \/ sys.reset \/ main.pc \in {"boot", "flush"} => ~OnItsWay("hello")
  /\ ~host.greeted =>
       /\ sys.reset \/ main.pc \in {"boot", "flush"} \/ Greeting
       /\ host.sent \in LineStarts(host.text)

\* The last character of the host's text that the main loop has taken is at place last:
\* those before it, back to the start of the line, make up the line, those after it
\* are in the ring.
Taken(last) ==
  LET start == last - Len(hist.raw)
  IN /\ start \in LineStarts(host.text)
     /\ \A i \in 1..Len(hist.raw) : hist.raw[i] = start + i
     /\ \A i \in 1..Used(rx, RxRing) : Contents(rx, RxRing)[i] = last + i
     /\ last + Used(rx, RxRing) <= Len(host.text)
     /\ host.greeted => last + Used(rx, RxRing) = host.sent
     /\ main.pc = "eol" => last \in EndsOfLine(host.text)

\* The lines taken that have not been answered to the host, and the answers to them
\* that are still to be sent.
Unanswered(last) == {j \in EndsOfLine(host.text) : host.acked < j /\ j <= last}
Pending ==
  Cardinality(Holding("end")) + (IF InHand("end") THEN 1 ELSE 0)
    + (IF ToWrite("end") THEN 1 ELSE 0) + (IF main.pc = "eol" THEN 1 ELSE 0)

\* An answer that reaches the host is for a line that has been taken, so that the host
\* never believes the ring emptier than it is.
Counted(last) ==
  host.greeted => host.acked \in 0..last /\ Pending <= Cardinality(Unanswered(last))

CountInvariant == \E last \in 0..Len(host.text) : Taken(last) /\ Counted(last)

\* As long as no jog cancel has emptied the ring under the host.
StreamedInvariant ==
  ~hist.cancelled =>
    /\ ReaderInvariant /\ AnswerInvariant /\ GreetingInvariant
    /\ host.counts => CountInvariant
=============================================================================
