-------------------------- MODULE StreamProperties --------------------------
(***************************************************************************)
(* What the serial rings and the main loop owe the host.                   *)
(***************************************************************************)
EXTENDS Stream, FiniteSets

\* The receive ring as a queue of the characters the interrupt accepted. A jog
\* cancel discards them all, and serial_read() does not undo it. (The code does
\* not keep this promise: serial_read() writes back the tail it read.)
RxQueue ==
  INSTANCE LossyQueue WITH Chars <- RxChars, Capacity <- RxRing - 1,
                           queue <- Contents(rx, RxRing), got <- reader.got

RxIsQueue == RxQueue!Spec

\* What serial_read() does keep, wherever resets and jog cancels fall: the ring
\* is that queue but for the store of a tail that a jog cancel has overtaken, and
\* even then, however many characters came in between, none is read twice and
\* none before an older one.
RxKeepsOrder ==
  /\ RxQueue!Init
  /\ [][RxQueue!Next \/ (hist.overtaken /\ ReadStore)]_<<Contents(rx, RxRing), reader.got>>
  /\ [](reader.at = "store" => reader.data > hist.last)

\* The transmit ring is a queue: the transmitter gets what serial_write()
\* stored, in order and once, although its interrupt never asks whether the
\* ring is empty.
TxQueue ==
  INSTANCE LossyQueue WITH Chars <- TxChars, Capacity <- TxRing - 1,
                           queue <- Contents(tx, TxRing), got <- wire

TxIsQueue == TxQueue!Spec

-----------------------------------------------------------------------------
(* The text of a line, defined on the line as a whole.                      *)

\* An opening parenthesis at j comments out what follows it up to i.
Opened(raw, j, i) == raw[j] = "(" /\ j < i /\ \A k \in j..i - 1 : raw[k] # ")"

\* A semicolon outside parentheses comments out the rest.
Ended(raw, j, i) ==
  /\ raw[j] = Semicolon /\ j < i
  /\ \A k \in 1..j - 1 : ~Opened(raw, k, j)

Kept(raw) ==
  {i \in DOMAIN raw :
     /\ raw[i] \notin Skipped \cup {"(", Semicolon, "eol"}
     /\ \A j \in DOMAIN raw : ~Opened(raw, j, i) /\ ~Ended(raw, j, i)}

\* The place of the i-th character of a line in its text.
Place(raw, i) == Cardinality({j \in Kept(raw) : j <= i})

\* The characters the line was assembled from.
RawText == [i \in DOMAIN hist.raw |-> host.text[hist.raw[i]]]

\* The main loop assembles exactly the characters outside comments, and it
\* reports an overflow exactly when there are too many of them, wherever
\* comments, blanks and ends of line fall.
LineIsCleaned ==
  LET length == Cardinality(Kept(RawText))
  IN /\ "OVERFLOW" \in line.flags <=> length >= LineSize
     /\ Len(line.text) = IF length < LineSize THEN length ELSE LineSize - 1
     /\ \A i \in Kept(RawText) :
          Place(RawText, i) < LineSize => line.text[Place(RawText, i)] = Upper(RawText[i])

\* A host that counts characters is executed line by line: no line loses a
\* character, and none is joined with another, across resets too.
LinesAreWhole ==
  (host.counts /\ ~hist.cancelled /\ hist.raw # <<>>) =>
    /\ \A i \in 1..Len(hist.raw) - 1 : hist.raw[i + 1] = hist.raw[i] + 1
    /\ hist.raw[1] = 1 \/ host.text[hist.raw[1] - 1] = "eol"

\* A ring with characters in it is being sent: its interrupt is enabled, or
\* serial_write() is about to enable it.
TransmitterRuns == Empty(tx) \/ tx.udrie \/ writer.at = "enable"

\* Nothing gets stuck: again and again everything received has been read, every
\* answer has been sent, and a counting host has an answer to each of its
\* lines.
Answered ==
  []<>(/\ Empty(rx) /\ Empty(tx) /\ main.answer = <<>>
       /\ (host.counts /\ ~hist.cancelled) => Acknowledged(host) = host.acked)
=============================================================================
