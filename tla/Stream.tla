------------------------------- MODULE Stream -------------------------------
(***************************************************************************)
(* The host's stream of lines through the firmware: characters arrive in   *)
(* the receive ring, the main loop assembles them to lines and answers     *)
(* each line through the transmit ring, and the host sends more. Two hosts *)
(* are modelled: one that counts the characters it has in flight, as the   *)
(* streaming protocol asks, and one that just sends.                       *)
(*                                                                         *)
(* The receive ring holds positions in the host's text, not characters, so *)
(* that the properties can tell equal characters apart.                    *)
(***************************************************************************)
EXTENDS SerialRing, LineReader

CONSTANTS
  Hosts,            \* the hosts: their text, whether they count, and the
                    \* bounds on the resets and jog cancels they send
  MaxText,          \* bound on the length of a text
  Burst             \* transmit interrupts between the store of a character and
                    \* the instruction that enables the interrupt

VARIABLES
  line,     \* the line under assembly
  main,     \* control point of the main program, and the answer it is writing
  sys,      \* EXEC_RESET is pending; the state is JOG
  host,     \* text, characters sent and acknowledged, its state and its kind
  hist      \* (no code) positions the line was assembled from, and the last one;
            \* burst; whether a jog cancel came, and whether into serial_read()

vars == <<rx, tx, reader, writer, wire, line, main, sys, host, hist>>

ASSUME HostsAssumption ==
  /\ MaxText \in Nat
  /\ RxChars = 1..MaxText /\ TxChars = {"ok", "error", "end", "hello"}
  /\ \A h \in Hosts :
       /\ h \in [text : Seq(CharSet), counts : BOOLEAN, resets : Nat, cancels : Nat]
       /\ Len(h.text) <= MaxText
ASSUME BoundsAssumption == Burst \in Nat

EndsOfLine(text) == {i \in DOMAIN text : text[i] = "eol"}

\* The characters of each line, its end included, fit the receive ring.
Fits(text) ==
  \A i \in 1..Len(text) :
    \/ \E j \in EndsOfLine(text) : j >= i /\ j - i < RxRing - 1
    \/ \A j \in EndsOfLine(text) : j < i

Init ==
  /\ SerialInit
  /\ line = NoLine
  /\ main = [pc |-> "boot", answer |-> <<>>]
  /\ sys = [reset |-> FALSE, jog |-> FALSE]
  /\ \E h \in Hosts :
       /\ h.counts => Fits(h.text)
       /\ host = [text |-> h.text, counts |-> h.counts, resets |-> h.resets, cancels |-> h.cancels,
                  sent |-> 0, acked |-> 0, greeted |-> FALSE]
  /\ hist = [raw |-> <<>>, last |-> 0, burst |-> 0, cancelled |-> FALSE, overtaken |-> FALSE]

-----------------------------------------------------------------------------
(* The host, and the receive interrupt it causes.                           *)

HostSend ==
  /\ host.greeted
  /\ host.sent < Len(host.text)
  /\ host.counts => host.sent - host.acked < RxRing - 1
  /\ Receive(host.sent + 1)
  /\ host' = [host EXCEPT !.sent = @ + 1]
  /\ UNCHANGED <<line, main, sys, hist>>

\* Where the lines of a text start, and where it ends.
LineStarts(text) == {0, Len(text)} \cup EndsOfLine(text)

\* The start of the line after the one that is being sent.
NextLine(text, sent) ==
  {j \in LineStarts(text) : j >= sent /\ \A k \in LineStarts(text) : k >= sent => j <= k}

\* A reset: the host gives up its line and waits for the greeting.
HostReset ==
  /\ host.greeted /\ host.resets > 0
  /\ sys' = [sys EXCEPT !.reset = TRUE]
  /\ \E next \in NextLine(host.text, host.sent) :
       host' = [host EXCEPT !.greeted = FALSE, !.resets = @ - 1, !.sent = next, !.acked = next]
  /\ UNCHANGED <<rx, tx, reader, writer, wire, line, main, hist>>

\* A jog cancel empties the receive ring in the interrupt; the host expects no
\* answers to what it has sent. The interrupt may fall into serial_read().
HostCancel ==
  /\ host.greeted /\ host.cancels > 0
  /\ sys.jog
  /\ ResetReadBuffer
  /\ host' = [host EXCEPT !.cancels = @ - 1, !.acked = host.sent]
  /\ hist' = [hist EXCEPT !.cancelled = TRUE, !.overtaken = reader.at # "out"]
  /\ UNCHANGED <<tx, reader, writer, wire, line, main, sys>>

\* The end of the oldest line without an answer.
Acknowledged(h) ==
  LET open == {j \in EndsOfLine(h.text) : h.acked < j /\ j <= h.sent}
  IN IF open = {} THEN h.acked ELSE CHOOSE j \in open : \A k \in open : j <= k

\* The transmit interrupt, and what the host makes of the character.
TransmitISR ==
  /\ writer.at = "enable" => hist.burst < Burst
  /\ Transmit
  /\ hist' = [hist EXCEPT !.burst = IF writer.at = "enable" THEN @ + 1 ELSE @]
  /\ host' = CASE wire' = "hello" -> [host EXCEPT !.greeted = TRUE, !.acked = host.sent]
               [] wire' = "end" /\ host.greeted -> [host EXCEPT !.acked = Acknowledged(host)]
               [] OTHER -> host
  /\ UNCHANGED <<line, main, sys>>

-----------------------------------------------------------------------------
(* The main program.                                                        *)

At(pc) == main.pc = pc

GoTo(pc) == main' = [main EXCEPT !.pc = pc]

\* The two steps of an initialisation that touch what interrupts touch.
Boot ==
  /\ At("boot")
  /\ sys' = [reset |-> FALSE, jog |-> FALSE]
  /\ GoTo("flush")
  /\ UNCHANGED <<rx, tx, reader, writer, wire, line, host, hist>>

\* Seeded fault: the initialisation keeps what was received before the reset.
FlushForgotten ==
  /\ At("flush")
  /\ line' = NoLine
  /\ hist' = [hist EXCEPT !.raw = <<>>]
  /\ main' = [pc |-> "answer", answer |-> <<"hello">>]
  /\ UNCHANGED <<rx, tx, reader, writer, wire, sys, host>>

Flush ==
  /\ At("flush")
  /\ ResetReadBuffer
  /\ line' = NoLine
  /\ hist' = [hist EXCEPT !.raw = <<>>]
  /\ main' = [pc |-> "answer", answer |-> <<"hello">>]
  /\ UNCHANGED <<tx, reader, writer, wire, sys, host>>

ReadStep ==
  /\ At("read")
  /\ ReadBegin \/ ReadLoad
  /\ UNCHANGED <<line, main, sys, host, hist>>

NothingToRead ==
  /\ At("read")
  /\ ReadNothing
  /\ GoTo("idle")
  /\ hist' = [hist EXCEPT !.overtaken = FALSE]
  /\ UNCHANGED <<line, sys, host>>

\* serial_read() returns a character, and the loop takes it.
ReadChar ==
  LET c == host.text[reader.data]
  IN /\ At("read")
     /\ ReadStore
     /\ hist' = [hist EXCEPT !.raw = Append(@, reader.data), !.last = reader.data,
                            !.overtaken = FALSE]
     /\ \/ c = "eol" /\ GoTo("eol") /\ UNCHANGED line
        \/ c # "eol" /\ line' = AddChar(line, c) /\ UNCHANGED main
     /\ UNCHANGED <<sys, host>>

\* A jog may have ended when the executor returns.
JogMayEnd == sys' \in {sys, [sys EXCEPT !.jog = FALSE]}

\* The executor's look at the flags: a reset ends the main loop.
Aborts == sys.reset /\ GoTo("boot") /\ UNCHANGED <<line, sys, hist>>

Status == IF "OVERFLOW" \in line.flags THEN "error" ELSE "ok"

\* Whether a line is accepted is not modelled, except that a jog puts the
\* machine into JOG. Its execution ends with exactly one answer.
EndOfLine ==
  /\ At("eol")
  /\ \/ Aborts
     \/ /\ ~sys.reset
        /\ \/ line.text # <<>> /\ line.text[1] = "J" /\ "OVERFLOW" \notin line.flags
              /\ sys' = [sys EXCEPT !.jog = TRUE]
           \/ JogMayEnd
        /\ main' = [pc |-> "answer", answer |-> <<Status, "end">>]
        /\ line' = NoLine
        /\ hist' = [hist EXCEPT !.raw = <<>>]
  /\ UNCHANGED <<rx, tx, reader, writer, wire, host>>

Idle ==
  /\ At("idle")
  /\ Aborts \/ (~sys.reset /\ JogMayEnd /\ GoTo("read") /\ UNCHANGED <<line, hist>>)
  /\ UNCHANGED <<rx, tx, reader, writer, wire, host>>

AnswerBegin ==
  /\ At("answer") /\ main.answer # <<>>
  /\ WriteBegin(Head(main.answer))
  /\ main' = [main EXCEPT !.answer = Tail(@)]
  /\ UNCHANGED <<line, sys, host, hist>>

AnswerEnd ==
  /\ At("answer") /\ main.answer = <<>> /\ writer.at = "out"
  /\ GoTo("read")
  /\ UNCHANGED <<rx, tx, reader, writer, wire, line, sys, host, hist>>

WriteStep ==
  /\ WriteWait(sys.reset) \/ WriteStore \/ WriteEnable
  /\ hist' = [hist EXCEPT !.burst = 0]
  /\ UNCHANGED <<line, main, sys, host>>

Main ==
  \/ Boot \/ Flush \/ ReadStep \/ NothingToRead \/ ReadChar \/ EndOfLine \/ Idle
  \/ AnswerBegin \/ WriteStep \/ AnswerEnd

Host == HostSend \/ HostReset \/ HostCancel

Next == Host \/ TransmitISR \/ Main

Spec == Init /\ [][Next]_vars

\* The main program never stops, and the transmitter is hardware.
FairSpec == Spec /\ WF_vars(Main) /\ WF_vars(TransmitISR)
=============================================================================
