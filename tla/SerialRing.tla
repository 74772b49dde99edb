----------------------------- MODULE SerialRing -----------------------------
(***************************************************************************)
(* The two rings of serial.cpp and everything that touches them: the       *)
(* receive interrupt and serial_read() on the one, serial_write() and the  *)
(* transmit interrupt on the other. A ring of Size slots holds Size - 1    *)
(* characters; head = tail means empty.                                    *)
(*                                                                         *)
(* The functions of the main program are split at each access of an index  *)
(* or register the other side changes, so that an interrupt may fall       *)
(* between any two of them; their locals are kept in `reader`, `writer`.   *)
(***************************************************************************)
EXTENDS Naturals, Sequences

CONSTANTS
  RxRing, TxRing,    \* RX_RING_BUFFER, TX_RING_BUFFER
  RxChars, TxChars,  \* what may be received and transmitted
  None               \* no character

ASSUME RingsAssumption == RxRing \in Nat \ {0, 1} /\ TxRing \in Nat \ {0, 1}
ASSUME NoneAssumption == None \notin RxChars /\ None \notin TxChars

VARIABLES
  rx,       \* serial_rx_buffer with its indices
  tx,       \* serial_tx_buffer with its indices, and the bit UDRIE0 of UCSR0B
  reader,   \* serial_read(): where it is, `tail`, `data`; what it returned last
  writer,   \* serial_write(): where it is, and its argument
  wire      \* the character the transmitter was given last

serialVars == <<rx, tx, reader, writer, wire>>

Advance(i, size) == IF i + 1 = size THEN 0 ELSE i + 1

Empty(ring) == ring.head = ring.tail

Full(ring, size) == Advance(ring.head, size) = ring.tail

Store(ring, size, c) ==
  [ring EXCEPT !.buf[ring.head] = c, !.head = Advance(ring.head, size)]

\* serial_get_rx_buffer_count() and serial_get_tx_buffer_count() mean this.
Used(ring, size) ==
  IF ring.head >= ring.tail THEN ring.head - ring.tail
  ELSE size - (ring.tail - ring.head)

\* The slot of the i-th character of a ring.
Slot(ring, size, i) ==
  LET s == ring.tail + i - 1 IN IF s < size THEN s ELSE s - size

\* The characters in a ring, oldest first.
Contents(ring, size) == [i \in 1..Used(ring, size) |-> ring.buf[Slot(ring, size, i)]]

SerialType ==
  /\ rx \in [buf : [0..RxRing-1 -> RxChars \cup {None}], head : 0..RxRing-1, tail : 0..RxRing-1]
  /\ tx \in [buf : [0..TxRing-1 -> TxChars \cup {None}], head : 0..TxRing-1, tail : 0..TxRing-1,
             udrie : BOOLEAN]
  /\ reader \in [at : {"out", "compare", "store"}, tail : 0..RxRing-1,
                 data : RxChars \cup {None}, got : RxChars \cup {None}]
  /\ writer \in [at : {"out", "wait", "store", "enable"}, data : TxChars \cup {None}]
  /\ wire \in TxChars \cup {None}

SerialInit ==
  /\ rx = [buf |-> [i \in 0..RxRing-1 |-> None], head |-> 0, tail |-> 0]
  /\ tx = [buf |-> [i \in 0..TxRing-1 |-> None], head |-> 0, tail |-> 0, udrie |-> FALSE]
  /\ reader = [at |-> "out", tail |-> 0, data |-> None, got |-> None]
  /\ writer = [at |-> "out", data |-> None]
  /\ wire = None

-----------------------------------------------------------------------------
(* Receiving.                                                               *)

\* Seeded fault: the test for a full ring is off by one.
ReceiveOverFull(c) ==
  /\ rx' = Store(rx, RxRing, c)
  /\ UNCHANGED <<tx, reader, writer, wire>>

\* ISR(SERIAL_RX) for a character that is not a real-time command.
Receive(c) ==
  /\ rx' = IF Full(rx, RxRing) THEN rx ELSE Store(rx, RxRing, c)
  /\ UNCHANGED <<tx, reader, writer, wire>>

\* serial_reset_read_buffer()
ResetReadBuffer == rx' = [rx EXCEPT !.tail = rx.head]

\* serial_read() takes its copy of the tail,
ReadBegin ==
  /\ reader.at = "out" /\ writer.at = "out"
  /\ reader' = [reader EXCEPT !.at = "compare", !.tail = rx.tail]
  /\ UNCHANGED <<rx, tx, writer, wire>>

\* finds the ring empty,
ReadNothing ==
  /\ reader.at = "compare"
  /\ rx.head = reader.tail
  /\ reader' = [reader EXCEPT !.at = "out", !.tail = 0, !.got = None]
  /\ UNCHANGED <<rx, tx, writer, wire>>

\* or takes the character,
ReadLoad ==
  /\ reader.at = "compare"
  /\ rx.head # reader.tail
  /\ reader' = [reader EXCEPT !.at = "store", !.data = rx.buf[reader.tail]]
  /\ UNCHANGED <<rx, tx, writer, wire>>

\* and moves the tail past it.
ReadStore ==
  /\ reader.at = "store"
  /\ rx' = [rx EXCEPT !.tail = Advance(reader.tail, RxRing)]
  /\ reader' = [reader EXCEPT !.at = "out", !.tail = 0, !.data = None, !.got = reader.data]
  /\ UNCHANGED <<tx, writer, wire>>

-----------------------------------------------------------------------------
(* Transmitting.                                                            *)

WriteBegin(c) ==
  /\ reader.at = "out" /\ writer.at = "out"
  /\ writer' = [writer EXCEPT !.at = "wait", !.data = c]
  /\ UNCHANGED <<rx, tx, reader, wire>>

\* serial_write() waits for room, but not across a reset.
WriteWait(resetPending) ==
  /\ writer.at = "wait"
  /\ \/ ~Full(tx, TxRing) /\ writer' = [writer EXCEPT !.at = "store"]
     \/ /\ Full(tx, TxRing) /\ resetPending
        /\ writer' = [writer EXCEPT !.at = "out", !.data = None]
  /\ UNCHANGED <<rx, tx, reader, wire>>

WriteStore ==
  /\ writer.at = "store"
  /\ tx' = Store(tx, TxRing, writer.data)
  /\ writer' = [writer EXCEPT !.at = "enable", !.data = None]
  /\ UNCHANGED <<rx, reader, wire>>

\* Seeded fault: the transmit interrupt is never enabled.
WriteEnableForgotten ==
  /\ writer.at = "enable"
  /\ writer' = [writer EXCEPT !.at = "out"]
  /\ UNCHANGED <<rx, tx, reader, wire>>

\* UCSR0B |= (1 << UDRIE0) is a load and a store, but it sets the bit whatever
\* the interrupt did to it in between.
WriteEnable ==
  /\ writer.at = "enable"
  /\ tx' = [tx EXCEPT !.udrie = TRUE]
  /\ writer' = [writer EXCEPT !.at = "out"]
  /\ UNCHANGED <<rx, reader, wire>>

\* Seeded fault: the interrupt stops the stream one character too late.
TransmitLate ==
  /\ tx.udrie
  /\ wire' = tx.buf[tx.tail]
  /\ tx' = [tx EXCEPT !.tail = Advance(tx.tail, TxRing), !.udrie = tx.tail # tx.head]
  /\ UNCHANGED <<rx, reader, writer>>

\* Seeded fault: the interrupt stops the stream one character too early.
TransmitEarly ==
  LET next == Advance(tx.tail, TxRing)
  IN /\ tx.udrie
     /\ wire' = tx.buf[tx.tail]
     /\ tx' = [tx EXCEPT !.tail = next, !.udrie = next # tx.head /\ Advance(next, TxRing) # tx.head]
     /\ UNCHANGED <<rx, reader, writer>>

\* ISR(SERIAL_UDRE) runs whenever it is enabled and the transmitter is free; it
\* takes the slot at the tail without asking whether there is anything in it.
Transmit ==
  LET next == Advance(tx.tail, TxRing)
  IN /\ tx.udrie
     /\ wire' = tx.buf[tx.tail]
     /\ tx' = [tx EXCEPT !.tail = next, !.udrie = next # tx.head]
     /\ UNCHANGED <<rx, reader, writer>>
=============================================================================
