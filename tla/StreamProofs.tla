----------------------------- MODULE StreamProofs ----------------------------
(***************************************************************************)
(* For rings of every size and every host: the types, that the transmitter *)
(* never sleeps on a ring with characters in it, that each ring implements *)
(* a queue (LossyQueue) under the timing its code relies on, that a line   *)
(* holds the characters outside comments, and that a host that counts is   *)
(* executed line by line.                                                  *)
(***************************************************************************)
EXTENDS StreamInvariant, SequenceTheorems, FiniteSetTheorems, WellFoundedInduction, TLAPS

-----------------------------------------------------------------------------
(* Rings and sequences.                                                     *)

\* A ring of size slots, each with an element of S.
IsRing(ring, size, S) ==
  ring.buf \in [0..size-1 -> S] /\ ring.head \in 0..size-1 /\ ring.tail \in 0..size-1

\* What a ring holds is a sequence; it is empty and full as the indices say.
LEMMA ContentsProperties ==
  ASSUME NEW S, NEW size \in Nat \ {0, 1}, NEW ring, IsRing(ring, size, S)
  PROVE  /\ Used(ring, size) \in 0..size-1
         /\ Contents(ring, size) \in Seq(S)
         /\ Len(Contents(ring, size)) = Used(ring, size)
         /\ \A i \in 1..Used(ring, size) : Contents(ring, size)[i] = ring.buf[Slot(ring, size, i)]
         /\ Contents(ring, size) = <<>> <=> Empty(ring)
         /\ Full(ring, size) <=> Used(ring, size) = size - 1
<1>1. Used(ring, size) \in 0..size-1
  BY DEF IsRing, Used
<1>2. \A i \in 1..Used(ring, size) : Slot(ring, size, i) \in 0..size-1
  BY <1>1 DEF IsRing, Used, Slot
<1>3. Contents(ring, size) \in [1..Used(ring, size) -> S]
  BY <1>2 DEF IsRing, Contents
<1>4. Contents(ring, size) \in Seq(S)
  BY <1>1, <1>3, SeqDef
<1>5. Len(Contents(ring, size)) = Used(ring, size)
  BY <1>1, <1>3, <1>4, LenProperties
<1>6. Contents(ring, size) = <<>> <=> Empty(ring)
  <2>1. Used(ring, size) = 0 <=> Empty(ring)
    BY DEF IsRing, Used, Empty
  <2> QED
    BY <2>1, <1>4, <1>5, EmptySeq
<1>7. Full(ring, size) <=> Used(ring, size) = size - 1
  BY DEF IsRing, Full, Advance, Used
<1> QED
  BY <1>1, <1>4, <1>5, <1>6, <1>7 DEF Contents

\* The characters in a ring after one more was stored, and after one was taken.
LEMMA UsedAfterStore ==
  ASSUME NEW size \in Nat \ {0, 1}, NEW r, NEW q,
         r.head \in 0..size-1, r.tail \in 0..size-1, ~Full(r, size),
         q.head = Advance(r.head, size), q.tail = r.tail
  PROVE  Used(q, size) = Used(r, size) + 1
BY DEF Used, Advance, Full

LEMMA UsedAfterTake ==
  ASSUME NEW size \in Nat \ {0, 1}, NEW r, NEW q,
         r.head \in 0..size-1, r.tail \in 0..size-1, ~Empty(r),
         q.head = r.head, q.tail = Advance(r.tail, size)
  PROVE  Used(r, size) > 0 /\ Used(q, size) = Used(r, size) - 1
BY DEF Used, Advance, Empty

\* The ring after c was stored.
Stored(ring, after, size, c) ==
  /\ after.buf = [ring.buf EXCEPT ![ring.head] = c]
  /\ after.head = Advance(ring.head, size) /\ after.tail = ring.tail

\* A character stored into a ring that is not full joins the end of the queue.
LEMMA StoreAppends ==
  ASSUME NEW S, NEW c \in S, NEW size \in Nat \ {0, 1}, NEW ring, NEW after,
         IsRing(ring, size, S), ~Full(ring, size), Stored(ring, after, size, c)
  PROVE  Contents(after, size) = Append(Contents(ring, size), c)
<1> DEFINE s == Contents(ring, size)
           t == Contents(after, size)
           n == Used(ring, size)
<1>1. IsRing(after, size, S)
  BY DEF IsRing, Advance, Stored
<1>2. /\ n \in 0..size-1 /\ s \in Seq(S) /\ Len(s) = n
      /\ \A i \in 1..n : s[i] = ring.buf[Slot(ring, size, i)]
  BY ContentsProperties
<1>3. /\ t \in Seq(S) /\ Len(t) = Used(after, size)
      /\ \A i \in 1..Used(after, size) : t[i] = after.buf[Slot(after, size, i)]
  BY <1>1, ContentsProperties, ZenonT(40)
<1>4. Used(after, size) = n + 1
  BY UsedAfterStore DEF IsRing, Stored
<1>5. /\ Append(s, c) \in Seq(S) /\ Len(Append(s, c)) = n + 1
      /\ \A i \in 1..n : Append(s, c)[i] = s[i]
      /\ Append(s, c)[n + 1] = c
  BY <1>2, AppendProperties
<1>6. ASSUME NEW i \in 1..n + 1
      PROVE  t[i] = Append(s, c)[i]
  <2>1. Slot(after, size, i) = Slot(ring, size, i)
    BY DEF Slot, Stored
  <2>2. CASE i = n + 1
    <3>1. Slot(ring, size, i) = ring.head
      BY <2>2, SMTT(20) DEF IsRing, Slot, Used
    <3> QED
      BY <2>1, <2>2, <3>1, <1>3, <1>4, <1>5, SMTT(20) DEF IsRing, Stored
  <2>3. CASE i \in 1..n
    <3>1. Slot(ring, size, i) \in 0..size-1 /\ Slot(ring, size, i) # ring.head
      BY <2>3, <1>2, SMTT(20) DEF IsRing, Slot, Used
    <3> QED
      BY <2>1, <2>3, <3>1, <1>2, <1>3, <1>4, <1>5, SMTT(20) DEF IsRing, Stored
  <2> QED
    BY <2>2, <2>3, <1>2
<1> QED
  BY <1>2, <1>3, <1>4, <1>5, <1>6, SeqEqual

\* The character at the tail is the head of the queue, and moving the tail takes it.
LEMMA AdvanceTakes ==
  ASSUME NEW S, NEW size \in Nat \ {0, 1}, NEW ring, NEW after,
         IsRing(ring, size, S),
         ~Empty(ring),
         after.buf = ring.buf, after.head = ring.head, after.tail = Advance(ring.tail, size)
  PROVE  /\ Contents(ring, size) # <<>>
         /\ Head(Contents(ring, size)) = ring.buf[ring.tail]
         /\ Contents(after, size) = Tail(Contents(ring, size))
<1> DEFINE s == Contents(ring, size)
           t == Contents(after, size)
           n == Used(ring, size)
<1>1. IsRing(after, size, S)
  BY DEF IsRing, Advance
<1>2. /\ n \in 0..size-1 /\ s \in Seq(S) /\ Len(s) = n /\ s # <<>>
      /\ \A i \in 1..n : s[i] = ring.buf[Slot(ring, size, i)]
  BY ContentsProperties
<1>3. /\ t \in Seq(S) /\ Len(t) = Used(after, size)
      /\ \A i \in 1..Used(after, size) : t[i] = after.buf[Slot(after, size, i)]
  BY <1>1, ContentsProperties, ZenonT(40)
<1>4. n > 0 /\ Used(after, size) = n - 1
  BY UsedAfterTake DEF IsRing
<1>5. /\ Tail(s) \in Seq(S) /\ Len(Tail(s)) = n - 1
      /\ \A i \in 1..n - 1 : Tail(s)[i] = s[i + 1]
  BY <1>2, HeadTailProperties
<1>6. ASSUME NEW i \in 1..n - 1
      PROVE  t[i] = Tail(s)[i]
  <2>1. Slot(after, size, i) = Slot(ring, size, i + 1)
    BY <1>2 DEF IsRing, Slot, Advance
  <2>2. i + 1 \in 1..n
    BY <1>2
  <2> QED
    BY <2>1, <2>2, <1>2, <1>3, <1>4, <1>5
<1>7. Head(s) = ring.buf[ring.tail]
  <2>1. Slot(ring, size, 1) = ring.tail
    BY DEF IsRing, Slot
  <2>2. Head(s) = s[1]
    BY <1>2
  <2> QED
    BY <2>1, <2>2, <1>2, <1>4
<1> QED
  BY <1>2, <1>3, <1>4, <1>5, <1>6, <1>7, SeqEqual

-----------------------------------------------------------------------------
(* Types.                                                                   *)

TypeInvariant == SerialType /\ MainType /\ HostType /\ HistType /\ SysType

LEMMA TypeInit == Init => TypeInvariant
<1> SUFFICES ASSUME Init PROVE TypeInvariant
  OBVIOUS
<1> USE RingsAssumption, HostsAssumption
<1>1. SerialType
  BY DEF Init, SerialInit, SerialType
<1>2. MainType /\ HistType /\ SysType
  BY DEF Init, MainType, HistType, SysType
<1>3. HostType
  BY DEF Init, HostType
<1> QED
  BY <1>1, <1>2, <1>3 DEF TypeInvariant

LEMMA AdvanceType ==
  /\ \A i \in 0..RxRing-1 : Advance(i, RxRing) \in 0..RxRing-1
  /\ \A i \in 0..TxRing-1 : Advance(i, TxRing) \in 0..TxRing-1
  /\ 0 \in 0..RxRing-1
BY RingsAssumption DEF Advance

\* The steps of the rings.
LEMMA ReceiveType ==
  ASSUME SerialType, NEW c \in RxChars, Receive(c)
  PROVE  SerialType'
BY AdvanceType DEF SerialType, Receive, Store

LEMMA ResetType ==
  ASSUME SerialType, ResetReadBuffer, UNCHANGED <<tx, reader, writer, wire>>
  PROVE  SerialType'
BY DEF SerialType, ResetReadBuffer

LEMMA ReadType ==
  ASSUME SerialType, ReadBegin \/ ReadNothing \/ ReadLoad \/ ReadStore
  PROVE  SerialType'
<1> USE AdvanceType DEF SerialType
<1>1. CASE ReadBegin
  BY <1>1 DEF ReadBegin
<1>2. CASE ReadNothing
  BY <1>2 DEF ReadNothing
<1>3. CASE ReadLoad
  BY <1>3 DEF ReadLoad
<1>4. CASE ReadStore
  BY <1>4 DEF ReadStore
<1> QED
  BY <1>1, <1>2, <1>3, <1>4

LEMMA WriteBeginType ==
  ASSUME SerialType, NEW c \in TxChars, WriteBegin(c)
  PROVE  SerialType'
BY DEF SerialType, WriteBegin

LEMMA WriteType ==
  ASSUME SerialType, WriteWait(sys.reset) \/ WriteStore \/ WriteEnable
  PROVE  SerialType'
<1> USE AdvanceType DEF SerialType
<1>1. CASE WriteWait(sys.reset)
  BY <1>1 DEF WriteWait
<1>2. CASE WriteStore
  BY <1>2 DEF WriteStore, Store
<1>3. CASE WriteEnable
  BY <1>3 DEF WriteEnable
<1> QED
  BY <1>1, <1>2, <1>3

LEMMA TransmitType ==
  ASSUME SerialType, Transmit
  PROVE  SerialType'
BY AdvanceType DEF SerialType, Transmit

LEMMA SerialTypeStep ==
  ASSUME TypeInvariant, [Next]_vars
  PROVE  SerialType'
<1> USE DEF TypeInvariant
<1>1. CASE HostSend
  <2>1. host.sent + 1 \in RxChars
    BY <1>1, HostsAssumption DEF HostSend, HostType
  <2> QED
    BY <1>1, <2>1, ReceiveType DEF HostSend
<1>2. CASE HostReset
  BY <1>2 DEF HostReset, SerialType
<1>3. CASE HostCancel \/ Flush
  BY <1>3, ResetType DEF HostCancel, Flush
<1>4. CASE TransmitISR
  BY <1>4, TransmitType DEF TransmitISR
<1>5. CASE Boot \/ EndOfLine \/ Idle \/ AnswerEnd
  BY <1>5 DEF Boot, EndOfLine, Idle, AnswerEnd, SerialType
<1>6. CASE ReadStep \/ NothingToRead \/ ReadChar
  BY <1>6, ReadType DEF ReadStep, NothingToRead, ReadChar
<1>7. CASE AnswerBegin
  <2>1. Head(main.answer) \in TxChars
    BY <1>7, HeadTailProperties DEF AnswerBegin, MainType
  <2> QED
    BY <1>7, <2>1, WriteBeginType DEF AnswerBegin
<1>8. CASE WriteStep
  BY <1>8, WriteType DEF WriteStep
<1>9. CASE UNCHANGED vars
  BY <1>9 DEF vars, SerialType
<1> QED
  BY <1>1, <1>2, <1>3, <1>4, <1>5, <1>6, <1>7, <1>8, <1>9 DEF Next, Host, Main

LEMMA MainTypeStep ==
  ASSUME TypeInvariant, [Next]_vars
  PROVE  MainType'
<1> USE DEF TypeInvariant, MainType
<1>1. CASE Host \/ TransmitISR \/ UNCHANGED vars
  BY <1>1 DEF Host, HostSend, HostReset, HostCancel, TransmitISR, vars
<1>2. CASE Boot \/ AnswerEnd \/ NothingToRead
  BY <1>2 DEF Boot, AnswerEnd, NothingToRead, GoTo
<1>3. CASE Flush
  BY <1>3, HostsAssumption DEF Flush
<1>4. CASE ReadStep \/ WriteStep
  BY <1>4 DEF ReadStep, WriteStep
<1>5. CASE ReadChar
  BY <1>5 DEF ReadChar, GoTo
<1>6. CASE EndOfLine
  <2>1. <<Status, "end">> \in Seq(TxChars)
    BY HostsAssumption DEF Status
  <2>2. CASE Aborts
    BY <2>2 DEF Aborts, GoTo
  <2>3. CASE main' = [pc |-> "answer", answer |-> <<Status, "end">>]
    <3> HIDE DEF Status
    <3> QED
      BY <2>1, <2>3
  <2> QED
    BY <1>6, <2>2, <2>3 DEF EndOfLine
<1>7. CASE Idle
  BY <1>7 DEF Idle, Aborts, GoTo
<1>8. CASE AnswerBegin
  BY <1>8, HeadTailProperties DEF AnswerBegin
<1> QED
  BY <1>1, <1>2, <1>3, <1>4, <1>5, <1>6, <1>7, <1>8 DEF Next, Main

LEMMA HostTypeStep ==
  ASSUME TypeInvariant, [Next]_vars
  PROVE  HostType'
<1> USE DEF TypeInvariant, HostType
<1>1. CASE HostSend
  BY <1>1 DEF HostSend
<1>2. CASE HostReset
  <2>1. PICK next \in NextLine(host.text, host.sent) :
          host' = [host EXCEPT !.greeted = FALSE, !.resets = @ - 1, !.sent = next, !.acked = next]
    BY <1>2 DEF HostReset
  <2>2. next \in Nat
    BY LenProperties DEF NextLine, LineStarts, EndsOfLine
  <2>3. host.resets - 1 \in Nat
    BY <1>2 DEF HostReset
  <2> QED
    BY <2>1, <2>2, <2>3
<1>3. CASE HostCancel
  <2>1. host.cancels - 1 \in Nat
    BY <1>3 DEF HostCancel
  <2> QED
    BY <1>3, <2>1 DEF HostCancel
<1>4. CASE TransmitISR
  BY <1>4 DEF TransmitISR
<1>5. CASE Main \/ UNCHANGED vars
  BY <1>5 DEF Main, Boot, Flush, ReadStep, NothingToRead, ReadChar, EndOfLine, Idle,
              AnswerBegin, WriteStep, AnswerEnd, vars
<1> QED
  BY <1>1, <1>2, <1>3, <1>4, <1>5 DEF Next, Host

LEMMA HistTypeStep ==
  ASSUME TypeInvariant, [Next]_vars
  PROVE  HistType'
<1> USE DEF TypeInvariant, HistType
<1>1. CASE Host
  BY <1>1 DEF Host, HostSend, HostReset, HostCancel
<1>2. CASE TransmitISR
  BY <1>2 DEF TransmitISR
<1>3. CASE ReadChar
  BY <1>3 DEF ReadChar
<1>6. CASE NothingToRead
  BY <1>6 DEF NothingToRead
<1>7. CASE Flush
  BY <1>7 DEF Flush
<1>8. CASE WriteStep
  <2>1. hist' = [hist EXCEPT !.burst = 0]
    BY <1>8 DEF WriteStep
  <2> QED
    BY <2>1
<1>4. CASE EndOfLine \/ Idle
  BY <1>4 DEF EndOfLine, Idle, Aborts
<1>5. CASE Boot \/ ReadStep \/ AnswerBegin \/ AnswerEnd \/ UNCHANGED vars
  <2>1. hist' = hist
    BY <1>5, Zenon DEF Boot, ReadStep, AnswerBegin, AnswerEnd, vars
  <2> QED
    BY <2>1
<1> QED
  BY <1>1, <1>2, <1>3, <1>4, <1>5, <1>6, <1>7, <1>8 DEF Next, Main

LEMMA SysTypeStep ==
  ASSUME TypeInvariant, [Next]_vars
  PROVE  SysType'
<1> USE DEF TypeInvariant, SysType
<1>1. CASE Host \/ TransmitISR \/ UNCHANGED vars
  BY <1>1 DEF Host, HostSend, HostReset, HostCancel, TransmitISR, vars
<1>2. CASE EndOfLine \/ Idle
  <2>1. \/ sys' = sys \/ sys' = [sys EXCEPT !.jog = TRUE] \/ sys' = [sys EXCEPT !.jog = FALSE]
    BY <1>2, Zenon DEF EndOfLine, Idle, Aborts, JogMayEnd
  <2> QED
    BY <2>1
<1>3. CASE Boot
  BY <1>3 DEF Boot
<1>4. CASE Flush \/ ReadStep \/ NothingToRead \/ ReadChar \/ AnswerBegin \/ WriteStep \/ AnswerEnd
  <2>1. sys' = sys
    BY <1>4, Zenon DEF Flush, ReadStep, NothingToRead, ReadChar, AnswerBegin, WriteStep, AnswerEnd
  <2> QED
    BY <2>1
<1> QED
  BY <1>1, <1>2, <1>3, <1>4 DEF Next, Main

\* The rings, the control points of their users and the host's position have their
\* types, whatever the sizes and the hosts.
THEOREM TypeCorrect == Spec => []TypeInvariant
<1>1. TypeInvariant /\ [Next]_vars => TypeInvariant'
  BY SerialTypeStep, MainTypeStep, HostTypeStep, HistTypeStep, SysTypeStep DEF TypeInvariant
<1> QED
  BY <1>1, TypeInit, PTL DEF Spec
-----------------------------------------------------------------------------
(* The transmitter.                                                         *)

\* A ring with characters in it is being sent, or is about to be (serial.cpp:87-129).
THEOREM TransmitterNeverSleeps == Spec => []TransmitterRuns
<1>1. Init => TransmitterRuns
  BY DEF Init, SerialInit, TransmitterRuns, Empty
<1>2. TypeInvariant /\ TransmitterRuns /\ [Next]_vars => TransmitterRuns'
  <2> SUFFICES ASSUME TypeInvariant, TransmitterRuns, [Next]_vars PROVE TransmitterRuns'
    OBVIOUS
  <2> USE DEF TransmitterRuns, Empty
  <2>1. CASE Host \/ UNCHANGED vars
    BY <2>1 DEF Host, HostSend, HostReset, HostCancel, Receive, vars
  <2>2. CASE TransmitISR
    BY <2>2 DEF TransmitISR, Transmit, TypeInvariant, SerialType
  <2>3. CASE WriteStep
    BY <2>3 DEF WriteStep, WriteWait, WriteStore, WriteEnable, TypeInvariant, SerialType
  <2>4. CASE AnswerBegin
    BY <2>4 DEF AnswerBegin, WriteBegin
  <2>5. CASE ReadStep \/ NothingToRead \/ ReadChar
    BY <2>5 DEF ReadStep, NothingToRead, ReadChar, ReadBegin, ReadNothing, ReadLoad, ReadStore
  <2>6. CASE Boot \/ Flush \/ EndOfLine \/ Idle \/ AnswerEnd
    BY <2>6 DEF Boot, Flush, EndOfLine, Idle, AnswerEnd
  <2> QED
    BY <2>1, <2>2, <2>3, <2>4, <2>5, <2>6 DEF Next, Main
<1> QED
  BY <1>1, <1>2, TypeCorrect, PTL DEF Spec

-----------------------------------------------------------------------------
(* The receive ring is a queue.                                             *)

\* A jog cancel overtakes the serial_read() it falls into, until it returns.
LEMMA CancelOvertakes ==
  ASSUME TypeInvariant, [Next]_vars
  PROVE  /\ HostCancel => hist'.cancelled /\ (hist'.overtaken <=> reader.at # "out")
         /\ NothingToRead \/ ReadChar =>
              reader'.at = "out" /\ ~hist'.overtaken /\ (hist'.cancelled <=> hist.cancelled)
         /\ ~(HostCancel \/ NothingToRead \/ ReadChar) =>
              (hist'.overtaken <=> hist.overtaken) /\ (hist'.cancelled <=> hist.cancelled)
<1> USE DEF TypeInvariant, HistType
<1>1. HostCancel => hist'.cancelled /\ (hist'.overtaken <=> reader.at # "out")
  BY DEF HostCancel
<1>2. NothingToRead \/ ReadChar =>
        reader'.at = "out" /\ ~hist'.overtaken /\ (hist'.cancelled <=> hist.cancelled)
  <2>1. NothingToRead \/ ReadChar => ~hist'.overtaken /\ (hist'.cancelled <=> hist.cancelled)
    BY DEF NothingToRead, ReadChar
  <2>2. NothingToRead \/ ReadChar => reader'.at = "out"
    BY DEF NothingToRead, ReadChar, ReadNothing, ReadStore, SerialType
  <2> QED
    BY <2>1, <2>2
<1>3. ASSUME HostSend \/ HostReset \/ TransmitISR \/ Flush \/ WriteStep
      PROVE  (hist'.overtaken <=> hist.overtaken) /\ (hist'.cancelled <=> hist.cancelled)
  BY <1>3 DEF HostSend, HostReset, TransmitISR, Flush, WriteStep
<1>4. ASSUME EndOfLine \/ Idle
      PROVE  (hist'.overtaken <=> hist.overtaken) /\ (hist'.cancelled <=> hist.cancelled)
  BY <1>4 DEF EndOfLine, Idle, Aborts
<1>5. ASSUME Boot \/ ReadStep \/ AnswerBegin \/ AnswerEnd \/ UNCHANGED vars
      PROVE  (hist'.overtaken <=> hist.overtaken) /\ (hist'.cancelled <=> hist.cancelled)
  <2>1. hist' = hist
    BY <1>5, Zenon DEF Boot, ReadStep, AnswerBegin, AnswerEnd, vars
  <2> QED
    BY <2>1
<1> QED
  BY <1>1, <1>2, <1>3, <1>4, <1>5 DEF Next, Host, Main

\* Outside the main loop's reading nothing reads, and a step that leaves the reader and
\* the tail alone leaves it at the tail.
LEMMA ReaderLeftAlone ==
  ASSUME ReaderInvariant, reader' = reader, reader.at # "out" => main' = main,
         hist'.overtaken <=> hist.overtaken, hist'.cancelled <=> hist.cancelled,
         reader.at # "out" /\ AtTail => AtTail'
  PROVE  ReaderInvariant'
BY DEF ReaderInvariant, AtTail

\* serial_read() keeps to its place: only the steps of the reader move the tail while
\* it is under way, and jog cancels.
LEMMA ReaderStep ==
  ASSUME TypeInvariant, ReaderInvariant, [Next]_vars
  PROVE  ReaderInvariant'
<1>1. CASE HostSend
  <2>1. UNCHANGED <<reader, main, hist>> /\ Receive(host.sent + 1)
    BY <1>1 DEF HostSend, Receive
  <2>2. ASSUME reader.at # "out", AtTail PROVE AtTail'
    <3>1. CASE Full(rx, RxRing)
      BY <2>1, <2>2, <3>1 DEF Receive, Empty, AtTail
    <3>2. CASE ~Full(rx, RxRing)
      <4>1. rx'.tail = rx.tail /\ ~Empty(rx')
        BY <2>1, <3>2 DEF Receive, Store, Full, Empty, TypeInvariant, SerialType
      <4>2. ~Empty(rx) => rx'.buf[rx.tail] = rx.buf[rx.tail]
        BY <2>1, <3>2 DEF Receive, Store, Empty, TypeInvariant, SerialType
      <4> QED
        BY <2>1, <2>2, <4>1, <4>2 DEF AtTail
    <3> QED
      BY <3>1, <3>2
  <2> QED
    BY <2>1, <2>2, ReaderLeftAlone
<1>2. CASE HostCancel
  <2>1. UNCHANGED <<reader, main>>
    BY <1>2 DEF HostCancel
  <2>2. hist'.cancelled /\ (hist'.overtaken <=> reader.at # "out")
    BY <1>2, CancelOvertakes
  <2> QED
    BY <2>1, <2>2 DEF ReaderInvariant, AtTail
<1>3. CASE HostReset \/ TransmitISR \/ WriteStep \/ UNCHANGED vars
  <2>1. UNCHANGED <<rx, reader, main>>
    BY <1>3 DEF HostReset, TransmitISR, Transmit, WriteStep, WriteWait, WriteStore, WriteEnable, vars
  <2>2. (hist'.overtaken <=> hist.overtaken) /\ (hist'.cancelled <=> hist.cancelled)
    <3>1. CASE HostReset \/ UNCHANGED vars
      BY <3>1 DEF HostReset, vars
    <3>2. CASE TransmitISR \/ WriteStep
      BY <3>2 DEF TransmitISR, WriteStep, TypeInvariant, HistType
    <3> QED
      BY <1>3, <3>1, <3>2
  <2> QED
    BY <2>1, <2>2, ReaderLeftAlone DEF AtTail, Empty
<1>4. CASE Boot \/ Flush \/ EndOfLine \/ Idle \/ AnswerEnd \/ AnswerBegin
  <2>1. reader.at = "out"
    BY <1>4 DEF ReaderInvariant, Boot, Flush, EndOfLine, Idle, AnswerEnd, AnswerBegin, At
  <2>2. reader' = reader
    BY <1>4, Zenon DEF Boot, Flush, EndOfLine, Idle, AnswerEnd, AnswerBegin, WriteBegin
  <2>3. (hist'.overtaken <=> hist.overtaken) /\ (hist'.cancelled <=> hist.cancelled)
    <3>1. CASE Boot \/ AnswerEnd \/ AnswerBegin
      BY <3>1, Zenon DEF Boot, AnswerEnd, AnswerBegin
    <3>2. CASE Flush \/ EndOfLine \/ Idle
      BY <3>2 DEF Flush, EndOfLine, Idle, Aborts, TypeInvariant, HistType
    <3> QED
      BY <1>4, <3>1, <3>2
  <2> QED
    BY <2>1, <2>2, <2>3, ReaderLeftAlone
<1>5. CASE ReadStep
  <2>1. main.pc = "read" /\ UNCHANGED <<main, rx, hist>>
    BY <1>5 DEF ReadStep, ReadBegin, ReadLoad, At
  <2>2. CASE ReadBegin
    <3>1. reader.at = "out" /\ reader'.at = "compare" /\ reader'.tail = rx.tail
      BY <2>2 DEF ReadBegin, TypeInvariant, SerialType
    <3> QED
      BY <2>1, <3>1 DEF ReaderInvariant, AtTail
  <2>3. CASE ReadLoad
    <3>1. /\ reader.at = "compare" /\ reader'.at = "store" /\ rx.head # reader.tail
          /\ reader'.tail = reader.tail /\ reader'.data = rx.buf[reader.tail]
      BY <2>3 DEF ReadLoad, TypeInvariant, SerialType
    <3> QED
      BY <2>1, <3>1 DEF ReaderInvariant, AtTail, Empty
  <2> QED
    BY <1>5, <2>2, <2>3 DEF ReadStep
<1>6. CASE NothingToRead \/ ReadChar
  <2>1. reader'.at = "out" /\ ~hist'.overtaken
    BY <1>6, CancelOvertakes
  <2> QED
    BY <2>1 DEF ReaderInvariant, AtTail
<1> QED
  BY <1>1, <1>2, <1>3, <1>4, <1>5, <1>6 DEF Next, Host, Main

\* What is in the receive ring before and after a step, as a queue.
LEMMA RxStep ==
  ASSUME TypeInvariant, TypeInvariant', ReaderInvariant, [Next]_vars
  PROVE  [RxQueue!Next \/ (hist.overtaken /\ ReadStore)]_<<Contents(rx, RxRing), reader.got>>
<1> DEFINE S == RxChars \cup {None}
           q == Contents(rx, RxRing)
<1> SUFFICES \/ \E c \in RxChars : /\ Len(q) < RxRing - 1
                                   /\ Contents(rx', RxRing) = Append(q, c)
                                   /\ reader'.got = reader.got
             \/ q # <<>> /\ reader'.got = Head(q) /\ Contents(rx', RxRing) = Tail(q)
             \/ Contents(rx', RxRing) = <<>> /\ reader'.got = reader.got
             \/ reader'.got = None /\ Contents(rx', RxRing) = q
             \/ hist.overtaken /\ ReadStore
             \/ Contents(rx', RxRing) = q /\ reader'.got = reader.got
  BY DEF RxQueue!Next, RxQueue!Put, RxQueue!Get, RxQueue!Discard, RxQueue!Forget
<1>0. /\ RxRing \in Nat \ {0, 1}
      /\ IsRing(rx, RxRing, S) /\ IsRing(rx', RxRing, S)
  BY RingsAssumption DEF TypeInvariant, SerialType, IsRing
<1>1. CASE HostSend
  <2>1. host.sent + 1 \in RxChars
    BY <1>1, HostsAssumption DEF HostSend, TypeInvariant, HostType
  <2>2. CASE Full(rx, RxRing)
    BY <1>1, <2>2 DEF HostSend, Receive
  <2>3. CASE ~Full(rx, RxRing)
    <3>1. UNCHANGED reader /\ Stored(rx, rx', RxRing, host.sent + 1)
      BY <1>1, <2>3 DEF HostSend, Receive, Store, Stored, TypeInvariant, SerialType
    <3>2. Contents(rx', RxRing) = Append(q, host.sent + 1)
      BY <1>0, <2>1, <2>3, <3>1, StoreAppends
    <3>3. Len(q) < RxRing - 1
      <4>1. /\ Len(q) = Used(rx, RxRing) /\ Used(rx, RxRing) \in 0..RxRing-1
            /\ Used(rx, RxRing) # RxRing - 1
        BY <1>0, <2>3, ContentsProperties
      <4> QED
        BY <1>0, <4>1
    <3> QED
      BY <2>1, <3>1, <3>2, <3>3
  <2> QED
    BY <2>2, <2>3
<1>2. CASE HostCancel \/ Flush
  <2>1. UNCHANGED reader /\ Empty(rx')
    BY <1>2 DEF HostCancel, Flush, ResetReadBuffer, Empty, TypeInvariant, SerialType
  <2> QED
    BY <1>0, <2>1, ContentsProperties
<1>3. CASE ReadChar
  <2>1. CASE hist.overtaken
    BY <1>3, <2>1 DEF ReadChar
  <2>2. CASE ~hist.overtaken
    <3>1. AtTail
      BY <2>2 DEF ReaderInvariant
    <3>2. /\ ~Empty(rx) /\ reader'.got = rx.buf[rx.tail]
          /\ rx'.buf = rx.buf /\ rx'.head = rx.head /\ rx'.tail = Advance(rx.tail, RxRing)
      BY <1>3, <3>1 DEF ReadChar, ReadStore, AtTail, TypeInvariant, SerialType
    <3>3. /\ q # <<>> /\ Head(q) = rx.buf[rx.tail]
          /\ Contents(rx', RxRing) = Tail(q)
      BY <1>0, <3>2, AdvanceTakes
    <3> QED
      BY <3>2, <3>3
  <2> QED
    BY <2>1, <2>2
<1>4. CASE NothingToRead
  BY <1>4 DEF NothingToRead, ReadNothing, TypeInvariant, SerialType
<1>5. CASE ReadStep
  BY <1>5 DEF ReadStep, ReadBegin, ReadLoad, TypeInvariant, SerialType
<1>6. CASE HostReset \/ TransmitISR \/ UNCHANGED vars
  BY <1>6 DEF HostReset, TransmitISR, Transmit, vars
<1>7. CASE Boot \/ EndOfLine \/ Idle \/ AnswerBegin \/ WriteStep \/ AnswerEnd
  BY <1>7 DEF Boot, EndOfLine, Idle, AnswerBegin, WriteBegin, WriteStep, WriteWait,
              WriteStore, WriteEnable, AnswerEnd
<1> QED
  BY <1>1, <1>2, <1>3, <1>4, <1>5, <1>6, <1>7 DEF Next, Host, Main

\* The slots from t up to the head, after a step of the tail and after one of the head.
LEMMA FromMoves ==
  ASSUME rx.head \in 0..RxRing-1, NEW t \in 0..RxRing-1
  PROVE  /\ From(t) \subseteq 0..RxRing-1 /\ rx.head \notin From(t)
         /\ t = rx.head => From(t) = {}
         /\ t # rx.head => t \in From(t) /\ From(Advance(t, RxRing)) = From(t) \ {t}
         /\ rx'.head = rx.head => From(t)' = From(t)
         /\ rx'.head = Advance(rx.head, RxRing) => From(t)' \subseteq From(t) \cup {rx.head}
<1> USE RingsAssumption DEF From, Advance
<1>1. From(t) \subseteq 0..RxRing-1 /\ rx.head \notin From(t) /\ (t = rx.head => From(t) = {})
  OBVIOUS
<1>2. ASSUME t # rx.head PROVE t \in From(t) /\ From(Advance(t, RxRing)) = From(t) \ {t}
  BY <1>2
<1>3. rx'.head = rx.head => From(t)' = From(t)
  OBVIOUS
<1>4. rx'.head = Advance(rx.head, RxRing) => From(t)' \subseteq From(t) \cup {rx.head}
  OBVIOUS
<1> QED
  BY <1>1, <1>2, <1>3, <1>4

\* The host's positions are numbers, and None is none of them.
LEMMA Positions == RxChars \subseteq Nat \ {0} /\ None \notin RxChars
BY HostsAssumption, NoneAssumption

\* The ring is left alone, or its tail moves, which changes nothing of the order.
LEMMA OrderLeftAlone ==
  ASSUME TypeInvariant, OrderInvariant, rx'.buf = rx.buf, rx'.head = rx.head,
         host'.sent \in Nat, host'.sent >= host.sent,
         hist'.last \in 0..host'.sent, Newer(rx'.tail, hist'.last),
         reader'.at = "compare" => Newer(reader'.tail, hist'.last),
         reader'.at = "store" =>
           /\ reader'.data # None /\ hist'.last < reader'.data /\ reader'.data <= host'.sent
           /\ Newer(Advance(reader'.tail, RxRing), reader'.data)
  PROVE  OrderInvariant'
<1>2. ASSUME NEW s \in 0..RxRing-1, rx.buf[s] # None
      PROVE  rx.buf[s] <= host'.sent
  <2>1. rx.buf[s] \in RxChars /\ rx.buf[s] <= host.sent /\ host.sent \in Nat
    BY <1>2 DEF OrderInvariant, TypeInvariant, SerialType, HostType
  <2>2. rx.buf[s] \in Nat
    BY <2>1, Positions
  <2> QED
    BY <2>1, <2>2
<1>3. \A s : From(s)' = From(s)
  BY DEF From
<1>4. ASSUME NEW s \in 0..RxRing-1, rx'.buf[s] # None
      PROVE  /\ rx'.buf[s] <= host'.sent
             /\ \A u \in From(s)' : u # s => rx'.buf[u] # None /\ rx'.buf[u] > rx'.buf[s]
  BY <1>2, <1>3, <1>4 DEF OrderInvariant
<1>5. /\ Newer(rx.tail, hist.last)'
      /\ reader'.at = "compare" => Newer(reader.tail, hist.last)'
      /\ reader'.at = "store" => Newer(Advance(reader.tail, RxRing), reader.data)'
  BY <1>3 DEF Newer
<1> QED
  BY <1>4, <1>5 DEF OrderInvariant

\* A character is stored behind all others: what was newer than p stays so.
LEMMA OrderStored ==
  ASSUME TypeInvariant, OrderInvariant, HostSend
  PROVE  OrderInvariant'
<1>1. /\ UNCHANGED <<reader, hist>> /\ host'.sent = host.sent + 1 /\ host.sent \in Nat
      /\ host.sent + 1 \in RxChars /\ host.sent + 1 # None
  BY HostsAssumption, NoneAssumption DEF HostSend, Receive, TypeInvariant, HostType
<1>2. CASE Full(rx, RxRing)
  <2>1. rx' = rx
    BY <1>2 DEF HostSend, Receive
  <2>2. ASSUME reader.at = "store"
        PROVE  /\ reader.data # None /\ hist.last < reader.data /\ reader.data <= host'.sent
               /\ Newer(Advance(reader.tail, RxRing), reader.data)
    <3>1. reader.data \in RxChars
      BY <2>2 DEF OrderInvariant, TypeInvariant, SerialType
    <3>2. reader.data \in Nat
      BY <3>1, Positions
    <3>3. /\ reader.data # None /\ hist.last < reader.data /\ reader.data <= host.sent
          /\ Newer(Advance(reader.tail, RxRing), reader.data)
      BY <2>2 DEF OrderInvariant
    <3> QED
      BY <1>1, <3>2, <3>3
  <2> QED
    BY <1>1, <2>1, <2>2, OrderLeftAlone DEF OrderInvariant
<1>3. CASE ~Full(rx, RxRing)
  <2>1. /\ rx'.buf = [rx.buf EXCEPT ![rx.head] = host.sent + 1]
        /\ rx'.head = Advance(rx.head, RxRing) /\ rx'.tail = rx.tail
        /\ rx.head \in 0..RxRing-1 /\ rx.tail \in 0..RxRing-1 /\ reader.tail \in 0..RxRing-1
        /\ rx.buf \in [0..RxRing-1 -> RxChars \cup {None}]
    BY <1>3 DEF HostSend, Receive, Store, TypeInvariant, SerialType
  <2>2. \A t \in 0..RxRing-1 : /\ From(t)' \subseteq From(t) \cup {rx.head} /\ rx.head \notin From(t)
                               /\ From(t) \subseteq 0..RxRing-1
    BY <2>1, FromMoves
  <2>3. ASSUME NEW t \in 0..RxRing-1, NEW p \in 0..host.sent, Newer(t, p)
        PROVE  Newer(t, p)'
    <3>1. ASSUME NEW s \in From(t)' PROVE rx'.buf[s] # None /\ rx'.buf[s] > p
      <4>1. s \in From(t) \cup {rx.head} /\ s \in 0..RxRing-1
        BY <2>1, <2>2
      <4>2. CASE s = rx.head
        <5>1. rx'.buf[s] = host.sent + 1
          BY <2>1, <4>2
        <5>2. host.sent + 1 > p
          BY <1>1
        <5> QED
          BY <1>1, <5>1, <5>2
      <4>3. CASE s # rx.head
        <5>1. rx'.buf[s] = rx.buf[s]
          BY <2>1, <4>1, <4>3
        <5> QED
          BY <2>3, <4>1, <4>3, <5>1 DEF Newer
      <4> QED
        BY <4>2, <4>3
    <3> QED
      BY <3>1 DEF Newer
  <2>4. ASSUME NEW s \in 0..RxRing-1, rx'.buf[s] # None
        PROVE  /\ rx'.buf[s] <= host'.sent
               /\ \A u \in From(s)' : u # s => rx'.buf[u] # None /\ rx'.buf[u] > rx'.buf[s]
    <3>1. CASE s = rx.head
      <4>1. From(s)' \subseteq {s}
        BY <2>1, <2>2, <3>1, FromMoves
      <4>2. rx'.buf[s] = host.sent + 1
        BY <2>1, <3>1
      <4> QED
        BY <1>1, <4>1, <4>2
    <3>2. CASE s # rx.head
      <4>1. rx'.buf[s] = rx.buf[s] /\ rx.buf[s] \in RxChars
        BY <2>1, <2>4, <3>2
      <4>2. /\ rx.buf[s] \in Nat /\ rx.buf[s] <= host.sent
            /\ \A u \in From(s) : u # s => rx.buf[u] # None /\ rx.buf[u] > rx.buf[s]
        BY <4>1, Positions DEF OrderInvariant
      <4>3. ASSUME NEW u \in From(s)', u # s
            PROVE  rx'.buf[u] # None /\ rx'.buf[u] > rx'.buf[s]
        <5>1. u \in From(s) \cup {rx.head} /\ u \in 0..RxRing-1
          BY <2>1, <2>2, <4>3
        <5>2. CASE u = rx.head
          <6>1. rx'.buf[u] = host.sent + 1
            BY <2>1, <5>2
          <6>2. host.sent + 1 > rx.buf[s]
            BY <1>1, <4>2
          <6> QED
            BY <1>1, <4>1, <6>1, <6>2
        <5>3. CASE u # rx.head
          <6>1. rx'.buf[u] = rx.buf[u]
            BY <2>1, <5>1, <5>3
          <6> QED
            BY <4>1, <4>2, <4>3, <5>1, <5>3, <6>1
        <5> QED
          BY <5>2, <5>3
      <4> QED
        BY <1>1, <4>1, <4>2, <4>3
    <3> QED
      BY <3>1, <3>2
  <2>5. /\ hist'.last \in 0..host'.sent
        /\ Newer(rx.tail, hist.last)'
        /\ reader'.at = "compare" => Newer(reader.tail, hist.last)'
    <3>1. hist.last \in 0..host.sent /\ Newer(rx.tail, hist.last)
      BY DEF OrderInvariant
    <3>2. Newer(rx.tail, hist.last)'
      <4> DEFINE t == rx.tail
                 p == hist.last
      <4>1. t' = t /\ p' = p /\ t \in 0..RxRing-1
        BY <1>1, <2>1
      <4>2. \A s \in From(t)' : rx'.buf[s] # None /\ rx'.buf[s] > p
        BY <2>3, <3>1, <4>1 DEF Newer
      <4> QED
        BY <4>1, <4>2 DEF Newer
    <3> QED
      BY <1>1, <2>1, <2>3, <3>1, <3>2 DEF OrderInvariant
  <2>6. ASSUME reader.at = "store"
        PROVE  /\ reader.data # None /\ hist.last < reader.data /\ reader.data <= host'.sent
               /\ Newer(Advance(reader.tail, RxRing), reader.data)'
    <3>1. reader.data \in 0..host.sent /\ Advance(reader.tail, RxRing) \in 0..RxRing-1
      BY <1>1, <2>1, <2>6, AdvanceType, HostsAssumption DEF OrderInvariant, TypeInvariant, SerialType
    <3> QED
      BY <1>1, <2>3, <2>6, <3>1 DEF OrderInvariant
  <2> QED
    BY <1>1, <2>4, <2>5, <2>6 DEF OrderInvariant
<1> QED
  BY <1>2, <1>3

LEMMA OrderStep ==
  ASSUME TypeInvariant, TypeInvariant', OrderInvariant, [Next]_vars
  PROVE  OrderInvariant'
<1>0. /\ rx.head \in 0..RxRing-1 /\ rx.tail \in 0..RxRing-1 /\ reader.tail \in 0..RxRing-1
      /\ host.sent \in Nat /\ hist.last \in 0..host.sent
      /\ rx.buf \in [0..RxRing-1 -> RxChars \cup {None}] /\ RxChars \subseteq Nat
  BY HostsAssumption DEF TypeInvariant, SerialType, HostType, OrderInvariant
<1>1. CASE HostSend
  BY <1>1, OrderStored
<1>2. CASE HostReset
  <2>1. host'.sent \in Nat /\ host'.sent >= host.sent
    <3>1. PICK next \in NextLine(host.text, host.sent) :
            host' = [host EXCEPT !.greeted = FALSE, !.resets = @ - 1, !.sent = next, !.acked = next]
      BY <1>2 DEF HostReset
    <3>2. host'.sent = next
      BY <3>1 DEF TypeInvariant, HostType
    <3> QED
      BY <1>0, <3>2 DEF NextLine, TypeInvariant, HostType
  <2> QED
    BY <1>0, <1>2, <2>1, OrderLeftAlone DEF HostReset, OrderInvariant, TypeInvariant, SerialType
<1>3. CASE HostCancel \/ Flush
  <2>1. /\ rx'.buf = rx.buf /\ rx'.head = rx.head /\ rx'.tail = rx.head
        /\ reader' = reader /\ host'.sent = host.sent /\ hist'.last = hist.last
    BY <1>3 DEF HostCancel, Flush, ResetReadBuffer, TypeInvariant, SerialType, HostType, HistType
  <2>2. Newer(rx'.tail, hist.last)
    BY <1>0, <2>1, FromMoves DEF Newer
  <2> QED
    BY <1>0, <2>1, <2>2, OrderLeftAlone DEF OrderInvariant
<1>4. CASE ReadStep
  <2>1. UNCHANGED <<rx, host, hist>>
    BY <1>4 DEF ReadStep, ReadBegin, ReadLoad
  <2>2. CASE ReadBegin
    <3>1. reader'.at = "compare" /\ reader'.tail = rx.tail
      BY <2>2 DEF ReadBegin, TypeInvariant, SerialType
    <3> QED
      BY <1>0, <2>1, <3>1, OrderLeftAlone DEF OrderInvariant
  <2>3. CASE ReadLoad
    <3>1. /\ reader.at = "compare" /\ reader'.at = "store" /\ reader'.tail = reader.tail
          /\ reader'.data = rx.buf[reader.tail] /\ rx.head # reader.tail
      BY <2>3 DEF ReadLoad, TypeInvariant, SerialType
    <3>2. /\ reader.tail \in From(reader.tail)
          /\ From(Advance(reader.tail, RxRing)) = From(reader.tail) \ {reader.tail}
      BY <1>0, <3>1, FromMoves
    <3>3. rx.buf[reader.tail] # None /\ rx.buf[reader.tail] > hist.last
      BY <3>1, <3>2 DEF OrderInvariant, Newer
    <3>4. /\ rx.buf[reader.tail] <= host.sent
          /\ Newer(Advance(reader.tail, RxRing), rx.buf[reader.tail])
      BY <1>0, <3>2, <3>3 DEF OrderInvariant, Newer
    <3> QED
      BY <1>0, <2>1, <3>1, <3>3, <3>4, OrderLeftAlone DEF OrderInvariant
  <2> QED
    BY <1>4, <2>2, <2>3 DEF ReadStep
<1>5. CASE NothingToRead
  <2>1. UNCHANGED <<rx, host>> /\ reader'.at = "out" /\ hist'.last = hist.last
    BY <1>5 DEF NothingToRead, ReadNothing, TypeInvariant, SerialType, HistType
  <2> QED
    BY <1>0, <2>1, OrderLeftAlone DEF OrderInvariant
<1>6. CASE ReadChar
  <2>1. /\ reader.at = "store" /\ reader'.at = "out" /\ rx'.buf = rx.buf /\ rx'.head = rx.head
        /\ rx'.tail = Advance(reader.tail, RxRing) /\ host' = host /\ hist'.last = reader.data
    BY <1>6 DEF ReadChar, ReadStore, TypeInvariant, SerialType, HistType
  <2>2. reader.data \in RxChars
    BY <2>1 DEF OrderInvariant, TypeInvariant, SerialType
  <2>3. reader.data \in Nat
    BY <2>2, Positions
  <2>4. reader.data <= host.sent /\ Newer(Advance(reader.tail, RxRing), reader.data)
    BY <2>1 DEF OrderInvariant
  <2>5. reader.data \in 0..host.sent /\ Newer(rx'.tail, reader.data)
    BY <1>0, <2>1, <2>3, <2>4
  <2>6. hist'.last \in 0..host'.sent /\ Newer(rx'.tail, hist'.last)
    BY <2>1, <2>5
  <2>7. reader'.at # "compare" /\ reader'.at # "store" /\ host'.sent \in Nat /\ host'.sent >= host.sent
    BY <1>0, <2>1
  <2> QED
    BY <2>1, <2>6, <2>7, OrderLeftAlone
<1>7. CASE TransmitISR
  <2>1. UNCHANGED <<rx, reader>> /\ host'.sent = host.sent /\ hist'.last = hist.last
    BY <1>7 DEF TransmitISR, Transmit, TypeInvariant, HostType, HistType
  <2> QED
    BY <1>0, <2>1, OrderLeftAlone DEF OrderInvariant
<1>8. CASE EndOfLine \/ WriteStep \/ Boot \/ Idle \/ AnswerBegin \/ AnswerEnd \/ UNCHANGED vars
  <2>1. UNCHANGED <<rx, host>> /\ reader' = reader /\ hist'.last = hist.last
    BY <1>8 DEF EndOfLine, WriteStep, WriteWait, WriteStore, WriteEnable, Boot, Idle, Aborts, AnswerBegin,
                WriteBegin, AnswerEnd, vars, TypeInvariant, HistType
  <2> QED
    BY <1>0, <2>1, OrderLeftAlone DEF OrderInvariant
<1> QED
  BY <1>1, <1>2, <1>3, <1>4, <1>5, <1>6, <1>7, <1>8 DEF Next, Host, Main

\* Whatever its size, whatever the host sends and wherever resets and jog cancels fall,
\* serial_read() included, the receive ring is the queue of the characters it accepted
\* but for the tails that jog cancels have overtaken, and no character is read twice or
\* before an older one (serial.cpp:132-205).
THEOREM ReceivesInOrder == Spec => RxKeepsOrder
<1> DEFINE Inv == TypeInvariant /\ ReaderInvariant /\ OrderInvariant
<1>1. Init => Inv
  <2> SUFFICES ASSUME Init PROVE Inv
    OBVIOUS
  <2>1. /\ reader.at = "out" /\ ~hist.overtaken /\ hist.last = 0
        /\ rx.buf = [i \in 0..RxRing-1 |-> None] /\ rx.head = rx.tail
    BY DEF Init, SerialInit
  <2>2. TypeInvariant
    BY TypeInit
  <2>3. host.sent = 0
    BY DEF Init
  <2>4. From(rx.tail) = {}
    BY <2>1, <2>2, FromMoves DEF TypeInvariant, SerialType
  <2> QED
    BY <2>1, <2>2, <2>3, <2>4 DEF ReaderInvariant, AtTail, OrderInvariant, Newer
<1>2. Inv /\ [Next]_vars => Inv'
  <2> SUFFICES ASSUME Inv, [Next]_vars PROVE Inv'
    OBVIOUS
  <2>1. TypeInvariant'
    BY SerialTypeStep, MainTypeStep, HostTypeStep, HistTypeStep, SysTypeStep DEF TypeInvariant
  <2> QED
    BY <2>1, ReaderStep, OrderStep
<1>3. Init => RxQueue!Init
  <2> SUFFICES ASSUME Init PROVE RxQueue!Init
    OBVIOUS
  <2>1. IsRing(rx, RxRing, RxChars \cup {None}) /\ Empty(rx) /\ reader.got = None
    BY TypeInit DEF TypeInvariant, SerialType, IsRing, Init, SerialInit, Empty
  <2> QED
    BY <2>1, RingsAssumption, ContentsProperties DEF RxQueue!Init
<1>4. Inv /\ Inv' /\ [Next]_vars
        => [RxQueue!Next \/ (hist.overtaken /\ ReadStore)]_<<Contents(rx, RxRing), reader.got>>
  BY RxStep
<1>5. Inv => (reader.at = "store" => reader.data > hist.last)
  BY HostsAssumption DEF OrderInvariant, TypeInvariant, SerialType, HostType
<1> QED
  BY <1>1, <1>2, <1>3, <1>4, <1>5, PTL DEF Spec, RxKeepsOrder

-----------------------------------------------------------------------------
(* The transmit ring is a queue.                                            *)

LEMMA AdvanceInjective ==
  ASSUME NEW i \in 0..TxRing-1, NEW j \in 0..TxRing-1, Advance(i, TxRing) = Advance(j, TxRing)
  PROVE  i = j
BY RingsAssumption DEF Advance

LEMMA AdvanceMoves ==
  ASSUME NEW i \in 0..TxRing-1
  PROVE  Advance(i, TxRing) # i
BY RingsAssumption DEF Advance

\* What a transmit interrupt does to the ring.
LEMMA TransmitTakes ==
  ASSUME TypeInvariant, Transmit
  PROVE  /\ tx.udrie /\ wire' = tx.buf[tx.tail]
         /\ tx'.buf = tx.buf /\ tx'.head = tx.head /\ tx'.tail = Advance(tx.tail, TxRing)
         /\ tx'.udrie <=> Advance(tx.tail, TxRing) # tx.head
         /\ UNCHANGED <<rx, reader, writer>>
BY DEF Transmit, TypeInvariant, SerialType

\* What the store of serial_write() does to the ring.
LEMMA WriteStores ==
  ASSUME TypeInvariant, WriteStore
  PROVE  /\ writer.at = "store" /\ writer'.at = "enable"
         /\ tx'.buf = [tx.buf EXCEPT ![tx.head] = writer.data]
         /\ tx'.head = Advance(tx.head, TxRing) /\ tx'.tail = tx.tail
         /\ tx'.udrie = tx.udrie
         /\ UNCHANGED <<rx, reader, wire>>
BY DEF WriteStore, Store, TypeInvariant, SerialType

\* serial_write() stores a character into a slot that is free: no interrupt in between
\* fills the ring.
LEMMA WriterStep ==
  ASSUME TypeInvariant, WriterInvariant, InterruptInvariant, [Next]_vars
  PROVE  WriterInvariant'
<1> USE DEF WriterInvariant
<1>0. /\ tx.head \in 0..TxRing-1 /\ tx.tail \in 0..TxRing-1
  BY DEF TypeInvariant, SerialType
<1>1. CASE TransmitISR
  <2>1. Transmit /\ writer' = writer
    BY <1>1 DEF TransmitISR, Transmit
  <2>2. ~Empty(tx)
    BY <2>1, TransmitTakes DEF InterruptInvariant
  <2>3. ~Full(tx', TxRing)
    BY <2>1, <2>2, <1>0, TransmitTakes, AdvanceInjective DEF Full, Empty
  <2> QED
    BY <2>1, <2>3
<1>2. CASE AnswerBegin
  <2>1. Head(main.answer) \in TxChars
    BY <1>2, HeadTailProperties DEF AnswerBegin, TypeInvariant, MainType
  <2> QED
    BY <1>2, <2>1 DEF AnswerBegin, WriteBegin, TypeInvariant, SerialType
<1>3. CASE WriteStep
  BY <1>3, WriteStores DEF WriteStep, WriteWait, WriteEnable, TypeInvariant, SerialType
<1>4. CASE Host \/ UNCHANGED vars
  BY <1>4 DEF Host, HostSend, HostReset, HostCancel, Receive, vars, Full
<1>5. CASE ReadStep \/ NothingToRead \/ ReadChar
  BY <1>5 DEF ReadStep, NothingToRead, ReadChar, ReadBegin, ReadNothing, ReadLoad, ReadStore, Full
<1>6. CASE Boot \/ Flush \/ EndOfLine \/ Idle \/ AnswerEnd
  BY <1>6 DEF Boot, Flush, EndOfLine, Idle, AnswerEnd, Full
<1> QED
  BY <1>1, <1>2, <1>3, <1>4, <1>5, <1>6 DEF Next, Main

\* The interrupt is enabled only over a ring with characters in it.
LEMMA InterruptStep ==
  ASSUME Burst <= 1, TypeInvariant, WriterInvariant, InterruptInvariant, [Next]_vars
  PROVE  InterruptInvariant'
<1> USE DEF InterruptInvariant, Empty
<1>0. /\ tx.head \in 0..TxRing-1 /\ tx.tail \in 0..TxRing-1 /\ hist.burst \in Nat /\ Burst \in Nat
  BY BoundsAssumption DEF TypeInvariant, SerialType, HistType
<1>1. CASE TransmitISR
  <2>1. Transmit /\ writer' = writer
    BY <1>1 DEF TransmitISR, Transmit
  <2>2. writer.at = "enable" => hist.burst = 0 /\ hist'.burst # 0
    BY <1>0, <1>1 DEF TransmitISR, TypeInvariant, HistType
  <2> QED
    BY <2>1, <2>2, TransmitTakes
<1>2. CASE WriteStep
  <2>1. CASE WriteStore
    <3>1. Advance(tx.head, TxRing) # tx.tail
      BY <2>1, WriteStores DEF WriterInvariant, Full
    <3>2. tx.head # tx.tail => Advance(tx.tail, TxRing) # Advance(tx.head, TxRing)
      BY <1>0, AdvanceInjective
    <3> QED
      BY <2>1, <3>1, <3>2, WriteStores
  <2>2. CASE WriteWait(sys.reset)
    <3>1. UNCHANGED tx /\ writer'.at # "enable"
      BY <2>2 DEF WriteWait, TypeInvariant, SerialType
    <3> QED
      BY <3>1
  <2>3. CASE WriteEnable
    BY <2>3 DEF WriteEnable, TypeInvariant, SerialType
  <2> QED
    BY <1>2, <2>1, <2>2, <2>3 DEF WriteStep
<1>3. CASE AnswerBegin
  <2>1. UNCHANGED tx /\ writer'.at # "enable"
    BY <1>3 DEF AnswerBegin, WriteBegin, TypeInvariant, SerialType
  <2> QED
    BY <2>1
<1>4. CASE Host \/ UNCHANGED vars
  <2>1. UNCHANGED <<tx, writer>> /\ hist'.burst = hist.burst
    BY <1>4 DEF Host, HostSend, HostReset, HostCancel, Receive, vars, TypeInvariant, HistType
  <2> QED
    BY <2>1
<1>5. CASE ReadStep \/ NothingToRead \/ ReadChar
  <2>1. UNCHANGED <<tx, writer>> /\ hist'.burst = hist.burst
    BY <1>5 DEF ReadStep, NothingToRead, ReadChar, ReadBegin, ReadNothing, ReadLoad, ReadStore,
                TypeInvariant, HistType
  <2> QED
    BY <2>1
<1>6. CASE Boot \/ Flush \/ EndOfLine \/ Idle \/ AnswerEnd
  <2>1. UNCHANGED <<tx, writer>> /\ hist'.burst = hist.burst
    BY <1>6 DEF Boot, Flush, EndOfLine, Idle, Aborts, AnswerEnd, TypeInvariant, HistType
  <2> QED
    BY <2>1
<1> QED
  BY <1>1, <1>2, <1>3, <1>4, <1>5, <1>6 DEF Next, Main

LEMMA TxStep ==
  ASSUME TypeInvariant, TypeInvariant', WriterInvariant, InterruptInvariant, [Next]_vars
  PROVE  [TxQueue!Next]_<<Contents(tx, TxRing), wire>>
<1> DEFINE S == TxChars \cup {None}
           q == Contents(tx, TxRing)
<1> SUFFICES \/ \E c \in TxChars : /\ Len(q) < TxRing - 1
                                   /\ Contents(tx', TxRing) = Append(q, c)
                                   /\ wire' = wire
             \/ q # <<>> /\ wire' = Head(q) /\ Contents(tx', TxRing) = Tail(q)
             \/ Contents(tx', TxRing) = q /\ wire' = wire
  BY DEF TxQueue!Next, TxQueue!Put, TxQueue!Get
<1>0. /\ TxRing \in Nat \ {0, 1}
      /\ IsRing(tx, TxRing, S) /\ IsRing(tx', TxRing, S)
  BY RingsAssumption DEF TypeInvariant, SerialType, IsRing
<1>1. CASE TransmitISR
  <2>1. Transmit
    BY <1>1 DEF TransmitISR
  <2>2. ~Empty(tx)
    BY <2>1, TransmitTakes DEF InterruptInvariant
  <2>3. /\ q # <<>> /\ Head(q) = tx.buf[tx.tail]
        /\ Contents(tx', TxRing) = Tail(q)
    BY <1>0, <2>1, <2>2, TransmitTakes, AdvanceTakes, ZenonT(40)
  <2> QED
    BY <2>1, <2>3, TransmitTakes
<1>2. CASE WriteStep
  <2>1. CASE WriteStore
    <3>1. /\ writer.data \in TxChars /\ ~Full(tx, TxRing)
          /\ Stored(tx, tx', TxRing, writer.data) /\ wire' = wire
      BY <2>1, WriteStores DEF Stored, WriterInvariant
    <3>2. Contents(tx', TxRing) = Append(q, writer.data)
      <4>1. writer.data \in S
        BY <3>1
      <4> HIDE DEF S
      <4> QED
        BY <1>0, <3>1, <4>1, StoreAppends, Zenon
    <3>3. Len(q) < TxRing - 1
      <4>1. /\ Len(q) = Used(tx, TxRing) /\ Used(tx, TxRing) \in 0..TxRing-1
            /\ Used(tx, TxRing) # TxRing - 1
        BY <1>0, <3>1, ContentsProperties
      <4> QED
        BY <1>0, <4>1
    <3> QED
      BY <3>1, <3>2, <3>3
  <2>2. CASE WriteWait(sys.reset)
    BY <2>2 DEF WriteWait
  <2>3. CASE WriteEnable
    <3>1. tx'.buf = tx.buf /\ tx'.head = tx.head /\ tx'.tail = tx.tail /\ wire' = wire
      BY <2>3 DEF WriteEnable, TypeInvariant, SerialType
    <3> QED
      BY <3>1 DEF Contents, Used, Slot
  <2> QED
    BY <1>2, <2>1, <2>2, <2>3 DEF WriteStep
<1>3. CASE Host \/ UNCHANGED vars
  BY <1>3 DEF Host, HostSend, HostReset, HostCancel, Receive, vars
<1>4. CASE ReadStep \/ NothingToRead \/ ReadChar
  BY <1>4 DEF ReadStep, NothingToRead, ReadChar, ReadBegin, ReadNothing, ReadLoad, ReadStore
<1>5. CASE Boot \/ Flush \/ EndOfLine \/ Idle \/ AnswerBegin \/ AnswerEnd
  BY <1>5 DEF Boot, Flush, EndOfLine, Idle, AnswerBegin, WriteBegin, AnswerEnd
<1> QED
  BY <1>1, <1>2, <1>3, <1>4, <1>5 DEF Next, Main

\* Whatever its size, the transmit ring delivers in order and once what serial_write()
\* stored, although its interrupt never asks whether the ring is empty (serial.cpp:87-129)
\* - if at most one interrupt falls between the store and the instruction that enables it.
THEOREM TransmitsInOrder == Burst <= 1 => (Spec => TxIsQueue)
<1> SUFFICES ASSUME Burst <= 1 PROVE Spec => TxIsQueue
  OBVIOUS
<1> DEFINE Inv == TypeInvariant /\ WriterInvariant /\ InterruptInvariant
<1>1. Init => Inv
  <2>1. Init => writer.at = "out" /\ tx.udrie = FALSE
    BY DEF Init, SerialInit
  <2> QED
    BY <2>1, TypeInit DEF WriterInvariant, InterruptInvariant
<1>2. Inv /\ [Next]_vars => Inv'
  BY WriterStep, InterruptStep, SerialTypeStep, MainTypeStep, HostTypeStep, HistTypeStep, SysTypeStep
  DEF TypeInvariant
<1>3. Init => TxQueue!Init
  <2> SUFFICES ASSUME Init PROVE TxQueue!Init
    OBVIOUS
  <2>1. IsRing(tx, TxRing, TxChars \cup {None}) /\ Empty(tx) /\ wire = None
    BY TypeInit DEF TypeInvariant, SerialType, IsRing, Init, SerialInit, Empty
  <2> QED
    BY <2>1, RingsAssumption, ContentsProperties DEF TxQueue!Init
<1>4. Inv /\ Inv' /\ [Next]_vars => [TxQueue!Next]_<<Contents(tx, TxRing), wire>>
  BY TxStep
<1> QED
  BY <1>1, <1>2, <1>3, <1>4, PTL DEF Spec, TxIsQueue, TxQueue!Spec

-----------------------------------------------------------------------------
(* The text of a line.                                                      *)

\* The line next is the line raw, of n characters, and one more character.
Longer(raw, next, n) ==
  /\ DOMAIN raw = 1..n /\ DOMAIN next = 1..n + 1
  /\ \A i \in 1..n : next[i] = raw[i]

\* What a character means to those before the end of a line does not change.
LEMMA OpenedStays ==
  ASSUME NEW n \in Nat, NEW raw, NEW next, Longer(raw, next, n), NEW j \in 1..n, NEW i \in 1..n + 1
  PROVE  Opened(next, j, i) <=> Opened(raw, j, i)
<1>1. \A k \in j..i - 1 : k \in 1..n
  OBVIOUS
<1> QED
  BY <1>1 DEF Longer, Opened

LEMMA EndedStays ==
  ASSUME NEW n \in Nat, NEW raw, NEW next, Longer(raw, next, n), NEW j \in 1..n, NEW i \in 1..n + 1
  PROVE  Ended(next, j, i) <=> Ended(raw, j, i)
<1>1. \A k \in 1..j - 1 : Opened(next, k, j) <=> Opened(raw, k, j)
  <2> SUFFICES ASSUME NEW k \in 1..j - 1 PROVE Opened(next, k, j) <=> Opened(raw, k, j)
    OBVIOUS
  <2>1. k \in 1..n /\ j \in 1..n + 1
    OBVIOUS
  <2> QED
    BY <2>1, OpenedStays
<1> QED
  BY <1>1 DEF Longer, Ended

\* Open and Closed say what holds for the character that comes next.
LEMMA OpenIsOpened ==
  ASSUME NEW n \in Nat, NEW raw, DOMAIN raw = 1..n
  PROVE  Open(raw) <=> \E j \in 1..n : Opened(raw, j, n + 1)
BY DEF Open, Opened

LEMMA ClosedIsEnded ==
  ASSUME NEW n \in Nat, NEW raw, DOMAIN raw = 1..n
  PROVE  Closed(raw) <=> \E j \in 1..n : Ended(raw, j, n + 1)
BY DEF Closed, Ended

\* One more character opens, closes, ends or is text.
LEMMA OpenGrows ==
  ASSUME NEW n \in Nat, NEW raw, NEW next, Longer(raw, next, n)
  PROVE  Open(next) <=> (next[n + 1] = "(" \/ Open(raw)) /\ next[n + 1] # ")"
<1>1. ASSUME Open(next) PROVE (next[n + 1] = "(" \/ Open(raw)) /\ next[n + 1] # ")"
  <2>1. PICK j \in 1..n + 1 : next[j] = "(" /\ \A k \in 1..n + 1 : k >= j => next[k] # ")"
    BY <1>1 DEF Open, Longer
  <2>2. next[n + 1] # ")"
    BY <2>1
  <2>3. CASE j = n + 1
    BY <2>1, <2>2, <2>3
  <2>4. CASE j \in 1..n
    <3>1. raw[j] = "(" /\ \A k \in 1..n : k >= j => raw[k] # ")"
      BY <2>1, <2>4 DEF Longer
    <3> QED
      BY <2>2, <2>4, <3>1 DEF Open, Longer
  <2> QED
    BY <2>3, <2>4
<1>2. ASSUME next[n + 1] = "(" PROVE Open(next)
  BY <1>2 DEF Open, Longer
<1>3. ASSUME Open(raw), next[n + 1] # ")" PROVE Open(next)
  <2>1. PICK j \in 1..n : raw[j] = "(" /\ \A k \in 1..n : k >= j => raw[k] # ")"
    BY <1>3 DEF Open, Longer
  <2>2. next[j] = "(" /\ \A k \in 1..n + 1 : k >= j => next[k] # ")"
    BY <1>3, <2>1 DEF Longer
  <2> QED
    BY <2>2 DEF Open, Longer
<1> QED
  BY <1>1, <1>2, <1>3

LEMMA ClosedGrows ==
  ASSUME NEW n \in Nat, NEW raw, NEW next, Longer(raw, next, n)
  PROVE  Closed(next) <=> Closed(raw) \/ (next[n + 1] = Semicolon /\ ~Open(raw))
<1>0. DOMAIN raw = 1..n /\ DOMAIN next = 1..n + 1
  BY DEF Longer
<1>1. \A j \in 1..n : \A k \in 1..j - 1 : Opened(next, k, j) <=> Opened(raw, k, j)
  <2> SUFFICES ASSUME NEW j \in 1..n, NEW k \in 1..j - 1
               PROVE  Opened(next, k, j) <=> Opened(raw, k, j)
    OBVIOUS
  <2>1. k \in 1..n /\ j \in 1..n + 1
    OBVIOUS
  <2> QED
    BY <2>1, OpenedStays
<1>2. \A j \in 1..n : next[j] = raw[j]
  BY DEF Longer
<1>3. (\A k \in 1..n : ~Opened(next, k, n + 1)) <=> ~Open(raw)
  <2>1. \A k \in 1..n : Opened(next, k, n + 1) <=> Opened(raw, k, n + 1)
    BY OpenedStays
  <2> QED
    BY <1>0, <2>1, OpenIsOpened
<1>4. Closed(next) <=>
        \/ \E j \in 1..n : next[j] = Semicolon /\ \A k \in 1..j - 1 : ~Opened(next, k, j)
        \/ next[n + 1] = Semicolon /\ \A k \in 1..n : ~Opened(next, k, n + 1)
  <2>1. (n + 1) - 1 = n /\ \A j : j \in 1..n + 1 <=> j \in 1..n \/ j = n + 1
    OBVIOUS
  <2>2. Closed(next) <=>
          \E j \in 1..n + 1 : next[j] = Semicolon /\ \A k \in 1..j - 1 : ~Opened(next, k, j)
    BY <1>0 DEF Closed
  <2> QED
    BY <2>1, <2>2, Zenon
<1>5. Closed(raw) <=> \E j \in 1..n : next[j] = Semicolon /\ \A k \in 1..j - 1 : ~Opened(next, k, j)
  <2>1. Closed(raw) <=> \E j \in 1..n : raw[j] = Semicolon /\ \A k \in 1..j - 1 : ~Opened(raw, k, j)
    BY <1>0 DEF Closed
  <2> QED
    BY <1>1, <1>2, <2>1, Zenon
<1> QED
  BY <1>3, <1>4, <1>5

NotText == Skipped \cup {"(", Semicolon, "eol"}

LEMMA KeptGrows ==
  ASSUME NEW n \in Nat, NEW raw, NEW next, Longer(raw, next, n)
  PROVE  Kept(next) = Kept(raw) \cup
           (IF next[n + 1] \notin NotText /\ ~Open(raw) /\ ~Closed(raw) THEN {n + 1} ELSE {})
<1>0. /\ DOMAIN raw = 1..n /\ DOMAIN next = 1..n + 1 /\ \A i \in 1..n : next[i] = raw[i]
      /\ \A j : j \in 1..n + 1 <=> j \in 1..n \/ j = n + 1
  BY DEF Longer
<1>1. \A i \in 1..n + 1 : ~Opened(next, n + 1, i) /\ ~Ended(next, n + 1, i)
  BY DEF Opened, Ended
<1>2. \A i \in 1..n + 1, j \in 1..n :
        (Opened(next, j, i) <=> Opened(raw, j, i)) /\ (Ended(next, j, i) <=> Ended(raw, j, i))
  BY OpenedStays, EndedStays
<1>3. \A i \in 1..n + 1 :
        (\A j \in DOMAIN next : ~Opened(next, j, i) /\ ~Ended(next, j, i))
          <=> (\A j \in DOMAIN raw : ~Opened(raw, j, i) /\ ~Ended(raw, j, i))
  BY <1>0, <1>1, <1>2, Zenon
<1>4. \A i \in 1..n : i \in Kept(next) <=> i \in Kept(raw)
  <2> SUFFICES ASSUME NEW i \in 1..n PROVE i \in Kept(next) <=> i \in Kept(raw)
    OBVIOUS
  <2>1. i \in 1..n + 1
    BY <1>0
  <2> QED
    BY <1>0, <1>3, <2>1 DEF Kept, NotText
<1>5. n + 1 \in Kept(next) <=> next[n + 1] \notin NotText /\ ~Open(raw) /\ ~Closed(raw)
  <2>1. n + 1 \in 1..n + 1
    OBVIOUS
  <2>2. (\A j \in DOMAIN raw : ~Opened(raw, j, n + 1) /\ ~Ended(raw, j, n + 1))
          <=> ~Open(raw) /\ ~Closed(raw)
    BY <1>0, OpenIsOpened, ClosedIsEnded
  <2>3. n + 1 \in Kept(next) <=>
          /\ next[n + 1] \notin NotText
          /\ \A j \in DOMAIN next : ~Opened(next, j, n + 1) /\ ~Ended(next, j, n + 1)
    BY <1>0, <2>1 DEF Kept, NotText
  <2> QED
    BY <1>3, <2>1, <2>2, <2>3
<1>6. Kept(raw) \subseteq 1..n /\ Kept(next) \subseteq 1..n + 1
  BY <1>0 DEF Kept
<1> QED
  BY <1>0, <1>4, <1>5, <1>6

\* The characters of a line and their places.
LEMMA KeptPlaces ==
  ASSUME NEW n \in Nat, NEW raw, DOMAIN raw = 1..n
  PROVE  /\ Kept(raw) \subseteq 1..n
         /\ IsFiniteSet(Kept(raw)) /\ Cardinality(Kept(raw)) \in Nat
         /\ \A i \in Kept(raw) : Place(raw, i) \in 1..Cardinality(Kept(raw))
<1>1. Kept(raw) \subseteq 1..n /\ IsFiniteSet(1..n)
  BY FS_Interval DEF Kept
<1>2. IsFiniteSet(Kept(raw)) /\ Cardinality(Kept(raw)) \in Nat
  BY <1>1, FS_Subset, FS_CardinalityType
<1>3. ASSUME NEW i \in Kept(raw) PROVE Place(raw, i) \in 1..Cardinality(Kept(raw))
  <2> DEFINE before == {j \in Kept(raw) : j <= i}
  <2>1. i \in before /\ before \subseteq Kept(raw)
    BY <1>1
  <2>2. IsFiniteSet(before) /\ Cardinality(before) <= Cardinality(Kept(raw))
    BY <1>2, <2>1, FS_Subset
  <2>3. Cardinality(before) \in Nat /\ Cardinality(before) # 0
    BY <2>1, <2>2, FS_CardinalityType, FS_EmptySet
  <2>4. Place(raw, i) = Cardinality(before)
    BY DEF Place
  <2> HIDE DEF before
  <2> QED
    BY <1>2, <2>2, <2>3, <2>4
<1> QED
  BY <1>1, <1>2, <1>3

\* One more character keeps the places of those before it and takes the next place.
LEMMA PlacesGrow ==
  ASSUME NEW n \in Nat, NEW raw, NEW next, Longer(raw, next, n)
  PROVE  /\ \A i \in Kept(raw) :
              i \in Kept(next) /\ Place(next, i) = Place(raw, i) /\ next[i] = raw[i]
         /\ Kept(next) \subseteq Kept(raw) \cup {n + 1}
         /\ n + 1 \in Kept(next) => /\ Cardinality(Kept(next)) = Cardinality(Kept(raw)) + 1
                                    /\ Place(next, n + 1) = Cardinality(Kept(raw)) + 1
         /\ n + 1 \notin Kept(next) => Kept(next) = Kept(raw)
<1>0. DOMAIN raw = 1..n
  BY DEF Longer
<1>1. Kept(raw) \subseteq 1..n /\ (Kept(next) = Kept(raw) \/ Kept(next) = Kept(raw) \cup {n + 1})
  BY <1>0, KeptGrows DEF Kept
<1>2. \A i \in Kept(raw) : {j \in Kept(next) : j <= i} = {j \in Kept(raw) : j <= i}
  BY <1>1
<1>3. \A i \in Kept(raw) : i \in Kept(next) /\ Place(next, i) = Place(raw, i) /\ next[i] = raw[i]
  BY <1>1, <1>2 DEF Place, Longer
<1>4. ASSUME n + 1 \in Kept(next)
      PROVE  /\ Cardinality(Kept(next)) = Cardinality(Kept(raw)) + 1
             /\ Place(next, n + 1) = Cardinality(Kept(raw)) + 1
  <2>1. n + 1 \notin Kept(raw) /\ Kept(next) = Kept(raw) \cup {n + 1}
    BY <1>1, <1>4
  <2>2. IsFiniteSet(Kept(raw)) /\ Cardinality(Kept(raw)) \in Nat
    BY <1>0, KeptPlaces
  <2>3. Cardinality(Kept(next)) = Cardinality(Kept(raw)) + 1
    BY <2>1, <2>2, FS_AddElement
  <2>4. {j \in Kept(next) : j <= n + 1} = Kept(next)
    BY <1>1, <2>1
  <2> QED
    BY <2>3, <2>4 DEF Place
<1> QED
  BY <1>1, <1>3, <1>4

\* What the line reader has made of the characters raw.
Reads(raw, l) ==
  /\ Flagged(raw, l)
  /\ "OVERFLOW" \in l.flags <=> Cardinality(Kept(raw)) >= LineSize
  /\ Len(l.text) = IF Cardinality(Kept(raw)) < LineSize THEN Cardinality(Kept(raw)) ELSE LineSize - 1
  /\ \A i \in Kept(raw) : Place(raw, i) < LineSize => l.text[Place(raw, i)] = Upper(raw[i])

LEMMA TextGrows ==
  ASSUME NEW s, NEW x, Len(s) \in Nat, s = [i \in 1..Len(s) |-> s[i]]
  PROVE  LET t == Append(s, x)
         IN /\ Len(t) = Len(s) + 1 /\ t = [i \in 1..Len(t) |-> t[i]]
            /\ \A i \in 1..Len(s) : t[i] = s[i]
            /\ t[Len(s) + 1] = x
<1> DEFINE S == {s[i] : i \in 1..Len(s)} \cup {x}
           t == Append(s, x)
<1>1. \E m \in Nat : s \in [1..m -> S]
  BY Zenon
<1>2. s \in Seq(S) /\ x \in S
  BY <1>1, SeqDef
<1> HIDE DEF S
<1>3. t \in Seq(S) /\ Len(t) = Len(s) + 1 /\ (\A i \in 1..Len(s) : t[i] = s[i]) /\ t[Len(s) + 1] = x
  BY <1>2, AppendProperties
<1>4. t = [i \in 1..Len(t) |-> t[i]]
  BY <1>3, LenProperties
<1> QED
  BY <1>3, <1>4

LEMMA Characters ==
  /\ Semicolon # "(" /\ Semicolon # ")" /\ Semicolon # "eol"
  /\ "(" \notin Skipped /\ ")" \notin Skipped /\ Semicolon \notin Skipped
BY Zenon DEF Skipped, Blank, Semicolon

\* A character that is not text, or inside a comment, or too much.
LEMMA NothingAdded ==
  ASSUME NEW n \in Nat, NEW raw, NEW next, Longer(raw, next, n), NEW l, NEW m, Reads(raw, l),
         n + 1 \notin Kept(next), m.text = l.text, Flagged(next, m),
         "OVERFLOW" \in m.flags <=> "OVERFLOW" \in l.flags
  PROVE  Reads(next, m)
<1>1. Kept(next) = Kept(raw) /\ \A i \in Kept(raw) : Place(next, i) = Place(raw, i) /\ next[i] = raw[i]
  BY PlacesGrow
<1> QED
  BY <1>1 DEF Reads

LEMMA TooLong ==
  ASSUME NEW n \in Nat, NEW raw, NEW next, Longer(raw, next, n), NEW l, NEW m, Reads(raw, l),
         Cardinality(Kept(raw)) >= LineSize - 1, n + 1 \in Kept(next) \/ "OVERFLOW" \in l.flags,
         m.text = l.text, "OVERFLOW" \in m.flags
  PROVE  Reads(next, m)
<1>0. LineSize \in Nat /\ LineSize > 0 /\ Cardinality(Kept(raw)) \in Nat
  BY LineSizeAssumption, KeptPlaces DEF Longer
<1>1. Cardinality(Kept(next)) >= LineSize
  BY <1>0, PlacesGrow DEF Reads
<1>2. Len(m.text) = LineSize - 1
  BY <1>0 DEF Reads
<1>3. ASSUME NEW i \in Kept(next), Place(next, i) < LineSize
      PROVE  m.text[Place(next, i)] = Upper(next[i])
  <2>1. CASE i \in Kept(raw)
    BY <1>3, <2>1, PlacesGrow DEF Reads
  <2>2. CASE i = n + 1 /\ i \notin Kept(raw)
    <3>1. n + 1 \in Kept(next) /\ Place(next, n + 1) < LineSize
      BY <1>3, <2>2
    <3>2. Place(next, n + 1) = Cardinality(Kept(raw)) + 1
      BY <3>1, PlacesGrow
    <3> QED
      BY <1>0, <2>2, <3>1, <3>2
  <2> QED
    BY <2>1, <2>2, PlacesGrow
<1>4. Flagged(next, m)
  BY DEF Flagged
<1>5. Cardinality(Kept(next)) \in Nat
  BY KeptPlaces DEF Longer
<1> QED
  BY <1>0, <1>1, <1>2, <1>3, <1>4, <1>5 DEF Reads

LEMMA TextAdded ==
  ASSUME NEW n \in Nat, NEW raw, NEW next, Longer(raw, next, n), NEW l, NEW m, Reads(raw, l),
         IsLine(l), Cardinality(Kept(raw)) < LineSize - 1, n + 1 \in Kept(next),
         m.text = Append(l.text, Upper(next[n + 1])), m.flags = l.flags, Flagged(next, m)
  PROVE  Reads(next, m)
<1> DEFINE c == Cardinality(Kept(raw))
<1>0. LineSize \in Nat /\ LineSize > 0 /\ c \in Nat
  BY LineSizeAssumption, KeptPlaces DEF Longer
<1>1. Cardinality(Kept(next)) = c + 1 /\ Place(next, n + 1) = c + 1
  BY PlacesGrow
<1>2. Len(l.text) = c
  BY <1>0 DEF Reads
<1>3. /\ Len(m.text) = c + 1 /\ m.text[c + 1] = Upper(next[n + 1])
      /\ \A i \in 1..c : m.text[i] = l.text[i]
  BY <1>2, TextGrows DEF IsLine
<1>4. ASSUME NEW i \in Kept(next)
      PROVE  m.text[Place(next, i)] = Upper(next[i])
  <2>1. CASE i \in Kept(raw)
    <3>1. next[i] = raw[i] /\ Place(next, i) = Place(raw, i)
      BY <2>1, PlacesGrow
    <3>2. Place(raw, i) \in 1..c
      BY <2>1, KeptPlaces DEF Longer
    <3>3. l.text[Place(raw, i)] = Upper(raw[i])
      BY <1>0, <2>1, <3>2 DEF Reads
    <3> QED
      BY <1>3, <3>1, <3>2, <3>3
  <2>2. CASE i = n + 1
    BY <1>1, <1>3, <2>2
  <2>3. i \in Kept(raw) \cup {n + 1}
    BY PlacesGrow
  <2> QED
    BY <2>1, <2>2, <2>3
<1>5. "OVERFLOW" \in m.flags <=> Cardinality(Kept(next)) >= LineSize
  BY <1>0, <1>1 DEF Reads
<1>6. Len(m.text) =
        IF Cardinality(Kept(next)) < LineSize THEN Cardinality(Kept(next)) ELSE LineSize - 1
  BY <1>0, <1>1, <1>3
<1> QED
  BY <1>4, <1>5, <1>6, Zenon DEF Reads

\* One character more, as protocol_main_loop() takes it.
LEMMA AddCharReads ==
  ASSUME NEW n \in Nat, NEW raw, NEW next, Longer(raw, next, n), NEW l, IsLine(l), Reads(raw, l),
         next[n + 1] # "eol"
  PROVE  IsLine(AddChar(l, next[n + 1])) /\ Reads(next, AddChar(l, next[n + 1]))
<1> DEFINE c == next[n + 1]
           m == AddChar(l, c)
           length == Cardinality(Kept(raw))
<1> SUFFICES IsLine(m) /\ Reads(next, m)
  OBVIOUS
<1>0. /\ LineSize \in Nat /\ LineSize > 0 /\ length \in Nat
      /\ DOMAIN raw = 1..n /\ n + 1 \notin Kept(raw)
  BY LineSizeAssumption, KeptPlaces DEF Longer
<1>1. /\ Open(next) <=> (c = "(" \/ Open(raw)) /\ c # ")"
      /\ Closed(next) <=> Closed(raw) \/ (c = Semicolon /\ ~Open(raw))
      /\ n + 1 \in Kept(next) <=> c \notin NotText /\ ~Open(raw) /\ ~Closed(raw)
  BY <1>0, OpenGrows, ClosedGrows, KeptGrows
<1>2. /\ l.flags \subseteq LineFlags /\ l = [text |-> l.text, flags |-> l.flags]
      /\ Len(l.text) \in Nat /\ l.text = [i \in 1..Len(l.text) |-> l.text[i]]
  BY DEF IsLine
<1>3. \A f : f \in l.flags => f \in {"OVERFLOW", "PARENTHESES", "SEMICOLON"}
  BY <1>2 DEF LineFlags
<1>4. CASE l.flags # {} /\ "OVERFLOW" \in l.flags
  <2>1. m.text = l.text /\ "OVERFLOW" \in m.flags /\ m = [text |-> m.text, flags |-> m.flags]
        /\ m.flags \subseteq l.flags
    BY <1>2, <1>4 DEF AddChar, CommentEnd
  <2>2. length >= LineSize - 1
    BY <1>0, <1>4 DEF Reads
  <2> HIDE DEF m
  <2> QED
    BY <1>2, <1>4, <2>1, <2>2, TooLong DEF IsLine
<1>5. CASE l.flags # {} /\ "OVERFLOW" \notin l.flags
  <2>1. /\ m.text = l.text /\ m = [text |-> m.text, flags |-> m.flags]
        /\ m.flags = IF c = ")" THEN l.flags \ {"PARENTHESES"} ELSE l.flags
    BY <1>2, <1>5 DEF AddChar, CommentEnd
  <2>2. /\ "SEMICOLON" \in l.flags <=> Closed(raw)
        /\ ~Closed(raw) => ("PARENTHESES" \in l.flags <=> Open(raw))
    BY <1>5 DEF Reads, Flagged
  <2>3. Open(raw) \/ Closed(raw)
    BY <1>3, <1>5, <2>2
  <2>4. n + 1 \notin Kept(next)
    BY <1>1, <2>3
  <2> HIDE DEF m
  <2>5. Flagged(next, m)
    BY <1>1, <1>5, <2>1, <2>2, <2>3, Characters DEF Flagged
  <2>6. "OVERFLOW" \in m.flags <=> "OVERFLOW" \in l.flags
    BY <2>1
  <2>7. Reads(next, m)
    BY <2>1, <2>4, <2>5, <2>6, NothingAdded
  <2> QED
    BY <1>2, <2>1, <2>7 DEF IsLine
<1>6. CASE l.flags = {}
  <2>1. ~Open(raw) /\ ~Closed(raw)
    BY <1>6 DEF Reads, Flagged
  <2>2. CASE c \in Skipped \/ c = "(" \/ c = Semicolon
    <3>1. /\ m.text = l.text /\ m = [text |-> m.text, flags |-> m.flags]
          /\ m.flags = CASE c \in Skipped -> {} [] c = "(" -> {"PARENTHESES"}
                         [] OTHER -> {"SEMICOLON"}
      BY <1>2, <1>6, <2>2, Characters DEF AddChar, AddFlag
    <3>2. n + 1 \notin Kept(next)
      BY <1>1, <2>2 DEF NotText
    <3> HIDE DEF m
    <3>3. Flagged(next, m)
      BY <1>1, <2>1, <2>2, <3>1, Characters DEF Flagged
    <3>4. "OVERFLOW" \in m.flags <=> "OVERFLOW" \in l.flags
      BY <1>6, <2>2, <3>1, Characters
    <3>5. Reads(next, m)
      BY <3>1, <3>2, <3>3, <3>4, NothingAdded
    <3>6. m.flags \subseteq LineFlags
      BY <2>2, <3>1 DEF LineFlags
    <3> QED
      BY <1>2, <3>1, <3>5, <3>6 DEF IsLine
  <2>3. CASE c \notin Skipped /\ c # "(" /\ c # Semicolon
    <3>1. n + 1 \in Kept(next)
      BY <1>1, <2>1, <2>3 DEF NotText
    <3>2. length < LineSize /\ Len(l.text) = length
      BY <1>0, <1>6 DEF Reads
    <3>3. CASE length >= LineSize - 1
      <4>1. m = [text |-> l.text, flags |-> {"OVERFLOW"}]
        BY <1>2, <1>6, <2>3, <3>2, <3>3 DEF AddChar, AddFlag
      <4> HIDE DEF m
      <4>2. Reads(next, m)
        BY <3>1, <3>3, <4>1, TooLong
      <4> QED
        BY <1>2, <4>1, <4>2 DEF IsLine, LineFlags
    <3>4. CASE length < LineSize - 1
      <4>0. ~(Len(l.text) >= LineSize - 1)
        BY <1>0, <3>2, <3>4
      <4>1. m = [text |-> Append(l.text, Upper(c)), flags |-> {}]
        BY <1>2, <1>6, <2>3, <4>0 DEF AddChar
      <4> HIDE DEF m
      <4>2. Flagged(next, m)
        BY <1>1, <2>1, <2>3, <4>1 DEF Flagged
      <4>3. Reads(next, m)
        BY <1>6, <3>1, <3>4, <4>1, <4>2, TextAdded
      <4>4. IsLine(m)
        BY <1>2, <4>1, TextGrows DEF IsLine
      <4> QED
        BY <4>3, <4>4
    <3> QED
      BY <1>0, <3>3, <3>4
  <2> QED
    BY <2>2, <2>3
<1> QED
  BY <1>4, <1>5, <1>6

\* An end of line is not text.
LEMMA EndReads ==
  ASSUME NEW n \in Nat, NEW raw, NEW next, Longer(raw, next, n), NEW l, Reads(raw, l),
         next[n + 1] = "eol"
  PROVE  Reads(next, l)
<1>1. n + 1 \notin Kept(next)
  <2>1. n + 1 \notin Kept(raw) /\ next[n + 1] \in NotText
    BY KeptPlaces DEF Longer, NotText
  <2> QED
    BY <2>1, KeptGrows
<1>2. Flagged(next, l)
  <2>1. next[n + 1] # "(" /\ next[n + 1] # ")" /\ next[n + 1] # Semicolon
    BY Characters
  <2> QED
    BY <2>1, OpenGrows, ClosedGrows DEF Reads, Flagged
<1> QED
  BY <1>1, <1>2, NothingAdded

LEMMA NothingReads ==
  ASSUME NEW raw, DOMAIN raw = 1..0
  PROVE  Reads(raw, NoLine)
<1>1. Kept(raw) = {} /\ ~Open(raw) /\ ~Closed(raw)
  BY DEF Kept, Open, Closed
<1>2. Cardinality(Kept(raw)) = 0
  BY <1>1, FS_EmptySet
<1>3. NoLine.flags = {} /\ Len(NoLine.text) = 0
  BY DEF NoLine
<1> QED
  BY <1>1, <1>2, <1>3, LineSizeAssumption DEF Reads, Flagged

LEMMA LineInvariantReads == LineInvariant <=> LineType /\ Reads(RawText, line)
BY DEF LineInvariant, LineIsCleaned, Reads

\* A line that was started afresh, and one that was left alone.
LEMMA LineAfresh ==
  ASSUME hist'.raw = <<>>, line' = NoLine
  PROVE  LineInvariant'
<1>1. DOMAIN RawText' = 1..0
  BY DEF RawText
<1>2. Reads(RawText', line')
  BY <1>1, NothingReads
<1>3. LineType'
  BY DEF LineType, IsLine, NoLine
<1>4. LineType' /\ Reads(RawText', line') => LineInvariant'
  BY DEF LineInvariant, LineIsCleaned, Reads
<1> QED
  BY <1>2, <1>3, <1>4

LEMMA LineLeftAlone ==
  ASSUME LineInvariant, hist'.raw = hist.raw, host'.text = host.text, line' = line
  PROVE  LineInvariant'
<1>1. RawText' = RawText
  BY DEF RawText
<1> QED
  BY <1>1 DEF LineInvariant, LineType, LineIsCleaned

\* serial_read() returned a character.
LEMMA LineReadsChar ==
  ASSUME TypeInvariant, LineInvariant, ReadChar
  PROVE  LineInvariant'
<1> DEFINE d == reader.data
           n == Len(hist.raw)
<1>1. /\ hist'.raw = Append(hist.raw, d) /\ host' = host
      /\ host.text[d] = "eol" => line' = line
      /\ host.text[d] # "eol" => line' = AddChar(line, host.text[d])
  BY DEF ReadChar, TypeInvariant, HistType
<1>2. hist.raw \in Seq(RxChars \cup {None}) /\ d \in RxChars \cup {None} /\ n \in Nat
  BY DEF LineInvariant, LineType, TypeInvariant, SerialType
<1>3. /\ hist'.raw \in Seq(RxChars \cup {None}) /\ Len(hist'.raw) = n + 1
      /\ \A i \in 1..n : hist'.raw[i] = hist.raw[i]
      /\ hist'.raw[n + 1] = d
  BY <1>1, <1>2, AppendProperties
<1>4. Longer(RawText, RawText', n) /\ RawText'[n + 1] = host.text[d]
  BY <1>1, <1>2, <1>3 DEF Longer, RawText
<1>5. IsLine(line) /\ Reads(RawText, line)
  BY LineInvariantReads DEF LineType
<1>6. IsLine(line') /\ Reads(RawText', line')
  BY <1>1, <1>2, <1>4, <1>5, EndReads, AddCharReads
<1>7. LineType'
  BY <1>3, <1>6 DEF LineType
<1>8. LineType' /\ Reads(RawText', line') => LineInvariant'
  BY DEF LineInvariant, LineIsCleaned, Reads
<1> QED
  BY <1>6, <1>7, <1>8

\* What the host's actions do to it.
LEMMA HostSends ==
  ASSUME TypeInvariant, HostSend
  PROVE  /\ host'.text = host.text /\ host'.counts = host.counts
         /\ host'.greeted = host.greeted /\ host'.acked = host.acked
         /\ host'.sent = host.sent + 1
         /\ UNCHANGED <<tx, reader, writer, wire, line, main, sys, hist>>
BY DEF HostSend, Receive, TypeInvariant, HostType

LEMMA HostResets ==
  ASSUME TypeInvariant, HostReset
  PROVE  /\ host'.text = host.text /\ host'.counts = host.counts
         /\ host.greeted /\ ~host'.greeted
         /\ host'.sent \in LineStarts(host.text)
         /\ UNCHANGED <<rx, tx, reader, writer, wire, line, main, hist>>
<1>1. PICK next \in NextLine(host.text, host.sent) :
        host' = [host EXCEPT !.greeted = FALSE, !.resets = @ - 1, !.sent = next, !.acked = next]
  BY Zenon DEF HostReset
<1>2. next \in LineStarts(host.text)
  BY DEF NextLine
<1>3. host' = [host EXCEPT !.greeted = FALSE, !.resets = host.resets - 1, !.sent = next, !.acked = next]
  BY <1>1
<1>4. /\ host'.text = host.text /\ host'.counts = host.counts
      /\ ~host'.greeted /\ host'.sent = next
  BY <1>3 DEF TypeInvariant, HostType
<1> QED
  BY <1>2, <1>4 DEF HostReset

LEMMA HostCancels ==
  ASSUME TypeInvariant, HostCancel
  PROVE  /\ host'.text = host.text /\ host'.counts = host.counts
         /\ host'.greeted = host.greeted /\ host'.sent = host.sent
         /\ host.greeted /\ hist'.raw = hist.raw /\ hist'.cancelled
         /\ UNCHANGED <<tx, reader, writer, wire, line, main, sys>>
BY DEF HostCancel, TypeInvariant, HostType, HistType

LEMMA LineStep ==
  ASSUME TypeInvariant, LineInvariant, [Next]_vars
  PROVE  LineInvariant'
<1>1. CASE Host
  <2>1. hist'.raw = hist.raw /\ host'.text = host.text /\ line' = line
    BY <1>1, HostSends, HostResets, HostCancels DEF Host
  <2> QED
    BY <2>1, LineLeftAlone
<1>2. CASE TransmitISR
  <2>1. hist'.raw = hist.raw /\ host'.text = host.text /\ line' = line
    BY <1>2 DEF TransmitISR, TypeInvariant, HostType, HistType
  <2> QED
    BY <2>1, LineLeftAlone
<1>3. CASE ReadChar
  BY <1>3, LineReadsChar
<1>4. CASE Flush
  BY <1>4, LineAfresh DEF Flush, TypeInvariant, HistType
<1>5. CASE EndOfLine
  <2>1. CASE Aborts
    BY <1>5, <2>1, LineLeftAlone DEF EndOfLine, Aborts
  <2>2. CASE ~Aborts
    <3>1. hist' = [hist EXCEPT !.raw = <<>>] /\ line' = NoLine
      BY <1>5, <2>2 DEF EndOfLine
    <3>2. hist'.raw = <<>>
      BY <3>1 DEF TypeInvariant, HistType
    <3> QED
      BY <3>1, <3>2, LineAfresh
  <2> QED
    BY <2>1, <2>2
<1>6. CASE Boot \/ ReadStep \/ NothingToRead \/ Idle \/ AnswerBegin \/ WriteStep \/ AnswerEnd
  <2>1. hist'.raw = hist.raw /\ host'.text = host.text /\ line' = line
    BY <1>6 DEF Boot, ReadStep, NothingToRead, Idle, Aborts, AnswerBegin, WriteStep, AnswerEnd, TypeInvariant,
              HostType, HistType
  <2> QED
    BY <2>1, LineLeftAlone
<1>7. CASE UNCHANGED vars
  BY <1>7, LineLeftAlone DEF vars
<1> QED
  BY <1>1, <1>2, <1>3, <1>4, <1>5, <1>6, <1>7 DEF Next, Main

LEMMA LineInit == Init => LineInvariant
<1> SUFFICES ASSUME Init PROVE LineInvariant
  OBVIOUS
<1>1. hist.raw = <<>> /\ line = NoLine
  BY DEF Init
<1>2. DOMAIN RawText = 1..0
  BY <1>1 DEF RawText
<1>3. LineType
  BY <1>1 DEF LineType, IsLine, NoLine
<1> QED
  BY <1>1, <1>2, <1>3, NothingReads, LineInvariantReads

\* Whatever the line and whatever the size of its buffer, the main loop assembles the
\* characters outside comments, each at its place, and it reports an overflow exactly
\* when there are too many (protocol.cpp:80-149).
THEOREM LineIsCleanedAlways == Spec => []LineIsCleaned
<1>1. Init => LineInvariant
  BY LineInit
<1>2. TypeInvariant /\ LineInvariant /\ [Next]_vars => LineInvariant'
  BY LineStep
<1>3. LineInvariant => LineIsCleaned
  BY DEF LineInvariant
<1> QED
  BY <1>1, <1>2, <1>3, TypeCorrect, PTL DEF Spec

-----------------------------------------------------------------------------
(* The characters on their way to the host.                                 *)

\* The slots in use after one more character was stored, and after one was taken.
LEMMA OccupiedAfterStore ==
  ASSUME NEW size \in Nat \ {0, 1}, NEW r, NEW q,
         r.head \in 0..size-1, r.tail \in 0..size-1, ~Full(r, size),
         q.head = Advance(r.head, size), q.tail = r.tail
  PROVE  /\ ~Occupied(r, r.head)
         /\ \A s \in 0..size-1 : Occupied(q, s) <=> Occupied(r, s) \/ s = r.head
BY DEF Occupied, Advance, Full

LEMMA OccupiedAfterTake ==
  ASSUME NEW size \in Nat \ {0, 1}, NEW r, NEW q,
         r.head \in 0..size-1, r.tail \in 0..size-1, ~Empty(r),
         q.head = r.head, q.tail = Advance(r.tail, size)
  PROVE  /\ Occupied(r, r.tail)
         /\ \A s \in 0..size-1 : Occupied(q, s) <=> Occupied(r, s) /\ s # r.tail
BY DEF Occupied, Advance, Empty

LEMMA TxIndices ==
  ASSUME TypeInvariant
  PROVE  /\ TxRing \in Nat \ {0, 1}
         /\ tx.head \in 0..TxRing-1 /\ tx.tail \in 0..TxRing-1
         /\ DOMAIN tx.buf = 0..TxRing-1
BY RingsAssumption DEF TypeInvariant, SerialType

LEMMA HoldingFinite ==
  ASSUME TypeInvariant, NEW c
  PROVE  IsFiniteSet(Holding(c)) /\ Cardinality(Holding(c)) \in Nat
<1>1. Holding(c) \subseteq 0..TxRing-1 /\ IsFiniteSet(0..TxRing-1)
  BY TxIndices, FS_Interval DEF Holding
<1> QED
  BY <1>1, FS_Subset, FS_CardinalityType

\* The interrupt takes the oldest character,
LEMMA HoldingTaken ==
  ASSUME TypeInvariant, InterruptInvariant, Transmit, NEW c
  PROVE  /\ Holding(c)' = Holding(c) \ {tx.tail}
         /\ tx.tail \in Holding(c) <=> wire' = c
<1>1. /\ ~Empty(tx) /\ wire' = tx.buf[tx.tail]
      /\ tx'.buf = tx.buf /\ tx'.head = tx.head /\ tx'.tail = Advance(tx.tail, TxRing)
  BY TransmitTakes DEF InterruptInvariant
<1>2. /\ Occupied(tx, tx.tail)
      /\ \A s \in 0..TxRing-1 : Occupied(tx', s) <=> Occupied(tx, s) /\ s # tx.tail
  BY <1>1, TxIndices, OccupiedAfterTake
<1> QED
  BY <1>1, <1>2, TxIndices DEF Holding

\* and serial_write() adds one.
LEMMA HoldingStored ==
  ASSUME TypeInvariant, WriterInvariant, WriteStore, NEW c
  PROVE  /\ Holding(c)' = Holding(c) \cup (IF writer.data = c THEN {tx.head} ELSE {})
         /\ tx.head \notin Holding(c)
<1>1. /\ ~Full(tx, TxRing)
      /\ tx'.buf = [tx.buf EXCEPT ![tx.head] = writer.data]
      /\ tx'.head = Advance(tx.head, TxRing) /\ tx'.tail = tx.tail
  BY WriteStores DEF WriterInvariant
<1>2. /\ ~Occupied(tx, tx.head)
      /\ \A s \in 0..TxRing-1 : Occupied(tx', s) <=> Occupied(tx, s) \/ s = tx.head
  BY <1>1, TxIndices, OccupiedAfterStore
<1> QED
  BY <1>1, <1>2, TxIndices DEF Holding

LEMMA HoldingLeftAlone ==
  ASSUME tx'.buf = tx.buf, tx'.head = tx.head, tx'.tail = tx.tail, NEW c
  PROVE  Holding(c)' = Holding(c)
BY DEF Holding, Occupied

\* The greeting and the answers yet to be written.
LEMMA ToWriteIs ==
  ASSUME AnswerInvariant
  PROVE  /\ ToWrite("hello") <=> main.answer = <<"hello">>
         /\ ToWrite("end") <=> main.answer \in {<<"ok", "end">>, <<"error", "end">>, <<"end">>}
<1>1. CASE main.answer = <<>>
  BY <1>1 DEF ToWrite
<1>2. CASE main.answer = <<"hello">>
  BY <1>2 DEF ToWrite
<1>3. CASE main.answer = <<"ok", "end">>
  BY <1>3 DEF ToWrite
<1>4. CASE main.answer = <<"error", "end">>
  BY <1>4 DEF ToWrite
<1>5. CASE main.answer = <<"end">>
  BY <1>5 DEF ToWrite
<1> QED
  BY <1>1, <1>2, <1>3, <1>4, <1>5 DEF AnswerInvariant

\* serial_write() is given the next character of the answer.
LEMMA AnswerBegins ==
  ASSUME TypeInvariant, AnswerInvariant, AnswerBegin
  PROVE  /\ writer.at = "out" /\ writer'.at = "wait" /\ main'.pc = main.pc /\ main.pc = "answer"
         /\ UNCHANGED <<rx, tx, reader, wire, line, sys, host, hist>>
         /\ \/ main.answer = <<"hello">> /\ writer'.data = "hello" /\ main'.answer = <<>>
            \/ /\ main.answer \in {<<"ok", "end">>, <<"error", "end">>}
               /\ writer'.data \in {"ok", "error"} /\ main'.answer = <<"end">>
            \/ main.answer = <<"end">> /\ writer'.data = "end" /\ main'.answer = <<>>
<1>1. /\ main.pc = "answer" /\ main.answer # <<>> /\ WriteBegin(Head(main.answer))
      /\ main'.answer = Tail(main.answer) /\ main'.pc = main.pc
      /\ UNCHANGED <<line, sys, host, hist>>
  BY DEF AnswerBegin, At, TypeInvariant, MainType
<1>2. /\ writer.at = "out" /\ writer'.at = "wait" /\ writer'.data = Head(main.answer)
      /\ UNCHANGED <<rx, tx, reader, wire>>
  BY <1>1 DEF WriteBegin, TypeInvariant, SerialType
<1>3. CASE main.answer = <<"hello">>
  BY <1>1, <1>2, <1>3
<1>4. CASE main.answer = <<"ok", "end">>
  BY <1>1, <1>2, <1>4
<1>5. CASE main.answer = <<"error", "end">>
  BY <1>1, <1>2, <1>5
<1>6. CASE main.answer = <<"end">>
  BY <1>1, <1>2, <1>6
<1> QED
  BY <1>1, <1>3, <1>4, <1>5, <1>6 DEF AnswerInvariant

\* What the main program and serial_write() do, one step after the other.
LEMMA MainSteps ==
  ASSUME TypeInvariant
  PROVE  /\ Boot => main.pc = "boot" /\ main'.pc = "flush" /\ main'.answer = main.answer /\ ~sys'.reset
         /\ ReadStep \/ NothingToRead \/ ReadChar => main.pc = "read" /\ main'.answer = main.answer
         /\ NothingToRead => main'.pc = "idle"
         /\ ReadStep => main' = main
         /\ ReadChar => main'.pc \in {"read", "eol"}
         /\ Idle => main.pc = "idle" /\ main'.pc \in {"boot", "read"} /\ main'.answer = main.answer
         /\ AnswerEnd => /\ main.pc = "answer" /\ main'.pc = "read" /\ main'.answer = main.answer
                         /\ main.answer = <<>> /\ writer.at = "out"
BY DEF Boot, ReadStep, NothingToRead, ReadChar, Idle, Aborts, AnswerEnd, At, GoTo,
       TypeInvariant, MainType

LEMMA FlushDoes ==
  ASSUME TypeInvariant, Flush
  PROVE  /\ main.pc = "flush" /\ main'.pc = "answer" /\ main'.answer = <<"hello">>
         /\ Empty(rx') /\ hist'.raw = <<>> /\ hist'.cancelled = hist.cancelled
         /\ UNCHANGED <<tx, reader, writer, wire, sys, host>>
BY DEF Flush, At, ResetReadBuffer, Empty, TypeInvariant, SerialType, HistType

\* A line ends with a reset or with its answer.
LEMMA EndOfLineDoes ==
  ASSUME TypeInvariant, EndOfLine
  PROVE  /\ main.pc = "eol" /\ UNCHANGED <<rx, tx, reader, writer, wire, host>>
         /\ hist'.cancelled = hist.cancelled
         /\ \/ /\ sys.reset /\ sys' = sys /\ hist' = hist
               /\ main'.pc = "boot" /\ main'.answer = main.answer
            \/ /\ ~sys.reset /\ sys'.reset = sys.reset /\ hist'.raw = <<>>
               /\ main'.pc = "answer" /\ main'.answer \in {<<"ok", "end">>, <<"error", "end">>}
<1>1. CASE Aborts
  BY <1>1 DEF EndOfLine, Aborts, At, GoTo, TypeInvariant, MainType
<1>2. CASE ~Aborts
  <2>1. main' = [pc |-> "answer", answer |-> <<Status, "end">>] /\ hist' = [hist EXCEPT !.raw = <<>>]
    BY <1>2 DEF EndOfLine
  <2>2. Status \in {"ok", "error"}
    BY DEF Status
  <2> HIDE DEF Status
  <2>3. main'.pc = "answer" /\ main'.answer \in {<<"ok", "end">>, <<"error", "end">>}
    BY <2>1, <2>2
  <2>4. hist'.raw = <<>> /\ hist'.cancelled = hist.cancelled
    BY <2>1 DEF TypeInvariant, HistType
  <2>5. ~sys.reset /\ (sys' = [sys EXCEPT !.jog = TRUE] \/ sys' = sys \/ sys' = [sys EXCEPT !.jog = FALSE])
    BY <1>2 DEF EndOfLine, JogMayEnd
  <2>6. sys'.reset = sys.reset
    BY <2>5 DEF TypeInvariant, SysType
  <2> QED
    BY <1>2, <2>3, <2>4, <2>5, <2>6 DEF EndOfLine, At
<1> QED
  BY <1>1, <1>2

\* Only serial_write() and the transmit interrupt touch the transmit ring.
LEMMA WriterLeftAlone ==
  ASSUME TypeInvariant,
         \/ Host \/ UNCHANGED vars
         \/ Boot \/ Flush \/ ReadStep \/ NothingToRead \/ ReadChar \/ EndOfLine \/ Idle \/ AnswerEnd
  PROVE  UNCHANGED <<tx, writer>>
<1>1. CASE Host \/ UNCHANGED vars
  BY <1>1, HostSends, HostResets, HostCancels DEF Host, vars
<1>2. CASE ReadStep \/ NothingToRead \/ ReadChar
  BY <1>2, Zenon DEF ReadStep, NothingToRead, ReadChar, ReadBegin, ReadLoad, ReadNothing, ReadStore
<1>3. CASE Boot \/ Flush \/ EndOfLine \/ Idle \/ AnswerEnd
  BY <1>3, Zenon DEF Boot, Flush, EndOfLine, Idle, AnswerEnd
<1> QED
  BY <1>1, <1>2, <1>3

LEMMA WriteSteps ==
  ASSUME TypeInvariant, WriteStep
  PROVE  /\ writer.at # "out" /\ UNCHANGED <<rx, reader, wire, line, main, sys, host>>
         /\ hist'.raw = hist.raw /\ hist'.cancelled = hist.cancelled
         /\ \/ /\ writer.at = "wait" /\ writer'.at = "store" /\ writer'.data = writer.data /\ tx' = tx
            \/ sys.reset /\ writer.at = "wait" /\ writer'.at = "out" /\ tx' = tx
            \/ WriteStore /\ writer.at = "store" /\ writer'.at = "enable"
            \/ /\ writer.at = "enable" /\ writer'.at = "out"
               /\ tx'.buf = tx.buf /\ tx'.head = tx.head /\ tx'.tail = tx.tail
<1>1. /\ UNCHANGED <<line, main, sys, host>>
      /\ hist'.raw = hist.raw /\ hist'.cancelled = hist.cancelled
  BY DEF WriteStep, TypeInvariant, HistType
<1>2. CASE WriteWait(sys.reset)
  BY <1>1, <1>2 DEF WriteWait, TypeInvariant, SerialType
<1>3. CASE WriteStore
  BY <1>1, <1>3, WriteStores
<1>4. CASE WriteEnable
  BY <1>1, <1>4 DEF WriteEnable, TypeInvariant, SerialType
<1> QED
  BY <1>2, <1>3, <1>4 DEF WriteStep

LEMMA AnswerStep ==
  ASSUME TypeInvariant, AnswerInvariant, [Next]_vars
  PROVE  AnswerInvariant'
<1> USE DEF AnswerInvariant
<1>1. CASE Host \/ UNCHANGED vars
  <2>1. main' = main
    BY <1>1, HostSends, HostResets, HostCancels DEF Host, vars
  <2> QED
    BY <1>1, <2>1, WriterLeftAlone
<1>2. CASE TransmitISR
  BY <1>2, TransmitTakes DEF TransmitISR
<1>3. CASE Boot \/ ReadStep \/ NothingToRead \/ ReadChar \/ Idle \/ AnswerEnd
  BY <1>3, WriterLeftAlone, MainSteps
<1>4. CASE Flush
  BY <1>4, FlushDoes
<1>5. CASE EndOfLine
  BY <1>5, EndOfLineDoes
<1>6. CASE AnswerBegin
  BY <1>6, AnswerBegins
<1>7. CASE WriteStep
  BY <1>7, WriteSteps
<1> QED
  BY <1>1, <1>2, <1>3, <1>4, <1>5, <1>6, <1>7 DEF Next, Main

-----------------------------------------------------------------------------
(* The greeting.                                                            *)

\* What is on its way stays so while nobody touches the transmit ring or the answer.
LEMMA WayLeftAlone ==
  ASSUME TypeInvariant, UNCHANGED <<tx, writer>>, main'.answer = main.answer, NEW c
  PROVE  /\ Holding(c)' = Holding(c) /\ (InHand(c)' <=> InHand(c)) /\ (ToWrite(c)' <=> ToWrite(c))
         /\ OnItsWay(c)' <=> OnItsWay(c)
         /\ LastOnWay(c)' <=> LastOnWay(c)
<1>1. Holding(c)' = Holding(c)
  BY HoldingLeftAlone
<1>2. (InHand(c)' <=> InHand(c)) /\ (ToWrite(c)' <=> ToWrite(c))
  BY DEF InHand, ToWrite
<1> QED
  BY <1>1, <1>2 DEF OnItsWay, LastOnWay

\* The steps that do so, from one point of the main loop to another.
LEMMA GreetingLeftAlone ==
  ASSUME TypeInvariant, GreetingInvariant,
         UNCHANGED <<tx, writer, host>>, main'.answer = main.answer, sys'.reset = sys.reset,
         hist'.raw = hist.raw, Empty(rx) => Empty(rx'),
         main.pc \notin {"boot", "flush"} /\ main'.pc \notin {"boot", "flush"},
         main.pc \in {"answer", "read", "idle"} => main'.pc \in {"answer", "read", "idle"}
  PROVE  GreetingInvariant'
<1>1. /\ OnItsWay("hello")' <=> OnItsWay("hello")
      /\ LastOnWay("hello")' <=> LastOnWay("hello")
  BY WayLeftAlone
<1> QED
  BY <1>1 DEF GreetingInvariant, Greeting

LEMMA GreetingAndHost ==
  ASSUME TypeInvariant, GreetingInvariant, HostSend \/ HostReset
  PROVE  GreetingInvariant'
<1>1. host.greeted /\ UNCHANGED <<tx, writer, main>> /\ host'.text = host.text
  BY HostSends, HostResets DEF HostSend
<1>2. ~OnItsWay("hello") /\ ~OnItsWay("hello")'
  BY <1>1, WayLeftAlone DEF GreetingInvariant
<1>3. main.pc \notin {"boot", "flush"} /\ ~sys.reset
  BY <1>1 DEF GreetingInvariant
<1>4. CASE HostSend
  BY <1>1, <1>2, <1>3, <1>4, HostSends DEF GreetingInvariant
<1>5. CASE HostReset
  <2>1. sys'.reset
    BY <1>5 DEF HostReset, TypeInvariant, SysType
  <2> QED
    BY <1>1, <1>2, <1>3, <1>5, <2>1, HostResets DEF GreetingInvariant
<1> QED
  BY <1>4, <1>5

\* The host receives the greeting as the last character on its way.
LEMMA GreetingArrives ==
  ASSUME TypeInvariant, InterruptInvariant, GreetingInvariant, TransmitISR, wire' = "hello"
  PROVE  /\ Greeting /\ ~host.greeted /\ ~sys.reset /\ main.pc \notin {"boot", "flush"}
         /\ host'.greeted /\ host'.sent = host.sent /\ host'.acked = host.sent
         /\ host'.text = host.text /\ host'.counts = host.counts
         /\ ~OnItsWay("hello")'
         /\ UNCHANGED <<rx, reader, writer, line, main, sys>>
         /\ hist'.raw = hist.raw /\ hist'.cancelled = hist.cancelled
<1>1. /\ Transmit /\ host' = [host EXCEPT !.greeted = TRUE, !.acked = host.sent]
      /\ UNCHANGED <<line, main, sys>> /\ hist'.raw = hist.raw /\ hist'.cancelled = hist.cancelled
  BY DEF TransmitISR, TypeInvariant, HistType
<1>2. /\ host'.greeted /\ host'.sent = host.sent /\ host'.acked = host.sent
      /\ host'.text = host.text /\ host'.counts = host.counts
  BY <1>1 DEF TypeInvariant, HostType
<1>3. /\ tx.tail \in Holding("hello") /\ Holding("hello")' = Holding("hello") \ {tx.tail}
      /\ UNCHANGED <<rx, reader, writer>>
  BY <1>1, HoldingTaken, TransmitTakes
<1>4. OnItsWay("hello")
  BY <1>3 DEF OnItsWay
<1>5. Greeting /\ ~host.greeted /\ ~sys.reset /\ main.pc \notin {"boot", "flush"}
  BY <1>4 DEF GreetingInvariant
<1>6. /\ ~ToWrite("hello") /\ ~InHand("hello")
      /\ \A s \in Holding("hello") : Advance(s, TxRing) = tx.head
  BY <1>3, <1>5 DEF Greeting, LastOnWay
<1>7. Holding("hello")' = {}
  <2>1. \A s \in Holding("hello") : s \in 0..TxRing-1
    BY DEF Holding
  <2>2. \A s \in Holding("hello") : s = tx.tail
    BY <1>3, <1>6, <2>1, AdvanceInjective
  <2> QED
    BY <1>3, <2>2
<1>8. ~ToWrite("hello")' /\ ~InHand("hello")'
  BY <1>1, <1>3, <1>6 DEF ToWrite, InHand
<1> QED
  BY <1>1, <1>2, <1>3, <1>5, <1>7, <1>8 DEF OnItsWay

LEMMA GreetingAndInterrupt ==
  ASSUME TypeInvariant, InterruptInvariant, GreetingInvariant, TransmitISR
  PROVE  GreetingInvariant'
<1>1. CASE wire' = "hello"
  BY <1>1, GreetingArrives DEF GreetingInvariant
<1>2. CASE wire' # "hello"
  <2>1. /\ Transmit /\ UNCHANGED <<line, main, sys>> /\ hist'.raw = hist.raw
        /\ host'.greeted = host.greeted /\ host'.sent = host.sent /\ host'.text = host.text
    BY <1>2 DEF TransmitISR, TypeInvariant, HistType, HostType
  <2>2. UNCHANGED <<rx, writer>> /\ tx'.head = tx.head
    BY <2>1, TransmitTakes
  <2>3. Holding("hello")' = Holding("hello")
    BY <1>2, <2>1, HoldingTaken
  <2>4. (ToWrite("hello")' <=> ToWrite("hello")) /\ (InHand("hello")' <=> InHand("hello"))
    BY <2>1, <2>2 DEF ToWrite, InHand
  <2>5. /\ OnItsWay("hello")' <=> OnItsWay("hello")
        /\ LastOnWay("hello")' <=> LastOnWay("hello")
    BY <2>1, <2>2, <2>3, <2>4 DEF OnItsWay, LastOnWay
  <2>6. Empty(rx') <=> Empty(rx)
    BY <2>2
  <2> QED
    BY <2>1, <2>5, <2>6 DEF GreetingInvariant, Greeting
<1> QED
  BY <1>1, <1>2

LEMMA GreetingAndReading ==
  ASSUME TypeInvariant, AtTail, GreetingInvariant, ReadStep \/ NothingToRead \/ ReadChar
  PROVE  GreetingInvariant'
<1>1. /\ main.pc = "read" /\ main'.answer = main.answer
      /\ UNCHANGED <<tx, writer, host, sys>>
  <2>1. UNCHANGED <<host, sys>>
    BY Zenon DEF ReadStep, NothingToRead, ReadChar
  <2> QED
    BY <2>1, MainSteps, WriterLeftAlone
<1>2. CASE ReadStep \/ NothingToRead
  <2>1. rx' = rx /\ hist'.raw = hist.raw
    <3>1. rx' = rx
      BY <1>2, Zenon DEF ReadStep, NothingToRead, ReadBegin, ReadLoad, ReadNothing
    <3> QED
      BY <1>2, <3>1 DEF ReadStep, NothingToRead, TypeInvariant, HistType
  <2>2. main'.pc \in {"read", "idle"}
    BY <1>1, <1>2, MainSteps
  <2> QED
    BY <1>1, <2>1, <2>2, GreetingLeftAlone
<1>3. CASE ReadChar
  <2>1. ~Empty(rx)
    BY <1>3 DEF ReadChar, ReadStore, AtTail
  <2>2. host.greeted \/ sys.reset
    BY <1>1, <2>1 DEF GreetingInvariant, Greeting
  <2>3. ~OnItsWay("hello") /\ ~OnItsWay("hello")'
    BY <1>1, <2>2, WayLeftAlone DEF GreetingInvariant
  <2>4. main'.pc \in {"read", "eol"}
    BY <1>3, MainSteps
  <2> QED
    BY <1>1, <2>2, <2>3, <2>4 DEF GreetingInvariant
<1> QED
  BY <1>2, <1>3

LEMMA IdleDoes ==
  ASSUME TypeInvariant, Idle
  PROVE  /\ main.pc = "idle" /\ main'.answer = main.answer
         /\ UNCHANGED <<rx, tx, reader, writer, wire, line, host, hist>> /\ sys'.reset = sys.reset
         /\ \/ sys.reset /\ main'.pc = "boot"
            \/ main'.pc = "read"
<1>1. UNCHANGED <<rx, tx, reader, writer, wire, line, host, hist>>
  BY Zenon DEF Idle, Aborts
<1>2. sys' = sys \/ sys' = [sys EXCEPT !.jog = FALSE]
  BY DEF Idle, Aborts, JogMayEnd
<1>3. sys'.reset = sys.reset
  BY <1>2 DEF TypeInvariant, SysType
<1>4. (sys.reset /\ main'.pc = "boot") \/ main'.pc = "read"
  BY DEF Idle, Aborts, GoTo, TypeInvariant, MainType
<1> QED
  BY <1>1, <1>3, <1>4, MainSteps

LEMMA GreetingAndLoop ==
  ASSUME TypeInvariant, AnswerInvariant, GreetingInvariant,
         Boot \/ Flush \/ EndOfLine \/ Idle \/ AnswerEnd
  PROVE  GreetingInvariant'
<1>1. CASE Boot
  <2>1. /\ main.pc = "boot" /\ main'.pc = "flush" /\ main'.answer = main.answer /\ ~sys'.reset
        /\ UNCHANGED <<tx, writer, host>>
    BY <1>1, MainSteps, WriterLeftAlone DEF Boot
  <2>2. ~OnItsWay("hello")'
    BY <2>1, WayLeftAlone DEF GreetingInvariant
  <2> QED
    BY <2>1, <2>2 DEF GreetingInvariant
<1>2. CASE Flush
  <2>1. /\ main.pc = "flush" /\ main'.pc = "answer" /\ main'.answer = <<"hello">>
        /\ Empty(rx') /\ hist'.raw = <<>> /\ UNCHANGED <<tx, writer, sys, host>>
    BY <1>2, FlushDoes
  <2>2. ~OnItsWay("hello") /\ ~sys.reset /\ ~host.greeted /\ writer.at = "out"
    BY <2>1 DEF GreetingInvariant, AnswerInvariant
  <2>3. Holding("hello")' = {} /\ ~InHand("hello")'
    BY <2>1, <2>2, HoldingLeftAlone DEF OnItsWay, InHand
  <2>4. ToWrite("hello")'
    BY <2>1 DEF ToWrite
  <2>5. OnItsWay("hello")' /\ LastOnWay("hello")'
    BY <2>1, <2>2, <2>3, <2>4 DEF OnItsWay, LastOnWay
  <2> QED
    BY <2>1, <2>2, <2>5 DEF GreetingInvariant, Greeting
<1>3. CASE EndOfLine
  <2>0. main.pc = "eol" /\ UNCHANGED <<tx, writer, host>> /\ sys'.reset = sys.reset
    BY <1>3, EndOfLineDoes
  <2>1. CASE sys.reset
    <3>1. main'.pc = "boot" /\ main'.answer = main.answer
      BY <1>3, <2>1, EndOfLineDoes
    <3>2. ~OnItsWay("hello")' /\ ~host.greeted
      BY <2>0, <2>1, <3>1, WayLeftAlone DEF GreetingInvariant
    <3> QED
      BY <2>0, <2>1, <3>1, <3>2 DEF GreetingInvariant
  <2>2. CASE ~sys.reset
    <3>1. main'.pc = "answer" /\ main'.answer \in {<<"ok", "end">>, <<"error", "end">>}
      BY <1>3, <2>2, EndOfLineDoes
    <3>2. host.greeted
      BY <2>0, <2>2 DEF GreetingInvariant, Greeting
    <3>3. ~OnItsWay("hello")
      BY <3>2 DEF GreetingInvariant
    <3>4. ~ToWrite("hello")'
      BY <3>1 DEF ToWrite
    <3>5. ~OnItsWay("hello")'
      BY <2>0, <3>3, <3>4, HoldingLeftAlone DEF OnItsWay, InHand
    <3> QED
      BY <2>0, <2>2, <3>1, <3>2, <3>5 DEF GreetingInvariant
  <2> QED
    BY <2>1, <2>2
<1>4. CASE Idle
  <2>1. CASE sys.reset /\ main'.pc = "boot"
    <3>1. ~OnItsWay("hello")'
      BY <1>4, <2>1, IdleDoes, WayLeftAlone DEF GreetingInvariant
    <3> QED
      BY <1>4, <2>1, <3>1, IdleDoes DEF GreetingInvariant
  <2>2. CASE main'.pc = "read"
    BY <1>4, <2>2, IdleDoes, GreetingLeftAlone
  <2> QED
    BY <1>4, <2>1, <2>2, IdleDoes
<1>5. CASE AnswerEnd
  <2>1. UNCHANGED <<rx, sys, host, hist>>
    BY <1>5 DEF AnswerEnd
  <2> QED
    BY <1>5, <2>1, MainSteps, WriterLeftAlone, GreetingLeftAlone
<1> QED
  BY <1>1, <1>2, <1>3, <1>4, <1>5

LEMMA GreetingAndAnswer ==
  ASSUME TypeInvariant, AnswerInvariant, GreetingInvariant, AnswerBegin
  PROVE  GreetingInvariant'
<1>1. /\ writer.at = "out" /\ writer'.at = "wait" /\ main'.pc = main.pc /\ main.pc = "answer"
      /\ UNCHANGED <<rx, tx, sys, host, hist>>
  BY AnswerBegins
<1>2. Holding("hello")' = Holding("hello") /\ ~InHand("hello")
  BY <1>1, HoldingLeftAlone DEF InHand
<1>3. CASE main.answer = <<"hello">>
  <2>1. writer'.data = "hello" /\ main'.answer = <<>>
    BY <1>3, AnswerBegins
  <2>2. ToWrite("hello") /\ InHand("hello")' /\ ~ToWrite("hello")'
    BY <1>1, <1>3, <2>1 DEF ToWrite, InHand
  <2>3. Greeting /\ ~host.greeted /\ ~sys.reset
    BY <2>2 DEF GreetingInvariant, OnItsWay
  <2>4. Holding("hello") = {}
    BY <2>2, <2>3 DEF Greeting, LastOnWay
  <2>5. OnItsWay("hello")' /\ LastOnWay("hello")'
    BY <1>2, <2>1, <2>2, <2>4 DEF OnItsWay, LastOnWay
  <2> QED
    BY <1>1, <2>3, <2>5 DEF GreetingInvariant, Greeting
<1>4. CASE main.answer # <<"hello">>
  <2>1. /\ main.answer # <<>> /\ writer'.data # "hello"
        /\ main'.answer = <<>> \/ main'.answer = <<"end">>
    BY <1>4, AnswerBegins
  <2>2. ~ToWrite("hello") /\ ~InHand("hello")' /\ ~ToWrite("hello")'
    BY <1>4, <2>1, ToWriteIs DEF ToWrite, InHand
  <2>3. ~Greeting
    BY <2>1, <2>2 DEF Greeting, LastOnWay
  <2>4. host.greeted \/ sys.reset
    BY <1>1, <2>3 DEF GreetingInvariant
  <2>5. ~OnItsWay("hello")'
    BY <1>2, <2>2, <2>4 DEF GreetingInvariant, OnItsWay
  <2> QED
    BY <1>1, <2>4, <2>5 DEF GreetingInvariant
<1> QED
  BY <1>3, <1>4

LEMMA GreetingAndWriting ==
  ASSUME TypeInvariant, WriterInvariant, AnswerInvariant, GreetingInvariant, WriteStep
  PROVE  GreetingInvariant'
<1> DEFINE c == "hello"
<1>1. writer.at # "out" /\ UNCHANGED <<rx, main, sys, host>> /\ hist'.raw = hist.raw
  BY WriteSteps
<1>2. ToWrite(c)' <=> ToWrite(c)
  BY <1>1 DEF ToWrite
<1>3. Greeting => ~ToWrite(c) /\ main.answer = <<>>
  BY <1>1 DEF Greeting, LastOnWay
<1>4. Greeting /\ writer.at # "enable" => InHand(c) /\ Holding(c) = {}
  BY <1>1, <1>3 DEF Greeting, LastOnWay
<1>5. ASSUME OnItsWay(c)' <=> OnItsWay(c), Greeting => LastOnWay(c)'
      PROVE  GreetingInvariant'
  BY <1>1, <1>5 DEF GreetingInvariant, Greeting
<1>6. CASE writer.at = "wait" /\ writer'.at = "store" /\ writer'.data = writer.data /\ tx' = tx
  <2>1. Holding(c)' = Holding(c) /\ (InHand(c)' <=> InHand(c))
    BY <1>6, HoldingLeftAlone DEF InHand
  <2>2. OnItsWay(c)' <=> OnItsWay(c)
    BY <1>2, <2>1 DEF OnItsWay
  <2>3. Greeting => LastOnWay(c)'
    BY <1>1, <1>2, <1>3, <1>4, <1>6, <2>1 DEF LastOnWay
  <2> QED
    BY <1>5, <2>2, <2>3
<1>7. CASE sys.reset /\ writer.at = "wait" /\ writer'.at = "out" /\ tx' = tx
  <2>1. Holding(c)' = Holding(c) /\ ~InHand(c)'
    BY <1>7, HoldingLeftAlone DEF InHand
  <2>2. ~OnItsWay(c)
    BY <1>7 DEF GreetingInvariant
  <2>3. ~OnItsWay(c)'
    BY <1>2, <2>1, <2>2 DEF OnItsWay
  <2> QED
    BY <1>1, <1>7, <2>3 DEF GreetingInvariant
<1>8. CASE WriteStore /\ writer.at = "store" /\ writer'.at = "enable"
  <2>1. /\ Holding(c)' = Holding(c) \cup (IF writer.data = c THEN {tx.head} ELSE {})
        /\ tx'.head = Advance(tx.head, TxRing)
    BY <1>8, HoldingStored, WriteStores
  <2>2. ~InHand(c)' /\ (InHand(c) <=> writer.data = c)
    BY <1>8 DEF InHand
  <2>3. OnItsWay(c)' <=> OnItsWay(c)
    BY <1>2, <2>1, <2>2 DEF OnItsWay
  <2>4. Greeting => LastOnWay(c)'
    BY <1>1, <1>2, <1>3, <1>4, <1>8, <2>1, <2>2 DEF LastOnWay
  <2> QED
    BY <1>5, <2>3, <2>4
<1>9. CASE /\ writer.at = "enable" /\ writer'.at = "out"
           /\ tx'.buf = tx.buf /\ tx'.head = tx.head /\ tx'.tail = tx.tail
  <2>1. Holding(c)' = Holding(c) /\ ~InHand(c)' /\ ~InHand(c)
    BY <1>9, HoldingLeftAlone DEF InHand
  <2>2. OnItsWay(c)' <=> OnItsWay(c)
    BY <1>2, <2>1 DEF OnItsWay
  <2>3. Greeting => LastOnWay(c)'
    BY <1>1, <1>2, <1>3, <1>9, <2>1 DEF Greeting, LastOnWay
  <2> QED
    BY <1>5, <2>2, <2>3
<1> QED
  BY <1>6, <1>7, <1>8, <1>9, WriteSteps

\* The greeting is on its way from the initialisation to the host, alone, while the host
\* waits for it (main.cpp:414-449).
LEMMA GreetingStep ==
  ASSUME TypeInvariant, WriterInvariant, InterruptInvariant, AtTail, AnswerInvariant,
         GreetingInvariant, ~hist'.cancelled, [Next]_vars
  PROVE  GreetingInvariant'
<1>1. CASE HostCancel
  BY <1>1, HostCancels
<1>2. CASE UNCHANGED vars
  BY <1>2, WayLeftAlone DEF vars, GreetingInvariant, Greeting
<1> QED
  BY <1>1, <1>2, GreetingAndHost, GreetingAndInterrupt, GreetingAndReading, GreetingAndLoop,
     GreetingAndAnswer, GreetingAndWriting DEF Next, Host, Main

-----------------------------------------------------------------------------
(* The host's count.                                                        *)

Below == {pair \in Nat \X Nat : pair[1] < pair[2]}

LEMMA BelowWellFounded == IsWellFoundedOn(Below, Nat)
BY NatLessThanWellFounded, Zenon DEF OpToRel, Below

LEMMA Least ==
  ASSUME NEW S \in SUBSET Nat, S # {}
  PROVE  \E m \in S : \A k \in S : m <= k
<1>1. PICK m \in S : \A k \in S : ~(<<k, m>> \in Below)
  BY BelowWellFounded, WFMin
<1>2. ASSUME NEW k \in S PROVE m <= k
  <2>1. k \in Nat /\ m \in Nat
    OBVIOUS
  <2>2. ~(k < m)
    BY <1>1, <2>1 DEF Below
  <2> QED
    BY <2>1, <2>2
<1> QED
  BY <1>2

LEMMA TextPositions ==
  ASSUME TypeInvariant
  PROVE  /\ Len(host.text) \in Nat /\ DOMAIN host.text = 1..Len(host.text) /\ host.sent \in Nat
         /\ EndsOfLine(host.text) \subseteq 1..Len(host.text)
         /\ LineStarts(host.text) \subseteq 0..Len(host.text)
         /\ EndsOfLine(host.text) \subseteq LineStarts(host.text) /\ 0 \in LineStarts(host.text)
<1>1. Len(host.text) \in Nat /\ DOMAIN host.text = 1..Len(host.text) /\ host.sent \in Nat
  BY LenProperties DEF TypeInvariant, HostType
<1>2. EndsOfLine(host.text) \subseteq 1..Len(host.text)
  BY <1>1 DEF EndsOfLine
<1> QED
  BY <1>1, <1>2 DEF LineStarts

LEMMA UnansweredFinite ==
  ASSUME TypeInvariant, NEW last
  PROVE  /\ Unanswered(last) \subseteq 1..Len(host.text) /\ IsFiniteSet(Unanswered(last))
         /\ Cardinality(Unanswered(last)) \in Nat
<1>1. Unanswered(last) \subseteq 1..Len(host.text) /\ Len(host.text) \in Nat
  BY TextPositions DEF Unanswered
<1>2. IsFiniteSet(1..Len(host.text))
  BY <1>1, FS_Interval
<1> QED
  BY <1>1, <1>2, FS_Subset, FS_CardinalityType

\* An answer acknowledges the oldest line without one.
LEMMA Acknowledges ==
  ASSUME TypeInvariant, NEW last \in 0..host.sent, host.acked \in 0..last,
         Unanswered(last) # {}
  PROVE  /\ Acknowledged(host) \in Unanswered(last)
         /\ \A k \in Unanswered(last) : Acknowledged(host) <= k
<1> DEFINE open == {j \in EndsOfLine(host.text) : host.acked < j /\ j <= host.sent}
<1>1. Unanswered(last) \subseteq open
  BY TextPositions DEF Unanswered
<1>2. open # {} /\ open \in SUBSET Nat
  BY <1>1, TextPositions
<1>3. Acknowledged(host) = CHOOSE j \in open : \A k \in open : j <= k
  BY <1>2, Zenon DEF Acknowledged
<1> HIDE DEF open
<1>4. \E j \in open : \A k \in open : j <= k
  BY <1>2, Least
<1>5. Acknowledged(host) \in open /\ \A k \in open : Acknowledged(host) <= k
  BY <1>3, <1>4
<1>6. PICK k \in Unanswered(last) : TRUE
  OBVIOUS
<1>7. Acknowledged(host) <= k /\ k <= last /\ k \in Nat
  BY <1>1, <1>2, <1>5 DEF Unanswered
<1>8. Acknowledged(host) \in EndsOfLine(host.text) /\ host.acked < Acknowledged(host)
  BY <1>5 DEF open
<1>9. Acknowledged(host) <= last
  <2>1. Acknowledged(host) \in Nat
    BY <1>2, <1>5
  <2> QED
    BY <2>1, <1>7, TextPositions
<1> QED
  BY <1>1, <1>5, <1>8, <1>9 DEF Unanswered

\* The answers still to be sent, which only a line adds to.
LEMMA PendingIsNumber ==
  ASSUME TypeInvariant
  PROVE  Pending \in Nat
BY HoldingFinite DEF Pending

LEMMA PendingLeftAlone ==
  ASSUME TypeInvariant, UNCHANGED <<tx, writer>>, main'.answer = main.answer,
         main'.pc = "eol" => main.pc = "eol"
  PROVE  Pending' \in 0..Pending /\ ((main'.pc = "eol" <=> main.pc = "eol") => Pending' = Pending)
<1>1. /\ Holding("end")' = Holding("end") /\ (InHand("end")' <=> InHand("end"))
      /\ ToWrite("end")' <=> ToWrite("end")
  BY WayLeftAlone
<1>2. Cardinality(Holding("end")) \in Nat
  BY HoldingFinite
<1> QED
  BY <1>1, <1>2 DEF Pending

LEMMA PendingAndAnswer ==
  ASSUME TypeInvariant, AnswerInvariant, AnswerBegin
  PROVE  Pending' = Pending
<1>1. /\ writer.at = "out" /\ writer'.at = "wait" /\ main'.pc = main.pc /\ UNCHANGED tx
  BY AnswerBegins
<1>2. Holding("end")' = Holding("end") /\ ~InHand("end")
  BY <1>1, HoldingLeftAlone DEF InHand
<1>3. Cardinality(Holding("end")) \in Nat
  BY HoldingFinite
<1>4. CASE main.answer = <<"end">> /\ writer'.data = "end" /\ main'.answer = <<>>
  <2>1. ToWrite("end") /\ InHand("end")' /\ ~ToWrite("end")'
    BY <1>1, <1>4 DEF ToWrite, InHand
  <2> QED
    BY <1>1, <1>2, <1>3, <2>1 DEF Pending
<1>5. CASE main.answer = <<"hello">> /\ writer'.data = "hello" /\ main'.answer = <<>>
  <2>1. ~ToWrite("end") /\ ~InHand("end")' /\ ~ToWrite("end")'
    BY <1>1, <1>5 DEF ToWrite, InHand
  <2> QED
    BY <1>1, <1>2, <1>3, <2>1 DEF Pending
<1>6. CASE /\ main.answer \in {<<"ok", "end">>, <<"error", "end">>}
           /\ writer'.data \in {"ok", "error"} /\ main'.answer = <<"end">>
  <2>1. ToWrite("end") /\ ~InHand("end")' /\ ToWrite("end")'
    BY <1>6, ToWriteIs DEF ToWrite, InHand
  <2> QED
    BY <1>1, <1>2, <1>3, <2>1 DEF Pending
<1> QED
  BY <1>4, <1>5, <1>6, AnswerBegins

LEMMA PendingAndWriting ==
  ASSUME TypeInvariant, WriterInvariant, WriteStep
  PROVE  Pending' \in 0..Pending
<1> DEFINE c == "end"
<1>1. UNCHANGED main /\ (ToWrite(c)' <=> ToWrite(c))
  BY WriteSteps DEF ToWrite
<1>2. IsFiniteSet(Holding(c)) /\ Cardinality(Holding(c)) \in Nat
  BY HoldingFinite
<1>3. CASE writer.at = "wait" /\ writer'.at = "store" /\ writer'.data = writer.data /\ tx' = tx
  <2>1. Holding(c)' = Holding(c) /\ (InHand(c)' <=> InHand(c))
    BY <1>3, HoldingLeftAlone DEF InHand
  <2> QED
    BY <1>1, <1>2, <2>1 DEF Pending
<1>4. CASE sys.reset /\ writer.at = "wait" /\ writer'.at = "out" /\ tx' = tx
  <2>1. Holding(c)' = Holding(c) /\ ~InHand(c)'
    BY <1>4, HoldingLeftAlone DEF InHand
  <2> QED
    BY <1>1, <1>2, <2>1 DEF Pending
<1>5. CASE WriteStore /\ writer.at = "store" /\ writer'.at = "enable"
  <2>1. /\ Holding(c)' = Holding(c) \cup (IF writer.data = c THEN {tx.head} ELSE {})
        /\ tx.head \notin Holding(c)
    BY <1>5, HoldingStored
  <2>2. ~InHand(c)' /\ (InHand(c) <=> writer.data = c)
    BY <1>5 DEF InHand
  <2>3. CASE writer.data = c
    <3>1. Cardinality(Holding(c)') = Cardinality(Holding(c)) + 1
      BY <1>2, <2>1, <2>3, FS_AddElement
    <3> QED
      BY <1>1, <1>2, <2>2, <2>3, <3>1 DEF Pending
  <2>4. CASE writer.data # c
    BY <1>1, <1>2, <2>1, <2>2, <2>4 DEF Pending
  <2> QED
    BY <2>3, <2>4
<1>6. CASE /\ writer.at = "enable" /\ writer'.at = "out"
           /\ tx'.buf = tx.buf /\ tx'.head = tx.head /\ tx'.tail = tx.tail
  <2>1. Holding(c)' = Holding(c) /\ ~InHand(c)' /\ ~InHand(c)
    BY <1>6, HoldingLeftAlone DEF InHand
  <2> QED
    BY <1>1, <1>2, <2>1 DEF Pending
<1> QED
  BY <1>3, <1>4, <1>5, <1>6, WriteSteps

\* The interrupt sends one of them, or another character.
LEMMA PendingAndInterrupt ==
  ASSUME TypeInvariant, InterruptInvariant, TransmitISR
  PROVE  /\ wire' = "end" => Pending > 0 /\ Pending' = Pending - 1
         /\ wire' # "end" => Pending' = Pending
<1> DEFINE c == "end"
<1>1. Transmit /\ UNCHANGED <<main, writer>>
  BY TransmitTakes DEF TransmitISR
<1>2. (ToWrite(c)' <=> ToWrite(c)) /\ (InHand(c)' <=> InHand(c))
  BY <1>1 DEF ToWrite, InHand
<1>3. IsFiniteSet(Holding(c)) /\ Cardinality(Holding(c)) \in Nat
  BY HoldingFinite
<1>4. Holding(c)' = Holding(c) \ {tx.tail} /\ (tx.tail \in Holding(c) <=> wire' = c)
  BY <1>1, HoldingTaken
<1>5. CASE wire' = c
  <2>1. Cardinality(Holding(c)') = Cardinality(Holding(c)) - 1
    BY <1>3, <1>4, <1>5, FS_RemoveElement
  <2>2. Cardinality(Holding(c)) > 0
    BY <1>3, <1>4, <1>5, FS_EmptySet
  <2> QED
    BY <1>1, <1>2, <1>3, <1>5, <2>1, <2>2 DEF Pending
<1>6. CASE wire' # c
  <2>1. Holding(c)' = Holding(c)
    BY <1>4, <1>6
  <2> QED
    BY <1>1, <1>2, <1>3, <1>6, <2>1 DEF Pending
<1> QED
  BY <1>5, <1>6

LEMMA RxContents ==
  ASSUME TypeInvariant
  PROVE  /\ RxRing \in Nat \ {0, 1} /\ IsRing(rx, RxRing, RxChars \cup {None})
         /\ Used(rx, RxRing) \in 0..RxRing-1 /\ (Full(rx, RxRing) <=> Used(rx, RxRing) = RxRing - 1)
         /\ Contents(rx, RxRing) \in Seq(RxChars \cup {None})
         /\ Len(Contents(rx, RxRing)) = Used(rx, RxRing)
<1>1. RxRing \in Nat \ {0, 1} /\ IsRing(rx, RxRing, RxChars \cup {None})
  BY RingsAssumption DEF TypeInvariant, SerialType, IsRing
<1> QED
  BY <1>1, ContentsProperties

\* What the count is about: the host's text, with the line and the ring in it.
LEMMA TakenKept ==
  ASSUME NEW last, Taken(last),
         UNCHANGED rx, hist'.raw = hist.raw, host'.text = host.text,
         host'.greeted => host.greeted /\ host'.sent = host.sent,
         main'.pc = "eol" => main.pc = "eol"
  PROVE  Taken(last)'
BY DEF Taken

LEMMA CountedKept ==
  ASSUME TypeInvariant, NEW last, Counted(last),
         host'.text = host.text, host'.greeted = host.greeted, host'.acked = host.acked,
         host'.greeted => Pending' \in 0..Pending
  PROVE  Counted(last)'
<1> SUFFICES ASSUME host'.greeted PROVE host'.acked \in 0..last /\ Pending' <= Cardinality(Unanswered(last)')
  BY DEF Counted
<1>1. host.acked \in 0..last /\ Pending <= Cardinality(Unanswered(last)) /\ Pending' \in 0..Pending
  BY DEF Counted
<1>2. Unanswered(last)' = Unanswered(last)
  BY DEF Unanswered
<1>3. Pending \in Nat /\ Cardinality(Unanswered(last)) \in Nat
  BY PendingIsNumber, UnansweredFinite
<1> QED
  BY <1>1, <1>2, <1>3

\* The host waits for the greeting, between two lines and with nothing received of the
\* next one; and when it arrives, nothing else is on its way.
LEMMA TakenAfresh ==
  ASSUME TypeInvariant, host.sent \in LineStarts(host.text), host'.text = host.text,
         host'.sent = host.sent, Empty(rx'), hist'.raw = <<>>, main'.pc # "eol", TypeInvariant'
  PROVE  host.sent \in 0..Len(host.text) /\ Taken(host.sent)'
<1>1. host.sent \in 0..Len(host.text) /\ Len(host.text) \in Nat
  BY TextPositions
<1>2. Used(rx', RxRing) = 0
  BY DEF Used, Empty, TypeInvariant, SerialType
<1>3. Len(hist'.raw) = 0 /\ host.sent - 0 = host.sent /\ host.sent + 0 = host.sent
  BY <1>1
<1> QED
  BY <1>1, <1>2, <1>3 DEF Taken

LEMMA CountIfGreeted ==
  ASSUME TypeInvariant, TypeInvariant', InterruptInvariant, AnswerInvariant, GreetingInvariant,
         TransmitISR, wire' = "hello"
  PROVE  CountInvariant'
<1>1. /\ Greeting /\ ~host.greeted /\ ~sys.reset /\ main.pc \notin {"boot", "flush"}
      /\ host'.greeted /\ host'.sent = host.sent /\ host'.acked = host.sent /\ host'.text = host.text
      /\ UNCHANGED <<rx, writer, main>> /\ hist'.raw = hist.raw
  BY GreetingArrives
<1>2. host.sent \in LineStarts(host.text) /\ Empty(rx) /\ hist.raw = <<>> /\ main.pc # "eol"
  BY <1>1 DEF GreetingInvariant, Greeting
<1>3. host.sent \in 0..Len(host.text) /\ Taken(host.sent)'
  BY <1>1, <1>2, TakenAfresh
<1>4. Transmit
  BY DEF TransmitISR
<1>5. Advance(tx.tail, TxRing) = tx.head /\ ~ToWrite("hello") /\ ~InHand("hello")
  BY <1>1, <1>4, HoldingTaken DEF Greeting, LastOnWay
<1>6. main.answer = <<>> /\ writer.at \in {"out", "enable"}
  BY <1>1, <1>5 DEF Greeting, LastOnWay
<1>7. Empty(tx')
  BY <1>4, <1>5, TransmitTakes DEF Empty
<1>8. Holding("end")' = {}
  BY <1>7 DEF Holding, Occupied, Empty, TypeInvariant, SerialType
<1>9. ~ToWrite("end")' /\ ~InHand("end")'
  BY <1>1, <1>6 DEF ToWrite, InHand
<1>10. Pending' = 0
  <2>1. main'.pc # "eol" /\ Cardinality(Holding("end")') = 0
    BY <1>1, <1>2, <1>8, FS_EmptySet
  <2> QED
    BY <1>9, <2>1 DEF Pending
<1>11. Cardinality(Unanswered(host.sent)') = 0
  <2>1. Unanswered(host.sent)' = {}
    BY <1>1, TextPositions DEF Unanswered
  <2> QED
    BY <2>1, FS_EmptySet
<1>12. Counted(host.sent)'
  BY <1>1, <1>3, <1>10, <1>11 DEF Counted
<1> QED
  BY <1>1, <1>3, <1>12 DEF CountInvariant

LEMMA CountAndInterrupt ==
  ASSUME TypeInvariant, TypeInvariant', InterruptInvariant, AnswerInvariant, GreetingInvariant,
         CountInvariant, TransmitISR
  PROVE  CountInvariant'
<1> SUFFICES ASSUME wire' # "hello" PROVE CountInvariant'
  BY CountIfGreeted
<1>1. PICK last \in 0..Len(host.text) : Taken(last) /\ Counted(last)
  BY DEF CountInvariant
<1>2. /\ UNCHANGED <<rx, main>> /\ hist'.raw = hist.raw
      /\ host' = host \/ (wire' = "end" /\ host.greeted /\ host' = [host EXCEPT !.acked = Acknowledged(host)])
  BY TransmitTakes DEF TransmitISR, TypeInvariant, HistType
<1>3. CASE host' = host
  <2>1. Taken(last)'
    BY <1>1, <1>2, <1>3, TakenKept
  <2>2. Pending' \in 0..Pending
    BY PendingAndInterrupt, PendingIsNumber
  <2>3. Counted(last)'
    BY <1>1, <1>3, <2>2, CountedKept
  <2> QED
    BY <1>1, <1>3, <2>1, <2>3 DEF CountInvariant
<1>4. CASE wire' = "end" /\ host.greeted /\ host' = [host EXCEPT !.acked = Acknowledged(host)]
  <2>1. /\ host'.text = host.text /\ host'.greeted = host.greeted /\ host'.sent = host.sent
        /\ host'.acked = Acknowledged(host)
    BY <1>4 DEF TypeInvariant, HostType
  <2>2. Taken(last)'
    BY <1>1, <1>2, <2>1, TakenKept
  <2>3. Pending \in Nat /\ Pending > 0 /\ Pending' = Pending - 1
    BY <1>4, PendingAndInterrupt, PendingIsNumber
  <2>4. host.acked \in 0..last /\ Pending <= Cardinality(Unanswered(last))
    BY <1>1, <1>4 DEF Counted
  <2>5. IsFiniteSet(Unanswered(last)) /\ Cardinality(Unanswered(last)) \in Nat
    BY UnansweredFinite
  <2>6. Unanswered(last) # {}
    BY <2>3, <2>4, <2>5, FS_EmptySet
  <2>7. last \in 0..host.sent
    BY <1>1, <1>4, RxContents DEF Taken
  <2>8. /\ Acknowledged(host) \in Unanswered(last)
        /\ \A k \in Unanswered(last) : Acknowledged(host) <= k
    BY <2>4, <2>6, <2>7, Acknowledges
  <2>9. Unanswered(last)' = Unanswered(last) \ {Acknowledged(host)}
    BY <2>1, <2>4, <2>8, TextPositions DEF Unanswered
  <2>10. Cardinality(Unanswered(last)') = Cardinality(Unanswered(last)) - 1
    BY <2>5, <2>8, <2>9, FS_RemoveElement
  <2>11. Acknowledged(host) \in 0..last
    BY <2>8, TextPositions DEF Unanswered
  <2>12. Counted(last)'
    BY <2>1, <2>3, <2>4, <2>5, <2>10, <2>11 DEF Counted
  <2> QED
    BY <1>1, <2>1, <2>2, <2>12 DEF CountInvariant
<1> QED
  BY <1>2, <1>3, <1>4

\* The host sends only what has room: it knows of all characters but those of the lines
\* that have been answered since.
LEMMA CountIfSent ==
  ASSUME TypeInvariant, CountInvariant, host.counts, HostSend
  PROVE  CountInvariant'
<1>1. PICK last \in 0..Len(host.text) : Taken(last) /\ Counted(last)
  BY DEF CountInvariant
<1>2. /\ host.greeted /\ host.sent < Len(host.text) /\ host.sent - host.acked < RxRing - 1
      /\ Receive(host.sent + 1)
  BY DEF HostSend
<1>3. /\ host'.text = host.text /\ host'.greeted = host.greeted /\ host'.acked = host.acked
      /\ host'.sent = host.sent + 1 /\ UNCHANGED <<tx, writer, main, hist>>
  BY HostSends
<1>4. /\ last + Used(rx, RxRing) = host.sent
      /\ \A i \in 1..Used(rx, RxRing) : Contents(rx, RxRing)[i] = last + i
  BY <1>1, <1>2 DEF Taken
<1>5. host.acked \in 0..last
  BY <1>1, <1>2 DEF Counted
<1>6. ~Full(rx, RxRing)
  BY <1>2, <1>4, <1>5, RxContents
<1> DEFINE S == RxChars \cup {None}
<1>7. host.sent + 1 \in S
  BY <1>2, HostsAssumption DEF TypeInvariant, HostType
<1>8. Stored(rx, rx', RxRing, host.sent + 1)
  BY <1>2, <1>6 DEF Receive, Store, Stored, TypeInvariant, SerialType
<1>9. Contents(rx', RxRing) = Append(Contents(rx, RxRing), host.sent + 1)
  <2>1. RxRing \in Nat \ {0, 1} /\ IsRing(rx, RxRing, S)
    BY RxContents
  <2> HIDE DEF S
  <2> QED
    BY <1>6, <1>7, <1>8, <2>1, StoreAppends, Zenon
<1>10. Used(rx', RxRing) = Used(rx, RxRing) + 1
  BY <1>6, <1>8, RxContents, UsedAfterStore DEF Stored, IsRing
<1>11. \A i \in 1..Used(rx', RxRing) : Contents(rx', RxRing)[i] = last + i
  BY <1>4, <1>9, <1>10, RxContents
<1>12. Taken(last)'
  <2>1. last + Used(rx', RxRing) = host.sent + 1 /\ host.sent + 1 <= Len(host.text)
    BY <1>2, <1>4, <1>10, RxContents, TextPositions
  <2> QED
    BY <1>1, <1>3, <1>11, <2>1 DEF Taken
<1>13. Counted(last)'
  BY <1>1, <1>3, PendingLeftAlone, CountedKept
<1> QED
  BY <1>1, <1>3, <1>12, <1>13 DEF CountInvariant

\* The main loop takes the next character of the text.
LEMMA TakenIfRead ==
  ASSUME TypeInvariant, LineType, AtTail, NEW last \in 0..Len(host.text), Taken(last), ReadChar
  PROVE  /\ reader.data = last + 1 /\ last + 1 <= Len(host.text) /\ Taken(last + 1)'
<1> DEFINE q == Contents(rx, RxRing)
           n == Used(rx, RxRing)
<1>1. /\ ~Empty(rx) /\ reader.data = rx.buf[rx.tail]
      /\ rx'.buf = rx.buf /\ rx'.head = rx.head /\ rx'.tail = Advance(rx.tail, RxRing)
      /\ hist'.raw = Append(hist.raw, reader.data) /\ host' = host
  BY DEF ReadChar, ReadStore, AtTail, TypeInvariant, SerialType, HistType
<1>2. q # <<>> /\ Head(q) = reader.data /\ Contents(rx', RxRing) = Tail(q)
  <2> DEFINE S == RxChars \cup {None}
  <2>1. RxRing \in Nat \ {0, 1} /\ IsRing(rx, RxRing, S)
    BY RxContents
  <2> HIDE DEF S
  <2>2. q # <<>> /\ Head(q) = rx.buf[rx.tail] /\ Contents(rx', RxRing) = Tail(q)
    BY <1>1, <2>1, AdvanceTakes, Zenon
  <2> QED
    BY <1>1, <2>2
<1>3. n > 0 /\ Used(rx', RxRing) = n - 1
  BY <1>1, RxContents, UsedAfterTake DEF IsRing
<1>4. n \in Nat /\ Len(q) = n /\ q \in Seq(RxChars \cup {None}) /\ Len(host.text) \in Nat
  BY RxContents, TextPositions
<1>5. (\A i \in 1..n : q[i] = last + i) /\ last + n <= Len(host.text)
  BY DEF Taken
<1>6. reader.data = last + 1 /\ last + 1 <= Len(host.text)
  <2> HIDE DEF q, n
  <2> QED
    BY <1>2, <1>3, <1>4, <1>5
<1>7. \A i \in 1..n - 1 : Contents(rx', RxRing)[i] = last + 1 + i
  <2> SUFFICES ASSUME NEW i \in 1..n - 1 PROVE Tail(q)[i] = last + 1 + i
    BY <1>2
  <2> HIDE DEF q, n
  <2>1. Tail(q)[i] = q[i + 1] /\ i + 1 \in 1..n
    BY <1>2, <1>4, HeadTailProperties
  <2> QED
    BY <1>4, <1>5, <2>1
<1>8. /\ Len(hist.raw) \in Nat /\ Len(hist'.raw) = Len(hist.raw) + 1
      /\ \A i \in 1..Len(hist.raw) : hist'.raw[i] = hist.raw[i]
      /\ hist'.raw[Len(hist.raw) + 1] = last + 1
  <2>1. reader.data \in RxChars \cup {None} /\ hist.raw \in Seq(RxChars \cup {None})
    BY DEF TypeInvariant, SerialType, LineType
  <2> QED
    BY <1>1, <1>6, <2>1, AppendProperties
<1> DEFINE first == last - Len(hist.raw)
<1>9. last + 1 - Len(hist'.raw) = first
  BY <1>8
<1>10. \A i \in 1..Len(hist'.raw) : hist'.raw[i] = first + i
  <2>1. \A i \in 1..Len(hist.raw) : hist.raw[i] = first + i
    BY DEF Taken
  <2>2. first + (Len(hist.raw) + 1) = last + 1
    <3> DEFINE l == Len(hist.raw)
    <3>1. last \in Nat /\ l \in Nat
      BY <1>4, <1>8
    <3> HIDE DEF l
    <3>2. (last - l) + (l + 1) = last + 1
      BY <3>1
    <3> QED
      BY <3>2 DEF l
  <2> HIDE DEF first
  <2> QED
    BY <1>8, <2>1, <2>2
<1>11. host'.greeted => last + 1 + Used(rx', RxRing) = host'.sent
  BY <1>1, <1>3, <1>4 DEF Taken
<1>12. last + 1 + Used(rx', RxRing) <= Len(host'.text)
  BY <1>1, <1>3, <1>4, <1>5
<1>13. main'.pc = "eol" => last + 1 \in EndsOfLine(host'.text)
  <2> SUFFICES ASSUME main'.pc = "eol" PROVE last + 1 \in EndsOfLine(host.text)
    BY <1>1
  <2>1. host.text[reader.data] = "eol"
    BY DEF ReadChar, At, TypeInvariant, MainType
  <2> QED
    BY <1>6, <2>1, TextPositions DEF EndsOfLine
<1>14. first \in LineStarts(host'.text)
  BY <1>1 DEF Taken
<1>15. \A i \in 1..Used(rx', RxRing) : Contents(rx', RxRing)[i] = last + 1 + i
  BY <1>3, <1>7
<1>16. Taken(last + 1)'
  <2> HIDE DEF first, n, q
  <2> SUFFICES ASSUME NEW m, m = last + 1 PROVE Taken(m)'
    OBVIOUS
  <2>1. m - Len(hist'.raw) = first
    <3> DEFINE l == Len(hist'.raw)
    <3>1. last \in Int /\ l \in Int /\ m \in Int
      BY <1>4, <1>8
    <3>2. (last + 1) - l = first
      BY <1>4, <1>8 DEF first
    <3> HIDE DEF l
    <3>3. m - l = first
      BY <3>1, <3>2
    <3> QED
      BY <3>3 DEF l
  <2>2. /\ m - Len(hist'.raw) \in LineStarts(host'.text)
        /\ \A i \in 1..Len(hist'.raw) : hist'.raw[i] = (m - Len(hist'.raw)) + i
    BY <1>10, <1>14, <2>1, Zenon
  <2>3. \A i \in 1..Used(rx', RxRing) : Contents(rx', RxRing)[i] = m + i
    BY <1>15
  <2>4. /\ m + Used(rx', RxRing) <= Len(host'.text)
        /\ host'.greeted => m + Used(rx', RxRing) = host'.sent
    BY <1>11, <1>12
  <2>5. main'.pc = "eol" => m \in EndsOfLine(host'.text)
    BY <1>13
  <2> QED
    BY <2>2, <2>3, <2>4, <2>5 DEF Taken
<1> QED
  BY <1>6, <1>16

LEMMA CountIfRead ==
  ASSUME TypeInvariant, LineType, AtTail, CountInvariant, ReadChar
  PROVE  CountInvariant'
<1>1. PICK last \in 0..Len(host.text) : Taken(last) /\ Counted(last)
  BY DEF CountInvariant
<1>2. reader.data = last + 1 /\ last + 1 <= Len(host.text) /\ Taken(last + 1)'
  BY <1>1, TakenIfRead
<1>3. /\ host' = host /\ UNCHANGED <<tx, writer>> /\ main'.answer = main.answer /\ main.pc = "read"
      /\ main'.pc = "eol" <=> host.text[reader.data] = "eol"
  <2>1. host' = host
    BY DEF ReadChar
  <2>2. main'.pc = "eol" <=> host.text[reader.data] = "eol"
    BY DEF ReadChar, At, GoTo, TypeInvariant, MainType
  <2> QED
    BY <2>1, <2>2, WriterLeftAlone, MainSteps
<1>4. last + 1 \in EndsOfLine(host.text) <=> main'.pc = "eol"
  BY <1>2, <1>3, TextPositions DEF EndsOfLine
<1>5. ASSUME host.greeted
      PROVE  host.acked \in 0..last + 1 /\ Pending' <= Cardinality(Unanswered(last + 1)')
  <2>1. host.acked \in 0..last /\ Pending <= Cardinality(Unanswered(last))
    BY <1>1, <1>5 DEF Counted
  <2>2. Pending \in Nat /\ IsFiniteSet(Unanswered(last)) /\ Cardinality(Unanswered(last)) \in Nat
    BY PendingIsNumber, UnansweredFinite
  <2>3. CASE main'.pc = "eol"
    <3>1. Unanswered(last + 1)' = Unanswered(last) \cup {last + 1} /\ last + 1 \notin Unanswered(last)
      BY <1>3, <1>4, <2>1, <2>3, TextPositions DEF Unanswered
    <3>2. Cardinality(Unanswered(last + 1)') = Cardinality(Unanswered(last)) + 1
      BY <2>2, <3>1, FS_AddElement
    <3>3. Pending' = Pending + 1
      <4>1. /\ Holding("end")' = Holding("end") /\ (InHand("end")' <=> InHand("end"))
            /\ ToWrite("end")' <=> ToWrite("end")
        BY <1>3, WayLeftAlone
      <4> QED
        BY <1>3, <2>3, <4>1, HoldingFinite DEF Pending
    <3> QED
      BY <2>1, <2>2, <3>2, <3>3
  <2>4. CASE main'.pc # "eol"
    <3>1. Unanswered(last + 1)' = Unanswered(last)
      BY <1>3, <1>4, <2>1, <2>4, TextPositions DEF Unanswered
    <3>2. Pending' \in 0..Pending
      BY <1>3, <2>4, PendingLeftAlone
    <3> QED
      BY <2>1, <2>2, <3>1, <3>2
  <2> QED
    BY <2>3, <2>4
<1>6. Counted(last + 1)'
  BY <1>3, <1>5 DEF Counted
<1> QED
  BY <1>1, <1>2, <1>3, <1>6, TextPositions DEF CountInvariant

\* A line has been answered, or the initialisation forgets it.
LEMMA CountIfEnded ==
  ASSUME TypeInvariant, TypeInvariant', AnswerInvariant, GreetingInvariant, CountInvariant,
         EndOfLine \/ Flush
  PROVE  CountInvariant'
<1>1. PICK last \in 0..Len(host.text) : Taken(last) /\ Counted(last)
  BY DEF CountInvariant
<1>2. CASE Flush
  <2>1. /\ main.pc = "flush" /\ main'.pc = "answer" /\ Empty(rx') /\ hist'.raw = <<>>
        /\ host' = host
    BY <1>2, FlushDoes
  <2>2. ~host.greeted /\ host.sent \in LineStarts(host.text)
    BY <2>1 DEF GreetingInvariant
  <2>3. host.sent \in 0..Len(host.text) /\ Taken(host.sent)'
    BY <2>1, <2>2, TakenAfresh
  <2>4. Counted(host.sent)'
    BY <2>1, <2>2 DEF Counted
  <2> QED
    BY <2>1, <2>3, <2>4 DEF CountInvariant
<1>3. CASE EndOfLine
  <2>1. main.pc = "eol" /\ UNCHANGED <<rx, tx, writer, host>>
    BY <1>3, EndOfLineDoes
  <2>2. CASE sys.reset
    <3>1. main'.pc = "boot" /\ hist' = hist /\ ~host.greeted
      BY <1>3, <2>1, <2>2, EndOfLineDoes DEF GreetingInvariant
    <3>2. Taken(last)'
      BY <1>1, <2>1, <3>1, TakenKept
    <3>3. Counted(last)'
      BY <2>1, <3>1 DEF Counted
    <3> QED
      BY <1>1, <2>1, <3>2, <3>3 DEF CountInvariant
  <2>3. CASE ~sys.reset
    <3>1. /\ hist'.raw = <<>> /\ main'.pc = "answer"
          /\ main'.answer \in {<<"ok", "end">>, <<"error", "end">>}
      BY <1>3, <2>3, EndOfLineDoes
    <3>2. last \in LineStarts(host.text) /\ last - 0 = last
      BY <1>1, <2>1, TextPositions DEF Taken
    <3>3. Taken(last)'
      <4>1. Len(hist'.raw) = 0
        BY <3>1
      <4> QED
        BY <1>1, <2>1, <3>1, <3>2, <4>1 DEF Taken
    <3>4. Pending' \in 0..Pending
      <4>1. Holding("end")' = Holding("end") /\ (InHand("end")' <=> InHand("end"))
        BY <2>1, HoldingLeftAlone DEF InHand
      <4>2. ~ToWrite("end")
        BY <2>1 DEF AnswerInvariant, ToWrite
      <4>3. ToWrite("end")'
        BY <3>1 DEF ToWrite
      <4> QED
        BY <2>1, <3>1, <4>1, <4>2, <4>3, HoldingFinite DEF Pending
    <3>5. Counted(last)'
      BY <1>1, <2>1, <3>4, CountedKept
    <3> QED
      BY <1>1, <2>1, <3>3, <3>5 DEF CountInvariant
  <2> QED
    BY <2>2, <2>3
<1> QED
  BY <1>2, <1>3

\* The steps that leave the host, the ring and the line alone.
LEMMA CountLeftAlone ==
  ASSUME TypeInvariant, WriterInvariant, AnswerInvariant, CountInvariant,
         \/ Boot \/ ReadStep \/ NothingToRead \/ Idle \/ AnswerBegin \/ WriteStep \/ AnswerEnd
         \/ UNCHANGED vars
  PROVE  CountInvariant'
<1>1. PICK last \in 0..Len(host.text) : Taken(last) /\ Counted(last)
  BY DEF CountInvariant
<1>2. host' = host /\ rx' = rx /\ hist'.raw = hist.raw
  <2>1. CASE Boot \/ ReadStep \/ AnswerEnd \/ UNCHANGED vars
    BY <2>1, Zenon DEF Boot, ReadStep, ReadBegin, ReadLoad, AnswerEnd, vars
  <2>2. CASE Idle \/ AnswerBegin \/ WriteStep
    BY <2>2, IdleDoes, AnswerBegins, WriteSteps
  <2>3. CASE NothingToRead
    BY <2>3 DEF NothingToRead, ReadNothing, TypeInvariant, HistType
  <2> QED
    BY <2>1, <2>2, <2>3
<1>3. (main'.pc = "eol" => main.pc = "eol") /\ Pending' \in 0..Pending
  <2>1. CASE AnswerBegin
    BY <2>1, AnswerBegins, PendingAndAnswer, PendingIsNumber
  <2>2. CASE WriteStep
    BY <2>2, WriteSteps, PendingAndWriting
  <2>3. CASE Boot \/ ReadStep \/ NothingToRead \/ Idle \/ AnswerEnd \/ UNCHANGED vars
    <3>1. UNCHANGED <<tx, writer>> /\ main'.answer = main.answer /\ (main'.pc = "eol" => main.pc = "eol")
      BY <2>3, MainSteps, WriterLeftAlone DEF vars
    <3> QED
      BY <3>1, PendingLeftAlone
  <2> QED
    BY <2>1, <2>2, <2>3
<1>4. Taken(last)'
  BY <1>1, <1>2, <1>3, TakenKept
<1>5. Counted(last)'
  BY <1>1, <1>2, <1>3, CountedKept
<1> QED
  BY <1>1, <1>2, <1>4, <1>5 DEF CountInvariant

LEMMA CountStep ==
  ASSUME TypeInvariant, TypeInvariant', LineType, StreamedInvariant, WriterInvariant, InterruptInvariant,
         ~hist.cancelled, ~hist'.cancelled, host.counts, [Next]_vars
  PROVE  CountInvariant'
<1>1. AtTail /\ AnswerInvariant /\ GreetingInvariant /\ CountInvariant
  BY DEF StreamedInvariant, ReaderInvariant
<1>2. CASE HostReset
  <2>1. PICK last \in 0..Len(host.text) : Taken(last) /\ Counted(last)
    BY <1>1 DEF CountInvariant
  <2>2. ~host'.greeted /\ host'.text = host.text /\ UNCHANGED <<rx, main, hist>>
    BY <1>2, HostResets
  <2>3. Taken(last)' /\ Counted(last)'
    BY <2>1, <2>2, TakenKept DEF Counted
  <2> QED
    BY <2>1, <2>2, <2>3 DEF CountInvariant
<1>3. CASE HostCancel
  BY <1>3, HostCancels
<1> QED
  BY <1>1, <1>2, <1>3, CountIfSent, CountAndInterrupt, CountIfRead, CountIfEnded, CountLeftAlone
  DEF Next, Host, Main

LEMMA HistorySteps ==
  ASSUME TypeInvariant, [Next]_vars
  PROVE  host'.counts = host.counts /\ (~hist'.cancelled => ~hist.cancelled)
<1>1. CASE Host
  <2>1. hist' = hist \/ hist'.cancelled
    BY <1>1, HostSends, HostResets, HostCancels DEF Host
  <2> QED
    BY <1>1, <2>1, HostSends, HostResets, HostCancels DEF Host
<1>2. CASE TransmitISR
  BY <1>2 DEF TransmitISR, TypeInvariant, HostType, HistType
<1>3. CASE Flush \/ EndOfLine \/ Idle
  BY <1>3, FlushDoes, EndOfLineDoes, IdleDoes
<1>4. CASE WriteStep
  BY <1>4, WriteSteps
<1>5. CASE Boot \/ ReadStep \/ AnswerBegin \/ AnswerEnd \/ UNCHANGED vars
  <2>1. host' = host /\ hist' = hist
    BY <1>5, Zenon DEF Boot, ReadStep, AnswerBegin, AnswerEnd, vars
  <2> QED
    BY <2>1
<1>6. CASE ReadChar \/ NothingToRead
  BY <1>6 DEF ReadChar, NothingToRead, TypeInvariant, HistType
<1> QED
  BY <1>1, <1>2, <1>3, <1>4, <1>5, <1>6 DEF Next, Main

LEMMA StreamedStep ==
  ASSUME TypeInvariant, TypeInvariant', LineType, WriterInvariant, InterruptInvariant,
         StreamedInvariant, [Next]_vars
  PROVE  StreamedInvariant'
<1> SUFFICES ASSUME ~hist'.cancelled
             PROVE  /\ ReaderInvariant' /\ AnswerInvariant' /\ GreetingInvariant'
                    /\ host'.counts => CountInvariant'
  BY DEF StreamedInvariant
<1>1. ~hist.cancelled /\ host'.counts = host.counts
  BY HistorySteps
<1>2. ReaderInvariant /\ AtTail /\ AnswerInvariant /\ GreetingInvariant
  BY <1>1 DEF StreamedInvariant, ReaderInvariant
<1>3. ReaderInvariant'
  BY <1>2, ReaderStep
<1>4. AnswerInvariant'
  BY <1>2, AnswerStep
<1>5. GreetingInvariant'
  BY <1>2, GreetingStep
<1>6. host.counts => CountInvariant'
  BY <1>1, CountStep
<1> QED
  BY <1>1, <1>3, <1>4, <1>5, <1>6

LEMMA StreamedInit == Init => StreamedInvariant
<1> SUFFICES ASSUME Init PROVE StreamedInvariant
  OBVIOUS
<1>0. TypeInvariant
  BY TypeInit
<1>1. /\ main.pc = "boot" /\ main.answer = <<>> /\ writer.at = "out" /\ reader.at = "out"
      /\ Empty(rx) /\ Empty(tx) /\ sys.reset = FALSE /\ hist.raw = <<>> /\ ~hist.overtaken
  BY DEF Init, SerialInit, Empty
<1>2. ~host.greeted /\ host.sent = 0
  BY DEF Init
<1>3. ReaderInvariant /\ AnswerInvariant
  BY <1>1 DEF ReaderInvariant, AtTail, AnswerInvariant
<1>4. Holding("hello") = {}
  BY <1>0, <1>1 DEF Holding, Occupied, Empty, TypeInvariant, SerialType
<1>5. ~OnItsWay("hello")
  BY <1>1, <1>4 DEF OnItsWay, InHand, ToWrite
<1>6. GreetingInvariant
  BY <1>0, <1>1, <1>2, <1>5, TextPositions DEF GreetingInvariant
<1>7. Taken(0)
  <2>1. Used(rx, RxRing) = 0 /\ Len(hist.raw) = 0 /\ 0 - 0 = 0 /\ 0 + 0 = 0
    BY <1>0, <1>1 DEF Used, Empty, TypeInvariant, SerialType
  <2>2. 0 \in LineStarts(host.text) /\ 0 <= Len(host.text)
    BY <1>0, TextPositions
  <2> QED
    BY <1>1, <1>2, <2>1, <2>2 DEF Taken
<1>8. CountInvariant
  BY <1>0, <1>2, <1>7, TextPositions DEF CountInvariant, Counted
<1> QED
  BY <1>3, <1>6, <1>8 DEF StreamedInvariant

LEMMA TakenIsWhole ==
  ASSUME TypeInvariant, LineType, NEW last \in 0..Len(host.text), Taken(last)
  PROVE  LinesAreWhole
<1> SUFFICES ASSUME hist.raw # <<>>
             PROVE  /\ \A i \in 1..Len(hist.raw) - 1 : hist.raw[i + 1] = hist.raw[i] + 1
                    /\ hist.raw[1] = 1 \/ host.text[hist.raw[1] - 1] = "eol"
  BY DEF LinesAreWhole
<1> DEFINE n == Len(hist.raw)
           start == last - n
<1>1. n \in Nat /\ n > 0 /\ Len(host.text) \in Nat /\ last \in Nat /\ last <= Len(host.text)
  <2>1. hist.raw \in Seq(RxChars \cup {None})
    BY DEF LineType
  <2> QED
    BY <2>1, TextPositions, EmptySeq, LenProperties
<1>2. start \in LineStarts(host.text) /\ \A i \in 1..n : hist.raw[i] = start + i
  BY DEF Taken
<1>3. start \in Int /\ start < Len(host.text) /\ start + 1 - 1 = start
  <2> HIDE DEF n
  <2> QED
    BY <1>1
<1>4. start = 0 \/ start \in EndsOfLine(host.text)
  <2> HIDE DEF start
  <2> QED
    BY <1>2, <1>3 DEF LineStarts
<1>5. hist.raw[1] = start + 1
  <2> HIDE DEF start, n
  <2> QED
    BY <1>1, <1>2
<1>6. \A i \in 1..n - 1 : hist.raw[i + 1] = hist.raw[i] + 1
  <2> HIDE DEF start, n
  <2> QED
    BY <1>1, <1>2, <1>3
<1> QED
  <2> HIDE DEF start
  <2> QED
    BY <1>3, <1>4, <1>5, <1>6 DEF EndsOfLine

\* A host that counts as the protocol asks is executed line by line, whatever the sizes
\* of the rings, its text and its resets: no character of a line is lost for want of room,
\* and no line is joined with another (protocol.cpp:80-149) - if at most one interrupt falls
\* between the store of an answer's character and the instruction that enables it.
THEOREM LinesAreWholeAlways == Burst <= 1 => (Spec => []LinesAreWhole)
<1> SUFFICES ASSUME Burst <= 1 PROVE Spec => []LinesAreWhole
  OBVIOUS
<1> DEFINE Inv == TypeInvariant /\ LineInvariant /\ WriterInvariant /\ InterruptInvariant /\ StreamedInvariant
<1>1. Init => Inv
  <2> SUFFICES ASSUME Init PROVE Inv
    OBVIOUS
  <2>1. WriterInvariant /\ InterruptInvariant
    BY DEF Init, SerialInit, WriterInvariant, InterruptInvariant
  <2> QED
    BY <2>1, TypeInit, LineInit, StreamedInit
<1>2. Inv /\ [Next]_vars => Inv'
  <2> SUFFICES ASSUME Inv, [Next]_vars PROVE Inv'
    OBVIOUS
  <2>1. TypeInvariant'
    BY SerialTypeStep, MainTypeStep, HostTypeStep, HistTypeStep, SysTypeStep DEF TypeInvariant
  <2>2. LineInvariant' /\ WriterInvariant' /\ InterruptInvariant'
    BY LineStep, WriterStep, InterruptStep
  <2>3. StreamedInvariant'
    BY <2>1, StreamedStep DEF LineInvariant
  <2> QED
    BY <2>1, <2>2, <2>3
<1>3. Inv => LinesAreWhole
  <2> SUFFICES ASSUME Inv, host.counts, ~hist.cancelled PROVE LinesAreWhole
    BY DEF LinesAreWhole
  <2>1. PICK last \in 0..Len(host.text) : Taken(last)
    BY DEF StreamedInvariant, CountInvariant
  <2> QED
    BY <2>1, TakenIsWhole DEF LineInvariant
<1> QED
  BY <1>1, <1>2, <1>3, PTL DEF Spec

=============================================================================
