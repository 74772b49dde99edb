----------------------- MODULE ProgramPositionProofs -----------------------
(***************************************************************************)
(* Where a program is, as the host and as the parser see it.               *)
(*                                                                         *)
(* A host knows the work offset or will with the next report, for every    *)
(* program: the offset the parser holds is the one last told, or an action *)
(* that has it told is still to come. The end of a program takes the       *)
(* offset of the first system from the EEPROM; it finds a sound record     *)
(* because a record that is half written is completed before anything else *)
(* is done, or lost with the power.                                        *)
(*                                                                         *)
(* At rest the parser is where the planner is: between the lines because   *)
(* every line that moves the one moves the other, and in the middle of a   *)
(* line because the actions that are left take the parser where they take  *)
(* the planner. What is killed in between is synchronised, in time.        *)
(*                                                                         *)
(* What the lines mean is what their actions lead to: the last action that *)
(* sets a field or a record counts. The active system leads to its record, *)
(* and the position and the offsets to the work position the words name;   *)
(* every action that is done, waits or is replaced carries that on.        *)
(***************************************************************************)
EXTENDS ProgramProofs

\* A record is being written: its first byte is.
InWrite(todo) == todo # <<>> /\ todo[1].do \in LaterBytes

Whole(n) == Sound(eeprom.records[n]) \/ (InWrite(main.todo) /\ main.todo[1].record = n)

\* From boot on the record of the first system is sound, or being written.
FirstIsWhole == main.pc # "boot" => Whole(0)

\* The bytes that are written are those of the record.
BytesWritten ==
  InWrite(main.todo) =>
    LET op == main.todo[1]
        data == eeprom.records[op.record].data
    IN /\ data["X"] = op.data["X"]
       /\ op.do # "put_y" => data["Y"] = op.data["Y"]
       /\ op.do = "put_sum" => data["Z"] = op.data["Z"]

Stored == FirstIsWhole /\ BytesWritten

\* The offset was told, will be with the next report, or is yet to be announced.
Told ==
  /\ DOMAIN report = {"counter", "told"}
  /\ \/ report.told = WorkOffset(gc) \/ report.counter = 0
     \/ main.pc = "boot" \/ Has(main.todo, {"wco"})

OffsetInv == Inv /\ Stored /\ Told

SameOffsets(g, h) ==
  /\ h.coord_system = g.coord_system /\ h.coord_offset = g.coord_offset
  /\ h.tool_length_offset = g.tool_length_offset

-----------------------------------------------------------------------------
(* Steps that write nothing and change no offset.                           *)

LEMMA FreshWritesNothing ==
  ASSUME NEW todo, Fresh(todo)
  PROVE  ~InWrite(todo)
BY DEF Fresh, InWrite, Arriving

\* Only the byte before it leads to a later byte.
LEMMA WritesNothing ==
  ASSUME NEW todo, Chain(todo), todo # <<>>, todo[1].do \notin Writes
  PROVE  ~InWrite(todo) /\ ~InWrite(Tail(todo))
<1>1. ~InWrite(todo)
  BY DEF InWrite, Writes
<1>2. ASSUME Tail(todo) # <<>> PROVE Tail(todo)[1].do \notin LaterBytes
  <2>1. /\ Chain(Tail(todo)) /\ Len(Tail(todo)) = Len(todo) - 1 /\ Len(todo) \in Nat
        /\ \A i \in 1..Len(Tail(todo)) : Tail(todo)[i] = todo[i + 1]
    BY TailIsChain, ChainLength
  <2>2. 1 \in 1..Len(Tail(todo)) /\ 1 \in 1..Len(todo)
    BY <1>2, <2>1, ChainLength
  <2>3. 1 < Len(todo) /\ Tail(todo)[1] = todo[1 + 1]
    BY <2>1, <2>2
  <2>4. Follows(todo[1], todo[1 + 1])
    BY <2>2, <2>3 DEF Chain
  <2>5. QED
    BY <2>3, <2>4 DEF Follows, Writes, LaterBytes
<1>3. QED
  BY <1>1, <1>2 DEF InWrite

\* An announcement that is still to come after the first action.
LEMMA StillAnnounced ==
  ASSUME NEW todo, Chain(todo), todo # <<>>, todo[1].do # "wco", Has(todo, {"wco"})
  PROVE  Has(Tail(todo), {"wco"})
<1>1. PICK i \in 1..Len(todo) : todo[i].do = "wco"
  BY DEF Has
<1>2. /\ Len(Tail(todo)) = Len(todo) - 1 /\ Len(todo) \in Nat
      /\ \A j \in 1..Len(Tail(todo)) : Tail(todo)[j] = todo[j + 1]
  BY TailIsChain, ChainLength
<1>3. i - 1 \in 1..Len(Tail(todo)) /\ (i - 1) + 1 = i
  BY <1>1, <1>2
<1>4. Tail(todo)[i - 1] = todo[i]
  BY <1>2, <1>3
<1>5. QED
  BY <1>1, <1>3, <1>4 DEF Has

LEMMA AnnouncedBehind ==
  ASSUME NEW s, IsSeq(s), NEW t, IsSeq(t), NEW K, Has(t, K) \/ Has(s, K)
  PROVE  Has(s \o t, K)
<1> DEFINE u == s \o t
<1>1. PICK S, T : s \in Seq(S) /\ t \in Seq(T)
  BY DEF IsSeq
<1>2. /\ Len(s) \in Nat /\ Len(t) \in Nat
      /\ \A i \in 1..Len(s) : i \in 1..Len(u) /\ u[i] = s[i]
      /\ \A i \in 1..Len(t) : i + Len(s) \in 1..Len(u) /\ u[i + Len(s)] = t[i]
  BY <1>1
<1> HIDE DEF u
<1>3. QED
  BY <1>2 DEF Has, u

LEMMA StoredStays ==
  ASSUME Stored, eeprom'.records = eeprom.records, main.pc # "boot" \/ main'.pc = "boot",
         main'.todo = main.todo \/ (~InWrite(main.todo) /\ ~InWrite(main'.todo))
  PROVE  Stored'
BY DEF Stored, FirstIsWhole, Whole, BytesWritten

LEMMA ToldStays ==
  ASSUME Told, SameOffsets(gc, gc'), UNCHANGED report, main.pc # "boot" \/ main'.pc = "boot",
         Has(main.todo, {"wco"}) => Has(main'.todo, {"wco"})
  PROVE  Told'
<1>1. WorkOffset(gc') = WorkOffset(gc)
  BY DEF SameOffsets, WorkOffset
<1>2. QED
  BY <1>1 DEF Told

\* The first action is done, which wrote nothing, announced nothing and changed no
\* offset.
LEMMA DoneStays ==
  ASSUME OffsetInv, main.todo # <<>>, main.todo[1].do \notin Writes \cup {"wco"},
         main.pc # "boot", main'.todo = Tail(main.todo), UNCHANGED report,
         eeprom'.records = eeprom.records, SameOffsets(gc, gc')
  PROVE  Stored' /\ Told'
<1>1. Chain(main.todo)
  BY DEF OffsetInv, Inv, Work
<1>2. Stored'
  BY <1>1, WritesNothing, StoredStays DEF OffsetInv
<1>3. Told'
  BY <1>1, StillAnnounced, ToldStays DEF OffsetInv
<1>4. QED
  BY <1>2, <1>3

\* It waits, or an interrupt was served.
LEMMA WaitStays ==
  ASSUME OffsetInv, main.pc # "boot" \/ main'.pc = "boot", main'.todo = main.todo,
         UNCHANGED <<eeprom, report>>, SameOffsets(gc, gc')
  PROVE  Stored' /\ Told'
BY StoredStays, ToldStays DEF OffsetInv

\* A line begins.
LEMMA BeginStays ==
  ASSUME OffsetInv, main.todo = <<>>, main.pc # "boot", Fresh(main'.todo),
         UNCHANGED <<gc, eeprom, report>>
  PROVE  Stored' /\ Told'
<1>1. Len(<<>>) = 0
  OBVIOUS
<1>2. ~InWrite(main.todo) /\ ~InWrite(main'.todo)
  BY FreshWritesNothing DEF InWrite
<1>3. ~Has(main.todo, {"wco"})
  BY <1>1 DEF Has
<1>4. SameOffsets(gc, gc')
  BY DEF SameOffsets
<1>5. QED
  BY <1>2, <1>3, <1>4, StoredStays, ToldStays DEF OffsetInv

-----------------------------------------------------------------------------
(* The actions of a block.                                                  *)

LEMMA MotorsOnly ==
  ASSUME NEW s, DOMAIN s = {"gc", "machine", "plan", "rt", "main"}
  PROVE  /\ Started(s).gc = s.gc /\ DOMAIN Started(s) = DOMAIN s
         /\ Stopped(s).gc = s.gc /\ DOMAIN Stopped(s) = DOMAIN s
BY DEF Started, Stopped

Fields == Tracked \ {"position"}
SameFields(g, h) == \A f \in Fields : h[f] = g[f]

\* A check point changes no offset: a jog cancel takes the position alone.
LEMMA PolledFields ==
  ASSUME NEW s, StateShape(s)
  PROVE  SameFields(s.gc, Polled(s).gc)
<1> DEFINE alarmed == IF s.rt.alarm = "NONE" THEN s
                      ELSE [s EXCEPT !.machine = [@ EXCEPT !.state = "ALARM"],
                                     !.rt = [@ EXCEPT !.alarm = "NONE"]]
           done == Stopped(Started(Cancelled(alarmed)))
           cleared == [done EXCEPT !.rt = [@ EXCEPT !.flags = {}]]
           aborted == [alarmed EXCEPT !.main = [@ EXCEPT !.abort = TRUE]]
<1>1. Polled(s) = IF "reset" \in s.rt.flags THEN aborted ELSE cleared
  BY Zenon DEF Polled
<1>2. alarmed.gc = s.gc /\ DOMAIN alarmed = DOMAIN s
  BY DEF StateShape
<1> HIDE DEF alarmed
<1>3. SameFields(s.gc, Cancelled(alarmed).gc) /\ DOMAIN Cancelled(alarmed) = DOMAIN s
  <2> DEFINE t == Flushed(alarmed)
  <2>1. t.gc = [alarmed.gc EXCEPT !.position = alarmed.machine.pos] /\ DOMAIN t = DOMAIN s
    BY <1>2 DEF Flushed, StateShape
  <2> HIDE DEF t
  <2>2. SameFields(alarmed.gc, t.gc)
    BY <1>2, <2>1 DEF SameFields, Fields, StateShape, GcShape
  <2>3. SameFields(alarmed.gc, alarmed.gc)
    BY DEF SameFields
  <2>4. QED
    BY <1>2, <2>1, <2>2, <2>3 DEF Cancelled, t
<1> DEFINE c == Cancelled(alarmed)
<1>4. DOMAIN s = {"gc", "machine", "plan", "rt", "main"}
  BY DEF StateShape
<1> HIDE DEF c
<1>5. Started(c).gc = c.gc /\ DOMAIN Started(c) = DOMAIN s
  BY <1>3, <1>4, MotorsOnly DEF c
<1>6. done.gc = c.gc /\ DOMAIN done = DOMAIN s
  <2> DEFINE d == Started(c)
  <2>1. d.gc = c.gc /\ DOMAIN d = DOMAIN s
    BY <1>5
  <2> HIDE DEF d
  <2>2. Stopped(d).gc = d.gc /\ DOMAIN Stopped(d) = DOMAIN s
    BY <1>4, <2>1, MotorsOnly
  <2>3. QED
    BY <2>1, <2>2 DEF c, d
<1> HIDE DEF done
<1>7. cleared.gc = done.gc /\ aborted.gc = alarmed.gc
  BY <1>2, <1>4, <1>6
<1> HIDE DEF cleared, aborted
<1>8. SameFields(s.gc, cleared.gc) /\ SameFields(s.gc, aborted.gc)
  BY <1>2, <1>3, <1>6, <1>7 DEF c, SameFields
<1>9. QED
  BY <1>1, <1>8

LEMMA PolledOffsets ==
  ASSUME NEW s, StateShape(s)
  PROVE  SameOffsets(s.gc, Polled(s).gc)
BY PolledFields DEF SameOffsets, SameFields, Fields, Tracked

\* Modes, positions, motions and outputs.
LEMMA ModesStay ==
  ASSUME OffsetInv,
         \/ DoSet /\ Op("set")
         \/ DoPosition \/ DoNoOutputs \/ DoPause \/ LineInCheckMode \/ ProbeInCheckMode
         \/ DoStore \/ DoJog \/ DoReset \/ HomeFound \/ HomeSkipped
  PROVE  Stored' /\ Told'
<1>1. Inv
  BY DEF OffsetInv
<1>2. \E name \in {"set", "position", "outputs", "pause", "line", "probe", "store", "jog",
                   "reset", "home"} : Op(name)
  BY DEF DoPosition, DoNoOutputs, DoPause, LineInCheckMode, ProbeInCheckMode, DoStore, DoJog,
         DoReset, HomeFound, HomeSkipped
<1>3. main.pc = "run" /\ main.todo # <<>> /\ main.todo[1].do \notin Writes \cup {"wco"}
  BY <1>1, <1>2, OpIsGood DEF Op, Writes, LaterBytes
<1>4. main' = Done /\ UNCHANGED report
  BY DEF DoSet, DoPosition, DoNoOutputs, DoPause, LineInCheckMode, ProbeInCheckMode, DoStore,
         DoJog, DoReset, HomeFound, HomeSkipped
<1>5. main'.todo = Tail(main.todo)
  BY <1>1, <1>4, MainChanges DEF Inv, Shapes
<1>6. eeprom'.records = eeprom.records
  BY <1>1 DEF DoSet, DoPosition, DoNoOutputs, DoPause, LineInCheckMode, ProbeInCheckMode, DoStore,
              DoJog, DoReset, HomeFound, HomeSkipped, Inv, Shapes, EepromShape
<1>7. SameOffsets(gc, gc')
  <2>1. CASE DoSet /\ Op("set")
    <3> DEFINE d == TheOp.to
    <3>1. DOMAIN d \cap Tracked = {}
      BY <1>1, <2>1, OpIsGood DEF GoodOp, Writes, LaterBytes
    <3>2. gc' = Updated(gc, d)
      BY <2>1 DEF DoSet
    <3> HIDE DEF d
    <3>3. QED
      BY <1>1, <3>1, <3>2 DEF Updated, SameOffsets, Inv, Shapes, GcShape, Tracked
  <2>2. CASE DoPosition \/ ProbeInCheckMode
    BY <1>1, <2>2 DEF DoPosition, ProbeInCheckMode, SameOffsets, Inv, Shapes, GcShape, Tracked
  <2>3. CASE UNCHANGED gc
    BY <2>3 DEF SameOffsets
  <2>4. QED
    BY <2>1, <2>2, <2>3 DEF DoNoOutputs, DoPause, LineInCheckMode, DoStore, DoJog, DoReset,
                            HomeFound, HomeSkipped
<1>8. QED
  BY <1>3, <1>4, <1>5, <1>6, <1>7, DoneStays

\* An offset is announced behind its change, and told after that.
LEMMA OffsetsStay ==
  ASSUME OffsetInv, (DoSet /\ Op("offset")) \/ DoWco
  PROVE  Stored' /\ Told'
<1>1. Inv
  BY DEF OffsetInv
<1>2. Op("offset") \/ Op("wco")
  BY DEF DoWco
<1>3. /\ main.pc = "run" /\ main.todo # <<>> /\ main.todo[1].do \in {"offset", "wco"}
      /\ Chain(main.todo) /\ 1 \in 1..Len(main.todo)
  BY <1>1, <1>2, OpIsGood DEF Op, Inv, Work
<1>4. main'.todo = Tail(main.todo) /\ UNCHANGED eeprom
  BY <1>1, MainChanges DEF DoSet, DoWco, Inv, Shapes
<1>5. Stored'
  BY <1>3, <1>4, WritesNothing, StoredStays DEF OffsetInv, Writes, LaterBytes
<1>6. CASE DoSet /\ Op("offset")
  <2>1. main.todo[1].do = "offset"
    BY <1>1, <1>6, OpIsGood
  <2>2. PICK j \in 1..Len(main.todo) : j > 1 /\ main.todo[j].do = "wco"
    BY <1>3, <2>1 DEF Chain, Announced
  <2>3. Has(main.todo, {"wco"})
    BY <2>2 DEF Has
  <2>4. Has(Tail(main.todo), {"wco"})
    BY <1>3, <2>1, <2>3, StillAnnounced
  <2>5. QED
    BY <1>4, <1>5, <1>6, <2>4 DEF OffsetInv, Told, DoSet
<1>7. CASE DoWco
  <2>1. report' = [report EXCEPT !.counter = 0]
    BY <1>7 DEF DoWco
  <2>2. QED
    BY <1>5, <2>1 DEF OffsetInv, Told
<1>8. QED
  BY <1>6, <1>7

\* The byte after this one, of the same record.
LEMMA NextByte ==
  ASSUME NEW todo, Chain(todo), todo # <<>>, todo[1].do \in Unwritten
  PROVE  LET op == todo[1]
             next == Tail(todo)[1]
         IN /\ Tail(todo) # <<>> /\ next.record = op.record /\ next.data = op.data
            /\ op.do = "put_x" => next.do = "put_y"
            /\ op.do = "put_y" => next.do = "put_z"
            /\ op.do = "put_z" => next.do = "put_sum"
<1> DEFINE t == Tail(todo)
<1>1. 1 \in 1..Len(todo) /\ Len(todo) \in Nat
  BY ChainLength
<1>2. 1 < Len(todo)
  BY <1>1 DEF Chain, Awaiting
<1>3. Follows(todo[1], todo[1 + 1])
  BY <1>1, <1>2 DEF Chain
<1>4. /\ Len(t) = Len(todo) - 1 /\ Chain(t)
      /\ \A i \in 1..Len(t) : t[i] = todo[i + 1]
  BY TailIsChain
<1> HIDE DEF t
<1>5. t # <<>> /\ 1 \in 1..Len(t)
  <2>1. Len(t) \in Nat /\ (t = <<>> <=> Len(t) = 0)
    BY <1>4, ChainLength
  <2>2. QED
    BY <1>1, <1>2, <1>4, <2>1
<1>6. t[1] = todo[1 + 1]
  BY <1>4, <1>5
<1>7. QED
  BY <1>3, <1>5, <1>6 DEF Follows, t

LEMMA PutStays ==
  ASSUME OffsetInv, DoPut
  PROVE  Stored' /\ Told'
<1> DEFINE op == main.todo[1]
           next == main'.todo[1]
           n == op.record
<1>1. Inv /\ EepromShape
  BY DEF OffsetInv, Inv, Shapes
<1>2. PICK name \in DOMAIN ByteOf :
        Op(name) /\ eeprom' = [eeprom EXCEPT !.records[TheOp.record].data[ByteOf[name]] =
                                               TheOp.data[ByteOf[name]]]
  BY DEF DoPut
<1>3. /\ main.pc = "run" /\ main.todo # <<>> /\ TheOp = op /\ op.do = name /\ GoodOp(op)
      /\ Chain(main.todo)
  BY <1>1, <1>2, OpIsGood DEF Op, Inv, Work
<1>4. main' = Done /\ UNCHANGED <<gc, report>>
  BY DEF DoPut
<1>5. main'.todo = Tail(main.todo)
  BY <1>1, <1>4, MainChanges DEF Inv, Shapes
<1>6. name \in Unwritten /\ name \in Writes /\ name # "wco" /\ ByteOf[name] \in Axes
  BY DEF ByteOf, Unwritten, Writes, LaterBytes, Axes
<1>7. n \in Records /\ op.data \in Vector
  BY <1>3, <1>6 DEF GoodOp
<1>8. /\ main'.todo # <<>> /\ next.record = n /\ next.data = op.data
      /\ name = "put_x" => next.do = "put_y"
      /\ name = "put_y" => next.do = "put_z"
      /\ name = "put_z" => next.do = "put_sum"
  BY <1>3, <1>5, <1>6, NextByte
<1>9. /\ \A m \in Records \ {n} : eeprom'.records[m] = eeprom.records[m]
      /\ \A a \in Axes : eeprom'.records[n].data[a] =
                           IF a = ByteOf[name] THEN op.data[a] ELSE eeprom.records[n].data[a]
  BY <1>1, <1>2, <1>3, <1>6, <1>7 DEF EepromShape, Vector
<1> HIDE DEF op, next, n
<1>10. InWrite(main'.todo)
  BY <1>6, <1>8 DEF InWrite, next, Unwritten, LaterBytes
<1>11. FirstIsWhole'
  <2>1. CASE n = 0
    BY <1>8, <1>10, <2>1 DEF FirstIsWhole, Whole, next
  <2>2. CASE n # 0
    <3>1. Whole(0) /\ 0 \in Records
      BY <1>3 DEF OffsetInv, Stored, FirstIsWhole, Records, IndexG30, NCoordinateSystem
    <3>2. Sound(eeprom.records[0])
      BY <2>2, <3>1 DEF Whole, op, n
    <3>3. eeprom'.records[0] = eeprom.records[0]
      BY <1>9, <2>2, <3>1
    <3>4. QED
      BY <3>2, <3>3 DEF FirstIsWhole, Whole
  <2>3. QED
    BY <2>1, <2>2
<1>12. BytesWritten'
  <2> DEFINE data == eeprom'.records[n].data
             old == eeprom.records[n].data
  <2>1. /\ name = "put_x" => data["X"] = op.data["X"]
        /\ name = "put_y" => data["Y"] = op.data["Y"] /\ data["X"] = old["X"]
        /\ name = "put_z" => /\ data["Z"] = op.data["Z"] /\ data["X"] = old["X"]
                             /\ data["Y"] = old["Y"]
    BY <1>9 DEF ByteOf, Axes
  <2>2. name # "put_x" => /\ old["X"] = op.data["X"]
                          /\ name = "put_z" => old["Y"] = op.data["Y"]
    BY <1>3, <1>6 DEF OffsetInv, Stored, BytesWritten, InWrite, op, n, Unwritten, LaterBytes
  <2> HIDE DEF data, old
  <2>3. name \in {"put_x", "put_y", "put_z"}
    BY <1>6 DEF Unwritten
  <2>4. /\ data["X"] = op.data["X"]
        /\ next.do # "put_y" => data["Y"] = op.data["Y"]
        /\ next.do = "put_sum" => data["Z"] = op.data["Z"]
    BY <1>8, <2>1, <2>2, <2>3
  <2>5. QED
    BY <1>8, <2>4 DEF BytesWritten, data, next
<1>13. Told'
  <2>1. Has(main.todo, {"wco"}) => Has(main'.todo, {"wco"})
    BY <1>3, <1>5, <1>6, StillAnnounced DEF op
  <2>2. QED
    BY <1>3, <1>4, <2>1, ToldStays DEF OffsetInv, SameOffsets
<1>14. QED
  BY <1>11, <1>12, <1>13 DEF Stored

LEMMA SumStays ==
  ASSUME OffsetInv, DoSum
  PROVE  Stored' /\ Told'
<1> DEFINE op == main.todo[1]
           n == op.record
<1>1. Inv /\ EepromShape
  BY DEF OffsetInv, Inv, Shapes
<1>2. Op("put_sum") /\ eeprom' = [eeprom EXCEPT !.records[TheOp.record].sum = Sum(TheOp.data)]
  BY DEF DoSum
<1>3. /\ main.pc = "run" /\ main.todo # <<>> /\ TheOp = op /\ op.do = "put_sum" /\ GoodOp(op)
      /\ Chain(main.todo) /\ 1 \in 1..Len(main.todo)
  BY <1>1, <1>2, OpIsGood DEF Op, Inv, Work
<1>4. main' = Done /\ UNCHANGED <<gc, report>>
  BY DEF DoSum
<1>5. main'.todo = Tail(main.todo)
  BY <1>1, <1>4, MainChanges DEF Inv, Shapes
<1>6. n \in Records /\ op.data \in Vector
  BY <1>3 DEF GoodOp, Writes, LaterBytes
<1>7. InWrite(main.todo)
  BY <1>3 DEF InWrite, LaterBytes
<1>8. eeprom.records[n].data = op.data
  <2>1. \A a \in Axes : eeprom.records[n].data[a] = op.data[a]
    BY <1>3, <1>7 DEF OffsetInv, Stored, BytesWritten, Axes
  <2>2. eeprom.records[n].data \in Vector
    BY <1>1, <1>6 DEF EepromShape
  <2> HIDE DEF n, op
  <2>3. QED
    BY <1>6, <2>1, <2>2 DEF Vector
<1>9. /\ \A m \in Records \ {n} : eeprom'.records[m] = eeprom.records[m]
      /\ Sound(eeprom'.records[n])
  BY <1>1, <1>2, <1>3, <1>6, <1>8 DEF EepromShape, Sound
<1>10. ~InWrite(main'.todo)
  <2>1. Fresh(Tail(main.todo))
    BY <1>3, TailIsChain DEF Unwritten
  <2>2. QED
    BY <1>5, <2>1, FreshWritesNothing
<1>11. FirstIsWhole'
  <2>1. Whole(0) /\ 0 \in Records
    BY <1>3 DEF OffsetInv, Stored, FirstIsWhole, Records, IndexG30, NCoordinateSystem
  <2>2. n # 0 => Sound(eeprom.records[0])
    BY <2>1 DEF Whole
  <2> HIDE DEF n, op
  <2>3. Sound(eeprom'.records[0])
    BY <1>9, <2>1, <2>2
  <2>4. QED
    BY <2>3 DEF FirstIsWhole, Whole
<1>12. BytesWritten'
  BY <1>10 DEF BytesWritten
<1>13. Told'
  <2>1. Has(main.todo, {"wco"}) => Has(main'.todo, {"wco"})
    BY <1>3, <1>5, StillAnnounced
  <2>2. QED
    BY <1>3, <1>4, <2>1, ToldStays DEF OffsetInv, SameOffsets
<1>14. QED
  BY <1>11, <1>12, <1>13 DEF Stored

\* The end of a program finds the record of the first system sound.
LEMMA EndStays ==
  ASSUME OffsetInv, DoEnd
  PROVE  Stored' /\ Told'
<1> DEFINE record == eeprom.records[0]
           t == Tail(main.todo)
<1>1. Inv
  BY DEF OffsetInv
<1>2. Op("end") /\ UNCHANGED <<eeprom, report>>
  BY DEF DoEnd
<1>3. /\ main.pc = "run" /\ main.todo # <<>> /\ main.todo[1].do = "end" /\ Chain(main.todo)
  BY <1>1, <1>2, OpIsGood DEF Op, Inv, Work
<1>4. ~InWrite(main.todo)
  BY <1>3 DEF InWrite, LaterBytes
<1>5. Sound(record)
  BY <1>3, <1>4 DEF OffsetInv, Stored, FirstIsWhole, Whole
<1>6. CASE machine.state = "CHECK"
  <2>1. gc' = [gc EXCEPT !.coord_select = 0] /\ main' = Done
    BY <1>6 DEF DoEnd
  <2>2. SameOffsets(gc, gc')
    BY <1>1, <2>1 DEF SameOffsets, Inv, Shapes, GcShape, Tracked
  <2>3. main'.todo = t
    BY <1>1, <2>1, MainChanges DEF Inv, Shapes
  <2>4. QED
    BY <1>2, <1>3, <2>2, <2>3, DoneStays DEF Writes, LaterBytes
<1>7. CASE machine.state # "CHECK"
  <2>1. main' = [Done EXCEPT !.todo = OffsetChanged \o @]
    BY <1>5, <1>7 DEF DoEnd
  <2>2. main'.todo = OffsetChanged \o t
    <3>1. Done.todo = t
      BY <1>1, MainChanges DEF Inv, Shapes
    <3>2. main' = [Done EXCEPT !.todo = OffsetChanged \o t]
      BY <2>1, <3>1
    <3>3. QED
      BY <1>1, <3>2, MainChanges DEF Inv, Shapes
  <2>3. Part(OffsetChanged, {"sync", "wco"}) /\ Has(OffsetChanged, {"wco"})
    BY OffsetChangedIsFresh DEF Has
  <2>4. Fresh(t) /\ Plain(t)
    BY <1>1, <1>2, PlainTail DEF JogKinds, HomingKinds, Writes, LaterBytes
  <2> HIDE DEF t
  <2>5. Fresh(OffsetChanged \o t)
    BY <2>3, <2>4, PlainConcat DEF HomingKinds
  <2>6. Has(OffsetChanged \o t, {"wco"})
    BY <2>3, <2>4, AnnouncedBehind DEF Part, Fresh, Chain
  <2>7. Stored'
    BY <1>2, <1>3, <1>4, <2>2, <2>5, FreshWritesNothing, StoredStays DEF OffsetInv
  <2>8. QED
    BY <1>2, <2>2, <2>6, <2>7 DEF OffsetInv, Told
<1>8. QED
  BY <1>6, <1>7

-----------------------------------------------------------------------------
(* Check points and waits.                                                  *)

\* What a check point makes of the state: the first action waits on, or is done.
LEMMA BecomesStays ==
  ASSUME OffsetInv, main.pc # "boot", NEW t, Become(t), SameOffsets(gc, t.gc),
         UNCHANGED <<eeprom, report>>,
         \/ t.main.todo = main.todo
         \/ /\ main.todo # <<>> /\ main.todo[1].do \notin Writes \cup {"wco"}
            /\ t.main.todo = Tail(main.todo)
  PROVE  Stored' /\ Told'
<1>1. main' = t.main /\ SameOffsets(gc, gc') /\ eeprom'.records = eeprom.records
  BY DEF Become
<1>2. CASE main'.todo = main.todo
  BY <1>1, <1>2, WaitStays
<1>3. CASE main'.todo # main.todo
  BY <1>1, <1>3, DoneStays
<1>4. QED
  BY <1>2, <1>3

LEMMA OffsetsChain ==
  ASSUME NEW f, NEW g, NEW h, SameOffsets(f, g), SameOffsets(g, h)
  PROVE  SameOffsets(f, h)
BY DEF SameOffsets

\* A check point between two actions, or in one.
LEMMA CheckPoint ==
  ASSUME Inv
  PROVE  LET s == Polled(State)
         IN /\ Good(s) /\ Preserved(State, s) /\ SameOffsets(gc, s.gc)
            /\ s.main.todo = main.todo /\ s.main.abort \in BOOLEAN
<1>1. Good(State) /\ State.gc = gc /\ State.main = main /\ StateShape(State)
  BY StateIsGood DEF Good
<1> DEFINE s == Polled(State)
<1>2. Good(s) /\ Preserved(State, s)
  BY <1>1, PolledIsGood
<1>3. SameOffsets(gc, s.gc)
  BY <1>1, PolledOffsets
<1> HIDE DEF s
<1>4. s.main.todo = main.todo /\ s.main.abort \in BOOLEAN
  BY <1>1, <1>2 DEF Preserved, Good, StateShape, MainShape
<1>5. QED
  BY <1>2, <1>3, <1>4 DEF s

LEMMA SyncStays ==
  ASSUME OffsetInv, SyncWait
  PROVE  Stored' /\ Told'
<1> DEFINE s == Polled(State)
           over == s.main.abort \/ (s.plan.queue = <<>> /\ s.machine.state # "CYCLE")
           t == [s EXCEPT !.main = [Done EXCEPT !.abort = s.main.abort]]
<1>1. /\ main.pc = "sync" /\ Become(IF over THEN t ELSE s) /\ UNCHANGED <<eeprom, report>>
  BY Zenon DEF SyncWait
<1>2. Inv
  BY DEF OffsetInv
<1>3. /\ Good(s) /\ Preserved(State, s) /\ SameOffsets(gc, s.gc) /\ s.main.todo = main.todo
      /\ s.main.abort \in BOOLEAN
  BY <1>2, CheckPoint
<1> HIDE DEF s
<1>4. /\ main.todo # <<>> /\ main.todo[1].do # "homed"
      /\ main.todo[1].do \notin Writes \cup {"wco"}
  BY <1>1, <1>2 DEF Inv, Work, WaitsInAction, Writes, LaterBytes
<1>5. t.main.todo = Tail(main.todo) /\ t.gc = s.gc
  <2>1. main.todo # <<>> /\ main.todo[1].do # "homed"
    BY <1>4
  <2>2. QED
    BY <1>2, <1>3, <2>1, PolledDone
<1> HIDE DEF t, over
<1>6. QED
  BY <1>1, <1>3, <1>4, <1>5, BecomesStays

LEMMA LineStays ==
  ASSUME OffsetInv, LineWait
  PROVE  Stored' /\ Told'
<1> DEFINE s == Polled(State)
           full == Len(s.plan.queue) >= QueueSize
           done == [s EXCEPT !.main = [Done EXCEPT !.abort = s.main.abort]]
           started == [s EXCEPT !.rt = Raise(@, "start")]
           buffered == [done EXCEPT !.plan = Buffered(@, TheOp.target)]
<1>1. /\ main.pc = "line" /\ UNCHANGED <<eeprom, report>>
      /\ CASE s.main.abort -> Become(done)
           [] ~s.main.abort /\ full -> Become(started)
           [] OTHER -> Become(buffered)
  BY Zenon DEF LineWait
<1>2. Inv
  BY DEF OffsetInv
<1>3. /\ Good(s) /\ Preserved(State, s) /\ SameOffsets(gc, s.gc) /\ s.main.todo = main.todo
      /\ s.main.abort \in BOOLEAN
  BY <1>2, CheckPoint
<1> HIDE DEF s
<1>4. main.todo # <<>> /\ main.todo[1].do = "line"
  BY <1>1, <1>2 DEF Inv, Work, WaitsInAction
<1>5. done.main.todo = Tail(main.todo) /\ done.gc = s.gc /\ Good(done)
  BY <1>2, <1>3, <1>4, PolledDone
<1>6. started.main = s.main /\ started.gc = s.gc
  BY <1>3 DEF Good, StateShape
<1> HIDE DEF done
<1>7. buffered.main = done.main /\ buffered.gc = done.gc
  BY <1>5 DEF Good, StateShape
<1>8. main.todo[1].do \notin Writes \cup {"wco"}
  BY <1>4 DEF Writes, LaterBytes
<1> HIDE DEF started, buffered, full
<1>9. PICK t : /\ Become(t) /\ SameOffsets(gc, t.gc)
               /\ t.main.todo = main.todo \/ t.main.todo = Tail(main.todo)
  BY <1>1, <1>3, <1>5, <1>6, <1>7
<1>10. QED
  BY <1>1, <1>4, <1>8, <1>9, BecomesStays

\* A line out of the travel.
LEMMA SoftLimitStays ==
  ASSUME OffsetInv, SoftLimit \/ Critical
  PROVE  Stored' /\ Told'
<1> DEFINE s == Polled(State)
           t == [s EXCEPT !.main = [Done EXCEPT !.abort = TRUE]]
<1>1. /\ Op("line") \/ main.pc = "critical"
      /\ \/ Become(t)
         \/ main' = At("critical") /\ UNCHANGED gc
         \/ main' = [Done EXCEPT !.abort = TRUE] /\ UNCHANGED gc
      /\ UNCHANGED <<eeprom, report>>
  BY Zenon DEF SoftLimit, Critical
<1>2. Inv
  BY DEF OffsetInv
<1>3. main.pc # "boot" /\ main.todo # <<>> /\ main.todo[1].do = "line"
  <2>1. CASE Op("line")
    BY <1>2, <2>1, OpIsGood DEF Op
  <2>2. CASE main.pc = "critical"
    BY <1>2, <2>2 DEF Inv, Work, WaitsInAction
  <2>3. QED
    BY <1>1, <2>1, <2>2
<1>4. t.main.todo = Tail(main.todo) /\ SameOffsets(gc, t.gc)
  <2>1. Good(s) /\ Preserved(State, s) /\ SameOffsets(gc, s.gc)
    BY <1>2, CheckPoint
  <2> HIDE DEF s
  <2>2. t.main.todo = Tail(main.todo) /\ t.gc = s.gc
    BY <1>2, <1>3, <2>1, PolledDone
  <2>3. QED
    BY <2>1, <2>2
<1>5. main.todo[1].do \notin Writes \cup {"wco"}
  BY <1>3 DEF Writes, LaterBytes
<1>6. At("critical").todo = main.todo /\ [Done EXCEPT !.abort = TRUE].todo = Tail(main.todo)
  BY <1>2, MainChanges DEF Inv, Shapes
<1> HIDE DEF t
<1>7. CASE Become(t)
  BY <1>1, <1>3, <1>4, <1>5, <1>7, BecomesStays
<1>8. CASE main' = At("critical") /\ UNCHANGED gc
  BY <1>1, <1>3, <1>6, <1>8, WaitStays DEF SameOffsets
<1>9. CASE main' = [Done EXCEPT !.abort = TRUE] /\ UNCHANGED gc
  BY <1>1, <1>3, <1>5, <1>6, <1>9, DoneStays DEF SameOffsets
<1>10. QED
  BY <1>1, <1>7, <1>8, <1>9

\* An alarm is raised, and the first action is done.
LEMMA AlarmedOffsets ==
  ASSUME Inv, NEW name, Op(name), name # "homed", NEW r, RtShape(r)
  PROVE  LET v == Polled([State EXCEPT !.rt = r, !.main = Done])
         IN SameOffsets(gc, v.gc) /\ v.main.todo = Tail(main.todo)
<1> DEFINE u == State
           t == [u EXCEPT !.rt = r, !.main = Done]
           v == Polled(t)
<1>1. Good(t)
  BY AlarmedIsGood, Zenon
<1>2. Good(u) /\ u.gc = gc
  BY StateIsGood
<1>3. v = Polled([State EXCEPT !.rt = r, !.main = Done])
  OBVIOUS
<1> HIDE DEF u
<1>4. t.gc = gc /\ t.main = Done
  BY <1>2 DEF Good, StateShape
<1> HIDE DEF t
<1>5. Preserved(t, v) /\ SameOffsets(t.gc, v.gc)
  BY <1>1, PolledIsGood, PolledOffsets DEF Good
<1> HIDE DEF v
<1>6. v.main.todo = Tail(main.todo)
  BY <1>4, <1>5, MainChanges DEF Preserved, Inv, Shapes
<1>7. SameOffsets(gc, v.gc) /\ v.main.todo = Tail(main.todo)
  BY <1>4, <1>5, <1>6
<1>8. QED
  BY <1>3, <1>7, Zenon

\* A probe that is closed, and homing that fails.
LEMMA AlarmsStay ==
  ASSUME OffsetInv, ProbeClosed \/ HomeFailed
  PROVE  Stored' /\ Told'
<1> DEFINE r == [rt EXCEPT !.alarm = "PROBE_FAIL_INITIAL"]
           f == AfterReset([rt EXCEPT !.alarm = "HOMING_FAIL"])
           closed == Polled([State EXCEPT !.rt = r, !.main = Done])
           failed == Polled([State EXCEPT !.rt = f, !.main = Done])
<1>1. Inv
  BY DEF OffsetInv
<1>2. RtShape(r) /\ RtShape(f)
  BY <1>1, FlagsAreGood DEF Inv, Shapes
<1>3. /\ (Op("probe_open") /\ Become(closed)) \/ (Op("home") /\ Become(failed))
      /\ UNCHANGED <<eeprom, report>>
  <2>1. [State EXCEPT !.rt = [@ EXCEPT !.alarm = "PROBE_FAIL_INITIAL"], !.main = Done]
           = [State EXCEPT !.rt = r, !.main = Done]
    <3> DEFINE s == State
    <3>1. s.rt = rt
      BY <1>1, StateIsGood
    <3> HIDE DEF s
    <3>2. [s EXCEPT !.rt = [@ EXCEPT !.alarm = "PROBE_FAIL_INITIAL"], !.main = Done]
             = [s EXCEPT !.rt = r, !.main = Done]
      BY <3>1
    <3>3. QED
      BY <3>2 DEF s
  <2>2. CASE ProbeClosed
    BY <2>1, <2>2, Zenon DEF ProbeClosed
  <2>3. CASE HomeFailed
    BY <2>3, Zenon DEF HomeFailed
  <2>4. QED
    BY <2>2, <2>3
<1> HIDE DEF r, f
<1>4. Op("probe_open") => SameOffsets(gc, closed.gc) /\ closed.main.todo = Tail(main.todo)
  <2>1. "probe_open" # "homed"
    OBVIOUS
  <2>2. QED
    BY <1>1, <1>2, <2>1, AlarmedOffsets, Zenon
<1>5. Op("home") => SameOffsets(gc, failed.gc) /\ failed.main.todo = Tail(main.todo)
  <2>1. "home" # "homed"
    OBVIOUS
  <2>2. QED
    BY <1>1, <1>2, <2>1, AlarmedOffsets, Zenon
<1> HIDE DEF closed, failed
<1>6. PICK v : Become(v) /\ SameOffsets(gc, v.gc) /\ v.main.todo = Tail(main.todo)
  BY <1>3, <1>4, <1>5
<1>7. main.pc # "boot" /\ main.todo # <<>> /\ main.todo[1].do \notin Writes \cup {"wco"}
  BY <1>1, <1>3, OpIsGood DEF Op, Writes, LaterBytes
<1>8. QED
  BY <1>3, <1>6, <1>7, BecomesStays

\* The end of a probing cycle takes the position alone.
LEMMA ProbeStays ==
  ASSUME OffsetInv, ProbeWait
  PROVE  Stored' /\ Told'
<1> DEFINE s == Polled(State)
           aborted == [s EXCEPT !.main = [Done EXCEPT !.abort = TRUE]]
<1>1. /\ main.pc = "probing" /\ UNCHANGED <<eeprom, report>>
      /\ Become(aborted) \/ Become(Probed(s)) \/ Become(s)
  <2> DEFINE end == CASE s.main.abort -> aborted
                      [] ~s.main.abort /\ s.machine.state = "IDLE" -> Probed(s)
                      [] OTHER -> s
  <2>1. main.pc = "probing" /\ Become(end) /\ UNCHANGED <<eeprom, report>>
    BY Zenon DEF ProbeWait
  <2> HIDE DEF s, aborted
  <2>2. end = aborted \/ end = Probed(s) \/ end = s
    BY Zenon
  <2> HIDE DEF end
  <2>3. QED
    BY <2>1, <2>2
<1>2. Inv
  BY DEF OffsetInv
<1>3. /\ Good(s) /\ Preserved(State, s) /\ SameOffsets(gc, s.gc) /\ s.main.todo = main.todo
      /\ s.main.abort \in BOOLEAN
  BY <1>2, CheckPoint
<1> HIDE DEF s
<1>4. main.todo # <<>> /\ main.todo[1].do = "probe_run"
  BY <1>1, <1>2 DEF Inv, Work, WaitsInAction
<1>5. aborted.main.todo = Tail(main.todo) /\ aborted.gc = s.gc
  BY <1>2, <1>3, <1>4, PolledDone
<1>6. Probed(s).main.todo = Tail(main.todo) /\ SameOffsets(gc, Probed(s).gc)
  <2> DEFINE alarmed == [s EXCEPT !.rt = [@ EXCEPT !.alarm = "PROBE_FAIL_CONTACT"]]
             before == IF ~main.contact /\ ~TheOp.silent THEN alarmed ELSE s
             polled == Polled(before)
             point == IF main.contact THEN s.machine.pos ELSE TheOp.target
             v == [Done EXCEPT !.abort = polled.main.abort]
             t == [polled EXCEPT
                     !.machine = [@ EXCEPT !.moving = FALSE],
                     !.plan = [queue |-> <<>>, pos |-> s.machine.pos],
                     !.main = v,
                     !.gc = [@ EXCEPT !.position = point]]
  <2>1. Probed(s) = t
    BY Zenon DEF Probed
  <2>2. StateShape(s)
    BY <1>3 DEF Good
  <2>3. /\ DOMAIN alarmed = DOMAIN s /\ alarmed.gc = s.gc /\ alarmed.machine = s.machine
        /\ alarmed.plan = s.plan /\ alarmed.main = s.main
        /\ alarmed.rt = [s.rt EXCEPT !.alarm = "PROBE_FAIL_CONTACT"]
    BY <2>2 DEF StateShape
  <2> HIDE DEF alarmed
  <2>4. StateShape(alarmed) /\ Preserved(s, alarmed)
    BY <2>2, <2>3 DEF StateShape, RtShape, Preserved
  <2>5. Good(alarmed)
    BY <1>3, <2>3, <2>4, KeptIsGood
  <2>6. Good(before) /\ StateShape(before) /\ before.gc = s.gc
    BY <1>3, <2>2, <2>3, <2>4, <2>5
  <2> HIDE DEF before
  <2>7. Good(polled) /\ SameOffsets(s.gc, polled.gc)
    BY <2>6, PolledIsGood, PolledOffsets
  <2> HIDE DEF polled
  <2>8. StateShape(polled) /\ polled.main.abort \in BOOLEAN
    BY <2>7 DEF Good, StateShape, MainShape
  <2>9. v.todo = Tail(main.todo)
    BY <1>2, <2>8, MainChanges DEF Inv, Shapes
  <2> HIDE DEF v, point
  <2>10. t.main = v /\ t.gc = [polled.gc EXCEPT !.position = point]
    BY <2>8 DEF StateShape
  <2> HIDE DEF t
  <2>11. SameOffsets(polled.gc, t.gc)
    BY <2>8, <2>10 DEF SameOffsets, StateShape, GcShape, Tracked
  <2>12. t.main.todo = Tail(main.todo) /\ SameOffsets(gc, t.gc)
    BY <1>3, <2>7, <2>9, <2>10, <2>11, OffsetsChain
  <2>13. QED
    BY <2>1, <2>12
<1>7. main.todo[1].do \notin Writes \cup {"wco"}
  BY <1>4 DEF Writes, LaterBytes
<1> HIDE DEF aborted
<1>8. PICK t : /\ Become(t) /\ SameOffsets(gc, t.gc)
               /\ t.main.todo = main.todo \/ t.main.todo = Tail(main.todo)
  BY <1>1, <1>3, <1>5, <1>6
<1>9. QED
  BY <1>1, <1>4, <1>7, <1>8, BecomesStays

\* The end of a homing cycle.
LEMMA HomedStays ==
  ASSUME OffsetInv, Homed
  PROVE  Stored' /\ Told'
<1> DEFINE s == Polled(State)
           aborted == [s EXCEPT !.main = [Done EXCEPT !.abort = TRUE]]
           v == [Done EXCEPT !.startup = TheOp.startup]
           synced == [s EXCEPT !.machine = [@ EXCEPT !.state = "IDLE", !.moving = FALSE],
                               !.gc = [@ EXCEPT !.position = s.machine.pos],
                               !.plan = [@ EXCEPT !.pos = s.machine.pos],
                               !.main = v]
<1>1. /\ Op("homed") /\ UNCHANGED <<eeprom, report>>
      /\ Become(IF s.main.abort THEN aborted ELSE synced)
  BY Zenon DEF Homed
<1>2. Inv
  BY DEF OffsetInv
<1>3. /\ Good(s) /\ Preserved(State, s) /\ SameOffsets(gc, s.gc) /\ s.main.todo = main.todo
      /\ s.main.abort \in BOOLEAN
  BY <1>2, CheckPoint
<1> HIDE DEF s
<1>4. main.pc = "run" /\ main.todo # <<>> /\ main.todo[1].do = "homed"
  BY <1>1, <1>2, OpIsGood DEF Op
<1>5. aborted.main.todo = Tail(main.todo) /\ aborted.gc = s.gc
  BY <1>2, <1>3, <1>4, PolledDone
<1>6. v.todo = Tail(main.todo)
  BY <1>2 DEF Inv, Shapes, MainShape, Done
<1> HIDE DEF v
<1>7. synced.main.todo = Tail(main.todo) /\ SameOffsets(gc, synced.gc)
  <2>1. StateShape(s)
    BY <1>3 DEF Good
  <2>2. synced.main = v /\ synced.gc = [s.gc EXCEPT !.position = s.machine.pos]
    BY <2>1 DEF StateShape
  <2> HIDE DEF synced
  <2>3. SameOffsets(s.gc, synced.gc)
    BY <2>1, <2>2 DEF SameOffsets, StateShape, GcShape, Tracked
  <2>4. QED
    BY <1>3, <1>6, <2>2, <2>3, OffsetsChain
<1>8. main.todo[1].do \notin Writes \cup {"wco"}
  BY <1>4 DEF Writes, LaterBytes
<1> HIDE DEF aborted, synced
<1>9. QED
  BY <1>1, <1>3, <1>4, <1>5, <1>7, <1>8, BecomesStays

\* Between two lines: an abort leads to boot.
LEMMA IdleStays ==
  ASSUME OffsetInv, Idle
  PROVE  Stored' /\ Told'
<1> DEFINE start(r) == [State EXCEPT !.rt = r]
           s(r) == Polled(start(r))
           booting(r) == [s(r) EXCEPT !.main = [@ EXCEPT !.pc = "boot"]]
           next(r) == IF s(r).main.abort THEN booting(r) ELSE s(r)
<1>1. /\ main.pc = "idle" /\ UNCHANGED <<eeprom, report>>
      /\ \E r \in {rt, AutoStart(rt)} : Become(next(r))
  BY Zenon DEF Idle
<1>2. PICK r \in {rt, AutoStart(rt)} : Become(next(r))
  BY <1>1
<1>3. Inv
  BY DEF OffsetInv
<1>4. RtShape(r)
  BY <1>3, FlagsAreGood DEF Inv, Shapes
<1>5. Good(start(r)) /\ start(r).main = main /\ start(r).gc = gc
  <2> DEFINE s0 == State
             t == [s0 EXCEPT !.rt = r]
  <2>1. Good(s0) /\ s0.main = main /\ s0.gc = gc
    BY <1>3, StateIsGood
  <2>2. start(r) = t
    OBVIOUS
  <2> HIDE DEF s0
  <2>3. StateShape(s0)
    BY <2>1 DEF Good
  <2>4. /\ DOMAIN t = DOMAIN s0 /\ t.gc = s0.gc /\ t.machine = s0.machine /\ t.plan = s0.plan
        /\ t.main = s0.main /\ t.rt = r
    BY <2>3 DEF StateShape
  <2> HIDE DEF t, start
  <2>5. StateShape(t) /\ Preserved(s0, t)
    BY <1>4, <2>3, <2>4 DEF StateShape, Preserved
  <2>6. QED
    BY <2>1, <2>2, <2>4, <2>5, KeptIsGood
<1> HIDE DEF start
<1> DEFINE u == s(r)
           v == [u EXCEPT !.main = [@ EXCEPT !.pc = "boot"]]
<1>6. Good(u) /\ Preserved(start(r), u) /\ SameOffsets(start(r).gc, u.gc)
  BY <1>5, PolledIsGood, PolledOffsets DEF Good
<1>7. Become(IF u.main.abort THEN v ELSE u)
  BY <1>2
<1> HIDE DEF u
<1>8. u.main.todo = main.todo
  BY <1>5, <1>6 DEF Preserved
<1>9. v.main.todo = main.todo /\ v.gc = u.gc
  BY <1>6, <1>8 DEF Good, StateShape, MainShape
<1> HIDE DEF v
<1>10. QED
  BY <1>1, <1>5, <1>6, <1>7, <1>8, <1>9, BecomesStays

\* Waits for the buffer, for room and for the probe, and the end of a line.
LEMMA WaitsStay ==
  ASSUME OffsetInv, DoSync \/ DoLine \/ ProbeRun \/ ProbeContact \/ EndOfLine
  PROVE  Stored' /\ Told'
<1>1. Inv
  BY DEF OffsetInv
<1>2. UNCHANGED <<gc, eeprom, report>> /\ main.pc # "boot"
  BY DEF DoSync, DoLine, ProbeRun, ProbeContact, EndOfLine, Op
<1>3. main' = [main EXCEPT !.contact = TRUE] \/ \E pc : main' = At(pc)
  BY DEF DoSync, DoLine, ProbeRun, ProbeContact, EndOfLine
<1>4. main'.todo = main.todo
  <2>1. [main EXCEPT !.contact = TRUE].todo = main.todo
    BY <1>1 DEF Inv, Shapes, MainShape
  <2>2. \A pc : At(pc).todo = main.todo
    BY <1>1, MainChanges DEF Inv, Shapes
  <2>3. QED
    BY <1>3, <2>1, <2>2
<1>5. QED
  BY <1>2, <1>4, WaitStays DEF SameOffsets

-----------------------------------------------------------------------------
(* Actions that others take the place of.                                   *)

LEMMA TodoReplaced ==
  ASSUME MainShape(main), NEW todo,
         \/ main' = [main EXCEPT !.todo = todo]
         \/ main' = [main EXCEPT !.contact = FALSE, !.todo = todo]
  PROVE  main'.todo = todo
<1> DEFINE u == [main EXCEPT !.contact = FALSE]
<1>1. main' = [main EXCEPT !.todo = todo] \/ main' = [u EXCEPT !.todo = todo]
  OBVIOUS
<1>2. DOMAIN u = DOMAIN main
  OBVIOUS
<1> HIDE DEF u
<1>3. QED
  BY <1>1, <1>2 DEF MainShape

LEMMA ReplacedStays ==
  ASSUME OffsetInv, NEW name, Op(name), name \notin Writes \cup {"wco"}, NEW s, IsSeq(s),
         main'.todo = s \o Tail(main.todo), Fresh(main'.todo), UNCHANGED <<gc, eeprom, report>>
  PROVE  Stored' /\ Told'
<1> DEFINE t == Tail(main.todo)
<1>1. Inv
  BY DEF OffsetInv
<1>2. /\ main.pc # "boot" /\ main.todo # <<>> /\ Chain(main.todo)
      /\ main.todo[1].do \notin Writes \cup {"wco"}
  BY <1>1, OpIsGood DEF Op, Inv, Work
<1>3. IsSeq(t)
  BY <1>2, TailIsChain DEF Chain
<1>4. Has(main.todo, {"wco"}) => Has(t, {"wco"})
  BY <1>2, StillAnnounced
<1>5. ~InWrite(main.todo) /\ ~InWrite(main'.todo)
  BY <1>2, WritesNothing, FreshWritesNothing
<1> HIDE DEF t
<1>6. Has(main.todo, {"wco"}) => Has(s \o t, {"wco"})
  BY <1>3, <1>4, AnnouncedBehind
<1>7. Stored'
  BY <1>2, <1>5, StoredStays DEF OffsetInv
<1>8. Told'
  BY <1>2, <1>6, ToldStays DEF OffsetInv, SameOffsets, t
<1>9. QED
  BY <1>7, <1>8

\* The lines of an arc.
LEMMA ArcStays ==
  ASSUME OffsetInv, DoArc
  PROVE  Stored' /\ Told'
<1>1. Inv
  BY DEF OffsetInv
<1>2. /\ Op("arc") /\ UNCHANGED <<gc, eeprom, report>>
      /\ \E points \in {<<>>} \cup {MoveTo("line", p) : p \in ArcPoints} :
           main' = [main EXCEPT !.todo = points \o Tail(main.todo)]
  BY DEF DoArc
<1>3. PICK points \in {<<>>} \cup {MoveTo("line", p) : p \in ArcPoints} :
        main' = [main EXCEPT !.todo = points \o Tail(main.todo)]
  BY <1>2
<1>4. main'.todo = points \o Tail(main.todo)
  BY <1>1, <1>3, TodoReplaced, Zenon DEF Inv, Shapes
<1>5. IsSeq(points)
  <2>1. <<>> \in Seq({}) /\ \A p : MoveTo("line", p) \in Seq({[do |-> "line", target |-> p]})
    BY DEF MoveTo
  <2>2. IsSeq(<<>>) /\ \A p : IsSeq(MoveTo("line", p))
    BY <2>1, SequencesAreSeq
  <2>3. QED
    BY <2>2
<1>6. Fresh(main'.todo)
  BY <1>1, ArcKeeps
<1>7. "arc" \notin Writes \cup {"wco"}
  BY DEF Writes, LaterBytes
<1>8. QED
  BY <1>2, <1>4, <1>5, <1>6, <1>7, ReplacedStays

\* The steps of a probing cycle.
LEMMA ProbingStays ==
  ASSUME OffsetInv, DoProbe \/ ProbeOpen
  PROVE  Stored' /\ Told'
<1> DEFINE t == Tail(main.todo)
           opened == Do("sync") \o <<Probing("probe_open")>>
           moved == MoveTo("line", TheOp.target) \o <<Probing("probe_run")>>
<1>1. Inv
  BY DEF OffsetInv
<1>2. Fresh(main'.todo)
  BY <1>1, ProbingReplaced
<1>3. UNCHANGED <<gc, eeprom, report>>
  BY DEF DoProbe, ProbeOpen
<1>4. {"probe", "probe_open"} \cap (Writes \cup {"wco"}) = {}
  BY DEF Writes, LaterBytes
<1>5. CASE ProbeOpen /\ main.abort
  <2>1. Op("probe_open") /\ main' = Done
    BY <1>5 DEF ProbeOpen
  <2>2. main'.todo = t
    BY <1>1, <2>1, MainChanges DEF Inv, Shapes
  <2>3. main.pc # "boot" /\ main.todo # <<>> /\ main.todo[1].do \notin Writes \cup {"wco"}
    BY <1>1, <1>4, <2>1, OpIsGood DEF Op
  <2>4. QED
    BY <1>3, <2>2, <2>3, DoneStays DEF SameOffsets
<1>6. CASE ~(ProbeOpen /\ main.abort)
  <2> DEFINE first == Do("sync") \o <<Probing("probe_open")>> \o t
             then == MoveTo("line", TheOp.target) \o <<Probing("probe_run")>> \o t
  <2>1. \/ Op("probe") /\ main' = [main EXCEPT !.contact = FALSE, !.todo = first]
        \/ Op("probe_open") /\ main' = [main EXCEPT !.todo = then]
    BY <1>6, Zenon DEF DoProbe, ProbeOpen
  <2>2. first = opened \o t /\ then = moved \o t
    OBVIOUS
  <2>3. IsSeq(opened) /\ IsSeq(moved)
    <3>1. /\ Do("sync") \in Seq({[do |-> "sync"], Probing("probe_open")})
          /\ <<Probing("probe_open")>> \in Seq({[do |-> "sync"], Probing("probe_open")})
          /\ MoveTo("line", TheOp.target) \in
               Seq({[do |-> "line", target |-> TheOp.target], Probing("probe_run")})
          /\ <<Probing("probe_run")>> \in
               Seq({[do |-> "line", target |-> TheOp.target], Probing("probe_run")})
      BY DEF Do, MoveTo
    <3>2. /\ opened \in Seq({[do |-> "sync"], Probing("probe_open")})
          /\ moved \in Seq({[do |-> "line", target |-> TheOp.target], Probing("probe_run")})
      BY <3>1, ConcatProperties
    <3> HIDE DEF opened, moved
    <3>3. QED
      BY <3>2, SequencesAreSeq
  <2> HIDE DEF first, then, opened, moved, t
  <2>4. CASE Op("probe") /\ main' = [main EXCEPT !.contact = FALSE, !.todo = first]
    <3>1. main'.todo = opened \o t
      BY <1>1, <2>2, <2>4, TodoReplaced, Zenon DEF Inv, Shapes
    <3>2. QED
      BY <1>2, <1>3, <1>4, <2>3, <2>4, <3>1, ReplacedStays DEF t
  <2>5. CASE Op("probe_open") /\ main' = [main EXCEPT !.todo = then]
    <3>1. main'.todo = moved \o t
      BY <1>1, <2>2, <2>5, TodoReplaced, Zenon DEF Inv, Shapes
    <3>2. QED
      BY <1>2, <1>3, <1>4, <2>3, <2>5, <3>1, ReplacedStays DEF t
  <2>6. QED
    BY <2>1, <2>4, <2>5
<1>7. QED
  BY <1>5, <1>6

\* The next record is cleared.
LEMMA ClearStays ==
  ASSUME OffsetInv, DoClear
  PROVE  Stored' /\ Told'
<1> DEFINE n == TheOp.record
           op == [do |-> "clear", record |-> n + 1]
           others == IF n + 1 \in Records THEN <<op>> ELSE <<>>
           write == WriteRecord(n, Origin)
           s == write \o others
           t == Tail(main.todo)
<1>1. Inv
  BY DEF OffsetInv
<1>2. /\ Op("clear") /\ UNCHANGED <<gc, eeprom, report>> /\ main' = [Done EXCEPT !.todo = s \o @]
  BY Zenon DEF DoClear
<1>3. IsSeq(s)
  <2>1. n \in Records
    BY <1>1, <1>2, OpIsGood DEF GoodOp, Writes, LaterBytes
  <2>2. IsSeq(write)
    BY <2>1, OriginInTravel, WriteRecordIsFresh DEF Part, Fresh, Chain
  <2>3. PICK S : write \in Seq(S)
    BY <2>2 DEF IsSeq
  <2>4. others \in Seq({op})
    <3> HIDE DEF op
    <3>1. <<op>> \in Seq({op}) /\ <<>> \in Seq({op})
      OBVIOUS
    <3>2. QED
      BY <3>1
  <2> HIDE DEF write, others, op
  <2>5. s \in Seq(S \cup {op})
    BY <2>3, <2>4
  <2> HIDE DEF s
  <2>6. QED
    BY <2>5, SequencesAreSeq
<1> HIDE DEF s, t
<1>4. main'.todo = s \o t
  <2>1. Done.todo = t
    BY <1>1, MainChanges DEF Inv, Shapes, t
  <2>2. main' = [Done EXCEPT !.todo = s \o t]
    BY <1>2, <2>1
  <2>3. QED
    BY <1>1, <2>2, MainChanges DEF Inv, Shapes
<1>5. Fresh(main'.todo)
  BY <1>1, ClearsKeep
<1>6. "clear" \notin Writes \cup {"wco"}
  BY DEF Writes, LaterBytes
<1>7. QED
  BY <1>2, <1>3, <1>4, <1>5, <1>6, ReplacedStays DEF t

-----------------------------------------------------------------------------
(* Lines, power and interrupts.                                             *)

LEMMA BeginsStay ==
  ASSUME OffsetInv, ~HomeQueued,
         \/ Gcode \/ Jog \/ StoreStartup \/ Startup
         \/ Refused \/ CheckMode \/ Unlock \/ Clear \/ Home
  PROVE  Stored' /\ Told'
<1>1. Inv
  BY DEF OffsetInv
<1>2. UNCHANGED <<gc, eeprom, report>>
  BY DEF Gcode, Jog, StoreStartup, Startup, Refused, CheckMode, Unlock, Clear, Home
<1>3. Fresh(main'.todo)
  BY <1>1, GcodeKeeps, StartupKeeps, CommandsKeep, HomeKeeps
<1>4. main.todo = <<>> /\ main.pc # "boot"
  <2>1. CASE Startup
    BY <2>1 DEF Startup
  <2>2. CASE ~Startup
    <3>1. \E kind : Reads(kind)
      BY <2>2, Zenon DEF Gcode, Jog, StoreStartup, Refused, CheckMode, Unlock, Clear, Home, Takes
    <3>2. QED
      BY <1>1, <3>1, ReadsAtRest
  <2>3. QED
    BY <2>1, <2>2
<1>5. QED
  BY <1>2, <1>3, <1>4, BeginStays

LEMMA BootStays ==
  ASSUME OffsetInv, Boot
  PROVE  Stored' /\ Told'
<1> DEFINE record == eeprom.records[0]
           written == IF Sound(record) THEN record ELSE Record(Origin)
<1>1. /\ eeprom' = [eeprom EXCEPT !.records[0] = written] /\ main'.todo = <<>>
      /\ report' = [report EXCEPT !.counter = 0]
  BY DEF Boot
<1>2. EepromShape /\ 0 \in Records
  BY DEF OffsetInv, Inv, Shapes, Records, IndexG30, NCoordinateSystem
<1>3. Sound(written)
  BY DEF Sound, Record
<1> HIDE DEF written
<1>4. eeprom'.records[0] = written
  BY <1>1, <1>2 DEF EepromShape
<1>5. Stored'
  BY <1>1, <1>3, <1>4 DEF Stored, FirstIsWhole, Whole, BytesWritten, InWrite
<1>6. Told'
  BY <1>1 DEF OffsetInv, Told
<1>7. QED
  BY <1>5, <1>6

LEMMA PowerFailStays ==
  ASSUME OffsetInv, PowerFail
  PROVE  Stored' /\ Told'
<1>1. main' = PowerUp.main /\ UNCHANGED report
  BY DEF PowerFail, Become
<1>2. main'.pc = "boot" /\ main'.todo = <<>>
  BY <1>1 DEF PowerUp
<1>3. Stored'
  BY <1>2 DEF Stored, FirstIsWhole, BytesWritten, InWrite
<1>4. Told'
  BY <1>1, <1>2 DEF OffsetInv, Told
<1>5. QED
  BY <1>3, <1>4

\* A report without the offset is one less to wait for; one with it tells it.
LEMMA ReportStays ==
  ASSUME OffsetInv, StatusReport
  PROVE  Stored' /\ Told'
<1>1. UNCHANGED <<gc, main, eeprom>>
  BY DEF StatusReport
<1>2. Stored'
  BY <1>1 DEF OffsetInv, Stored, FirstIsWhole, Whole, BytesWritten
<1>3. CASE report.counter > 0 /\ report' = [report EXCEPT !.counter = @ - 1]
  <2>1. /\ DOMAIN report' = {"counter", "told"} /\ report'.told = report.told
        /\ report.counter # 0
    BY <1>3 DEF OffsetInv, Told
  <2>2. QED
    BY <1>1, <1>2, <2>1 DEF OffsetInv, Told
<1>4. CASE report' = [counter |-> WcoRefresh - 1, told |-> WorkOffset(gc)]
  <2>1. DOMAIN report' = {"counter", "told"} /\ report'.told = WorkOffset(gc)
    BY <1>4
  <2>2. QED
    BY <1>1, <1>2, <2>1 DEF Told
<1>5. QED
  BY <1>3, <1>4 DEF StatusReport

LEMMA InterruptsStay ==
  ASSUME OffsetInv, Move \/ MotionEnds \/ UserReset \/ JogCancel \/ UNCHANGED vars
  PROVE  Stored' /\ Told'
<1>1. UNCHANGED <<gc, main, eeprom, report>>
  BY DEF Move, MotionEnds, UserReset, JogCancel, vars
<1>2. QED
  BY <1>1, WaitStays DEF SameOffsets

-----------------------------------------------------------------------------
(* The invariant, and what it says.                                         *)

LEMMA InitOffsetInv == Init => OffsetInv
<1> SUFFICES ASSUME Init PROVE OffsetInv
  OBVIOUS
<1>1. Inv
  BY InitInv
<1>2. main.pc = "boot" /\ main.todo = <<>>
  BY DEF Init, PowerUp
<1>3. report = [counter |-> 0, told |-> Origin]
  BY DEF Init
<1>4. QED
  BY <1>1, <1>2, <1>3 DEF OffsetInv, Stored, FirstIsWhole, BytesWritten, InWrite, Told

LEMMA NextOffsetInv ==
  ASSUME ~HomeQueued
  PROVE  OffsetInv /\ [Next]_vars => OffsetInv'
<1> SUFFICES ASSUME OffsetInv, [Next]_vars PROVE Inv' /\ Stored' /\ Told'
  BY DEF OffsetInv
<1>1. Inv'
  BY NextInv DEF OffsetInv
<1>2. CASE \/ DoPosition \/ DoNoOutputs \/ DoPause \/ LineInCheckMode \/ ProbeInCheckMode
           \/ DoStore \/ DoJog \/ DoReset \/ HomeFound \/ HomeSkipped
  BY <1>1, <1>2, ModesStay
<1>3. CASE DoSet \/ DoWco
  <2>1. DoSet => Op("set") \/ Op("offset")
    BY DEF DoSet
  <2>2. QED
    BY <1>1, <1>3, <2>1, ModesStay, OffsetsStay
<1>4. CASE DoPut \/ DoSum \/ DoEnd
  BY <1>1, <1>4, PutStays, SumStays, EndStays
<1>5. CASE DoSync \/ DoLine \/ ProbeRun \/ ProbeContact \/ EndOfLine
  BY <1>1, <1>5, WaitsStay
<1>6. CASE SyncWait \/ LineWait \/ SoftLimit \/ Critical
  BY <1>1, <1>6, SyncStays, LineStays, SoftLimitStays
<1>7. CASE ProbeClosed \/ HomeFailed \/ ProbeWait \/ Homed \/ Idle
  BY <1>1, <1>7, AlarmsStay, ProbeStays, HomedStays, IdleStays
<1>8. CASE DoArc \/ DoProbe \/ ProbeOpen \/ DoClear
  BY <1>1, <1>8, ArcStays, ProbingStays, ClearStays
<1>9. CASE \/ Gcode \/ Jog \/ StoreStartup \/ Startup
           \/ Refused \/ CheckMode \/ Unlock \/ Clear \/ Home
  BY <1>1, <1>9, BeginsStay
<1>10. CASE Boot \/ PowerFail \/ StatusReport
  BY <1>1, <1>10, BootStays, PowerFailStays, ReportStays
<1>11. CASE Move \/ MotionEnds \/ UserReset \/ JogCancel \/ UNCHANGED vars
  BY <1>1, <1>11, InterruptsStay
<1>12. QED
  BY <1>2, <1>3, <1>4, <1>5, <1>6, <1>7, <1>8, <1>9, <1>10, <1>11 DEF Next

\* A host that shows work positions knows the work offset or will with the next
\* report: system_flag_wco_change() follows every change of an offset (G10, G54 to
\* G59, G92, G43.1, M2), and boot tells it anew, whatever aborts, alarms, resets
\* and power failures come between, for any program: if no $H is sent with blocks
\* in the queue.
THEOREM HostKnowsOffsetAlways ==
  ASSUME ~HomeQueued
  PROVE  Spec => []HostKnowsOffset
<1>1. OffsetInv => HostKnowsOffset
  <2> SUFFICES ASSUME OffsetInv, AtRest PROVE report.told = WorkOffset(gc) \/ report.counter = 0
    BY DEF HostKnowsOffset
  <2>1. main.pc = "idle" /\ main.todo = <<>>
    BY DEF AtRest, OffsetInv, Inv, Work, WaitsInAction
  <2>2. Len(<<>>) = 0
    OBVIOUS
  <2>3. ~Has(main.todo, {"wco"})
    BY <2>1, <2>2 DEF Has
  <2>4. QED
    BY <2>1, <2>3 DEF OffsetInv, Told
<1>2. OffsetInv /\ [Next]_vars => OffsetInv'
  BY NextOffsetInv
<1>3. QED
  BY <1>1, <1>2, InitOffsetInv, PTL DEF Spec

-----------------------------------------------------------------------------
(* Where the parser is.                                                     *)

\* The words of a line switch no machine mode: M88 and M89, which raise an alarm
\* while their line is still being read.
Modeless(line) == \A n \in 1..Len(line) : line[n][1] \notin MachineWords

NoMachineModes ==
  \A program \in Programs : \A i \in 1..Len(program) : Modeless(program[i].words)

Ops(todo) == {todo[i] : i \in 1..Len(todo)}

\* Nor do those that are stored, or will be.
LinesAreModeless ==
  /\ \A i \in 1..Len(hist.program) : Modeless(hist.program[i].words)
  /\ \A op \in Ops(main.todo) : op.do = "store" => Modeless(op.words)
  /\ \A n \in StartupLines : Modeless(eeprom.startup[n])

Begins(todo, K) == todo # <<>> /\ todo[1].do \in K

\* main() starts again before anything else is read.
Ending(r, w) == w.pc \in {"boot", "critical"} \/ w.abort \/ "reset" \in r.flags

\* The motors run in a cycle or a jog, which a cycle stop ends when the queue is
\* empty or the probe has closed.
MotorsAgree(k, p, r, w) ==
  /\ r.alarm = "NONE"
  /\ k.moving => k.state \in {"CYCLE", "JOG"}
  /\ "stop" \in r.flags => /\ k.state \in {"CYCLE", "JOG"} /\ ~k.moving
                           /\ p.queue = <<>> \/ (w.pc = "probing" /\ w.contact)
  /\ "cancel" \in r.flags => k.state = "JOG"

\* A probing cycle begins with the motors at rest, and starts them.
ProbesAtRest(k, r, w) ==
  /\ Begins(w.todo, {"probe_open"}) => k.state # "CYCLE"
  /\ w.pc = "probing" /\ k.state = "IDLE" => "start" \in r.flags

\* The planner is where the parser is, or about to take a line there, or has taken
\* the line and the parser is to be told.
PlannerFollows(g, k, p, w) ==
  k.state # "CHECK" =>
    /\ g.position = p.pos \/ Begins(w.todo, {"line"} \cup AtTarget)
    /\ Begins(w.todo, AtTarget) => p.pos = w.todo[1].target

Placed(g, k, p, r, w) ==
  ~Ending(r, w) => MotorsAgree(k, p, r, w) /\ ProbesAtRest(k, r, w) /\ PlannerFollows(g, k, p, w)

\* A probe is looked at when the queue is empty; check mode neither probes nor
\* homes.
Ordered(k, w) ==
  /\ \A i \in 1..Len(w.todo) : w.todo[i].do = "probe_open" => i = 1 \/ (i = 2 /\ w.todo[1].do = "sync")
  /\ k.state = "CHECK" => ~Has(w.todo, {"probe_open", "homed"})

Positions ==
  LinesAreModeless /\ Ordered(machine, main) /\ Placed(gc, machine, plan, rt, main)

PositionInv == OffsetInv /\ Positions

-----------------------------------------------------------------------------
(* What is left to do.                                                      *)

LEMMA TailOps ==
  ASSUME NEW s, Chain(s), s # <<>>
  PROVE  Ops(Tail(s)) \subseteq Ops(s)
BY TailIsChain DEF Ops

LEMMA ConcatOps ==
  ASSUME NEW s, IsSeq(s), NEW t, IsSeq(t)
  PROVE  Ops(s \o t) = Ops(s) \cup Ops(t)
<1> DEFINE u == s \o t
<1>1. PICK S, T : s \in Seq(S) /\ t \in Seq(T)
  BY DEF IsSeq
<1>2. /\ Len(s) \in Nat /\ Len(t) \in Nat
      /\ \A i \in 1..Len(s) : i \in 1..Len(u) /\ u[i] = s[i]
      /\ \A i \in 1..Len(t) : i + Len(s) \in 1..Len(u) /\ u[i + Len(s)] = t[i]
      /\ \A i \in 1..Len(u) : i \in 1..Len(s) \/ (i - Len(s) \in 1..Len(t) /\ u[i] = t[i - Len(s)])
  BY <1>1
<1> HIDE DEF u
<1>3. Ops(u) \subseteq Ops(s) \cup Ops(t)
  <2> SUFFICES ASSUME NEW i \in 1..Len(u) PROVE u[i] \in Ops(s) \cup Ops(t)
    BY DEF Ops
  <2>1. QED
    BY <1>2 DEF Ops
<1>4. Ops(s) \subseteq Ops(u) /\ Ops(t) \subseteq Ops(u)
  BY <1>2 DEF Ops
<1>5. QED
  BY <1>3, <1>4 DEF u

LEMMA HasOps == \A todo, K : Has(todo, K) <=> \E op \in Ops(todo) : op.do \in K
BY DEF Has, Ops

\* Only a line or a jog leads to what is done at its target.
LEMMA NothingArrives ==
  ASSUME NEW todo, Chain(todo), todo # <<>>, todo[1].do \notin {"line", "jog"}
  PROVE  ~Begins(Tail(todo), AtTarget)
<1>1. SUFFICES ASSUME Tail(todo) # <<>> PROVE Tail(todo)[1].do \notin AtTarget
  BY DEF Begins
<1>2. /\ Chain(Tail(todo)) /\ Len(Tail(todo)) = Len(todo) - 1 /\ Len(todo) \in Nat
      /\ \A i \in 1..Len(Tail(todo)) : Tail(todo)[i] = todo[i + 1]
  BY TailIsChain, ChainLength
<1>3. 1 \in 1..Len(Tail(todo)) /\ 1 \in 1..Len(todo)
  BY <1>1, <1>2, ChainLength
<1>4. 1 < Len(todo) /\ Tail(todo)[1] = todo[1 + 1]
  BY <1>2, <1>3
<1>5. Follows(todo[1], todo[1 + 1])
  BY <1>3, <1>4 DEF Chain
<1>6. QED
  BY <1>4, <1>5 DEF Follows

\* What follows a line or a jog.
LEMMA ArrivesNext ==
  ASSUME NEW todo, Chain(todo), todo # <<>>, todo[1].do \in {"line", "jog"}
  PROVE  /\ Begins(Tail(todo), {"line"} \cup AtTarget)
         /\ Tail(todo)[1].do \in AtTarget => Tail(todo)[1].target = todo[1].target
         /\ todo[1].do = "jog" => Tail(todo)[1].do = "position"
<1>1. 1 \in 1..Len(todo) /\ Len(todo) \in Nat
  BY ChainLength
<1>2. 1 < Len(todo)
  BY <1>1 DEF Chain, Awaiting
<1>3. /\ Chain(Tail(todo)) /\ Len(Tail(todo)) = Len(todo) - 1
      /\ \A i \in 1..Len(Tail(todo)) : Tail(todo)[i] = todo[i + 1]
  BY TailIsChain
<1>4. Tail(todo) # <<>> /\ 1 \in 1..Len(Tail(todo))
  <2>1. Len(Tail(todo)) # 0
    BY <1>1, <1>2, <1>3
  <2>2. QED
    BY <1>3, <2>1, ChainLength
<1>5. Tail(todo)[1] = todo[1 + 1] /\ Follows(todo[1], todo[1 + 1])
  BY <1>1, <1>2, <1>3, <1>4 DEF Chain
<1>6. QED
  BY <1>4, <1>5 DEF Follows, Begins, AtTarget

\* The first action is done.
LEMMA TailOrdered ==
  ASSUME NEW k, NEW w, Ordered(k, w), Chain(w.todo), w.todo # <<>>,
         NEW l, l.state = "CHECK" => k.state = "CHECK", NEW v, v.todo = Tail(w.todo)
  PROVE  /\ Ordered(l, v)
         /\ w.todo[1].do # "sync" => ~Has(v.todo, {"probe_open"})
         /\ w.todo[1].do # "sync" => ~Begins(v.todo, {"probe_open"})
<1> DEFINE s == w.todo t == v.todo
<1>1. /\ Len(s) \in Nat /\ Len(t) = Len(s) - 1 /\ (t # <<>> => 1 \in 1..Len(t))
      /\ \A i \in 1..Len(t) : t[i] = s[i + 1] /\ i + 1 \in 1..Len(s)
  BY TailIsChain, ChainLength
<1>2. \A i \in 1..Len(t) : t[i].do = "probe_open" => i = 1 /\ s[1].do = "sync"
  <2> SUFFICES ASSUME NEW i \in 1..Len(t), t[i].do = "probe_open" PROVE i = 1 /\ s[1].do = "sync"
    OBVIOUS
  <2>1. i + 1 \in 1..Len(s) /\ s[i + 1].do = "probe_open"
    BY <1>1
  <2>2. i + 1 = 1 \/ (i + 1 = 2 /\ s[1].do = "sync")
    BY <2>1 DEF Ordered
  <2>3. QED
    BY <1>1, <2>2
<1>3. \A K : Has(t, K) => Has(s, K)
  BY <1>1 DEF Has
<1> HIDE DEF s, t
<1>4. Ordered(l, v)
  BY <1>2, <1>3 DEF Ordered, s, t
<1>5. QED
  BY <1>1, <1>2, <1>4 DEF Has, Begins, s, t

\* Other actions take its place.
LEMMA ReplacedOrdered ==
  ASSUME NEW k, NEW w, Ordered(k, w), Chain(w.todo), w.todo # <<>>, w.todo[1].do # "sync",
         NEW s, IsSeq(s), NEW K, OfKinds(s, K), K \cap {"probe_open", "homed"} = {},
         NEW l, l.state = "CHECK" => k.state = "CHECK", NEW v, v.todo = s \o Tail(w.todo)
  PROVE  Ordered(l, v) /\ ~Has(v.todo, {"probe_open"}) /\ ~Begins(v.todo, {"probe_open"})
<1> DEFINE t == Tail(w.todo)
<1>1. IsSeq(t) /\ Ops(t) \subseteq Ops(w.todo)
  BY TailIsChain, TailOps DEF Chain
<1>2. ~Has(t, {"probe_open"})
  <2> DEFINE u == [todo |-> t]
  <2>1. u.todo = t
    OBVIOUS
  <2> HIDE DEF u
  <2>2. QED
    BY <2>1, TailOrdered
<1> HIDE DEF t
<1>3. Ops(v.todo) = Ops(s) \cup Ops(t)
  BY <1>1, ConcatOps DEF t
<1>4. \A op \in Ops(s) : op.do \in K
  BY DEF Ops, OfKinds
<1>5. ~Has(v.todo, {"probe_open"})
  BY <1>2, <1>3, <1>4, HasOps
<1>6. Has(v.todo, {"homed"}) => Has(w.todo, {"homed"})
  BY <1>1, <1>3, <1>4, HasOps
<1>7. k.state = "CHECK" => ~Has(w.todo, {"homed"})
  BY DEF Ordered, Has
<1>8. l.state = "CHECK" => ~Has(v.todo, {"probe_open", "homed"})
  BY <1>5, <1>6, <1>7 DEF Has
<1>9. \A i \in 1..Len(v.todo) : v.todo[i].do # "probe_open"
  BY <1>5 DEF Has
<1>10. ~Begins(v.todo, {"probe_open"})
  <2>1. v.todo # <<>> => 1 \in 1..Len(v.todo)
    <3>1. PICK S, T : s \in Seq(S) /\ t \in Seq(T)
      BY <1>1 DEF IsSeq
    <3>2. v.todo \in Seq(S \cup T)
      BY <3>1 DEF t
    <3>3. QED
      BY <3>2
  <2>2. QED
    BY <1>9, <2>1 DEF Begins
<1>11. QED
  BY <1>5, <1>8, <1>9, <1>10 DEF Ordered

-----------------------------------------------------------------------------
(* Check points.                                                            *)

\* A check point that finds no alarm and no reset.
LEMMA PolledQuietly ==
  ASSUME NEW s, StateShape(s), MotorsAgree(s.machine, s.plan, s.rt, s.main),
         "reset" \notin s.rt.flags
  PROVE  LET t == Polled(s)
         IN /\ t.main = s.main /\ t.rt.flags = {} /\ t.rt.alarm = "NONE"
            /\ t.machine.pos = s.machine.pos /\ t.machine.moving \in BOOLEAN
            /\ \/ /\ s.machine.state = "JOG" /\ t.machine.state = "IDLE" /\ ~t.machine.moving
                  /\ t.plan.queue = <<>> /\ t.plan.pos = s.machine.pos
                  /\ t.gc = [s.gc EXCEPT !.position = s.machine.pos]
               \/ /\ t.gc = s.gc /\ t.plan = s.plan
                  /\ \/ /\ s.machine.state = "IDLE" /\ s.plan.queue # <<>>
                        /\ t.machine.state = "CYCLE"
                     \/ /\ "stop" \in s.rt.flags /\ t.machine.state = "IDLE"
                        /\ ~t.machine.moving
                     \/ /\ t.machine = s.machine
                        /\ s.machine.state = "IDLE" /\ "start" \in s.rt.flags
                             => s.plan.queue = <<>>
<1> DEFINE c == Cancelled(s)
           b == Started(c)
           d == Stopped(b)
           t == [d EXCEPT !.rt = [@ EXCEPT !.flags = {}]]
<1>1. s.rt.alarm = "NONE"
  BY DEF MotorsAgree
<1>2. Polled(s) = t
  <2> DEFINE alarmed == IF s.rt.alarm = "NONE" THEN s
                        ELSE [s EXCEPT !.machine = [@ EXCEPT !.state = "ALARM"],
                                       !.rt = [@ EXCEPT !.alarm = "NONE"]]
             aborted == [alarmed EXCEPT !.main = [@ EXCEPT !.abort = TRUE]]
             cleared == [Stopped(Started(Cancelled(alarmed))) EXCEPT !.rt = [@ EXCEPT !.flags = {}]]
  <2>1. Polled(s) = IF "reset" \in s.rt.flags THEN aborted ELSE cleared
    BY Zenon DEF Polled
  <2>2. alarmed = s
    BY <1>1
  <2> HIDE DEF alarmed, aborted
  <2>3. cleared = t
    BY <2>2
  <2> HIDE DEF cleared, t
  <2>4. QED
    BY <2>1, <2>3
<1>3. /\ DOMAIN s = {"gc", "machine", "plan", "rt", "main"}
      /\ DOMAIN s.machine = {"state", "pos", "moving", "mode"} /\ s.machine.moving \in BOOLEAN
      /\ DOMAIN s.rt = {"flags", "alarm"}
  BY DEF StateShape, MachineShape, RtShape
<1>4. CASE "cancel" \in s.rt.flags
  <2>1. s.machine.state = "JOG" /\ c = Flushed(s)
    BY <1>4 DEF MotorsAgree, Cancelled
  <2>2. /\ DOMAIN c = DOMAIN s /\ c.main = s.main /\ c.rt = s.rt
        /\ c.machine = [s.machine EXCEPT !.state = "IDLE", !.moving = FALSE]
        /\ c.plan = [queue |-> <<>>, pos |-> s.machine.pos]
        /\ c.gc = [s.gc EXCEPT !.position = s.machine.pos]
    BY <1>3, <2>1 DEF Flushed
  <2> HIDE DEF c
  <2>3. b = c
    BY <1>4, <2>2 DEF Started
  <2> HIDE DEF b
  <2>4. /\ DOMAIN d = DOMAIN s /\ d.main = s.main /\ d.rt = s.rt /\ d.plan = c.plan /\ d.gc = c.gc
        /\ d.machine = c.machine \/ d.machine = [c.machine EXCEPT !.state = "IDLE"]
    BY <1>3, <2>2, <2>3 DEF Stopped
  <2> HIDE DEF d
  <2>5. /\ t.main = s.main /\ t.rt = [s.rt EXCEPT !.flags = {}] /\ t.plan = c.plan /\ t.gc = c.gc
        /\ t.machine = d.machine
    BY <1>3, <2>4
  <2> HIDE DEF t
  <2>6. c.machine.state = "IDLE" /\ c.machine.moving = FALSE /\ c.machine.pos = s.machine.pos
        /\ DOMAIN c.machine = DOMAIN s.machine
    BY <1>3, <2>2
  <2>7. d.machine.state = "IDLE" /\ d.machine.moving = FALSE /\ d.machine.pos = s.machine.pos
    BY <1>3, <2>4, <2>6
  <2>8. t.rt.flags = {} /\ t.rt.alarm = "NONE"
    BY <1>1, <1>3, <2>5
  <2>9. c.plan.queue = <<>> /\ c.plan.pos = s.machine.pos
    BY <2>2
  <2>10. QED
    BY <1>2, <2>1, <2>2, <2>5, <2>7, <2>8, <2>9
<1>5. CASE "cancel" \notin s.rt.flags
  <2>1. c = s
    BY <1>5 DEF Cancelled
  <2> HIDE DEF c
  <2> DEFINE started == [s EXCEPT !.machine = [@ EXCEPT !.state = "CYCLE", !.moving = TRUE]]
             starts == "start" \in s.rt.flags /\ s.machine.state = "IDLE" /\ s.plan.queue # <<>>
  <2>2. b = IF starts THEN started ELSE s
    BY <1>5, <2>1 DEF Started
  <2>3. /\ DOMAIN b = DOMAIN s /\ b.main = s.main /\ b.rt = s.rt /\ b.plan = s.plan /\ b.gc = s.gc
        /\ starts => b.machine = [s.machine EXCEPT !.state = "CYCLE", !.moving = TRUE]
        /\ ~starts => b.machine = s.machine
    BY <1>3, <2>2
  <2> HIDE DEF b
  <2>4. /\ DOMAIN d = DOMAIN s /\ d.main = s.main /\ d.rt = s.rt /\ d.plan = s.plan /\ d.gc = s.gc
        /\ "stop" \in s.rt.flags => d.machine = [b.machine EXCEPT !.state = "IDLE"]
        /\ "stop" \notin s.rt.flags => d.machine = b.machine
    BY <1>3, <2>3 DEF Stopped
  <2> HIDE DEF d
  <2>5. /\ t.main = s.main /\ t.rt = [s.rt EXCEPT !.flags = {}] /\ t.plan = s.plan /\ t.gc = s.gc
        /\ t.machine = d.machine
    BY <1>3, <2>4
  <2> HIDE DEF t
  <2>6. t.rt.flags = {} /\ t.rt.alarm = "NONE"
    BY <1>1, <1>3, <2>5
  <2>7. CASE starts
    <3>1. "stop" \notin s.rt.flags
      BY <2>7 DEF MotorsAgree
    <3>2. t.machine = [s.machine EXCEPT !.state = "CYCLE", !.moving = TRUE]
      BY <2>3, <2>4, <2>5, <2>7, <3>1
    <3>3. t.machine.state = "CYCLE" /\ t.machine.moving = TRUE /\ t.machine.pos = s.machine.pos
      BY <1>3, <3>2
    <3>4. QED
      BY <1>2, <2>5, <2>6, <2>7, <3>3
  <2>8. CASE ~starts /\ "stop" \in s.rt.flags
    <3>1. t.machine = [s.machine EXCEPT !.state = "IDLE"] /\ s.machine.moving = FALSE
      BY <1>3, <2>3, <2>4, <2>5, <2>8 DEF MotorsAgree
    <3>2. t.machine.state = "IDLE" /\ t.machine.moving = FALSE /\ t.machine.pos = s.machine.pos
      BY <1>3, <3>1
    <3>3. QED
      BY <1>2, <2>5, <2>6, <2>8, <3>2
  <2>9. CASE ~starts /\ "stop" \notin s.rt.flags
    BY <1>2, <1>3, <2>3, <2>4, <2>5, <2>6, <2>9
  <2>10. QED
    BY <2>7, <2>8, <2>9
<1>6. QED
  BY <1>4, <1>5

\* One that finds an alarm.
LEMMA PolledAlarm ==
  ASSUME NEW s, StateShape(s), s.rt.alarm # "NONE", s.rt.flags \cap {"reset", "stop"} = {}
  PROVE  LET t == Polled(s)
         IN /\ t.main = s.main /\ t.rt.flags = {} /\ t.rt.alarm = "NONE"
            /\ t.gc = s.gc /\ t.plan = s.plan
            /\ t.machine.state = "ALARM" /\ t.machine.moving = s.machine.moving
            /\ t.machine.pos = s.machine.pos
<1> DEFINE a == [s EXCEPT !.machine = [@ EXCEPT !.state = "ALARM"],
                          !.rt = [@ EXCEPT !.alarm = "NONE"]]
           t == [a EXCEPT !.rt = [@ EXCEPT !.flags = {}]]
<1>1. /\ DOMAIN s = {"gc", "machine", "plan", "rt", "main"}
      /\ DOMAIN s.machine = {"state", "pos", "moving", "mode"} /\ s.machine.moving \in BOOLEAN
      /\ DOMAIN s.rt = {"flags", "alarm"}
  BY DEF StateShape, MachineShape, RtShape
<1>2. /\ DOMAIN a = DOMAIN s /\ a.gc = s.gc /\ a.plan = s.plan /\ a.main = s.main
      /\ a.machine = [s.machine EXCEPT !.state = "ALARM"]
      /\ a.rt = [s.rt EXCEPT !.alarm = "NONE"]
  BY <1>1
<1>3. Polled(s) = [Stopped(Started(Cancelled(a))) EXCEPT !.rt = [@ EXCEPT !.flags = {}]]
  <2> DEFINE alarmed == IF s.rt.alarm = "NONE" THEN s ELSE a
             aborted == [alarmed EXCEPT !.main = [@ EXCEPT !.abort = TRUE]]
             cleared == [Stopped(Started(Cancelled(alarmed))) EXCEPT !.rt = [@ EXCEPT !.flags = {}]]
  <2>1. Polled(s) = IF "reset" \in s.rt.flags THEN aborted ELSE cleared
    BY Zenon DEF Polled
  <2>2. alarmed = a
    OBVIOUS
  <2> HIDE DEF alarmed, aborted, a
  <2>3. QED
    BY <2>1, <2>2
<1> HIDE DEF a
<1>4. /\ a.machine.state = "ALARM" /\ a.machine.moving = s.machine.moving
      /\ a.machine.pos = s.machine.pos /\ a.rt.flags = s.rt.flags /\ a.rt.alarm = "NONE"
      /\ DOMAIN a.rt = {"flags", "alarm"}
  BY <1>1, <1>2
<1>5. Cancelled(a) = a /\ Started(a) = a /\ Stopped(a) = a
  BY <1>4 DEF Cancelled, Started, Stopped
<1>6. Polled(s) = t
  BY <1>3, <1>5
<1>7. /\ t.gc = a.gc /\ t.plan = a.plan /\ t.main = a.main /\ t.machine = a.machine
      /\ t.rt = [a.rt EXCEPT !.flags = {}]
  BY <1>1, <1>2
<1> HIDE DEF t
<1>8. t.rt.flags = {} /\ t.rt.alarm = "NONE"
  BY <1>4, <1>7
<1>9. QED
  BY <1>2, <1>4, <1>6, <1>7, <1>8

\* One that finds a reset, or that is behind one.
LEMMA PolledEnds ==
  ASSUME NEW s, Good(s)
  PROVE  /\ "reset" \in s.rt.flags => Polled(s).main.abort
         /\ Ending(s.rt, s.main) => Ending(Polled(s).rt, Polled(s).main)
<1> DEFINE alarmed == IF s.rt.alarm = "NONE" THEN s
                      ELSE [s EXCEPT !.machine = [@ EXCEPT !.state = "ALARM"],
                                     !.rt = [@ EXCEPT !.alarm = "NONE"]]
           cleared == [Stopped(Started(Cancelled(alarmed))) EXCEPT !.rt = [@ EXCEPT !.flags = {}]]
           aborted == [alarmed EXCEPT !.main = [@ EXCEPT !.abort = TRUE]]
<1>1. Polled(s) = IF "reset" \in s.rt.flags THEN aborted ELSE cleared
  BY Zenon DEF Polled
<1> HIDE DEF cleared
<1>2. aborted.main.abort = TRUE
  BY DEF Good, StateShape, MainShape
<1> HIDE DEF aborted
<1>3. "reset" \in s.rt.flags => Polled(s).main.abort
  BY <1>1, <1>2
<1>4. Preserved(s, Polled(s))
  BY PolledIsGood
<1>5. QED
  BY <1>3, <1>4 DEF Ending, Preserved

\* None makes the machine check.
LEMMA PolledChecks ==
  ASSUME NEW s, StateShape(s), Polled(s).machine.state = "CHECK"
  PROVE  s.machine.state = "CHECK"
<1> DEFINE alarmed == IF s.rt.alarm = "NONE" THEN s
                      ELSE [s EXCEPT !.machine = [@ EXCEPT !.state = "ALARM"],
                                     !.rt = [@ EXCEPT !.alarm = "NONE"]]
           c == Cancelled(alarmed)
           b == Started(c)
           d == Stopped(b)
           cleared == [d EXCEPT !.rt = [@ EXCEPT !.flags = {}]]
           aborted == [alarmed EXCEPT !.main = [@ EXCEPT !.abort = TRUE]]
           D == {"gc", "machine", "plan", "rt", "main"}
           Is(t) == DOMAIN t = D /\ "state" \in DOMAIN t.machine
           From(t) == t.machine.state = "CHECK" => s.machine.state = "CHECK"
<1>1. Polled(s) = IF "reset" \in s.rt.flags THEN aborted ELSE cleared
  BY Zenon DEF Polled
<1>2. Is(s) /\ From(s)
  BY DEF StateShape, MachineShape
<1>3. Is(alarmed) /\ From(alarmed)
  BY <1>2
<1> HIDE DEF alarmed
<1>4. Is(c) /\ From(c)
  <2> DEFINE f == Flushed(alarmed)
  <2>1. Is(f) /\ f.machine.state = "IDLE"
    BY <1>3 DEF Flushed
  <2> HIDE DEF f
  <2>2. c = alarmed \/ c = f
    BY DEF Cancelled, f
  <2>3. QED
    BY <1>3, <2>1, <2>2
<1> HIDE DEF c
<1>5. Is(b) /\ From(b)
  BY <1>4 DEF Started
<1> HIDE DEF b
<1>6. Is(d) /\ From(d)
  BY <1>5 DEF Stopped
<1> HIDE DEF d
<1>7. cleared.machine = d.machine /\ aborted.machine = alarmed.machine
  BY <1>3, <1>6
<1>8. QED
  BY <1>1, <1>3, <1>6, <1>7

\* What a check point between two actions, or in one, finds and leaves if nothing
\* is aborted.
LEMMA Settled ==
  ASSUME PositionInv, main.pc \notin {"boot", "critical"}, ~Begins(main.todo, {"position", "jog"}),
         NEW t, Good(t), t.gc = gc, t.machine = machine, t.plan = plan, t.main = main,
         t.rt.alarm = rt.alarm, t.rt.flags \in {rt.flags, rt.flags \cup {"start"}},
         NEW s, s = Polled(t), ~s.main.abort
  PROVE  /\ s.main = main /\ s.rt.flags = {} /\ ~Ending(rt, main)
         /\ MotorsAgree(s.machine, s.plan, s.rt, s.main)
         /\ PlannerFollows(s.gc, s.machine, s.plan, s.main)
         /\ s.machine.state = "IDLE" /\ main.pc = "probing" /\ ~main.contact
              => s.machine.pos = s.plan.pos
<1>1. StateShape(t) /\ Inv
  BY DEF Good, PositionInv, OffsetInv
<1>2. ~Ending(rt, main)
  <2>1. "reset" \notin t.rt.flags /\ ~Ending(t.rt, t.main)
    <3>1. Ending(t.rt, t.main) => Ending(s.rt, s.main)
      BY PolledEnds
    <3>2. "reset" \in t.rt.flags => s.main.abort
      BY PolledEnds
    <3>3. Preserved(t, s)
      BY PolledIsGood
    <3>4. main.abort => s.main.abort
      BY <3>3 DEF Preserved
    <3>5. QED
      BY <3>2, <3>4 DEF Ending
  <2>2. QED
    BY <2>1 DEF Ending
<1>3. /\ MotorsAgree(machine, plan, rt, main) /\ ProbesAtRest(machine, rt, main)
      /\ PlannerFollows(gc, machine, plan, main) /\ "reset" \notin t.rt.flags
  BY <1>2 DEF PositionInv, Positions, Placed, Ending
<1>4. MotorsAgree(t.machine, t.plan, t.rt, t.main)
  BY <1>3 DEF MotorsAgree
<1>5. LET u == Polled(t)
      IN /\ u.main = t.main /\ u.rt.flags = {} /\ u.rt.alarm = "NONE"
         /\ u.machine.pos = t.machine.pos /\ u.machine.moving \in BOOLEAN
         /\ \/ /\ t.machine.state = "JOG" /\ u.machine.state = "IDLE" /\ ~u.machine.moving
               /\ u.plan.queue = <<>> /\ u.plan.pos = t.machine.pos
               /\ u.gc = [t.gc EXCEPT !.position = t.machine.pos]
            \/ /\ u.gc = t.gc /\ u.plan = t.plan
               /\ \/ /\ t.machine.state = "IDLE" /\ t.plan.queue # <<>>
                     /\ u.machine.state = "CYCLE"
                  \/ /\ "stop" \in t.rt.flags /\ u.machine.state = "IDLE"
                     /\ ~u.machine.moving
                  \/ /\ u.machine = t.machine
                     /\ t.machine.state = "IDLE" /\ "start" \in t.rt.flags
                          => t.plan.queue = <<>>
  BY <1>1, <1>3, <1>4, PolledQuietly
<1>6. /\ s.main = main /\ s.rt.flags = {} /\ s.rt.alarm = "NONE"
      /\ s.machine.pos = machine.pos
      /\ \/ /\ machine.state = "JOG" /\ s.machine.state = "IDLE" /\ ~s.machine.moving
            /\ s.plan.queue = <<>> /\ s.plan.pos = machine.pos
            /\ s.gc = [gc EXCEPT !.position = machine.pos]
         \/ /\ s.gc = gc /\ s.plan = plan
            /\ \/ machine.state = "IDLE" /\ plan.queue # <<>> /\ s.machine.state = "CYCLE"
               \/ "stop" \in rt.flags /\ s.machine.state = "IDLE" /\ ~s.machine.moving
               \/ /\ s.machine = machine
                  /\ machine.state = "IDLE" /\ "start" \in rt.flags => plan.queue = <<>>
  BY <1>5
<1>7. machine.state = "JOG" => ~Begins(main.todo, AtTarget) /\ main.pc # "probing"
  <2> SUFFICES ASSUME machine.state = "JOG" PROVE ~Begins(main.todo, AtTarget) /\ main.pc # "probing"
    OBVIOUS
  <2>1. OfKinds(main.todo, JogKinds) /\ Chain(main.todo)
    BY <1>1 DEF Inv, Work, JogsAlone
  <2>2. main.todo # <<>> => main.todo[1].do \in JogKinds
    BY <2>1, ChainLength DEF OfKinds
  <2>3. "probe_run" \notin JogKinds
    BY DEF JogKinds, Writes, LaterBytes
  <2>4. QED
    BY <1>1, <2>2, <2>3 DEF Begins, AtTarget, Inv, Work, WaitsInAction
<1>8. MotorsAgree(s.machine, s.plan, s.rt, s.main)
  BY <1>3, <1>6 DEF MotorsAgree
<1>9. PlannerFollows(s.gc, s.machine, s.plan, s.main)
  <2>1. CASE s.gc = gc /\ s.plan = plan
    <3>1. s.machine.state # "CHECK" => machine.state # "CHECK"
      BY <1>3, <1>6 DEF MotorsAgree
    <3>2. QED
      BY <1>3, <1>6, <2>1, <3>1 DEF PlannerFollows
  <2>2. CASE machine.state = "JOG" /\ s.plan.pos = machine.pos /\ s.gc = [gc EXCEPT !.position = machine.pos]
    <3>1. s.gc.position = s.plan.pos
      BY <1>1, <2>2 DEF Inv, Shapes, GcShape, Tracked
    <3>2. QED
      BY <1>6, <1>7, <2>2, <3>1 DEF PlannerFollows
  <2>3. QED
    BY <1>6, <2>1, <2>2
<1>10. ASSUME s.machine.state = "IDLE", main.pc = "probing", ~main.contact
       PROVE  s.machine.pos = s.plan.pos
  <2>1. s.plan = plan
    BY <1>6, <1>7, <1>10
  <2>2. plan.queue = <<>>
    BY <1>3, <1>6, <1>7, <1>10 DEF MotorsAgree, ProbesAtRest
  <2>3. ~Has(main.todo, HomingKinds)
    <3>1. main.todo # <<>> /\ main.todo[1].do = "probe_run" /\ Chain(main.todo)
      BY <1>1, <1>10 DEF Inv, Work, WaitsInAction
    <3>2. 1 \in 1..Len(main.todo)
      BY <3>1, ChainLength
    <3>3. ~OfKinds(main.todo, HomingKinds)
      BY <3>1, <3>2 DEF OfKinds, HomingKinds
    <3>4. QED
      BY <1>1, <3>3 DEF Inv, Work, HomesAlone
  <2>4. EndOf(machine.pos, plan.queue) = plan.pos
    BY <1>1, <1>2, <2>3 DEF Inv, Blocks, PlanAgrees, Ending
  <2>5. machine.pos \in Vector
    BY <1>1 DEF Inv, Shapes, MachineShape
  <2>6. QED
    BY <1>6, <2>1, <2>2, <2>4, <2>5, EmptyQueue
<1>11. QED
  BY <1>2, <1>6, <1>8, <1>9, <1>10

-----------------------------------------------------------------------------
(* The actions of a block.                                                  *)

\* The host's program is what it was, or lacks its first line.
LEMMA ProgramIsModeless ==
  ASSUME LinesAreModeless, HistShape,
         \/ hist'.program = hist.program
         \/ hist.program # <<>> /\ hist'.program = Tail(hist.program)
  PROVE  \A i \in 1..Len(hist'.program) : Modeless(hist'.program[i].words)
<1>1. CASE hist'.program = hist.program
  BY <1>1 DEF LinesAreModeless
<1>2. CASE hist.program # <<>> /\ hist'.program = Tail(hist.program)
  <2> DEFINE q == hist.program L == [kind : STRING, words : Lines]
  <2>1. q \in Seq(L) /\ q # <<>>
    BY <1>2 DEF HistShape
  <2> HIDE DEF q, L
  <2>2. \A i \in 1..Len(Tail(q)) : i + 1 \in 1..Len(q) /\ Tail(q)[i] = q[i + 1]
    BY <2>1
  <2>3. \A i \in 1..Len(Tail(q)) : Modeless(Tail(q)[i].words)
    BY <2>2 DEF LinesAreModeless, q
  <2>4. QED
    BY <1>2, <2>3 DEF q
<1>3. QED
  BY <1>1, <1>2

\* No words are stored but those that were to be.
LEMMA WordsStay ==
  ASSUME LinesAreModeless, HistShape, eeprom'.startup = eeprom.startup,
         \/ hist'.program = hist.program
         \/ hist.program # <<>> /\ hist'.program = Tail(hist.program),
         \A op \in Ops(main'.todo) : op.do = "store" => op \in Ops(main.todo)
  PROVE  LinesAreModeless'
<1>1. \A i \in 1..Len(hist'.program) : Modeless(hist'.program[i].words)
  BY ProgramIsModeless
<1>2. \A op \in Ops(main'.todo) : op.do = "store" => Modeless(op.words)
  BY DEF LinesAreModeless
<1>3. \A n \in StartupLines : Modeless(eeprom'.startup[n])
  BY DEF LinesAreModeless
<1>4. QED
  BY <1>1, <1>2, <1>3 DEF LinesAreModeless

\* The main program goes on; neither the motors nor the planner take part.
LEMMA MovesOn ==
  ASSUME Placed(gc, machine, plan, rt, main), main.pc \notin {"boot", "critical", "probing"},
         main'.pc # "probing", main'.abort = main.abort, plan'.queue = plan.queue,
         rt'.alarm = rt.alarm, "reset" \in rt.flags => "reset" \in rt'.flags,
         rt'.flags \in {rt.flags, rt.flags \cup {"start"}},
         machine'.state = machine.state, machine'.moving = machine.moving,
         ~Begins(main'.todo, {"probe_open"}),
         MotorsAgree(machine, plan, rt, main) /\ PlannerFollows(gc, machine, plan, main)
           => PlannerFollows(gc', machine', plan', main')
  PROVE  Placed(gc', machine', plan', rt', main')
BY DEF Placed, Ending, MotorsAgree, ProbesAtRest

\* The first action is done.
LEMMA DoneMoves ==
  ASSUME PositionInv, NEW name, Op(name), name \notin {"sync", "line", "jog", "probe_run"},
         main' = Done, UNCHANGED plan, rt'.flags = rt.flags, rt'.alarm = rt.alarm,
         machine'.state = machine.state, machine'.moving = machine.moving,
         \/ machine.state = "CHECK"
         \/ gc'.position = gc.position /\ name # "position"
         \/ name = "position" /\ gc'.position = TheOp.target
  PROVE  /\ Ordered(machine', main') /\ Placed(gc', machine', plan', rt', main')
         /\ Ops(main'.todo) \subseteq Ops(main.todo)
<1>1. Inv /\ Ordered(machine, main) /\ Placed(gc, machine, plan, rt, main)
  BY DEF PositionInv, OffsetInv, Positions
<1>2. /\ main.pc = "run" /\ main.todo # <<>> /\ Chain(main.todo) /\ TheOp = main.todo[1]
      /\ main.todo[1].do = name
  BY <1>1, OpIsGood DEF Op, Inv, Work
<1>3. /\ main'.todo = Tail(main.todo) /\ main'.pc = "run" /\ main'.abort = main.abort
  BY <1>1, MainChanges DEF Inv, Shapes
<1>4. Ordered(machine', main') /\ ~Begins(main'.todo, {"probe_open"})
  BY <1>1, <1>2, <1>3, TailOrdered
<1>5. ~Begins(main'.todo, AtTarget)
  BY <1>2, <1>3, NothingArrives
<1>6. PlannerFollows(gc, machine, plan, main) => PlannerFollows(gc', machine', plan', main')
  BY <1>2, <1>5 DEF PlannerFollows, Begins, AtTarget
<1>7. Placed(gc', machine', plan', rt', main')
  BY <1>1, <1>2, <1>3, <1>4, <1>6, MovesOn
<1>8. QED
  BY <1>2, <1>3, <1>4, <1>7, TailOps

LEMMA ModesMove ==
  ASSUME PositionInv,
         \/ DoSet \/ DoPosition \/ DoNoOutputs \/ DoWco \/ DoPut \/ DoSum \/ DoPause \/ LineInCheckMode
         \/ ProbeInCheckMode \/ HomeFound \/ HomeSkipped
  PROVE  Positions'
<1>1. Inv /\ HistShape /\ EepromShape
  BY DEF PositionInv, OffsetInv, Inv, Shapes
<1>2. main' = Done /\ UNCHANGED <<plan, rt, hist>>
  BY DEF DoSet, DoPosition, DoNoOutputs, DoWco, DoPut, DoSum, DoPause, LineInCheckMode,
         ProbeInCheckMode, HomeFound, HomeSkipped
<1>3. eeprom'.startup = eeprom.startup
  BY <1>1 DEF DoSet, DoPosition, DoNoOutputs, DoWco, DoPut, DoSum, DoPause, LineInCheckMode,
              ProbeInCheckMode, HomeFound, HomeSkipped, EepromShape
<1>4. machine'.state = machine.state /\ machine'.moving = machine.moving
  BY <1>1 DEF DoSet, DoPosition, DoNoOutputs, DoWco, DoPut, DoSum, DoPause, LineInCheckMode,
              ProbeInCheckMode, HomeFound, HomeSkipped, Inv, Shapes, MachineShape
<1>5. PICK name : /\ Op(name) /\ name \notin {"sync", "jog", "probe_run"}
                  /\ name # "line" \/ machine.state = "CHECK"
                  /\ \/ machine.state = "CHECK" \/ (gc'.position = gc.position /\ name # "position")
                     \/ name = "position" /\ gc'.position = TheOp.target
  <2>1. CASE DoSet
    <3> DEFINE d == TheOp.to
    <3>1. PICK name \in {"set", "offset"} : Op(name) /\ gc' = Updated(gc, d)
      BY <2>1 DEF DoSet
    <3>2. "position" \notin DOMAIN d
      BY <1>1, <3>1, OpIsGood DEF GoodOp, GoodField, Tracked
    <3> HIDE DEF d
    <3>3. gc'.position = gc.position
      BY <1>1, <3>1, <3>2 DEF Updated, Inv, Shapes, GcShape, Tracked
    <3>4. QED
      BY <3>1, <3>3
  <2>2. CASE DoPosition
    <3>1. Op("position") /\ gc'.position = TheOp.target
      BY <1>1, <2>2 DEF DoPosition, Inv, Shapes, GcShape, Tracked
    <3>2. QED
      BY <3>1
  <2>3. CASE DoPut
    <3>1. PICK name \in DOMAIN ByteOf : Op(name) /\ gc' = gc
      BY <2>3 DEF DoPut
    <3>2. QED
      BY <3>1 DEF ByteOf
  <2>4. CASE LineInCheckMode \/ ProbeInCheckMode
    BY <2>4 DEF LineInCheckMode, ProbeInCheckMode
  <2>5. CASE DoNoOutputs \/ DoWco \/ DoSum \/ DoPause \/ HomeFound \/ HomeSkipped
    <3>1. PICK name \in {"outputs", "wco", "put_sum", "pause", "home"} : Op(name) /\ gc' = gc
      BY <2>5 DEF DoNoOutputs, DoWco, DoSum, DoPause, HomeFound, HomeSkipped
    <3>2. QED
      BY <3>1
  <2>6. QED
    BY <2>1, <2>2, <2>3, <2>4, <2>5
<1>6. /\ Ordered(machine', main') /\ Placed(gc', machine', plan', rt', main')
      /\ Ops(main'.todo) \subseteq Ops(main.todo)
  <2>1. CASE name # "line"
    BY <1>2, <1>4, <1>5, <2>1, DoneMoves
  <2>2. CASE name = "line"
    <3>1. machine.state = "CHECK" /\ main.pc = "run" /\ main.todo # <<>> /\ Chain(main.todo)
          /\ main.todo[1].do # "sync"
      BY <1>1, <1>5, <2>2, OpIsGood DEF Op, Inv, Work
    <3>2. main'.todo = Tail(main.todo) /\ main'.pc = "run" /\ main'.abort = main.abort
      BY <1>1, <1>2, MainChanges DEF Inv, Shapes
    <3>3. Ordered(machine', main') /\ ~Begins(main'.todo, {"probe_open"})
      BY <1>4, <3>1, <3>2, TailOrdered DEF PositionInv, Positions
    <3>4. PlannerFollows(gc', machine', plan', main')
      BY <1>4, <3>1 DEF PlannerFollows
    <3>5. Placed(gc', machine', plan', rt', main')
      BY <1>2, <1>4, <3>1, <3>2, <3>3, <3>4, MovesOn DEF PositionInv, Positions
    <3>6. QED
      BY <3>1, <3>2, <3>3, <3>5, TailOps
  <2>3. QED
    BY <2>1, <2>2
<1>7. LinesAreModeless'
  BY <1>1, <1>2, <1>3, <1>6, WordsStay DEF PositionInv, Positions
<1>8. QED
  BY <1>6, <1>7 DEF Positions

LEMMA StoreMoves ==
  ASSUME PositionInv, DoStore
  PROVE  Positions'
<1>1. Inv /\ EepromShape
  BY DEF PositionInv, OffsetInv, Inv, Shapes
<1>2. /\ Op("store") /\ main' = Done /\ UNCHANGED <<gc, machine, plan, rt, hist>>
      /\ eeprom' = [eeprom EXCEPT !.startup[0] = TheOp.words]
  BY DEF DoStore
<1>3. /\ Ordered(machine', main') /\ Placed(gc', machine', plan', rt', main')
      /\ Ops(main'.todo) \subseteq Ops(main.todo)
  BY <1>2, DoneMoves
<1>4. TheOp \in Ops(main.todo) /\ TheOp.do = "store"
  BY <1>1, <1>2, OpIsGood DEF Ops
<1>5. \A n \in StartupLines : Modeless(eeprom'.startup[n])
  <2> DEFINE words == TheOp.words
  <2>1. Modeless(words) /\ \A n \in StartupLines : Modeless(eeprom.startup[n])
    BY <1>4 DEF PositionInv, Positions, LinesAreModeless
  <2> HIDE DEF words
  <2>2. \A n \in StartupLines : eeprom'.startup[n] \in {words, eeprom.startup[n]}
    BY <1>1, <1>2 DEF EepromShape, words
  <2>3. QED
    BY <2>1, <2>2
<1>6. LinesAreModeless'
  BY <1>2, <1>3, <1>5 DEF PositionInv, Positions, LinesAreModeless
<1>7. QED
  BY <1>3, <1>6 DEF Positions

\* A jog is started, or was by an earlier check point.
LEMMA JogMoves ==
  ASSUME PositionInv, DoJog
  PROVE  Positions'
<1>1. Inv /\ HistShape
  BY DEF PositionInv, OffsetInv, Inv, Shapes
<1>2. /\ Op("jog") /\ main' = Done /\ UNCHANGED <<gc, plan, rt, eeprom, hist>>
      /\ \/ /\ machine.state = "IDLE"
            /\ machine' = [machine EXCEPT !.state = "JOG", !.moving = TRUE]
         \/ machine' = machine
  BY DEF DoJog
<1>3. /\ main.pc = "run" /\ main.todo # <<>> /\ Chain(main.todo) /\ main.todo[1].do = "jog"
  BY <1>1, <1>2, OpIsGood DEF Op, Inv, Work
<1>4. main'.todo = Tail(main.todo) /\ main'.pc = "run" /\ main'.abort = main.abort
  BY <1>1, <1>2, MainChanges DEF Inv, Shapes
<1>5. \/ machine.state = "IDLE" /\ machine'.state = "JOG"
      \/ machine'.state = machine.state /\ machine'.moving = machine.moving
  BY <1>1, <1>2 DEF Inv, Shapes, MachineShape
<1>6. Ordered(machine', main') /\ ~Begins(main'.todo, {"probe_open"})
  BY <1>3, <1>4, <1>5, TailOrdered DEF PositionInv, Positions
<1>7. /\ Begins(main'.todo, {"line"} \cup AtTarget)
      /\ main'.todo[1].do \in AtTarget => main'.todo[1].target = main.todo[1].target
  BY <1>3, <1>4, ArrivesNext
<1>8. Placed(gc', machine', plan', rt', main')
  <2> SUFFICES ASSUME ~Ending(rt', main')
               PROVE  /\ MotorsAgree(machine', plan', rt', main') /\ ProbesAtRest(machine', rt', main')
                      /\ PlannerFollows(gc', machine', plan', main')
    BY DEF Placed
  <2>1. MotorsAgree(machine, plan, rt, main) /\ PlannerFollows(gc, machine, plan, main)
    BY <1>2, <1>3, <1>4 DEF PositionInv, Positions, Placed, Ending
  <2>2. MotorsAgree(machine', plan', rt', main')
    BY <1>2, <1>3, <1>4, <1>5, <2>1 DEF MotorsAgree
  <2>3. PlannerFollows(gc', machine', plan', main')
    BY <1>2, <1>3, <1>5, <1>7, <2>1 DEF PlannerFollows, Begins, AtTarget
  <2>4. QED
    BY <1>4, <1>6, <2>2, <2>3 DEF ProbesAtRest
<1>9. Ops(main'.todo) \subseteq Ops(main.todo)
  BY <1>3, <1>4, TailOps
<1>10. LinesAreModeless'
  BY <1>1, <1>2, <1>9, WordsStay DEF PositionInv, Positions
<1>11. QED
  BY <1>6, <1>8, <1>10 DEF Positions

\* A reset, in an action or an interrupt.
LEMMA ResetMoves ==
  ASSUME PositionInv, DoReset \/ UserReset
  PROVE  Positions'
<1>1. Inv /\ HistShape
  BY DEF PositionInv, OffsetInv, Inv, Shapes
<1>2. /\ rt' = AfterReset(rt) /\ machine' = Killed(rt) /\ UNCHANGED eeprom
      /\ hist' = hist \/ \E n : hist' = [hist EXCEPT !.resets = n]
      /\ (Op("reset") /\ main' = Done) \/ main' = main
  BY DEF DoReset, UserReset
<1>3. machine'.state = machine.state
  BY <1>1, <1>2, KilledIsGood
<1>4. "reset" \in rt'.flags
  <2>1. DOMAIN rt = {"flags", "alarm"}
    BY <1>1 DEF Inv, Shapes, RtShape
  <2>2. "reset" \in Raise(rt, "reset").flags /\ DOMAIN Raise(rt, "reset") = DOMAIN rt
    BY <2>1 DEF Raise
  <2>3. QED
    BY <1>2, <2>1, <2>2 DEF AfterReset
<1>5. Placed(gc', machine', plan', rt', main')
  BY <1>4 DEF Placed, Ending
<1>6. Ordered(machine', main') /\ Ops(main'.todo) \subseteq Ops(main.todo)
  <2>1. CASE main' = main
    BY <1>3, <2>1 DEF PositionInv, Positions, Ordered
  <2>2. CASE Op("reset") /\ main' = Done
    <3>1. main.todo # <<>> /\ Chain(main.todo) /\ main'.todo = Tail(main.todo)
      BY <1>1, <2>2, OpIsGood, MainChanges DEF Inv, Work, Shapes
    <3>2. QED
      BY <1>3, <3>1, TailOrdered, TailOps DEF PositionInv, Positions
  <2>3. QED
    BY <1>2, <2>1, <2>2
<1>7. hist'.program = hist.program
  BY <1>1, <1>2 DEF HistShape
<1>8. LinesAreModeless'
  BY <1>1, <1>2, <1>6, <1>7, WordsStay DEF PositionInv, Positions
<1>9. QED
  BY <1>5, <1>6, <1>8 DEF Positions

-----------------------------------------------------------------------------
(* Actions that others take the place of.                                   *)

Replaces == DoArc \/ DoProbe \/ (ProbeOpen /\ ~main.abort) \/ DoClear \/ (DoEnd /\ machine.state # "CHECK")

\* What takes the place of the first action.
Replacement ==
  IF Op("clear") THEN {"sync", "clear"} \cup Writes
  ELSE IF Op("probe") THEN {"sync", "probe_open"} ELSE {"line", "sync", "wco", "probe_run"}

LEMMA Joined ==
  ASSUME NEW s, IsSeq(s), NEW t, IsSeq(t)
  PROVE  LET u == s \o t
         IN /\ Len(s) \in Nat /\ Len(t) \in Nat /\ Len(u) = Len(s) + Len(t)
            /\ \A i \in 1..Len(u) : u[i] = IF i <= Len(s) THEN s[i] ELSE t[i - Len(s)]
<1>1. PICK S, T : s \in Seq(S) /\ t \in Seq(T)
  BY DEF IsSeq
<1> DEFINE R == S \cup T
<1>2. s \in Seq(R) /\ t \in Seq(R)
  BY <1>1
<1> HIDE DEF R
<1>3. QED
  BY <1>2, ConcatProperties

LEMMA PairOf ==
  ASSUME NEW a, NEW b
  PROVE  LET s == <<a>> \o <<b>>
         IN s \in Seq({a, b}) /\ Len(s) = 2 /\ s[1] = a /\ s[2] = b
<1>1. <<a>> \in Seq({a, b}) /\ <<b>> \in Seq({a, b}) /\ Len(<<a>>) = 1 /\ Len(<<b>>) = 1
      /\ <<a>>[1] = a /\ <<b>>[1] = b
  OBVIOUS
<1>2. QED
  BY <1>1, ConcatProperties

LEMMA OpIsHead ==
  ASSUME Inv, NEW a, NEW b, Op(a), Op(b)
  PROVE  a = b
BY OpIsGood

\* The record of the first system is sound when a program ends.
LEMMA FirstIsSound ==
  ASSUME OffsetInv, Op("end")
  PROVE  Sound(eeprom.records[0])
<1>1. Inv
  BY DEF OffsetInv
<1>2. main.pc = "run" /\ main.todo[1].do = "end"
  BY <1>1, OpIsGood DEF Op
<1>3. ~InWrite(main.todo)
  BY <1>2 DEF InWrite, LaterBytes
<1>4. QED
  BY <1>2, <1>3 DEF OffsetInv, Stored, FirstIsWhole, Whole

LEMMA ReplacedBy ==
  ASSUME OffsetInv, Replaces
  PROVE  /\ \E s : /\ IsSeq(s) /\ OfKinds(s, Replacement) /\ main'.todo = s \o Tail(main.todo)
                   /\ Op("probe") => Len(s) = 2 /\ s[1].do = "sync"
         /\ main'.pc = "run" /\ main'.abort = main.abort /\ main'.startup = main.startup
         /\ UNCHANGED <<machine, plan, rt, eeprom, hist>>
         /\ Fresh(main'.todo)
<1> DEFINE t == Tail(main.todo)
           Goal == /\ \E s : /\ IsSeq(s) /\ OfKinds(s, Replacement) /\ main'.todo = s \o t
                             /\ Op("probe") => Len(s) = 2 /\ s[1].do = "sync"
                   /\ main'.pc = "run" /\ main'.abort = main.abort /\ main'.startup = main.startup
                   /\ UNCHANGED <<machine, plan, rt, eeprom, hist>>
                   /\ Fresh(main'.todo)
<1>1. Inv /\ MainShape(main)
  BY DEF OffsetInv, Inv, Shapes
<1>2. CASE DoArc
  <2>1. /\ Op("arc") /\ UNCHANGED <<machine, plan, rt, eeprom, hist>>
        /\ \E points \in {<<>>} \cup {MoveTo("line", p) : p \in ArcPoints} :
             main' = [main EXCEPT !.todo = points \o t]
    BY <1>2 DEF DoArc
  <2>2. PICK points \in {<<>>} \cup {MoveTo("line", p) : p \in ArcPoints} :
          main' = [main EXCEPT !.todo = points \o t]
    BY <2>1
  <2>3. IsSeq(points) /\ OfKinds(points, {"line"})
    <3>1. <<>> \in Seq({}) /\ \A p : MoveTo("line", p) \in Seq({[do |-> "line", target |-> p]})
      BY DEF MoveTo
    <3>2. IsSeq(<<>>) /\ \A p : IsSeq(MoveTo("line", p))
      BY <3>1, SequencesAreSeq
    <3>3. OfKinds(<<>>, {"line"}) /\ \A p : OfKinds(MoveTo("line", p), {"line"})
      BY DEF OfKinds, MoveTo
    <3>4. QED
      BY <3>2, <3>3
  <2>4. ~Op("clear") /\ ~Op("probe")
    BY <1>1, <2>1, OpIsHead
  <2>5. OfKinds(points, Replacement)
    BY <2>3, <2>4 DEF OfKinds, Replacement
  <2> HIDE DEF t
  <2>6. /\ main'.todo = points \o t /\ main'.pc = main.pc /\ main'.abort = main.abort
        /\ main'.startup = main.startup
    BY <1>1, <2>2, MainReplaced
  <2>7. Fresh(main'.todo)
    BY <1>1, <1>2, ArcKeeps
  <2>8. QED
    BY <2>1, <2>3, <2>4, <2>5, <2>6, <2>7 DEF Op, t
<1>3. CASE DoProbe
  <2> DEFINE a == [do |-> "sync"] b == Probing("probe_open") s == Do("sync") \o <<b>>
  <2>1. /\ Op("probe") /\ UNCHANGED <<machine, plan, rt, eeprom, hist>>
        /\ main' = [main EXCEPT !.contact = FALSE, !.todo = Do("sync") \o <<Probing("probe_open")>> \o t]
    BY <1>3, Zenon DEF DoProbe
  <2>2. a.do = "sync" /\ b.do = "probe_open" /\ Do("sync") = <<a>>
    BY DEF Probing, Do
  <2> HIDE DEF a, b
  <2>3. s = <<a>> \o <<b>>
    BY <2>2
  <2> HIDE DEF s
  <2>4. s \in Seq({a, b}) /\ Len(s) = 2 /\ s[1] = a /\ s[2] = b
    BY <2>3, PairOf
  <2>5. IsSeq(s) /\ OfKinds(s, {"sync", "probe_open"})
    BY <2>2, <2>4, SequencesAreSeq DEF OfKinds
  <2>6. Replacement = {"sync", "probe_open"}
    BY <1>1, <2>1, OpIsHead DEF Replacement
  <2>7. main' = [main EXCEPT !.contact = FALSE, !.todo = s \o t]
    BY <2>1 DEF s, b
  <2> HIDE DEF t
  <2>8. /\ main'.todo = s \o t /\ main'.pc = main.pc /\ main'.abort = main.abort
        /\ main'.startup = main.startup
    BY <1>1, <2>7, MainReplaced
  <2>9. Fresh(main'.todo)
    BY <1>1, <1>3, ProbingReplaced
  <2>10. QED
    BY <2>1, <2>2, <2>4, <2>5, <2>6, <2>8, <2>9 DEF Op, t
<1>4. CASE ProbeOpen /\ ~main.abort
  <2> DEFINE a == [do |-> "line", target |-> TheOp.target] b == Probing("probe_run")
             s == MoveTo("line", TheOp.target) \o <<b>>
  <2>1. /\ Op("probe_open") /\ UNCHANGED <<machine, plan, rt, eeprom, hist>>
        /\ main' = [main EXCEPT !.todo = MoveTo("line", TheOp.target) \o <<Probing("probe_run")>> \o t]
    BY <1>4, Zenon DEF ProbeOpen
  <2>2. a.do = "line" /\ b.do = "probe_run" /\ MoveTo("line", TheOp.target) = <<a>>
    BY DEF Probing, MoveTo
  <2> HIDE DEF a, b
  <2>3. s = <<a>> \o <<b>>
    BY <2>2
  <2> HIDE DEF s
  <2>4. s \in Seq({a, b}) /\ Len(s) = 2 /\ s[1] = a /\ s[2] = b
    BY <2>3, PairOf
  <2>5. IsSeq(s) /\ OfKinds(s, {"line", "probe_run"})
    BY <2>2, <2>4, SequencesAreSeq DEF OfKinds
  <2>6. ~Op("clear") /\ ~Op("probe")
    BY <1>1, <2>1, OpIsHead
  <2>7. OfKinds(s, Replacement)
    BY <2>5, <2>6 DEF OfKinds, Replacement
  <2>8. main' = [main EXCEPT !.todo = s \o t]
    BY <2>1 DEF s, b
  <2> HIDE DEF t
  <2>9. /\ main'.todo = s \o t /\ main'.pc = main.pc /\ main'.abort = main.abort
        /\ main'.startup = main.startup
    BY <1>1, <2>8, MainReplaced
  <2>10. Fresh(main'.todo)
    BY <1>1, <1>4, ProbingReplaced
  <2>11. QED
    BY <2>1, <2>5, <2>6, <2>7, <2>9, <2>10 DEF Op, t
<1>5. CASE DoClear
  <2> DEFINE n == TheOp.record
             op == [do |-> "clear", record |-> n + 1]
             others == IF n + 1 \in Records THEN <<op>> ELSE <<>>
             write == WriteRecord(n, Origin)
             s == write \o others
             K == {"sync", "clear"} \cup Writes
  <2>1. /\ Op("clear") /\ UNCHANGED <<machine, plan, rt, eeprom, hist>>
        /\ main' = [Done EXCEPT !.todo = s \o @]
    BY <1>5, Zenon DEF DoClear
  <2>2. n \in Records
    BY <1>1, <2>1, OpIsGood DEF GoodOp, Writes, LaterBytes
  <2>3. Part(write, K)
    BY <2>2, OriginInTravel, WriteRecordIsFresh
  <2>4. Part(others, K)
    <3>1. CASE n + 1 \in Records
      <4>1. op.do = "clear" /\ op.record = n + 1
        OBVIOUS
      <4> HIDE DEF op
      <4>2. GoodOp(op) /\ op.do \notin Awaiting \cup Arriving \cup {"offset"}
        BY <3>1, <4>1
           DEF GoodOp, Targeted, Awaiting, Arriving, AtTarget, LaterBytes, Unwritten, Writes
      <4>3. Part(<<op>>, K)
        BY <4>1, <4>2, SingleIsFresh
      <4>4. QED
        BY <3>1, <4>3
    <3>2. CASE n + 1 \notin Records
      BY <3>2, NothingIsFresh
    <3>3. QED
      BY <3>1, <3>2
  <2>5. Part(s, K)
    <3> HIDE DEF write, others, K
    <3>1. QED
      BY <2>3, <2>4, ConcatIsFresh
  <2>6. K = Replacement /\ ~Op("probe")
    BY <1>1, <2>1, OpIsHead DEF Replacement
  <2> HIDE DEF s, K, t
  <2>7. main' = [Done EXCEPT !.todo = s \o t]
    <3>1. Done.todo = t
      BY <1>1, MainChanges DEF t
    <3>2. QED
      BY <2>1, <3>1
  <2>8. main'.todo = s \o t /\ main'.pc = "run" /\ main'.abort = main.abort
        /\ main'.startup = main.startup
    BY <1>1, <2>7, MainChanges
  <2>9. Fresh(main'.todo)
    BY <1>1, <1>5, ClearsKeep
  <2>10. QED
    BY <2>1, <2>5, <2>6, <2>8, <2>9 DEF Part, Fresh, Chain, t
<1>6. CASE DoEnd /\ machine.state # "CHECK"
  <2>1. Op("end") /\ UNCHANGED <<machine, plan, rt, eeprom, hist>>
    BY <1>6 DEF DoEnd
  <2>2. Sound(eeprom.records[0])
    BY <2>1, FirstIsSound
  <2>3. main' = [Done EXCEPT !.todo = OffsetChanged \o @]
    BY <1>6, <2>2 DEF DoEnd
  <2>4. Part(OffsetChanged, {"sync", "wco"})
    BY OffsetChangedIsFresh
  <2>5. ~Op("clear") /\ ~Op("probe")
    BY <1>1, <2>1, OpIsHead
  <2>6. IsSeq(OffsetChanged) /\ OfKinds(OffsetChanged, Replacement)
    BY <2>4, <2>5 DEF OfKinds, Replacement, Part, Fresh, Chain
  <2>7. Fresh(t) /\ Plain(t)
    BY <1>1, <2>1, PlainTail DEF JogKinds, HomingKinds, Writes, LaterBytes
  <2> HIDE DEF t
  <2>8. Fresh(OffsetChanged \o t)
    BY <2>4, <2>7, PlainConcat DEF HomingKinds
  <2>9. main' = [Done EXCEPT !.todo = OffsetChanged \o t]
    <3>1. Done.todo = t
      BY <1>1, MainChanges DEF t
    <3>2. QED
      BY <2>3, <3>1
  <2>10. main'.todo = OffsetChanged \o t /\ main'.pc = "run" /\ main'.abort = main.abort
         /\ main'.startup = main.startup
    BY <1>1, <2>9, MainChanges
  <2>11. QED
    BY <2>1, <2>5, <2>6, <2>8, <2>10 DEF t
<1>7. QED
  BY <1>2, <1>3, <1>4, <1>5, <1>6 DEF Replaces

LEMMA ReplacedMoves ==
  ASSUME PositionInv, Replaces
  PROVE  Positions'
<1>1. OffsetInv /\ Inv /\ HistShape /\ Ordered(machine, main)
  BY DEF PositionInv, OffsetInv, Positions, Inv, Shapes
<1>2. PICK s : /\ IsSeq(s) /\ OfKinds(s, Replacement) /\ main'.todo = s \o Tail(main.todo)
               /\ Op("probe") => Len(s) = 2 /\ s[1].do = "sync"
  BY <1>1, ReplacedBy
<1>3. /\ main'.pc = "run" /\ main'.abort = main.abort /\ UNCHANGED <<machine, plan, rt, eeprom, hist>>
      /\ Fresh(main'.todo)
  BY <1>1, ReplacedBy
<1>4. PICK name \in {"arc", "probe", "probe_open", "clear", "end"} : Op(name)
  BY DEF Replaces, DoArc, DoProbe, ProbeOpen, DoClear, DoEnd
<1>5. /\ main.pc = "run" /\ main.todo # <<>> /\ Chain(main.todo) /\ TheOp = main.todo[1]
      /\ main.todo[1].do = name
  BY <1>1, <1>4, OpIsGood DEF Op, Inv, Work
<1>6. Ordered(machine', main') /\ ~Begins(main'.todo, {"probe_open"})
  <2>1. CASE name # "probe"
    <3>1. "probe_open" \notin Replacement /\ "homed" \notin Replacement
      BY <1>1, <1>4, <2>1, OpIsHead DEF Replacement, Writes, LaterBytes
    <3>2. main.todo[1].do # "sync" /\ machine' = machine
      BY <1>3, <1>5
    <3> HIDE DEF Replacement
    <3>3. QED
      BY <1>1, <1>2, <1>5, <3>1, <3>2, ReplacedOrdered
  <2>2. CASE name = "probe"
    <3> DEFINE t == Tail(main.todo) w == [todo |-> t]
    <3>1. machine.state # "CHECK"
      <4>1. DoProbe
        BY <1>1, <1>4, <2>2, OpIsHead DEF Replaces, DoArc, DoProbe, ProbeOpen, DoClear, DoEnd
      <4>2. QED
        BY <4>1 DEF DoProbe
    <3>2. w.todo = t
      OBVIOUS
    <3> HIDE DEF w
    <3>3. ~Has(t, {"probe_open"})
      BY <1>1, <1>5, <2>2, <3>2, TailOrdered
    <3>4. /\ Len(s) = 2 /\ s[1].do = "sync"
      BY <1>2, <1>4, <2>2
    <3>5. IsSeq(t)
      BY <1>5, TailIsChain DEF Chain
    <3> HIDE DEF t
    <3>6. PICK S, T : s \in Seq(S) /\ t \in Seq(T)
      BY <1>2, <3>5 DEF IsSeq
    <3>7. main'.todo = s \o t
      BY <1>2 DEF t
    <3> DEFINE u == s \o t
    <3>8. /\ Len(u) = 2 + Len(t) /\ Len(t) \in Nat /\ u[1] = s[1]
          /\ \A i \in 1..Len(u) : i > 2 => i - 2 \in 1..Len(t) /\ u[i] = t[i - 2]
      <4>1. IsSeq(s) /\ IsSeq(t)
        BY <1>2, <3>5
      <4>2. /\ Len(s) \in Nat /\ Len(t) \in Nat /\ Len(u) = Len(s) + Len(t)
            /\ \A i \in 1..Len(u) : u[i] = IF i <= Len(s) THEN s[i] ELSE t[i - Len(s)]
        BY <4>1, Joined
      <4> HIDE DEF u
      <4>3. QED
        BY <3>4, <4>2
    <3> HIDE DEF u
    <3>9. \A i \in 1..Len(main'.todo) : main'.todo[i].do = "probe_open" => i = 1 \/ i = 2
      BY <3>3, <3>7, <3>8 DEF Has, u
    <3>10. QED
      BY <1>3, <3>1, <3>4, <3>7, <3>8, <3>9 DEF Ordered, Begins, u
  <2>3. QED
    BY <2>1, <2>2
<1>7. ~Begins(main'.todo, AtTarget)
  BY <1>3 DEF Fresh, Begins, Arriving
<1>8. gc'.position = gc.position
  <2>1. gc' = gc \/ gc' = [gc EXCEPT !.coord_select = 0]
          \/ \E v : gc' = [gc EXCEPT !.coord_select = 0, !.coord_system = v]
    BY DEF Replaces, DoArc, DoProbe, ProbeOpen, DoClear, DoEnd
  <2>2. QED
    BY <1>1, <2>1 DEF Inv, Shapes, GcShape, Tracked
<1>9. PlannerFollows(gc, machine, plan, main) => PlannerFollows(gc', machine', plan', main')
  BY <1>3, <1>5, <1>7, <1>8 DEF PlannerFollows, Begins, AtTarget
<1>10. Placed(gc', machine', plan', rt', main')
  BY <1>3, <1>5, <1>6, <1>9, MovesOn DEF PositionInv, Positions
<1>11. ~Has(s, {"store"})
  BY <1>2 DEF OfKinds, Has, Replacement, Writes, LaterBytes
<1>12. \A op \in Ops(main'.todo) : op.do = "store" => op \in Ops(main.todo)
  <2>1. Ops(main'.todo) = Ops(s) \cup Ops(Tail(main.todo))
    <3>1. IsSeq(Tail(main.todo))
      BY <1>5, TailIsChain DEF Chain
    <3>2. QED
      BY <1>2, <3>1, ConcatOps
  <2>2. QED
    BY <1>5, <1>11, <2>1, TailOps, HasOps
<1>13. LinesAreModeless'
  BY <1>1, <1>3, <1>12, WordsStay DEF PositionInv, Positions
<1>14. QED
  BY <1>6, <1>10, <1>13 DEF Positions

-----------------------------------------------------------------------------
(* Waits and check points.                                                  *)

LEMMA AutoStartFlags ==
  ASSUME NEW r, RtShape(r)
  PROVE  /\ AutoStart(r).alarm = r.alarm /\ AutoStart(r).flags \in {r.flags, r.flags \cup {"start"}}
         /\ Raise(r, "start").alarm = r.alarm /\ Raise(r, "start").flags = r.flags \cup {"start"}
BY DEF AutoStart, Raise, RtShape

\* Waits for the buffer, for room and for the probe, and the end of a line.
LEMMA WaitsMove ==
  ASSUME PositionInv, DoSync \/ DoLine \/ ProbeRun \/ EndOfLine
  PROVE  Positions'
<1>1. Inv /\ HistShape /\ RtShape(rt)
  BY DEF PositionInv, OffsetInv, Inv, Shapes
<1>2. /\ UNCHANGED <<gc, machine, plan, eeprom, hist>> /\ main.pc = "run"
      /\ \E pc : main' = At(pc) /\ (pc = "probing" => rt' = Raise(rt, "start"))
                                /\ pc \notin {"boot", "critical"}
      /\ rt' \in {rt, AutoStart(rt), Raise(rt, "start")}
  BY DEF DoSync, DoLine, ProbeRun, EndOfLine, Op
<1>3. PICK pc : main' = At(pc) /\ (pc = "probing" => rt' = Raise(rt, "start"))
  BY <1>2
<1>4. main'.todo = main.todo /\ main'.pc = pc /\ main'.abort = main.abort
  BY <1>1, <1>3, MainChanges DEF Inv, Shapes
<1>5. /\ rt'.alarm = rt.alarm /\ rt'.flags \in {rt.flags, rt.flags \cup {"start"}}
      /\ pc = "probing" => "start" \in rt'.flags
  BY <1>1, <1>2, <1>3, AutoStartFlags
<1>6. Placed(gc', machine', plan', rt', main')
  <2> SUFFICES ASSUME ~Ending(rt', main')
               PROVE  /\ MotorsAgree(machine', plan', rt', main') /\ ProbesAtRest(machine', rt', main')
                      /\ PlannerFollows(gc', machine', plan', main')
    BY DEF Placed
  <2>1. /\ MotorsAgree(machine, plan, rt, main) /\ ProbesAtRest(machine, rt, main)
        /\ PlannerFollows(gc, machine, plan, main)
    BY <1>2, <1>4, <1>5 DEF PositionInv, Positions, Placed, Ending
  <2>2. MotorsAgree(machine', plan', rt', main')
    BY <1>2, <1>5, <2>1 DEF MotorsAgree
  <2>3. ProbesAtRest(machine', rt', main')
    BY <1>2, <1>4, <1>5, <2>1 DEF ProbesAtRest
  <2>4. QED
    BY <1>2, <1>4, <2>1, <2>2, <2>3 DEF PlannerFollows
<1>7. Ordered(machine', main')
  BY <1>2, <1>4 DEF PositionInv, Positions, Ordered
<1>8. LinesAreModeless'
  BY <1>1, <1>2, <1>4, WordsStay DEF PositionInv, Positions
<1>9. QED
  BY <1>6, <1>7, <1>8 DEF Positions

\* What a check point leaves is what it becomes.
LEMMA BecomesMove ==
  ASSUME PositionInv, NEW t, Become(t), HistShape, UNCHANGED eeprom,
         hist' = hist \/ \E s : hist' = HistAfter(s),
         t.main.todo = main.todo \/ (main.todo # <<>> /\ t.main.todo = Tail(main.todo)),
         t.machine.state = "CHECK" => machine.state = "CHECK",
         Placed(t.gc, t.machine, t.plan, t.rt, t.main)
  PROVE  Positions'
<1>1. /\ gc' = t.gc /\ machine' = t.machine /\ plan' = t.plan /\ rt' = t.rt /\ main' = t.main
  BY DEF Become
<1>2. Ordered(machine, main) /\ Chain(main.todo)
  BY DEF PositionInv, OffsetInv, Positions, Inv, Work
<1>3. Ordered(machine', main') /\ Ops(main'.todo) \subseteq Ops(main.todo)
  <2>1. CASE main'.todo = main.todo
    BY <1>1, <1>2, <2>1 DEF Ordered
  <2>2. CASE main'.todo = Tail(main.todo) /\ main.todo # <<>>
    BY <1>1, <1>2, <2>2, TailOrdered, TailOps
  <2>3. QED
    BY <1>1, <2>1, <2>2
<1>4. LinesAreModeless'
  <2>1. hist'.program = hist.program
    BY HistKept
  <2>2. QED
    BY <1>3, <2>1, WordsStay DEF PositionInv, Positions
<1>5. QED
  BY <1>1, <1>3, <1>4 DEF Positions

\* A check point of the state as it is.
LEMMA SettledHere ==
  ASSUME PositionInv, main.pc \notin {"boot", "critical"}, ~Begins(main.todo, {"position", "jog"}),
         NEW s, s = Polled(State)
  PROVE  /\ Good(s) /\ Preserved(State, s) /\ s.main.todo = main.todo /\ s.main.pc = main.pc
         /\ s.machine.state = "CHECK" => machine.state = "CHECK"
         /\ ~s.main.abort =>
              /\ s.main = main /\ s.rt.flags = {} /\ ~Ending(rt, main)
              /\ MotorsAgree(s.machine, s.plan, s.rt, s.main)
              /\ PlannerFollows(s.gc, s.machine, s.plan, s.main)
              /\ s.machine.state = "IDLE" /\ main.pc = "probing" /\ ~main.contact
                   => s.machine.pos = s.plan.pos
<1> DEFINE t == State
<1>1. /\ Good(t) /\ t.gc = gc /\ t.machine = machine /\ t.plan = plan /\ t.main = main /\ t.rt = rt
  BY StateIsGood DEF PositionInv, OffsetInv
<1>2. s = Polled(t)
  OBVIOUS
<1> HIDE DEF t
<1>3. Good(s) /\ Preserved(t, s)
  BY <1>1, <1>2, PolledIsGood
<1>4. s.main.todo = main.todo /\ s.main.pc = main.pc
  BY <1>1, <1>3 DEF Preserved
<1>5. s.machine.state = "CHECK" => machine.state = "CHECK"
  BY <1>1, <1>2, PolledChecks DEF Good
<1>6. ASSUME ~s.main.abort
      PROVE  /\ s.main = main /\ s.rt.flags = {} /\ ~Ending(rt, main)
             /\ MotorsAgree(s.machine, s.plan, s.rt, s.main)
             /\ PlannerFollows(s.gc, s.machine, s.plan, s.main)
             /\ s.machine.state = "IDLE" /\ main.pc = "probing" /\ ~main.contact
                  => s.machine.pos = s.plan.pos
  <2>1. t.rt.alarm = rt.alarm /\ t.rt.flags \in {rt.flags, rt.flags \cup {"start"}}
    BY <1>1
  <2>2. QED
    BY <1>1, <1>2, <1>6, <2>1, Settled
<1>7. QED
  BY <1>3, <1>4, <1>5, <1>6 DEF t

LEMMA SyncMoves ==
  ASSUME PositionInv, SyncWait
  PROVE  Positions'
<1> DEFINE s == Polled(State)
           over == s.main.abort \/ (s.plan.queue = <<>> /\ s.machine.state # "CYCLE")
           t == [s EXCEPT !.main = [Done EXCEPT !.abort = s.main.abort]]
<1>1. /\ main.pc = "sync" /\ Become(IF over THEN t ELSE s) /\ UNCHANGED eeprom
      /\ hist' = HistAfter(s)
  BY Zenon DEF SyncWait
<1>2. Inv /\ HistShape
  BY DEF PositionInv, OffsetInv, Inv, Shapes
<1>3. /\ main.todo # <<>> /\ main.todo[1].do \in {"sync", "outputs"} /\ Chain(main.todo)
  BY <1>1, <1>2 DEF Inv, Work, WaitsInAction
<1>4. /\ Good(s) /\ Preserved(State, s) /\ s.main.todo = main.todo /\ s.main.pc = main.pc
      /\ s.machine.state = "CHECK" => machine.state = "CHECK"
      /\ ~s.main.abort =>
           /\ s.main = main /\ s.rt.flags = {}
           /\ MotorsAgree(s.machine, s.plan, s.rt, s.main)
           /\ PlannerFollows(s.gc, s.machine, s.plan, s.main)
  <2>1. ~Begins(main.todo, {"position", "jog"})
    BY <1>3 DEF Begins
  <2> HIDE DEF s
  <2>2. s = Polled(State)
    BY DEF s
  <2>3. QED
    BY <1>1, <2>1, <2>2, SettledHere
<1> HIDE DEF s
<1>5. /\ t.main.todo = Tail(main.todo) /\ t.main.pc = "run" /\ t.main.abort = s.main.abort
      /\ t.gc = s.gc /\ t.machine = s.machine /\ t.plan = s.plan /\ t.rt = s.rt
  <2>1. main.todo # <<>> /\ main.todo[1].do # "homed" /\ s.main.abort \in BOOLEAN
    BY <1>3, <1>4 DEF Good, StateShape, MainShape
  <2>2. QED
    BY <1>2, <1>4, <2>1, PolledDone
<1> HIDE DEF t
<1>6. CASE over
  <2>1. Placed(t.gc, t.machine, t.plan, t.rt, t.main)
    <3> SUFFICES ASSUME ~s.main.abort
                 PROVE  /\ MotorsAgree(t.machine, t.plan, t.rt, t.main)
                        /\ ProbesAtRest(t.machine, t.rt, t.main)
                        /\ PlannerFollows(t.gc, t.machine, t.plan, t.main)
      BY <1>5 DEF Placed, Ending
    <3>1. MotorsAgree(t.machine, t.plan, t.rt, t.main)
      BY <1>4, <1>5 DEF MotorsAgree
    <3>2. ProbesAtRest(t.machine, t.rt, t.main)
      BY <1>5, <1>6 DEF ProbesAtRest
    <3>3. ~Begins(t.main.todo, AtTarget)
      BY <1>3, <1>5, NothingArrives
    <3>4. PlannerFollows(t.gc, t.machine, t.plan, t.main)
      BY <1>3, <1>4, <1>5, <3>3 DEF PlannerFollows, Begins, AtTarget
    <3>5. QED
      BY <3>1, <3>2, <3>4
  <2>2. Become(t)
    BY <1>1, <1>6
  <2>3. QED
    BY <1>1, <1>2, <1>3, <1>4, <1>5, <2>1, <2>2, BecomesMove
<1>7. CASE ~over
  <2>1. ProbesAtRest(s.machine, s.rt, s.main)
    BY <1>1, <1>3, <1>4 DEF ProbesAtRest, Begins
  <2>2. Placed(s.gc, s.machine, s.plan, s.rt, s.main)
    BY <1>4, <1>7, <2>1 DEF Placed
  <2>3. Become(s)
    BY <1>1, <1>7
  <2>4. QED
    BY <1>1, <1>2, <1>4, <2>2, <2>3, BecomesMove
<1>8. QED
  BY <1>6, <1>7

LEMMA BufferedEnd ==
  ASSUME NEW p, PlanShape(p), NEW target \in Vector
  PROVE  Buffered(p, target).pos = target
<1>1. p.pos \in Vector
  BY DEF PlanShape
<1>2. Minus(target, p.pos) = Origin => p.pos = target
  <2>1. \A a \in Axes : target[a] \in Int /\ p.pos[a] \in Int
    BY <1>1 DEF Vector
  <2>2. Minus(target, p.pos) = Origin => \A a \in Axes : target[a] = p.pos[a]
    BY <2>1 DEF Minus, Origin
  <2>3. QED
    BY <1>1, <2>2 DEF Vector
<1>3. QED
  BY <1>2 DEF Buffered

LEMMA LineMoves ==
  ASSUME PositionInv, LineWait
  PROVE  Positions'
<1> DEFINE s == Polled(State)
           full == Len(s.plan.queue) >= QueueSize
           done == [s EXCEPT !.main = [Done EXCEPT !.abort = s.main.abort]]
           started == [s EXCEPT !.rt = Raise(@, "start")]
           buffered == [done EXCEPT !.plan = Buffered(@, TheOp.target)]
<1>1. /\ main.pc = "line" /\ UNCHANGED eeprom /\ hist' = HistAfter(s)
      /\ CASE s.main.abort -> Become(done)
           [] ~s.main.abort /\ full -> Become(started)
           [] OTHER -> Become(buffered)
  BY Zenon DEF LineWait
<1>2. Inv /\ HistShape
  BY DEF PositionInv, OffsetInv, Inv, Shapes
<1>3. /\ main.todo # <<>> /\ main.todo[1].do = "line" /\ Chain(main.todo)
  BY <1>1, <1>2 DEF Inv, Work, WaitsInAction
<1>4. /\ Good(s) /\ Preserved(State, s) /\ s.main.todo = main.todo /\ s.main.pc = main.pc
      /\ s.machine.state = "CHECK" => machine.state = "CHECK"
      /\ ~s.main.abort =>
           /\ s.main = main /\ s.rt.flags = {}
           /\ MotorsAgree(s.machine, s.plan, s.rt, s.main)
           /\ PlannerFollows(s.gc, s.machine, s.plan, s.main)
  <2>1. ~Begins(main.todo, {"position", "jog"})
    BY <1>3 DEF Begins
  <2> HIDE DEF s
  <2>2. s = Polled(State)
    BY DEF s
  <2>3. QED
    BY <1>1, <2>1, <2>2, SettledHere
<1> HIDE DEF s
<1>5. /\ done.main.todo = Tail(main.todo) /\ done.main.pc = "run" /\ done.main.abort = s.main.abort
      /\ done.gc = s.gc /\ done.machine = s.machine /\ done.plan = s.plan /\ done.rt = s.rt
      /\ Good(done)
  <2>1. main.todo # <<>> /\ main.todo[1].do # "homed" /\ s.main.abort \in BOOLEAN
    BY <1>3, <1>4 DEF Good, StateShape, MainShape
  <2>2. QED
    BY <1>2, <1>4, <2>1, PolledDone
<1> HIDE DEF done, full
<1>6. CASE s.main.abort
  <2>1. Placed(done.gc, done.machine, done.plan, done.rt, done.main)
    BY <1>5, <1>6 DEF Placed, Ending
  <2>2. Become(done)
    BY <1>1, <1>6
  <2>3. QED
    BY <1>1, <1>2, <1>3, <1>4, <1>5, <2>1, <2>2, BecomesMove
<1>7. CASE ~s.main.abort /\ full
  <2>1. /\ started.gc = s.gc /\ started.machine = s.machine /\ started.plan = s.plan
        /\ started.main = s.main /\ started.rt = Raise(s.rt, "start")
    BY <1>4 DEF Good, StateShape
  <2>2. started.rt.alarm = s.rt.alarm /\ started.rt.flags = s.rt.flags \cup {"start"}
    BY <1>4, <2>1, AutoStartFlags DEF Good, StateShape
  <2> HIDE DEF started
  <2>3. MotorsAgree(started.machine, started.plan, started.rt, started.main)
    BY <1>4, <1>7, <2>1, <2>2 DEF MotorsAgree
  <2>4. ProbesAtRest(started.machine, started.rt, started.main)
    BY <1>1, <1>3, <1>4, <1>7, <2>1 DEF ProbesAtRest, Begins
  <2>5. Placed(started.gc, started.machine, started.plan, started.rt, started.main)
    BY <1>4, <1>7, <2>1, <2>3, <2>4 DEF Placed
  <2>6. Become(started)
    BY <1>1, <1>7
  <2>7. QED
    BY <1>1, <1>2, <1>4, <2>1, <2>5, <2>6, BecomesMove
<1>8. CASE ~s.main.abort /\ ~full
  <2> DEFINE target == main.todo[1].target
  <2>1. TheOp.target = target /\ target \in Vector
    <3>1. TheOp = main.todo[1] /\ 1 \in 1..Len(main.todo)
      <4>1. main.todo \in Seq({main.todo[i] : i \in DOMAIN main.todo})
        BY <1>3 DEF Chain, IsSeq
      <4>2. QED
        BY <1>3, <4>1, ChainLength DEF TheOp
    <3>2. GoodOp(main.todo[1])
      BY <1>3, <3>1 DEF Chain
    <3>3. QED
      BY <1>3, <3>1, <3>2 DEF GoodOp, Targeted
  <2>2. /\ buffered.gc = done.gc /\ buffered.machine = done.machine /\ buffered.rt = done.rt
        /\ buffered.main = done.main /\ buffered.plan = Buffered(done.plan, TheOp.target)
    BY <1>5 DEF Good, StateShape
  <2>3. buffered.plan.pos = target
    BY <1>5, <2>1, <2>2, BufferedEnd DEF Good, StateShape
  <2> HIDE DEF buffered
  <2>4. /\ Begins(Tail(main.todo), {"line"} \cup AtTarget)
        /\ Tail(main.todo)[1].do \in AtTarget => Tail(main.todo)[1].target = target
    BY <1>3, ArrivesNext
  <2>5. ~Begins(Tail(main.todo), {"probe_open"})
    BY <2>4 DEF Begins, AtTarget
  <2> HIDE DEF target
  <2>6. MotorsAgree(buffered.machine, buffered.plan, buffered.rt, buffered.main)
    BY <1>4, <1>5, <1>8, <2>2 DEF MotorsAgree
  <2>7. ProbesAtRest(buffered.machine, buffered.rt, buffered.main)
    BY <1>5, <2>2, <2>5 DEF ProbesAtRest
  <2>8. PlannerFollows(buffered.gc, buffered.machine, buffered.plan, buffered.main)
    BY <1>5, <2>2, <2>3, <2>4 DEF PlannerFollows, Begins
  <2>9. Placed(buffered.gc, buffered.machine, buffered.plan, buffered.rt, buffered.main)
    BY <2>6, <2>7, <2>8 DEF Placed
  <2>10. Become(buffered)
    BY <1>1, <1>8
  <2>11. buffered.machine.state = "CHECK" => machine.state = "CHECK"
    BY <1>4, <1>5, <2>2
  <2>12. buffered.main.todo = Tail(main.todo)
    BY <1>5, <2>2
  <2>13. QED
    BY <1>1, <1>2, <1>3, <2>9, <2>10, <2>11, <2>12, BecomesMove
<1>9. QED
  BY <1>6, <1>7, <1>8

\* A line out of the travel leads to an abort.
LEMMA SoftLimitMoves ==
  ASSUME PositionInv, SoftLimit \/ Critical
  PROVE  Positions'
<1> DEFINE s == Polled(State)
           t == [s EXCEPT !.main = [Done EXCEPT !.abort = TRUE]]
           v == [Done EXCEPT !.abort = TRUE]
<1>1. /\ Op("line") \/ main.pc = "critical"
      /\ \/ Become(t)
         \/ main' = At("critical") /\ machine'.state # "CHECK"
         \/ main' = v /\ machine'.state # "CHECK"
      /\ UNCHANGED <<eeprom, hist>>
  <2>1. MachineShape(machine)
    BY DEF PositionInv, OffsetInv, Inv, Shapes
  <2>2. CASE SoftLimit
    <3>1. \/ Become(t)
          \/ /\ machine' = [machine EXCEPT !.state = "ALARM", !.moving = @ /\ machine.state # "CYCLE"]
             /\ main' = At("critical")
      BY <2>2, Zenon DEF SoftLimit
    <3> HIDE DEF t
    <3>2. QED
      BY <2>1, <2>2, <3>1 DEF SoftLimit, MachineShape
  <2>3. CASE Critical
    BY <2>1, <2>3 DEF Critical, MachineShape
  <2>4. QED
    BY <2>2, <2>3
<1>2. Inv /\ HistShape
  BY DEF PositionInv, OffsetInv, Inv, Shapes
<1>3. main.pc # "boot" /\ main.todo # <<>> /\ main.todo[1].do = "line" /\ Chain(main.todo)
  <2>1. CASE Op("line")
    BY <1>2, <2>1, OpIsGood DEF Op, Inv, Work
  <2>2. CASE main.pc = "critical"
    BY <1>2, <2>2 DEF Inv, Work, WaitsInAction
  <2>3. QED
    BY <1>1, <2>1, <2>2
<1>4. CASE Become(t)
  <2>1. Good(State) /\ State.machine = machine
    BY <1>2, StateIsGood
  <2>2. Good(s) /\ Preserved(State, s) /\ (s.machine.state = "CHECK" => machine.state = "CHECK")
    BY <2>1, PolledIsGood, PolledChecks DEF Good
  <2> HIDE DEF s
  <2>3. t.main.todo = Tail(main.todo) /\ t.main.abort = TRUE /\ t.machine = s.machine
    BY <1>2, <1>3, <2>2, PolledDone
  <2> HIDE DEF t
  <2>4. Placed(t.gc, t.machine, t.plan, t.rt, t.main)
    BY <2>3 DEF Placed, Ending
  <2>5. QED
    BY <1>1, <1>2, <1>3, <1>4, <2>2, <2>3, <2>4, BecomesMove
<1> HIDE DEF t
<1>5. CASE (main' = At("critical") \/ main' = v) /\ machine'.state # "CHECK"
  <2>1. /\ At("critical").todo = main.todo /\ At("critical").pc = "critical"
        /\ v.todo = Tail(main.todo) /\ v.abort = TRUE
    BY <1>2, MainChanges DEF Inv, Shapes
  <2>2. Placed(gc', machine', plan', rt', main')
    BY <1>5, <2>1 DEF Placed, Ending
  <2>3. Ordered(machine', main') /\ Ops(main'.todo) \subseteq Ops(main.todo)
    <3>1. CASE main'.todo = main.todo
      BY <1>5, <3>1 DEF PositionInv, Positions, Ordered
    <3>2. CASE main'.todo = Tail(main.todo)
      BY <1>3, <1>5, <3>2, TailOrdered, TailOps DEF PositionInv, Positions
    <3>3. QED
      BY <1>5, <2>1, <3>1, <3>2
  <2>4. LinesAreModeless'
    BY <1>1, <1>2, <2>3, WordsStay DEF PositionInv, Positions
  <2>5. QED
    BY <2>2, <2>3, <2>4 DEF Positions
<1>6. QED
  BY <1>1, <1>4, <1>5

\* What an alarm at the first action makes of the state.
LEMMA AlarmedState ==
  ASSUME PositionInv, NEW name, Op(name), name # "homed", NEW r, RtShape(r)
  PROVE  LET t == [State EXCEPT !.rt = r, !.main = Done]
             v == Polled(t)
         IN /\ Good(t) /\ t.gc = gc /\ t.machine = machine /\ t.plan = plan /\ t.rt = r /\ t.main = Done
            /\ v.main.todo = Tail(main.todo) /\ v.main.pc = "run"
            /\ v.machine.state = "CHECK" => machine.state = "CHECK"
            /\ "reset" \in r.flags => v.main.abort
<1> DEFINE u == State
           t == [u EXCEPT !.rt = r, !.main = Done]
           v == Polled(t)
<1>1. Inv
  BY DEF PositionInv, OffsetInv
<1>2. Good(t)
  BY <1>1, AlarmedIsGood
<1>3. /\ Good(u) /\ u.gc = gc /\ u.machine = machine /\ u.plan = plan
  BY <1>1, StateIsGood
<1> HIDE DEF u
<1>5. t.gc = gc /\ t.machine = machine /\ t.plan = plan /\ t.rt = r /\ t.main = Done
  BY <1>3 DEF Good, StateShape
<1> HIDE DEF t, v
<1>4. v = Polled(t)
  BY DEF v
<1>6. /\ Preserved(t, v) /\ (v.machine.state = "CHECK" => machine.state = "CHECK")
      /\ "reset" \in r.flags => v.main.abort
  BY <1>2, <1>4, <1>5, PolledIsGood, PolledChecks, PolledEnds DEF Good
<1>7. v.main.todo = Tail(main.todo) /\ v.main.pc = "run"
  BY <1>1, <1>5, <1>6, MainChanges DEF Preserved, Inv, Shapes
<1>8. /\ Good(t) /\ t.gc = gc /\ t.machine = machine /\ t.plan = plan /\ t.rt = r /\ t.main = Done
      /\ v.main.todo = Tail(main.todo) /\ v.main.pc = "run"
      /\ v.machine.state = "CHECK" => machine.state = "CHECK"
      /\ "reset" \in r.flags => v.main.abort
  BY <1>2, <1>5, <1>6, <1>7
<1>9. QED
  BY <1>8, Zenon DEF t, v, u

\* A probe that is closed: the motors are at rest.
LEMMA ClosedMoves ==
  ASSUME PositionInv, ProbeClosed
  PROVE  Positions'
<1> DEFINE r == [rt EXCEPT !.alarm = "PROBE_FAIL_INITIAL"]
           t == [State EXCEPT !.rt = r, !.main = Done]
           v == Polled(t)
<1>1. Inv /\ HistShape /\ RtShape(rt)
  BY DEF PositionInv, OffsetInv, Inv, Shapes
<1>2. Op("probe_open") /\ ~main.abort /\ Become(v) /\ UNCHANGED <<eeprom, hist>>
  <2>1. [State EXCEPT !.rt = [@ EXCEPT !.alarm = "PROBE_FAIL_INITIAL"], !.main = Done] = t
    <3> DEFINE s == State
    <3>1. s.rt = rt
      BY <1>1, StateIsGood
    <3> HIDE DEF s
    <3>2. [s EXCEPT !.rt = [@ EXCEPT !.alarm = "PROBE_FAIL_INITIAL"], !.main = Done]
             = [s EXCEPT !.rt = r, !.main = Done]
      BY <3>1
    <3>3. QED
      BY <3>2 DEF s
  <2>2. QED
    BY <2>1, Zenon DEF ProbeClosed
<1>3. RtShape(r) /\ r.flags = rt.flags /\ r.alarm = "PROBE_FAIL_INITIAL"
  BY <1>1 DEF RtShape
<1> HIDE DEF r
<1>4. /\ Good(t) /\ t.gc = gc /\ t.machine = machine /\ t.plan = plan /\ t.rt = r /\ t.main = Done
      /\ v.main.todo = Tail(main.todo) /\ v.main.pc = "run"
      /\ v.machine.state = "CHECK" => machine.state = "CHECK"
      /\ "reset" \in r.flags => v.main.abort
  <2>1. "probe_open" # "homed"
    OBVIOUS
  <2>2. QED
    BY <1>2, <1>3, <2>1, AlarmedState, Zenon
<1> HIDE DEF t
<1>5. /\ main.pc = "run" /\ main.todo # <<>> /\ Chain(main.todo) /\ main.todo[1].do = "probe_open"
  BY <1>1, <1>2, OpIsGood DEF Op, Inv, Work
<1>6. Placed(v.gc, v.machine, v.plan, v.rt, v.main)
  <2> SUFFICES ASSUME "reset" \notin rt.flags
               PROVE  /\ MotorsAgree(v.machine, v.plan, v.rt, v.main)
                      /\ ProbesAtRest(v.machine, v.rt, v.main)
                      /\ PlannerFollows(v.gc, v.machine, v.plan, v.main)
    BY <1>3, <1>4 DEF Placed, Ending
  <2>1. /\ MotorsAgree(machine, plan, rt, main) /\ ProbesAtRest(machine, rt, main)
        /\ PlannerFollows(gc, machine, plan, main)
    BY <1>2, <1>5 DEF PositionInv, Positions, Placed, Ending
  <2>2. machine.state \notin {"CYCLE", "JOG"}
    <3>1. machine.state # "CYCLE"
      BY <1>5, <2>1 DEF ProbesAtRest, Begins
    <3>2. machine.state = "JOG" => OfKinds(main.todo, JogKinds)
      BY <1>1 DEF Inv, Work, JogsAlone
    <3>3. 1 \in 1..Len(main.todo)
      BY <1>5, ChainLength
    <3>4. QED
      BY <1>5, <3>1, <3>2, <3>3 DEF OfKinds, JogKinds, Writes, LaterBytes
  <2>3. "stop" \notin rt.flags /\ ~machine.moving
    BY <2>1, <2>2 DEF MotorsAgree
  <2>4. /\ v.rt.flags = {} /\ v.rt.alarm = "NONE" /\ v.gc = gc /\ v.plan = plan
        /\ v.machine.state = "ALARM" /\ v.machine.moving = machine.moving
    <3>1. StateShape(t) /\ t.rt.alarm # "NONE" /\ t.rt.flags \cap {"reset", "stop"} = {}
      BY <1>3, <1>4, <2>3 DEF Good
    <3>2. QED
      BY <1>4, <3>1, PolledAlarm
  <2>5. machine.state # "CHECK" /\ gc.position = plan.pos
    <3>1. 1 \in 1..Len(main.todo)
      BY <1>5, ChainLength
    <3>2. Has(main.todo, {"probe_open", "homed"})
      BY <1>5, <3>1 DEF Has
    <3>3. QED
      BY <1>5, <2>1, <3>2 DEF PositionInv, Positions, Ordered, PlannerFollows, Begins, AtTarget
  <2>6. ~Begins(v.main.todo, AtTarget)
    BY <1>4, <1>5, NothingArrives
  <2>7. MotorsAgree(v.machine, v.plan, v.rt, v.main)
    BY <2>3, <2>4 DEF MotorsAgree
  <2>8. ProbesAtRest(v.machine, v.rt, v.main)
    BY <1>4, <2>4 DEF ProbesAtRest
  <2>9. PlannerFollows(v.gc, v.machine, v.plan, v.main)
    BY <2>4, <2>5, <2>6 DEF PlannerFollows
  <2>10. QED
    BY <2>7, <2>8, <2>9
<1> HIDE DEF v
<1>7. QED
  BY <1>1, <1>2, <1>4, <1>5, <1>6, BecomesMove

\* Homing that fails resets.
LEMMA HomeFailedMoves ==
  ASSUME PositionInv, HomeFailed
  PROVE  Positions'
<1> DEFINE a == [rt EXCEPT !.alarm = "HOMING_FAIL"]
           r == AfterReset(a)
           t == [State EXCEPT !.rt = r, !.main = Done]
           v == Polled(t)
<1>1. Inv /\ HistShape /\ RtShape(rt)
  BY DEF PositionInv, OffsetInv, Inv, Shapes
<1>2. Op("home") /\ Become(v) /\ UNCHANGED <<eeprom, hist>>
  BY Zenon DEF HomeFailed
<1>3. RtShape(r) /\ "reset" \in r.flags
  <2>1. RtShape(a)
    BY <1>1 DEF RtShape
  <2> HIDE DEF a
  <2>2. "reset" \in Raise(a, "reset").flags /\ RtShape(Raise(a, "reset"))
    BY <2>1 DEF Raise, RtShape
  <2>3. "reset" \in r.flags
    BY <2>1, <2>2 DEF AfterReset, RtShape
  <2>4. QED
    BY <2>1, <2>3, FlagsAreGood
<1> HIDE DEF r
<1>4. /\ v.main.todo = Tail(main.todo)
      /\ v.machine.state = "CHECK" => machine.state = "CHECK"
      /\ "reset" \in r.flags => v.main.abort
  <2>1. "home" # "homed"
    OBVIOUS
  <2>2. QED
    BY <1>2, <1>3, <2>1, AlarmedState, Zenon
<1> HIDE DEF v
<1>5. main.todo # <<>>
  BY <1>2 DEF Op
<1>6. Placed(v.gc, v.machine, v.plan, v.rt, v.main)
  BY <1>3, <1>4 DEF Placed, Ending
<1>7. QED
  BY <1>1, <1>2, <1>4, <1>5, <1>6, BecomesMove

\* The probe closes.
LEMMA ContactMoves ==
  ASSUME PositionInv, ProbeContact
  PROVE  Positions'
<1>1. Inv /\ HistShape /\ MachineShape(machine) /\ RtShape(rt) /\ MainShape(main)
  BY DEF PositionInv, OffsetInv, Inv, Shapes
<1>2. /\ main.pc = "probing" /\ machine.moving /\ machine' = [machine EXCEPT !.moving = FALSE]
      /\ rt' = Raise(rt, "stop") /\ main' = [main EXCEPT !.contact = TRUE]
      /\ UNCHANGED <<gc, plan, eeprom, hist>>
  BY DEF ProbeContact
<1>3. machine'.state = machine.state /\ machine'.moving = FALSE
  BY <1>1, <1>2 DEF MachineShape
<1>4. /\ main'.todo = main.todo /\ main'.pc = main.pc /\ main'.abort = main.abort
      /\ main'.contact = TRUE
  BY <1>1, <1>2 DEF MainShape
<1>5. rt'.alarm = rt.alarm /\ rt'.flags = rt.flags \cup {"stop"}
  BY <1>1, <1>2 DEF Raise, RtShape
<1>6. Placed(gc', machine', plan', rt', main')
  <2> SUFFICES ASSUME ~Ending(rt', main')
               PROVE  /\ MotorsAgree(machine', plan', rt', main') /\ ProbesAtRest(machine', rt', main')
                      /\ PlannerFollows(gc', machine', plan', main')
    BY DEF Placed
  <2>1. /\ MotorsAgree(machine, plan, rt, main) /\ ProbesAtRest(machine, rt, main)
        /\ PlannerFollows(gc, machine, plan, main)
    BY <1>2, <1>4, <1>5 DEF PositionInv, Positions, Placed, Ending
  <2>2. MotorsAgree(machine', plan', rt', main')
    BY <1>2, <1>3, <1>4, <1>5, <2>1 DEF MotorsAgree
  <2>3. ProbesAtRest(machine', rt', main')
    BY <1>3, <1>4, <1>5, <2>1 DEF ProbesAtRest
  <2>4. QED
    BY <1>2, <1>3, <1>4, <2>1, <2>2, <2>3 DEF PlannerFollows
<1>7. Ordered(machine', main')
  BY <1>3, <1>4 DEF PositionInv, Positions, Ordered
<1>8. LinesAreModeless'
  BY <1>1, <1>2, <1>4, WordsStay DEF PositionInv, Positions
<1>9. QED
  BY <1>6, <1>7, <1>8 DEF Positions

\* A probe behind an abort, and the end of a program that is only checked.
LEMMA SkippedMoves ==
  ASSUME PositionInv, (ProbeOpen /\ main.abort) \/ (DoEnd /\ machine.state = "CHECK")
  PROVE  Positions'
<1>1. Inv /\ HistShape /\ GcShape(gc)
  BY DEF PositionInv, OffsetInv, Inv, Shapes
<1>2. /\ main' = Done /\ UNCHANGED <<machine, plan, rt, eeprom, hist>>
      /\ gc' = gc \/ gc' = [gc EXCEPT !.coord_select = 0]
      /\ Op("probe_open") \/ Op("end")
  <2>1. CASE ProbeOpen /\ main.abort
    BY <2>1, Zenon DEF ProbeOpen
  <2>2. CASE DoEnd /\ machine.state = "CHECK"
    BY <2>2, Zenon DEF DoEnd
  <2>3. QED
    BY <2>1, <2>2
<1>3. gc'.position = gc.position
  BY <1>1, <1>2 DEF GcShape, Tracked
<1>4. PICK name \in {"probe_open", "end"} : Op(name)
  BY <1>2
<1>5. /\ Ordered(machine', main') /\ Placed(gc', machine', plan', rt', main')
      /\ Ops(main'.todo) \subseteq Ops(main.todo)
  BY <1>2, <1>3, <1>4, DoneMoves
<1>6. LinesAreModeless'
  BY <1>1, <1>2, <1>5, WordsStay DEF PositionInv, Positions
<1>7. QED
  BY <1>5, <1>6 DEF Positions

\* The action in hand is the first one.
LEMMA FirstInHand ==
  ASSUME Chain(main.todo), main.todo # <<>>
  PROVE  TheOp = main.todo[1]
<1>1. main.todo \in Seq({main.todo[i] : i \in DOMAIN main.todo})
  BY DEF Chain, IsSeq
<1>2. QED
  BY <1>1 DEF TheOp

\* What the end of a probing cycle makes of a state that has settled.
LEMMA ProbedState ==
  ASSUME PositionInv, main.pc = "probing", NEW s, Good(s), s.main = main, s.rt.flags = {},
         MotorsAgree(s.machine, s.plan, s.rt, s.main), s.machine.state = "IDLE"
  PROVE  LET t == Probed(s)
         IN /\ t.main.todo = Tail(main.todo) /\ t.main.pc = "run"
            /\ t.rt.flags = {} /\ t.rt.alarm = "NONE"
            /\ t.machine.state # "CHECK" /\ t.machine.moving = FALSE
            /\ t.plan.pos = s.machine.pos
            /\ t.gc.position = IF main.contact THEN s.machine.pos ELSE TheOp.target
            /\ SameFields(s.gc, t.gc)
<1> DEFINE alarmed == [s EXCEPT !.rt = [@ EXCEPT !.alarm = "PROBE_FAIL_CONTACT"]]
           before == IF ~main.contact /\ ~TheOp.silent THEN alarmed ELSE s
           polled == Polled(before)
           point == IF main.contact THEN s.machine.pos ELSE TheOp.target
           v == [Done EXCEPT !.abort = polled.main.abort]
           p == [queue |-> <<>>, pos |-> s.machine.pos]
           t == [polled EXCEPT
                   !.machine = [@ EXCEPT !.moving = FALSE],
                   !.plan = p,
                   !.main = v,
                   !.gc = [@ EXCEPT !.position = point]]
<1>1. Probed(s) = t
  BY Zenon DEF Probed
<1>2. Inv /\ StateShape(s)
  BY DEF Good, PositionInv, OffsetInv
<1>3. /\ DOMAIN alarmed = DOMAIN s /\ alarmed.gc = s.gc /\ alarmed.machine = s.machine
      /\ alarmed.plan = s.plan /\ alarmed.main = s.main
      /\ alarmed.rt = [s.rt EXCEPT !.alarm = "PROBE_FAIL_CONTACT"]
  BY <1>2 DEF StateShape
<1> HIDE DEF alarmed
<1>4. /\ StateShape(alarmed) /\ Preserved(s, alarmed) /\ alarmed.rt.flags = s.rt.flags
      /\ alarmed.rt.alarm = "PROBE_FAIL_CONTACT"
  BY <1>2, <1>3 DEF StateShape, RtShape, Preserved
<1>5. Good(alarmed)
  BY <1>3, <1>4, KeptIsGood
<1>6. /\ polled.main = main /\ polled.rt.flags = {} /\ polled.rt.alarm = "NONE"
      /\ polled.machine.state # "CHECK" /\ Good(polled)
  <2>1. CASE before = alarmed
    <3> DEFINE u == Polled(alarmed)
    <3>1. alarmed.rt.alarm # "NONE" /\ alarmed.rt.flags \cap {"reset", "stop"} = {}
      BY <1>4
    <3>2. /\ u.main = alarmed.main /\ u.rt.flags = {} /\ u.rt.alarm = "NONE"
          /\ u.machine.state = "ALARM"
      BY <1>4, <3>1, PolledAlarm
    <3>3. Good(u)
      BY <1>5, PolledIsGood
    <3> HIDE DEF u
    <3>4. polled = u
      BY <2>1 DEF u
    <3> HIDE DEF polled, before
    <3>5. QED
      BY <1>3, <3>2, <3>3, <3>4
  <2>2. CASE before = s
    <3> DEFINE u == Polled(s)
    <3>1. LET w == Polled(s)
          IN /\ w.main = s.main /\ w.rt.flags = {} /\ w.rt.alarm = "NONE"
             /\ w.machine.pos = s.machine.pos /\ w.machine.moving \in BOOLEAN
             /\ \/ /\ s.machine.state = "JOG" /\ w.machine.state = "IDLE" /\ ~w.machine.moving
                   /\ w.plan.queue = <<>> /\ w.plan.pos = s.machine.pos
                   /\ w.gc = [s.gc EXCEPT !.position = s.machine.pos]
                \/ /\ w.gc = s.gc /\ w.plan = s.plan
                   /\ \/ /\ s.machine.state = "IDLE" /\ s.plan.queue # <<>>
                         /\ w.machine.state = "CYCLE"
                      \/ /\ "stop" \in s.rt.flags /\ w.machine.state = "IDLE"
                         /\ ~w.machine.moving
                      \/ /\ w.machine = s.machine
                         /\ s.machine.state = "IDLE" /\ "start" \in s.rt.flags
                              => s.plan.queue = <<>>
      BY <1>2, PolledQuietly
    <3>2. Good(u)
      BY PolledIsGood
    <3>3. u.main = s.main /\ u.rt.flags = {} /\ u.rt.alarm = "NONE" /\ u.machine.state # "CHECK"
      BY <3>1
    <3> HIDE DEF u
    <3>4. polled = u
      BY <2>2 DEF u
    <3> HIDE DEF polled, before
    <3>5. QED
      BY <3>2, <3>3, <3>4
  <2>3. before = alarmed \/ before = s
    OBVIOUS
  <2> HIDE DEF before, polled
  <2>4. QED
    BY <2>1, <2>2, <2>3
<1> HIDE DEF alarmed
<1>7. SameFields(s.gc, polled.gc)
  <2>1. StateShape(before) /\ before.gc = s.gc
    BY <1>2, <1>3, <1>4
  <2> HIDE DEF before
  <2>2. QED
    BY <2>1, PolledFields
<1> HIDE DEF polled
<1>8. StateShape(polled) /\ polled.main.abort \in BOOLEAN
  BY <1>6 DEF Good, StateShape, MainShape
<1>9. v.todo = Tail(main.todo) /\ v.pc = "run"
  BY <1>2, <1>8, MainChanges DEF Inv, Shapes
<1>10. p.pos = s.machine.pos
  OBVIOUS
<1> HIDE DEF v, point, p
<1>11. /\ t.main = v /\ t.gc = [polled.gc EXCEPT !.position = point] /\ t.rt = polled.rt
       /\ t.plan = p /\ t.machine = [polled.machine EXCEPT !.moving = FALSE]
  BY <1>8 DEF StateShape
<1> HIDE DEF t
<1>12. t.gc.position = point
  BY <1>8, <1>11 DEF StateShape, GcShape, Tracked
<1>13. t.machine.moving = FALSE /\ t.machine.state = polled.machine.state
  BY <1>8, <1>11 DEF StateShape, MachineShape
<1>14. SameFields(s.gc, t.gc)
  BY <1>8, <1>11, <1>7 DEF SameFields, Fields, StateShape, GcShape
<1>15. QED
  BY <1>1, <1>6, <1>9, <1>10, <1>11, <1>12, <1>13, <1>14 DEF point

\* A probing cycle goes on, ends or is aborted.
LEMMA ProbeMoves ==
  ASSUME PositionInv, ProbeWait
  PROVE  Positions'
<1> DEFINE s == Polled(State)
           aborted == [s EXCEPT !.main = [Done EXCEPT !.abort = TRUE]]
           t == Probed(s)
<1>1. /\ main.pc = "probing" /\ UNCHANGED <<eeprom, hist>>
      /\ CASE s.main.abort -> Become(aborted)
           [] ~s.main.abort /\ s.machine.state = "IDLE" -> Become(t)
           [] OTHER -> Become(s)
  <2> DEFINE end == CASE s.main.abort -> aborted
                      [] ~s.main.abort /\ s.machine.state = "IDLE" -> Probed(s)
                      [] OTHER -> s
  <2>1. main.pc = "probing" /\ Become(end) /\ UNCHANGED <<eeprom, hist>>
    BY Zenon DEF ProbeWait
  <2> HIDE DEF s, aborted, t
  <2>2. CASE s.main.abort
    BY <2>1, <2>2
  <2>3. CASE ~s.main.abort /\ s.machine.state = "IDLE"
    <3>1. end = t
      BY <2>3 DEF t
    <3>2. QED
      BY <2>1, <2>3, <3>1
  <2>4. CASE ~s.main.abort /\ s.machine.state # "IDLE"
    BY <2>1, <2>4
  <2>5. QED
    BY <2>2, <2>3, <2>4
<1>2. Inv /\ HistShape
  BY DEF PositionInv, OffsetInv, Inv, Shapes
<1>3. /\ main.todo # <<>> /\ main.todo[1].do = "probe_run" /\ Chain(main.todo)
  BY <1>1, <1>2 DEF Inv, Work, WaitsInAction
<1>4. /\ Good(s) /\ Preserved(State, s) /\ s.main.todo = main.todo
      /\ s.machine.state = "CHECK" => machine.state = "CHECK"
      /\ ~s.main.abort =>
           /\ s.main = main /\ s.rt.flags = {}
           /\ MotorsAgree(s.machine, s.plan, s.rt, s.main)
           /\ PlannerFollows(s.gc, s.machine, s.plan, s.main)
           /\ s.machine.state = "IDLE" /\ ~main.contact => s.machine.pos = s.plan.pos
  <2>1. ~Begins(main.todo, {"position", "jog"})
    BY <1>3 DEF Begins
  <2> HIDE DEF s
  <2>2. s = Polled(State)
    BY DEF s
  <2>3. QED
    BY <1>1, <2>1, <2>2, SettledHere
<1> HIDE DEF s
<1>5. CASE s.main.abort
  <2>1. /\ aborted.main.todo = Tail(main.todo) /\ aborted.main.abort
        /\ aborted.machine = s.machine
    BY <1>2, <1>3, <1>4, PolledDone
  <2>2. Become(aborted)
    BY <1>1, <1>5
  <2> HIDE DEF aborted
  <2>3. Placed(aborted.gc, aborted.machine, aborted.plan, aborted.rt, aborted.main)
    BY <2>1 DEF Placed, Ending
  <2>4. QED
    BY <1>1, <1>2, <1>3, <1>4, <2>1, <2>2, <2>3, BecomesMove
<1> HIDE DEF aborted
<1>6. CASE ~s.main.abort /\ s.machine.state = "IDLE"
  <2>1. /\ t.main.todo = Tail(main.todo) /\ t.main.pc = "run"
        /\ t.rt.flags = {} /\ t.rt.alarm = "NONE"
        /\ t.machine.state # "CHECK" /\ t.machine.moving = FALSE
        /\ t.plan.pos = s.machine.pos
        /\ t.gc.position = IF main.contact THEN s.machine.pos ELSE TheOp.target
    BY <1>1, <1>4, <1>6, ProbedState
  <2>2. Become(t)
    BY <1>1, <1>6
  <2> HIDE DEF t
  <2>3. t.gc.position = t.plan.pos
    <3>1. TheOp = main.todo[1]
      BY <1>3, FirstInHand
    <3>2. s.plan.pos = main.todo[1].target
      BY <1>3, <1>4, <1>6 DEF PlannerFollows, Begins, AtTarget
    <3>3. QED
      BY <1>4, <1>6, <2>1, <3>1, <3>2
  <2>4. /\ ~Begins(t.main.todo, AtTarget) /\ ~Begins(t.main.todo, {"probe_open"})
    <3>1. Ordered(machine, main) /\ (t.machine.state = "CHECK" => machine.state = "CHECK")
      BY <2>1 DEF PositionInv, Positions
    <3>2. QED
      BY <1>3, <2>1, <3>1, NothingArrives, TailOrdered
  <2>5. MotorsAgree(t.machine, t.plan, t.rt, t.main)
    BY <2>1 DEF MotorsAgree
  <2>6. ProbesAtRest(t.machine, t.rt, t.main)
    BY <2>1, <2>4 DEF ProbesAtRest
  <2>7. PlannerFollows(t.gc, t.machine, t.plan, t.main)
    BY <2>3, <2>4 DEF PlannerFollows
  <2>8. Placed(t.gc, t.machine, t.plan, t.rt, t.main)
    BY <2>5, <2>6, <2>7 DEF Placed
  <2>9. QED
    BY <1>1, <1>2, <1>3, <2>1, <2>2, <2>8, BecomesMove
<1> HIDE DEF t
<1>7. CASE ~s.main.abort /\ s.machine.state # "IDLE"
  <2>1. ProbesAtRest(s.machine, s.rt, s.main)
    BY <1>3, <1>4, <1>7 DEF ProbesAtRest, Begins
  <2>2. Placed(s.gc, s.machine, s.plan, s.rt, s.main)
    BY <1>4, <1>7, <2>1 DEF Placed
  <2>3. Become(s)
    BY <1>1, <1>7
  <2>4. QED
    BY <1>1, <1>2, <1>4, <2>2, <2>3, BecomesMove
<1>8. QED
  BY <1>5, <1>6, <1>7

\* The end of a homing cycle.
LEMMA HomedMoves ==
  ASSUME PositionInv, Homed
  PROVE  Positions'
<1> DEFINE s == Polled(State)
           aborted == [s EXCEPT !.main = [Done EXCEPT !.abort = TRUE]]
           v == [Done EXCEPT !.startup = TheOp.startup]
           synced == [s EXCEPT !.machine = [@ EXCEPT !.state = "IDLE", !.moving = FALSE],
                               !.gc = [@ EXCEPT !.position = s.machine.pos],
                               !.plan = [@ EXCEPT !.pos = s.machine.pos],
                               !.main = v]
<1>1. /\ Op("homed") /\ UNCHANGED <<eeprom, hist>>
      /\ Become(IF s.main.abort THEN aborted ELSE synced)
  BY Zenon DEF Homed
<1>2. Inv /\ HistShape
  BY DEF PositionInv, OffsetInv, Inv, Shapes
<1>3. main.pc = "run" /\ main.todo # <<>> /\ main.todo[1].do = "homed" /\ Chain(main.todo)
  BY <1>1, <1>2, OpIsGood DEF Op, Inv, Work
<1>4. /\ Good(s) /\ Preserved(State, s) /\ s.main.todo = main.todo
      /\ s.machine.state = "CHECK" => machine.state = "CHECK"
      /\ ~s.main.abort =>
           /\ s.main = main /\ s.rt.flags = {}
           /\ MotorsAgree(s.machine, s.plan, s.rt, s.main)
  <2>1. ~Begins(main.todo, {"position", "jog"})
    BY <1>3 DEF Begins
  <2> HIDE DEF s
  <2>2. s = Polled(State)
    BY DEF s
  <2>3. QED
    BY <1>3, <2>1, <2>2, SettledHere
<1> HIDE DEF s
<1>5. CASE s.main.abort
  <2>1. /\ aborted.main.todo = Tail(main.todo) /\ aborted.main.abort
        /\ aborted.machine = s.machine
    BY <1>2, <1>3, <1>4, PolledDone
  <2>2. Become(aborted)
    BY <1>1, <1>5
  <2> HIDE DEF aborted
  <2>3. Placed(aborted.gc, aborted.machine, aborted.plan, aborted.rt, aborted.main)
    BY <2>1 DEF Placed, Ending
  <2>4. QED
    BY <1>1, <1>2, <1>3, <1>4, <2>1, <2>2, <2>3, BecomesMove
<1> HIDE DEF aborted
<1>6. CASE ~s.main.abort
  <2>1. v.todo = Tail(main.todo) /\ v.pc = "run"
    BY <1>2 DEF Inv, Shapes, MainShape, Done
  <2> HIDE DEF v
  <2>2. StateShape(s)
    BY <1>4 DEF Good
  <2>3. /\ synced.main = v /\ synced.gc = [s.gc EXCEPT !.position = s.machine.pos]
        /\ synced.plan = [s.plan EXCEPT !.pos = s.machine.pos] /\ synced.rt = s.rt
        /\ synced.machine = [s.machine EXCEPT !.state = "IDLE", !.moving = FALSE]
    BY <2>2 DEF StateShape
  <2>4. Become(synced)
    BY <1>1, <1>6
  <2> HIDE DEF synced
  <2>5. /\ synced.machine.state = "IDLE" /\ synced.machine.moving = FALSE
        /\ synced.gc.position = synced.plan.pos
    BY <2>2, <2>3 DEF StateShape, MachineShape, GcShape, Tracked, PlanShape
  <2>6. ~Begins(v.todo, AtTarget) /\ ~Begins(v.todo, {"probe_open"})
    <3>1. Ordered(machine, main) /\ (synced.machine.state = "CHECK" => machine.state = "CHECK")
      BY <2>5 DEF PositionInv, Positions
    <3>2. QED
      BY <1>3, <2>1, <3>1, NothingArrives, TailOrdered
  <2>7. MotorsAgree(synced.machine, synced.plan, synced.rt, synced.main)
    BY <1>4, <1>6, <2>3, <2>5 DEF MotorsAgree
  <2>8. ProbesAtRest(synced.machine, synced.rt, synced.main)
    BY <2>1, <2>3, <2>6 DEF ProbesAtRest
  <2>9. PlannerFollows(synced.gc, synced.machine, synced.plan, synced.main)
    BY <2>3, <2>5, <2>6 DEF PlannerFollows
  <2>10. Placed(synced.gc, synced.machine, synced.plan, synced.rt, synced.main)
    BY <2>7, <2>8, <2>9 DEF Placed
  <2>11. QED
    BY <1>1, <1>2, <1>3, <2>1, <2>3, <2>4, <2>5, <2>10, BecomesMove
<1>7. QED
  BY <1>5, <1>6

\* Between two lines.
LEMMA IdleMoves ==
  ASSUME PositionInv, Idle
  PROVE  Positions'
<1> DEFINE start(r) == [State EXCEPT !.rt = r]
           s(r) == Polled(start(r))
           booting(r) == [s(r) EXCEPT !.main = [@ EXCEPT !.pc = "boot"]]
           next(r) == IF s(r).main.abort THEN booting(r) ELSE s(r)
<1>1. /\ main.pc = "idle" /\ UNCHANGED eeprom
      /\ \E r \in {rt, AutoStart(rt)} : Become(next(r)) /\ hist' = HistAfter(next(r))
  BY Zenon DEF Idle
<1>2. PICK r \in {rt, AutoStart(rt)} : Become(next(r)) /\ hist' = HistAfter(next(r))
  BY <1>1
<1>3. Inv /\ HistShape
  BY DEF PositionInv, OffsetInv, Inv, Shapes
<1>4. RtShape(rt) /\ RtShape(r)
  BY <1>3, FlagsAreGood DEF Inv, Shapes
<1> DEFINE t == start(r)
<1>5. /\ Good(t) /\ t.main = main /\ t.gc = gc /\ t.machine = machine /\ t.plan = plan /\ t.rt = r
  <2> DEFINE s0 == State
             w == [s0 EXCEPT !.rt = r]
  <2>1. Good(s0) /\ s0.main = main /\ s0.gc = gc /\ s0.machine = machine /\ s0.plan = plan
    BY <1>3, StateIsGood
  <2>2. t = w
    OBVIOUS
  <2> HIDE DEF s0
  <2>3. StateShape(s0)
    BY <2>1 DEF Good
  <2>4. /\ DOMAIN w = DOMAIN s0 /\ w.gc = s0.gc /\ w.machine = s0.machine /\ w.plan = s0.plan
        /\ w.main = s0.main /\ w.rt = r
    BY <2>3 DEF StateShape
  <2> HIDE DEF w, t, start
  <2>5. StateShape(w) /\ Preserved(s0, w)
    BY <1>4, <2>3, <2>4 DEF StateShape, Preserved
  <2>6. Good(w)
    BY <2>1, <2>4, <2>5, KeptIsGood
  <2>7. QED
    BY <2>1, <2>2, <2>4, <2>6
<1> HIDE DEF start
<1> DEFINE u == s(r)
           v == [u EXCEPT !.main = [@ EXCEPT !.pc = "boot"]]
<1>6. Become(IF u.main.abort THEN v ELSE u)
  BY <1>2
<1>7. \E x : hist' = HistAfter(x)
  BY <1>2
<1>8. u = Polled(t)
  OBVIOUS
<1> HIDE DEF u, t
<1>9. main.todo = <<>>
  BY <1>1, <1>3 DEF Inv, Work, WaitsInAction
<1>10. /\ Good(u) /\ u.main.todo = main.todo
       /\ u.machine.state = "CHECK" => machine.state = "CHECK"
  BY <1>5, <1>8, PolledIsGood, PolledChecks DEF Preserved, Good
<1>11. CASE u.main.abort
  <2>1. v.main.todo = main.todo /\ v.main.pc = "boot" /\ v.machine = u.machine
    BY <1>10 DEF Good, StateShape, MainShape
  <2> HIDE DEF v
  <2>2. Placed(v.gc, v.machine, v.plan, v.rt, v.main)
    BY <2>1 DEF Placed, Ending
  <2>3. QED
    BY <1>1, <1>3, <1>6, <1>7, <1>10, <1>11, <2>1, <2>2, BecomesMove
<1>12. CASE ~u.main.abort
  <2>1. /\ u.main = main /\ u.rt.flags = {}
        /\ MotorsAgree(u.machine, u.plan, u.rt, u.main)
        /\ PlannerFollows(u.gc, u.machine, u.plan, u.main)
    <3>1. t.rt.alarm = rt.alarm /\ t.rt.flags \in {rt.flags, rt.flags \cup {"start"}}
      BY <1>4, <1>5, AutoStartFlags
    <3>2. ~Begins(main.todo, {"position", "jog"})
      BY <1>9 DEF Begins
    <3>3. QED
      BY <1>1, <1>5, <1>8, <1>12, <3>1, <3>2, Settled
  <2>2. ProbesAtRest(u.machine, u.rt, u.main)
    BY <1>1, <1>9, <2>1 DEF ProbesAtRest, Begins
  <2>3. Placed(u.gc, u.machine, u.plan, u.rt, u.main)
    BY <2>1, <2>2 DEF Placed
  <2>4. Become(u)
    BY <1>6, <1>12
  <2>5. QED
    BY <1>1, <1>3, <1>7, <1>10, <2>3, <2>4, BecomesMove
<1>13. QED
  BY <1>11, <1>12

-----------------------------------------------------------------------------
(* Lines.                                                                   *)

\* What a block, or the repair of a record, has to do.
LineActions == LineKinds \cup JogKinds

LEMMA ExecuteMoves ==
  ASSUME PositionInv, NEW words \in Lines, Modeless(words), NEW jog \in BOOLEAN,
         NEW then, IsSeq(then), \A op \in Ops(then) : op.do = "sync" \/ (op.do = "store" /\ Modeless(op.words)),
         NEW rest, main.todo = <<>>, main.pc \in {"run", "idle"}, Execute(words, jog, then, rest),
         Fresh(main'.todo), main.pc = "idle" => hist.program # <<>>, UNCHANGED <<gc, plan, eeprom>>
  PROVE  Positions'
<1> DEFINE p == Parsed(gc, jog, words)
           b == Checked(p, gc, eeprom.records)
           changed == b.machine # "SAME"
           repairs == WriteRecord(CHOOSE n \in b.repair : TRUE, Origin)
           todo == IF b.status = "OK" THEN Steps(b, gc) \o then
                   ELSE IF b.repair # {} THEN repairs
                   ELSE <<>>
<1>1. /\ main' = [main EXCEPT !.pc = "run", !.startup = rest, !.todo = todo]
      /\ machine' = [machine EXCEPT !.mode = IF changed THEN b.machine ELSE @]
      /\ rt' = [rt EXCEPT !.alarm = IF changed THEN "MACHINE_MODE_CHANGED" ELSE @]
      /\ hist' = [hist EXCEPT !.programmed = Programmed(b),
                              !.program = IF main.pc = "idle" THEN Tail(@) ELSE @]
  BY Zenon DEF Execute
<1>2. Inv /\ HistShape /\ MachineShape(machine) /\ RtShape(rt) /\ MainShape(main)
  BY DEF PositionInv, OffsetInv, Inv, Shapes
<1>3. GoodParser(gc) /\ gc.coord_select \in 0..5 /\ GoodRecords(eeprom.records)
  BY <1>2, WordsAreLines DEF Inv, Shapes, GcShape, GoodParser
<1> HIDE DEF todo, changed
<1>4. p \in WordBlocks(gc, jog) /\ p.machine = "SAME"
  BY <1>3, ParsedIsBlock DEF Modeless
<1> HIDE DEF p
<1>5. /\ b.machine = "SAME" /\ b.repair \in SUBSET Records
      /\ b.status = "OK" => GoodBlock(b) /\ b.jog = jog
  <2> HIDE DEF b
  <2>1. LET c == Checked(p, gc, eeprom.records)
        IN /\ c.machine = p.machine /\ c.repair \in SUBSET Records
           /\ c.status = "OK" => GoodBlock(c) /\ c.jog = jog
    BY <1>3, <1>4, CheckedIsGood
  <2>2. QED
    BY <1>4, <2>1 DEF b
<1> HIDE DEF b
<1>6. /\ main'.todo = todo /\ main'.pc = "run" /\ main'.abort = main.abort
      /\ machine'.state = machine.state /\ machine'.moving = machine.moving
      /\ rt'.alarm = rt.alarm /\ rt'.flags = rt.flags
  BY <1>1, <1>2, <1>5 DEF MainShape, MachineShape, RtShape, changed
<1>7. /\ hist'.program = hist.program \/ (hist.program # <<>> /\ hist'.program = Tail(hist.program))
  BY <1>1, <1>2 DEF HistShape
<1>8. \A op \in Ops(todo) : op.do \in LineActions \/ op \in Ops(then)
  <2>1. CASE b.status = "OK"
    <3> DEFINE s == Steps(b, gc)
    <3>1. Part(s, LineKinds) \/ Part(s, JogKinds)
      BY <1>3, <1>5, <2>1, StepsAreFresh
    <3>2. IsSeq(s) /\ \A op \in Ops(s) : op.do \in LineActions
      BY <3>1 DEF Part, Fresh, Chain, Ops, OfKinds, LineActions
    <3>3. todo = s \o then
      BY <2>1 DEF todo
    <3> HIDE DEF s
    <3>4. QED
      BY <3>2, <3>3, ConcatOps
  <2>2. CASE b.status # "OK" /\ b.repair # {}
    <3> DEFINE n == CHOOSE n \in b.repair : TRUE
    <3>1. n \in Records
      BY <1>5, <2>2
    <3>2. todo = WriteRecord(n, Origin)
      BY <2>2 DEF todo
    <3> HIDE DEF n
    <3>3. Part(WriteRecord(n, Origin), {"sync"} \cup Writes)
      BY <3>1, OriginInTravel, WriteRecordIsFresh
    <3>4. QED
      BY <3>2, <3>3 DEF Part, Ops, OfKinds, LineActions, LineKinds, PlainKinds
  <2>3. CASE b.status # "OK" /\ b.repair = {}
    <3>1. todo = <<>> /\ Len(<<>>) = 0
      BY <2>3 DEF todo
    <3>2. QED
      BY <3>1 DEF Ops
  <2>4. QED
    BY <2>1, <2>2, <2>3
<1>9. "probe_open" \notin LineActions /\ "homed" \notin LineActions /\ "store" \notin LineActions
  BY DEF LineActions, LineKinds, PlainKinds, JogKinds, Writes, LaterBytes
<1>10. /\ \A op \in Ops(todo) : op.do \notin {"probe_open", "homed"}
       /\ \A op \in Ops(todo) : op.do = "store" => Modeless(op.words)
  BY <1>8, <1>9
<1>11. ~Has(todo, {"probe_open", "homed"}) /\ ~Begins(todo, {"probe_open"}) /\ ~Begins(todo, AtTarget)
  <2>1. ~Has(todo, {"probe_open", "homed"})
    BY <1>10, HasOps
  <2>2. todo # <<>> => 1 \in 1..Len(todo)
    BY <1>6, ChainLength DEF Fresh
  <2>3. QED
    BY <1>6, <2>1, <2>2 DEF Has, Begins, Fresh, Arriving
<1>12. Ordered(machine', main')
  BY <1>6, <1>11 DEF Ordered, Has
<1>13. Placed(gc', machine', plan', rt', main')
  <2>1. PlannerFollows(gc, machine, plan, main) => PlannerFollows(gc', machine', plan', main')
    BY <1>6, <1>11 DEF PlannerFollows, Begins
  <2>2. Placed(gc, machine, plan, rt, main)
    BY DEF PositionInv, Positions
  <2>3. QED
    BY <1>6, <1>11, <2>1, <2>2, MovesOn
<1>14. LinesAreModeless'
  <2>1. LinesAreModeless
    BY DEF PositionInv, Positions
  <2>2. \A i \in 1..Len(hist'.program) : Modeless(hist'.program[i].words)
    BY <1>2, <1>7, <2>1, ProgramIsModeless
  <2>3. QED
    BY <1>6, <1>10, <2>1, <2>2 DEF LinesAreModeless
<1>15. QED
  BY <1>12, <1>13, <1>14 DEF Positions

\* A line of the host, which may be stored, or a startup line.
LEMMA LinesMove ==
  ASSUME PositionInv, Gcode \/ Jog \/ StoreStartup \/ Startup
  PROVE  Positions'
<1> DEFINE store == [do |-> "store", words |-> TheWords]
           stored == Do("sync") \o <<store>>
           words == eeprom.startup[Head(main.startup)]
           rest == Tail(main.startup)
<1>1. /\ UNCHANGED <<gc, plan, eeprom>>
      /\ \/ Takes("gcode") /\ Execute(TheWords, FALSE, <<>>, <<>>)
         \/ Takes("jog") /\ Execute(TheWords, TRUE, <<>>, <<>>)
         \/ Takes("store") /\ Execute(TheWords, FALSE, stored, <<>>)
         \/ /\ main.pc = "run" /\ main.todo = <<>> /\ main.startup # <<>>
            /\ Execute(words, FALSE, <<>>, rest)
  BY Zenon DEF Gcode, Jog, StoreStartup, Startup
<1>2. Inv /\ HistShape /\ MainShape(main)
  BY DEF PositionInv, OffsetInv, Inv, Shapes
<1>3. Fresh(main'.todo)
  BY <1>2, GcodeKeeps, StartupKeeps
<1>4. IsSeq(<<>>) /\ Ops(<<>>) = {}
  <2>1. Len(<<>>) = 0
    OBVIOUS
  <2>2. Part(<<>>, {})
    BY NothingIsFresh
  <2>3. QED
    BY <2>1, <2>2 DEF Ops, Part, Fresh, Chain
<1>5. ASSUME NEW kind, Takes(kind)
      PROVE  /\ main.todo = <<>> /\ main.pc = "idle" /\ hist.program # <<>>
             /\ TheWords \in Lines /\ Modeless(TheWords)
  <2>1. main.todo = <<>> /\ main.pc = "idle" /\ hist.program # <<>>
    BY <1>2, <1>5, ReadsAtRest DEF Takes
  <2>2. TheWords \in Lines
    BY <1>2, <2>1, WordsAreLines
  <2>3. Modeless(TheWords)
    <3> DEFINE q == hist.program L == [kind : STRING, words : Lines]
    <3>1. q \in Seq(L) /\ q # <<>>
      BY <1>2, <2>1 DEF HistShape
    <3>2. \A i \in 1..Len(q) : Modeless(q[i].words)
      BY DEF PositionInv, Positions, LinesAreModeless
    <3>3. TheWords = Head(q).words
      BY DEF TheWords
    <3> HIDE DEF q, L
    <3>4. Head(q) = q[1] /\ 1 \in 1..Len(q)
      BY <3>1
    <3>5. QED
      BY <3>2, <3>3, <3>4
  <2>4. QED
    BY <2>1, <2>2, <2>3
<1>6. ASSUME NEW kind, Takes(kind)
      PROVE  /\ IsSeq(stored)
             /\ \A op \in Ops(stored) : op.do = "sync" \/ (op.do = "store" /\ Modeless(op.words))
  <2> DEFINE sync == [do |-> "sync"] S == {sync, store}
  <2>1. sync.do = "sync" /\ store.do = "store" /\ store.words = TheWords
    OBVIOUS
  <2>2. stored = <<sync>> \o <<store>>
    BY DEF Do
  <2> HIDE DEF stored, sync, store
  <2>3. stored \in Seq(S) /\ Len(stored) = 2 /\ stored[1] = sync /\ stored[2] = store
    BY <2>2
  <2>4. Modeless(TheWords)
    BY <1>5, <1>6
  <2>5. \A i \in 1..Len(stored) : i = 1 \/ i = 2
    BY <2>3
  <2>6. QED
    BY <2>1, <2>3, <2>4, <2>5, SequencesAreSeq DEF Ops
<1> HIDE DEF stored
<1>7. CASE Takes("gcode") /\ Execute(TheWords, FALSE, <<>>, <<>>)
  BY <1>1, <1>3, <1>4, <1>5, <1>7, ExecuteMoves
<1>8. CASE Takes("jog") /\ Execute(TheWords, TRUE, <<>>, <<>>)
  BY <1>1, <1>3, <1>4, <1>5, <1>8, ExecuteMoves
<1>9. CASE Takes("store") /\ Execute(TheWords, FALSE, stored, <<>>)
  BY <1>1, <1>3, <1>5, <1>6, <1>9, ExecuteMoves
<1>10. CASE /\ main.pc = "run" /\ main.todo = <<>> /\ main.startup # <<>>
            /\ Execute(words, FALSE, <<>>, rest)
  <2>1. Head(main.startup) \in StartupLines
    BY <1>2, <1>10 DEF MainShape
  <2>2. words \in Lines /\ Modeless(words)
    BY <1>2, <2>1, WordsAreLines DEF PositionInv, Positions, LinesAreModeless
  <2> HIDE DEF words, rest
  <2>3. QED
    BY <1>1, <1>3, <1>4, <1>10, <2>2, ExecuteMoves
<1>11. QED
  BY <1>1, <1>7, <1>8, <1>9, <1>10

\* A command that is done at once, or by a few actions.
LEMMA DirectlyMoves ==
  ASSUME PositionInv, NEW kind, Reads(kind), NEW todo, Directly(todo),
         NEW K, OfKinds(main'.todo, K), K \cap {"probe_open", "store"} = {}, Fresh(main'.todo),
         machine'.state = "CHECK" => "homed" \notin K, machine.state = "CHECK" => machine'.state = "CHECK",
         machine'.moving => machine.moving,
         machine'.state = machine.state \/ machine.state \notin {"CYCLE", "JOG"},
         UNCHANGED <<gc, plan, rt, eeprom>>
  PROVE  Positions'
<1>1. Inv /\ HistShape /\ MainShape(main)
  BY DEF PositionInv, OffsetInv, Inv, Shapes
<1>2. /\ main.pc = "idle" /\ main.todo = <<>> /\ ~main.abort /\ hist.program # <<>>
      /\ rt.flags = {} /\ rt.alarm = "NONE"
  <2>1. rt = [flags |-> {}, alarm |-> "NONE"]
    BY DEF Reads
  <2>2. QED
    BY <1>1, <2>1, ReadsAtRest
<1>3. main'.todo = todo /\ main'.pc = "run" /\ main'.abort = main.abort
  BY <1>1 DEF Directly, MainShape
<1>4. hist'.program = Tail(hist.program)
  <2>1. hist' = [[hist EXCEPT !.programmed = NothingProgrammed] EXCEPT !.program = Tail(hist.program)]
    BY <1>1 DEF Directly, Unprogrammed, HistShape
  <2>2. QED
    BY <1>1, <2>1 DEF HistShape
<1>5. /\ MotorsAgree(machine, plan, rt, main) /\ PlannerFollows(gc, machine, plan, main)
  BY <1>2 DEF PositionInv, Positions, Placed, Ending
<1>6. /\ ~Has(main'.todo, {"probe_open"}) /\ (machine'.state = "CHECK" => ~Has(main'.todo, {"homed"}))
      /\ ~Has(main'.todo, {"store"})
  BY DEF OfKinds, Has
<1>7. ~Begins(main'.todo, {"probe_open"}) /\ ~Begins(main'.todo, AtTarget)
  <2>1. main'.todo # <<>> => 1 \in 1..Len(main'.todo)
    BY ChainLength DEF Fresh
  <2>2. QED
    BY <1>6, <2>1 DEF Has, Begins, Fresh, Arriving
<1>8. Ordered(machine', main')
  BY <1>6 DEF Ordered, Has
<1>9. Placed(gc', machine', plan', rt', main')
  <2>1. MotorsAgree(machine', plan', rt', main')
    BY <1>2, <1>5 DEF MotorsAgree
  <2>2. ProbesAtRest(machine', rt', main')
    BY <1>3, <1>7 DEF ProbesAtRest
  <2>3. PlannerFollows(gc', machine', plan', main')
    BY <1>2, <1>5, <1>7 DEF PlannerFollows, Begins
  <2>4. QED
    BY <2>1, <2>2, <2>3 DEF Placed
<1>10. LinesAreModeless'
  <2>1. \A op \in Ops(main'.todo) : op.do = "store" => op \in Ops(main.todo)
    BY <1>6, HasOps
  <2>2. QED
    BY <1>1, <1>2, <1>4, <2>1, WordsStay DEF PositionInv, Positions
<1>11. QED
  BY <1>8, <1>9, <1>10 DEF Positions

LEMMA CommandsMove ==
  ASSUME PositionInv, ~HomeQueued, Refused \/ CheckMode \/ Unlock \/ Clear \/ Home
  PROVE  Positions'
<1>1. Inv /\ MachineShape(machine)
  BY DEF PositionInv, OffsetInv, Inv, Shapes
<1>2. UNCHANGED <<gc, plan, rt, eeprom>>
  BY DEF Refused, CheckMode, Unlock, Clear, Home
<1>3. PICK kind, todo : Reads(kind) /\ Directly(todo)
  BY Zenon DEF Refused, CheckMode, Unlock, Clear, Home, Takes
<1>4. CASE Home
  <2>1. /\ machine' = [machine EXCEPT !.state = "HOMING", !.moving = FALSE]
        /\ Takes("home") \/ Takes("home_x")
    BY <1>4 DEF Home
  <2>2. /\ machine'.state = "HOMING" /\ machine'.moving = FALSE
        /\ machine.state \in {"IDLE", "ALARM"}
    BY <1>1, <2>1 DEF MachineShape, Takes, TakenIn
  <2>3. Fresh(main'.todo) /\ OfKinds(main'.todo, HomingKinds)
    BY <1>1, <1>4, HomeKeeps
  <2>4. HomingKinds \cap {"probe_open", "store"} = {}
    BY DEF HomingKinds
  <2>5. QED
    BY <1>2, <1>3, <2>2, <2>3, <2>4, DirectlyMoves
<1>5. CASE Refused \/ CheckMode \/ Unlock \/ Clear
  <2>1. Fresh(main'.todo) /\ OfKinds(main'.todo, {"clear", "reset"})
    BY <1>1, <1>5, CommandsKeep
  <2>2. /\ machine'.moving = machine.moving
        /\ machine'.state = machine.state \/ machine.state \notin {"CYCLE", "JOG"}
        /\ machine.state = "CHECK" => machine'.state = "CHECK"
    <3>1. CASE Refused \/ Clear
      BY <3>1 DEF Refused, Clear
    <3>2. CASE CheckMode \/ Unlock
      BY <1>1, <3>2 DEF CheckMode, Unlock, Takes, TakenIn, MachineShape
    <3>3. QED
      BY <1>5, <3>1, <3>2
  <2> DEFINE K == {"clear", "reset"}
  <2>3. K \cap {"probe_open", "store"} = {} /\ "homed" \notin K
    OBVIOUS
  <2>4. OfKinds(main'.todo, K)
    BY <2>1
  <2> HIDE DEF K
  <2>5. QED
    BY <1>2, <1>3, <2>1, <2>2, <2>3, <2>4, DirectlyMoves
<1>6. QED
  BY <1>4, <1>5

-----------------------------------------------------------------------------
(* Power, motors and interrupts.                                            *)

\* main() takes the position as it is, for the parser and for the planner.
LEMMA BootMoves ==
  ASSUME PositionInv, Boot
  PROVE  Positions'
<1> DEFINE record == eeprom.records[0]
           system == IF Sound(record) THEN record.data ELSE Origin
           locked == machine.state = "ALARM"
           w == [pc |-> "run", todo |-> <<>>, startup |-> IF locked THEN <<>> ELSE <<0, 1>>,
                 abort |-> FALSE, contact |-> FALSE]
<1>1. Inv /\ HistShape /\ MachineShape(machine) /\ EepromShape
  BY DEF PositionInv, OffsetInv, Inv, Shapes
<1>2. /\ gc' = GcInit(system, machine.pos) /\ main' = w
      /\ machine' = [machine EXCEPT !.state = IF locked THEN @ ELSE "IDLE", !.moving = FALSE]
      /\ eeprom' = [eeprom EXCEPT !.records[0] = IF Sound(record) THEN @ ELSE Record(Origin)]
      /\ plan' = [queue |-> <<>>, pos |-> machine.pos] /\ rt' = [flags |-> {}, alarm |-> "NONE"]
      /\ hist' = Unprogrammed
  BY DEF Boot
<1>3. /\ main'.pc = "run" /\ main'.todo = <<>> /\ plan'.pos = machine.pos
      /\ rt'.flags = {} /\ rt'.alarm = "NONE" /\ gc'.position = machine.pos
  <2> HIDE DEF system
  <2>1. gc'.position = machine.pos
    BY <1>2 DEF GcInit
  <2>2. QED
    BY <1>2, <2>1
<1>4. machine'.state # "CHECK" /\ machine'.moving = FALSE
  BY <1>1, <1>2 DEF MachineShape
<1>5. eeprom'.startup = eeprom.startup /\ hist'.program = hist.program
  BY <1>1, <1>2, UnprogrammedKept DEF EepromShape, Unprogrammed, HistShape
<1>6. Placed(gc', machine', plan', rt', main')
  BY <1>3, <1>4 DEF Placed, MotorsAgree, ProbesAtRest, PlannerFollows, Begins
<1>7. Len(<<>>) = 0
  OBVIOUS
<1>8. Ordered(machine', main')
  BY <1>3, <1>4, <1>7 DEF Ordered
<1>9. LinesAreModeless'
  <2>1. Ops(main'.todo) = {}
    BY <1>3, <1>7 DEF Ops
  <2>2. QED
    BY <1>1, <1>5, <2>1, WordsStay DEF PositionInv, Positions
<1>10. QED
  BY <1>6, <1>8, <1>9 DEF Positions

LEMMA PowerFailMoves ==
  ASSUME PositionInv, PowerFail
  PROVE  Positions'
<1>1. Inv /\ HistShape
  BY DEF PositionInv, OffsetInv, Inv, Shapes
<1>2. /\ main' = PowerUp.main /\ machine' = PowerUp.machine /\ UNCHANGED eeprom
      /\ hist' = [Unprogrammed EXCEPT !.fails = @ - 1]
  BY DEF PowerFail, Become
<1>3. main'.pc = "boot" /\ main'.todo = <<>> /\ machine'.state = "ALARM"
  BY <1>2 DEF PowerUp
<1>4. hist'.program = hist.program
  BY <1>1, <1>2 DEF Unprogrammed, HistShape
<1>5. Len(<<>>) = 0
  OBVIOUS
<1>6. Placed(gc', machine', plan', rt', main')
  BY <1>3 DEF Placed, Ending
<1>7. Ordered(machine', main')
  BY <1>3, <1>5 DEF Ordered
<1>8. LinesAreModeless'
  <2>1. Ops(main'.todo) = {}
    BY <1>3, <1>5 DEF Ops
  <2>2. QED
    BY <1>1, <1>2, <1>4, <2>1, WordsStay DEF PositionInv, Positions
<1>9. QED
  BY <1>6, <1>7, <1>8 DEF Positions

\* The motors run on a block, stop at the end of the queue, and are asked to; a
\* report.
LEMMA InterruptsMove ==
  ASSUME PositionInv, Move \/ MotionEnds \/ JogCancel \/ StatusReport \/ UNCHANGED vars
  PROVE  Positions'
<1>1. Inv /\ HistShape /\ MachineShape(machine) /\ RtShape(rt) /\ PlanShape(plan)
  BY DEF PositionInv, OffsetInv, Inv, Shapes
<1>2. UNCHANGED <<gc, main, eeprom, hist>>
  BY DEF Move, MotionEnds, JogCancel, StatusReport, vars
<1>3. /\ machine'.state = machine.state /\ plan'.pos = plan.pos /\ rt'.alarm = rt.alarm
      /\ rt.flags \subseteq rt'.flags /\ (machine'.moving => machine.moving)
      /\ "start" \in rt.flags => "start" \in rt'.flags
  <2>1. CASE Move
    <3> DEFINE steps == Head(plan.queue)
               half == [a \in Axes |-> steps[a] \div 2]
               rest == Minus(steps, half)
               halved(q) == IF rest = Origin THEN Tail(q) ELSE <<rest>> \o Tail(q)
    <3>1. /\ UNCHANGED rt
          /\ \/ /\ machine' = [machine EXCEPT !.pos = Plus(@, steps)]
                /\ plan' = [plan EXCEPT !.queue = Tail(@)]
             \/ /\ machine' = [machine EXCEPT !.pos = Plus(@, half)]
                /\ plan' = [plan EXCEPT !.queue = halved(@)]
      BY <2>1, Zenon DEF Move
    <3> HIDE DEF steps, half, halved
    <3>2. QED
      BY <1>1, <3>1 DEF MachineShape, PlanShape
  <2>2. CASE MotionEnds \/ JogCancel
    BY <1>1, <2>2 DEF MotionEnds, JogCancel, Raise, MachineShape, RtShape
  <2>3. CASE StatusReport \/ UNCHANGED vars
    BY <2>3 DEF StatusReport, vars
  <2>4. QED
    BY <2>1, <2>2, <2>3
<1>4. ASSUME MotorsAgree(machine, plan, rt, main)
      PROVE  MotorsAgree(machine', plan', rt', main')
  <2>1. CASE Move
    <3>1. machine.moving /\ UNCHANGED rt
      BY <2>1 DEF Move
    <3>2. QED
      BY <1>3, <1>4, <3>1 DEF MotorsAgree
  <2>2. CASE MotionEnds
    <3>1. /\ machine.moving /\ plan.queue = <<>> /\ ~machine'.moving /\ UNCHANGED plan
          /\ rt'.flags = rt.flags \cup {"stop"}
      BY <1>1, <2>2 DEF MotionEnds, Raise, MachineShape, RtShape
    <3>2. QED
      BY <1>3, <1>4, <3>1 DEF MotorsAgree
  <2>3. CASE JogCancel
    <3>1. /\ machine.state = "JOG" /\ UNCHANGED <<machine, plan, main>>
          /\ rt'.flags = rt.flags \cup {"cancel"}
      BY <1>1, <2>3 DEF JogCancel, Raise, RtShape
    <3>2. QED
      BY <1>3, <1>4, <3>1 DEF MotorsAgree
  <2>4. CASE StatusReport \/ UNCHANGED vars
    BY <1>4, <2>4 DEF StatusReport, vars
  <2>5. QED
    BY <2>1, <2>2, <2>3, <2>4
<1>5. Placed(gc', machine', plan', rt', main')
  <2> SUFFICES ASSUME ~Ending(rt', main')
               PROVE  /\ MotorsAgree(machine', plan', rt', main') /\ ProbesAtRest(machine', rt', main')
                      /\ PlannerFollows(gc', machine', plan', main')
    BY DEF Placed
  <2>1. /\ MotorsAgree(machine, plan, rt, main) /\ ProbesAtRest(machine, rt, main)
        /\ PlannerFollows(gc, machine, plan, main)
    BY <1>2, <1>3 DEF PositionInv, Positions, Placed, Ending
  <2>2. ProbesAtRest(machine', rt', main')
    BY <1>2, <1>3, <2>1 DEF ProbesAtRest
  <2>3. PlannerFollows(gc', machine', plan', main')
    BY <1>2, <1>3, <2>1 DEF PlannerFollows
  <2>4. QED
    BY <1>4, <2>1, <2>2, <2>3
<1>6. Ordered(machine', main')
  BY <1>2, <1>3 DEF PositionInv, Positions, Ordered
<1>7. LinesAreModeless'
  BY <1>1, <1>2, WordsStay DEF PositionInv, Positions
<1>8. QED
  BY <1>5, <1>6, <1>7 DEF Positions

LEMMA InitPositionInv ==
  ASSUME NoMachineModes
  PROVE  Init => PositionInv
<1> SUFFICES ASSUME Init PROVE PositionInv
  OBVIOUS
<1>1. OffsetInv
  BY InitOffsetInv
<1>2. main.pc = "boot" /\ main.todo = <<>> /\ machine.state = "ALARM" /\ Len(<<>>) = 0
  BY DEF Init, PowerUp
<1>3. Placed(gc, machine, plan, rt, main)
  BY <1>2 DEF Placed, Ending
<1>4. Ordered(machine, main)
  BY <1>2 DEF Ordered
<1>5. LinesAreModeless
  <2>1. PICK program \in Programs :
          hist = [program |-> program, resets |-> Resets, fails |-> PowerFails,
                  programmed |-> NothingProgrammed]
    BY DEF Init
  <2>2. \A i \in 1..Len(hist.program) : Modeless(hist.program[i].words)
    BY <2>1 DEF NoMachineModes
  <2>3. \A n \in StartupLines : eeprom.startup[n] = <<>>
    BY DEF Init
  <2>4. Ops(main.todo) = {}
    BY <1>2 DEF Ops
  <2>5. Modeless(<<>>)
    BY <1>2 DEF Modeless
  <2>6. QED
    BY <2>2, <2>3, <2>4, <2>5 DEF LinesAreModeless
<1>6. QED
  BY <1>1, <1>3, <1>4, <1>5 DEF PositionInv, Positions

LEMMA NextPositionInv ==
  ASSUME ~HomeQueued
  PROVE  PositionInv /\ [Next]_vars => PositionInv'
<1> SUFFICES ASSUME PositionInv, [Next]_vars PROVE PositionInv'
  OBVIOUS
<1>1. OffsetInv'
  BY NextOffsetInv DEF PositionInv
<1> SUFFICES Positions'
  BY <1>1 DEF PositionInv
<1>2. CASE \/ DoSet \/ DoPosition \/ DoNoOutputs \/ DoWco \/ DoPut \/ DoSum \/ DoPause \/ LineInCheckMode
           \/ ProbeInCheckMode \/ HomeFound \/ HomeSkipped
  BY <1>2, ModesMove
<1>3. CASE DoStore \/ DoJog \/ DoReset \/ UserReset
  BY <1>3, StoreMoves, JogMoves, ResetMoves
<1>4. CASE DoArc \/ DoProbe \/ ProbeOpen \/ DoClear \/ DoEnd
  BY <1>4, ReplacedMoves, SkippedMoves DEF Replaces
<1>5. CASE DoSync \/ DoLine \/ ProbeRun \/ EndOfLine
  BY <1>5, WaitsMove
<1>6. CASE SyncWait \/ LineWait \/ SoftLimit \/ Critical
  BY <1>6, SyncMoves, LineMoves, SoftLimitMoves
<1>7. CASE ProbeClosed \/ HomeFailed \/ ProbeContact \/ ProbeWait \/ Homed \/ Idle
  BY <1>7, ClosedMoves, HomeFailedMoves, ContactMoves, ProbeMoves, HomedMoves, IdleMoves
<1>8. CASE Gcode \/ Jog \/ StoreStartup \/ Startup
  BY <1>8, LinesMove
<1>9. CASE Refused \/ CheckMode \/ Unlock \/ Clear \/ Home
  BY <1>9, CommandsMove
<1>10. CASE Boot \/ PowerFail
  BY <1>10, BootMoves, PowerFailMoves
<1>11. CASE Move \/ MotionEnds \/ JogCancel \/ StatusReport \/ UNCHANGED vars
  BY <1>11, InterruptsMove
<1>12. QED
  BY <1>2, <1>3, <1>4, <1>5, <1>6, <1>7, <1>8, <1>9, <1>10, <1>11 DEF Next

\* Between two lines the parser is where the planner will have gone, and that is
\* where the steppers will be when the queue is empty (gc_sync_position(),
\* plan_sync_position()), whatever was cancelled, probed, aborted or homed before,
\* for any program that switches no machine mode and sends no $H with blocks in
\* the queue.
THEOREM PositionIsKnownAlways ==
  ASSUME ~HomeQueued, NoMachineModes
  PROVE  Spec => []PositionIsKnown
<1>1. PositionInv => PositionIsKnown
  <2> SUFFICES ASSUME PositionInv, AtRest, machine.state # "CHECK"
               PROVE  gc.position = plan.pos /\ plan.pos = PlannedEnd
    BY DEF PositionIsKnown
  <2>1. main.pc = "idle" /\ main.todo = <<>> /\ ~main.abort
    BY DEF AtRest, PositionInv, OffsetInv, Inv, Work, WaitsInAction
  <2>2. Len(<<>>) = 0
    OBVIOUS
  <2>3. ~Has(main.todo, HomingKinds)
    BY <2>1, <2>2 DEF Has
  <2>4. plan.pos = PlannedEnd
    BY <2>1, <2>3 DEF PositionInv, OffsetInv, Inv, Blocks, PlanAgrees, PlannedEnd, EndOf
  <2>5. rt.flags = {}
    BY DEF AtRest
  <2>6. gc.position = plan.pos
    BY <2>1, <2>5 DEF PositionInv, Positions, Placed, Ending, PlannerFollows, Begins
  <2>7. QED
    BY <2>4, <2>6
<1>2. PositionInv /\ [Next]_vars => PositionInv'
  BY NextPositionInv
<1>3. Init => PositionInv
  BY InitPositionInv
<1>4. QED
  BY <1>1, <1>2, <1>3, PTL DEF Spec

-----------------------------------------------------------------------------
(* What is left to do leads to.                                             *)

\* An action takes a field of the parser, or a record of the EEPROM, to a value.
Sets(op, kind, cell) ==
  \/ kind = "field" /\ op.do = "position" /\ cell = "position"
  \/ kind = "field" /\ op.do = "offset" /\ cell \in DOMAIN op.to
  \/ kind = "record" /\ op.do = "put_sum" /\ cell = op.record

ValueOf(op, kind, cell) ==
  IF kind = "record" THEN Record(op.data) ELSE IF op.do = "position" THEN op.target ELSE op.to[cell]

Untouched(s, kind, cell) == \A i \in 1..Len(s) : ~Sets(s[i], kind, cell)

\* The actions of s take what holds u to v: the last one counts.
Leads(s, kind, cell, u, v) ==
  \/ v = u /\ Untouched(s, kind, cell)
  \/ \E i \in 1..Len(s) : /\ Sets(s[i], kind, cell) /\ v = ValueOf(s[i], kind, cell)
                          /\ \A j \in 1..Len(s) : j > i => ~Sets(s[j], kind, cell)

LEMMA UntouchedLeads ==
  ASSUME NEW s, NEW kind, NEW cell, Untouched(s, kind, cell), NEW u, NEW v
  PROVE  Leads(s, kind, cell, u, v) <=> v = u
BY DEF Leads, Untouched

\* The first action is done.
LEMMA LeadsOn ==
  ASSUME NEW s, Chain(s), s # <<>>, NEW kind, NEW cell, NEW u, NEW v, Leads(s, kind, cell, u, v)
  PROVE  Leads(Tail(s), kind, cell,
               IF Sets(s[1], kind, cell) THEN ValueOf(s[1], kind, cell) ELSE u, v)
<1> DEFINE t == Tail(s)
           w == IF Sets(s[1], kind, cell) THEN ValueOf(s[1], kind, cell) ELSE u
<1>1. /\ Len(t) = Len(s) - 1 /\ Len(s) \in Nat /\ 1 \in 1..Len(s)
      /\ \A i \in 1..Len(t) : t[i] = s[i + 1] /\ i + 1 \in 1..Len(s)
  BY TailIsChain, ChainLength
<1> HIDE DEF t
<1>2. CASE Untouched(s, kind, cell) /\ v = u
  BY <1>1, <1>2 DEF Leads, Untouched
<1>3. ASSUME NEW i \in 1..Len(s), Sets(s[i], kind, cell), v = ValueOf(s[i], kind, cell),
             \A j \in 1..Len(s) : j > i => ~Sets(s[j], kind, cell)
      PROVE  Leads(t, kind, cell, w, v)
  <2>1. CASE i = 1
    <3>1. \A j \in 1..Len(t) : ~Sets(t[j], kind, cell)
      BY <1>1, <1>3, <2>1
    <3>2. QED
      BY <1>3, <2>1, <3>1 DEF Leads, Untouched
  <2>2. CASE i # 1
    <3>1. i - 1 \in 1..Len(t) /\ (i - 1) + 1 = i
      BY <1>1, <2>2
    <3>2. t[i - 1] = s[i]
      BY <1>1, <3>1
    <3>3. \A j \in 1..Len(t) : j > i - 1 => ~Sets(t[j], kind, cell)
      BY <1>1, <1>3, <3>1
    <3>4. QED
      BY <1>3, <3>1, <3>2, <3>3 DEF Leads
  <2>3. QED
    BY <2>1, <2>2
<1>4. QED
  BY <1>2, <1>3 DEF Leads, t

\* One sequence, and another one after it.
LEMMA LeadsThrough ==
  ASSUME NEW s, IsSeq(s), NEW t, IsSeq(t), NEW kind, NEW cell, NEW u, NEW v, NEW w,
         Leads(s, kind, cell, u, w), Leads(t, kind, cell, w, v)
  PROVE  Leads(s \o t, kind, cell, u, v)
<1> DEFINE q == s \o t
<1>1. /\ Len(s) \in Nat /\ Len(t) \in Nat /\ Len(q) = Len(s) + Len(t)
      /\ \A i \in 1..Len(q) : q[i] = IF i <= Len(s) THEN s[i] ELSE t[i - Len(s)]
  BY Joined
<1> HIDE DEF q
<1>2. ASSUME NEW i \in 1..Len(t), Sets(t[i], kind, cell), v = ValueOf(t[i], kind, cell),
             \A j \in 1..Len(t) : j > i => ~Sets(t[j], kind, cell)
      PROVE  Leads(q, kind, cell, u, v)
  <2>1. i + Len(s) \in 1..Len(q) /\ (i + Len(s)) - Len(s) = i /\ ~(i + Len(s) <= Len(s))
    BY <1>1
  <2>2. q[i + Len(s)] = t[i]
    BY <1>1, <2>1
  <2>3. ASSUME NEW j \in 1..Len(q), j > i + Len(s) PROVE ~Sets(q[j], kind, cell)
    <3>1. j - Len(s) \in 1..Len(t) /\ j - Len(s) > i /\ ~(j <= Len(s))
      BY <1>1, <2>3
    <3>2. q[j] = t[j - Len(s)]
      BY <1>1, <3>1
    <3>3. QED
      BY <1>2, <3>1, <3>2
  <2>4. QED
    BY <1>2, <2>1, <2>2, <2>3 DEF Leads
<1>3. CASE v = w /\ Untouched(t, kind, cell)
  <2>1. ASSUME NEW j \in 1..Len(q), j > Len(s) PROVE ~Sets(q[j], kind, cell)
    <3>1. j - Len(s) \in 1..Len(t) /\ ~(j <= Len(s))
      BY <1>1, <2>1
    <3>2. q[j] = t[j - Len(s)]
      BY <1>1, <3>1
    <3>3. QED
      BY <1>3, <3>1, <3>2 DEF Untouched
  <2>2. \A j \in 1..Len(s) : j \in 1..Len(q) /\ q[j] = s[j]
    BY <1>1
  <2>3. CASE w = u /\ Untouched(s, kind, cell)
    <3>1. ASSUME NEW j \in 1..Len(q) PROVE ~Sets(q[j], kind, cell)
      <4>1. j > Len(s) \/ j \in 1..Len(s)
        BY <1>1
      <4>2. QED
        BY <2>1, <2>2, <2>3, <4>1 DEF Untouched
    <3>2. QED
      BY <1>3, <2>3, <3>1 DEF Leads, Untouched
  <2>4. ASSUME NEW i \in 1..Len(s), Sets(s[i], kind, cell), w = ValueOf(s[i], kind, cell),
               \A j \in 1..Len(s) : j > i => ~Sets(s[j], kind, cell)
        PROVE  Leads(q, kind, cell, u, v)
    <3>1. i \in 1..Len(q) /\ q[i] = s[i]
      BY <2>2
    <3>2. ASSUME NEW j \in 1..Len(q), j > i PROVE ~Sets(q[j], kind, cell)
      <4>1. j > Len(s) \/ j \in 1..Len(s)
        BY <1>1
      <4>2. QED
        BY <2>1, <2>2, <2>4, <3>2, <4>1
    <3>3. QED
      BY <1>3, <2>4, <3>1, <3>2 DEF Leads
  <2>5. \/ w = u /\ Untouched(s, kind, cell)
        \/ \E i \in 1..Len(s) : /\ Sets(s[i], kind, cell) /\ w = ValueOf(s[i], kind, cell)
                                /\ \A j \in 1..Len(s) : j > i => ~Sets(s[j], kind, cell)
    BY Zenon DEF Leads
  <2>6. QED
    BY <2>3, <2>4, <2>5, Zenon DEF q
<1>4. \/ v = w /\ Untouched(t, kind, cell)
      \/ \E i \in 1..Len(t) : /\ Sets(t[i], kind, cell) /\ v = ValueOf(t[i], kind, cell)
                              /\ \A j \in 1..Len(t) : j > i => ~Sets(t[j], kind, cell)
  BY Zenon DEF Leads
<1>5. QED
  BY <1>2, <1>3, <1>4, Zenon DEF q

\* What is to be overwritten does not count.
LEMMA Overwritten ==
  ASSUME NEW s, NEW kind, NEW cell, NEW i \in 1..Len(s), Sets(s[i], kind, cell),
         NEW u, NEW v, NEW w, Leads(s, kind, cell, u, v)
  PROVE  Leads(s, kind, cell, w, v)
BY DEF Leads, Untouched

\* Actions of these kinds set nothing.
LEMMA NothingSet ==
  ASSUME NEW s, NEW K, OfKinds(s, K), NEW kind, NEW cell,
         K \cap {"position", "offset", "put_sum"} = {}
  PROVE  Untouched(s, kind, cell)
BY DEF OfKinds, Untouched, Sets

\* Some take the place of the first action, which sets nothing, as they do.
LEMMA LeadsBehind ==
  ASSUME NEW todo, Chain(todo), todo # <<>>, NEW s, IsSeq(s), NEW kind, NEW cell,
         ~Sets(todo[1], kind, cell), Untouched(s, kind, cell),
         NEW u, NEW v, Leads(todo, kind, cell, u, v)
  PROVE  Leads(s \o Tail(todo), kind, cell, u, v)
<1>1. Leads(Tail(todo), kind, cell, u, v)
  BY LeadsOn
<1>2. Leads(s, kind, cell, u, u)
  BY UntouchedLeads
<1>3. IsSeq(Tail(todo))
  BY TailIsChain DEF Chain
<1>4. QED
  BY <1>1, <1>2, <1>3, LeadsThrough

-----------------------------------------------------------------------------
(* Steps that change nothing of where this leads.                           *)

\* Nothing is set behind the end of a program, and records are cleared before a
\* reset.
Effects == {"position", "offset"} \cup Writes

Tidy(todo) ==
  /\ \A i, j \in 1..Len(todo) : todo[i].do = "end" /\ j > i => todo[j].do \notin Effects
  /\ Has(todo, {"clear"}) => Has(todo, {"reset"})

\* Where these end the parser is told afterwards.
Unpredictable == {"end", "probe", "probe_open", "probe_run"} \cup HomingKinds

IsProgrammed(h) == DOMAIN h.programmed # {}

Carries ==
  ~Ending(rt', main') =>
    /\ ~Ending(rt, main)
    /\ machine.state = "CHECK" => machine'.state = "CHECK"
    /\ Tidy(main.todo) =>
         /\ Tidy(main'.todo)
         /\ Has(main.todo, {"end"}) => Has(main'.todo, {"end"})
         /\ Has(main.todo, {"reset"}) => Has(main'.todo, {"reset"})
         /\ ~Has(main.todo, {"reset"}) =>
              \A n \in Records : \A v : Leads(main.todo, "record", n, eeprom.records[n], v)
                                          => Leads(main'.todo, "record", n, eeprom'.records[n], v)
    /\ \A f \in Tracked \ {"position"} :
         \A v : Leads(main.todo, "field", f, gc[f], v) => Leads(main'.todo, "field", f, gc'[f], v)
    /\ IsProgrammed(hist') =>
         /\ hist'.programmed = hist.programmed
         /\ ~Has(main.todo, Unpredictable) =>
              /\ ~Has(main'.todo, Unpredictable)
              /\ \A v : Leads(main.todo, "field", "position", gc.position, v)
                          => Leads(main'.todo, "field", "position", gc'.position, v)

\* The active system is the one the EEPROM will hold.
WillBeStored(g, todo, records) ==
  \E n \in 0..5 : \E x \in Vector :
    /\ Leads(todo, "field", "coord_select", g.coord_select, n)
    /\ Leads(todo, "field", "coord_system", g.coord_system, x)
    /\ Leads(todo, "record", n, records[n], Record(x))

\* The work position is the one that was programmed.
WillBeThere(g, todo, programmed) ==
  \E p, x, o \in Vector : \E t \in Int :
    /\ Leads(todo, "field", "position", g.position, p)
    /\ Leads(todo, "field", "coord_system", g.coord_system, x)
    /\ Leads(todo, "field", "coord_offset", g.coord_offset, o)
    /\ Leads(todo, "field", "tool_length_offset", g.tool_length_offset, t)
    /\ \A a \in DOMAIN programmed :
         p[a] - Plus(Plus(x, o), ToolLengthVector(t))[a] = programmed[a]

Outcome ==
  ~Ending(rt, main) =>
    /\ Tidy(main.todo)
    /\ machine.state # "CHECK" /\ ~Has(main.todo, {"reset", "end"})
         => WillBeStored(gc, main.todo, eeprom.records)
    /\ IsProgrammed(hist) => /\ ~Has(main.todo, Unpredictable)
                             /\ WillBeThere(gc, main.todo, hist.programmed)

LEMMA OutcomeCarried ==
  ASSUME Outcome, Carries
  PROVE  Outcome'
<1> SUFFICES ASSUME ~Ending(rt', main')
             PROVE  /\ Tidy(main'.todo)
                    /\ machine'.state # "CHECK" /\ ~Has(main'.todo, {"reset", "end"})
                         => WillBeStored(gc', main'.todo, eeprom'.records)
                    /\ IsProgrammed(hist') => /\ ~Has(main'.todo, Unpredictable)
                                              /\ WillBeThere(gc', main'.todo, hist'.programmed)
  BY DEF Outcome
<1>1. ~Ending(rt, main) /\ Tidy(main.todo) /\ Tidy(main'.todo)
  BY DEF Carries, Outcome
<1>2. \A f \in Tracked \ {"position"} :
        \A v : Leads(main.todo, "field", f, gc[f], v) => Leads(main'.todo, "field", f, gc'[f], v)
  BY DEF Carries
<1>3. \A v : /\ Leads(main.todo, "field", "coord_select", gc.coord_select, v)
                  => Leads(main'.todo, "field", "coord_select", gc'.coord_select, v)
             /\ Leads(main.todo, "field", "coord_system", gc.coord_system, v)
                  => Leads(main'.todo, "field", "coord_system", gc'.coord_system, v)
             /\ Leads(main.todo, "field", "coord_offset", gc.coord_offset, v)
                  => Leads(main'.todo, "field", "coord_offset", gc'.coord_offset, v)
             /\ Leads(main.todo, "field", "tool_length_offset", gc.tool_length_offset, v)
                  => Leads(main'.todo, "field", "tool_length_offset", gc'.tool_length_offset, v)
  BY <1>2 DEF Tracked
<1>4. ASSUME machine'.state # "CHECK", ~Has(main'.todo, {"reset", "end"})
      PROVE  WillBeStored(gc', main'.todo, eeprom'.records)
  <2>1. machine.state # "CHECK" /\ ~Has(main.todo, {"end"}) /\ ~Has(main.todo, {"reset"})
    BY <1>1, <1>4 DEF Carries, Has
  <2>2. WillBeStored(gc, main.todo, eeprom.records)
    BY <1>1, <2>1 DEF Outcome, Has
  <2>3. PICK n \in 0..5, x \in Vector :
          /\ Leads(main.todo, "field", "coord_select", gc.coord_select, n)
          /\ Leads(main.todo, "field", "coord_system", gc.coord_system, x)
          /\ Leads(main.todo, "record", n, eeprom.records[n], Record(x))
    BY <2>2 DEF WillBeStored
  <2>4. n \in Records
    BY DEF Records, IndexG30, NCoordinateSystem
  <2>5. Leads(main'.todo, "record", n, eeprom'.records[n], Record(x))
    BY <1>1, <2>1, <2>3, <2>4 DEF Carries
  <2>6. QED
    BY <1>3, <2>3, <2>5 DEF WillBeStored
<1>5. ASSUME IsProgrammed(hist')
      PROVE  ~Has(main'.todo, Unpredictable) /\ WillBeThere(gc', main'.todo, hist'.programmed)
  <2>1. hist'.programmed = hist.programmed /\ IsProgrammed(hist)
    BY <1>5 DEF Carries, IsProgrammed
  <2>2. ~Has(main.todo, Unpredictable) /\ WillBeThere(gc, main.todo, hist.programmed)
    BY <1>1, <2>1 DEF Outcome
  <2>3. /\ ~Has(main'.todo, Unpredictable)
        /\ \A v : Leads(main.todo, "field", "position", gc.position, v)
                    => Leads(main'.todo, "field", "position", gc'.position, v)
    BY <1>5, <2>2 DEF Carries
  <2>4. PICK p \in Vector, x \in Vector, o \in Vector, t \in Int :
          /\ Leads(main.todo, "field", "position", gc.position, p)
          /\ Leads(main.todo, "field", "coord_system", gc.coord_system, x)
          /\ Leads(main.todo, "field", "coord_offset", gc.coord_offset, o)
          /\ Leads(main.todo, "field", "tool_length_offset", gc.tool_length_offset, t)
          /\ \A a \in DOMAIN hist.programmed :
               p[a] - Plus(Plus(x, o), ToolLengthVector(t))[a] = hist.programmed[a]
    BY <2>2 DEF WillBeThere
  <2>5. QED
    BY <1>3, <2>1, <2>3, <2>4 DEF WillBeThere
<1>6. QED
  BY <1>1, <1>4, <1>5

-----------------------------------------------------------------------------
(* What the actions of a block lead to.                                     *)

LEMMA NoFieldSet ==
  ASSUME NEW s, NEW K, OfKinds(s, K), K \cap {"position", "offset"} = {}, NEW cell
  PROVE  Untouched(s, "field", cell)
BY DEF OfKinds, Untouched, Sets

LEMMA NoRecordSet ==
  ASSUME NEW s, NEW K, OfKinds(s, K), "put_sum" \notin K, NEW cell
  PROVE  Untouched(s, "record", cell)
BY DEF OfKinds, Untouched, Sets

LEMMA JoinedIsSeq ==
  ASSUME NEW s, IsSeq(s), NEW t, IsSeq(t)
  PROVE  IsSeq(s \o t)
<1>1. PICK S, T : s \in Seq(S) /\ t \in Seq(T)
  BY DEF IsSeq
<1> DEFINE R == S \cup T
<1>2. s \in Seq(R) /\ t \in Seq(R)
  BY <1>1
<1> HIDE DEF R
<1>3. s \o t \in Seq(R)
  BY <1>2
<1>4. QED
  BY <1>3, SequencesAreSeq

LEMMA SingleLeads ==
  ASSUME NEW op, NEW kind, NEW cell, NEW u
  PROVE  /\ IsSeq(<<op>>)
         /\ Leads(<<op>>, kind, cell, u, IF Sets(op, kind, cell) THEN ValueOf(op, kind, cell) ELSE u)
<1>1. <<op>> \in Seq({op}) /\ Len(<<op>>) = 1 /\ <<op>>[1] = op
  OBVIOUS
<1> DEFINE s == <<op>>
<1> HIDE DEF s
<1>2. s \in Seq({op}) /\ Len(s) = 1 /\ s[1] = op
  BY <1>1 DEF s
<1>3. IsSeq(s)
  BY <1>2, SequencesAreSeq
<1>4. Leads(s, kind, cell, u, IF Sets(op, kind, cell) THEN ValueOf(op, kind, cell) ELSE u)
  BY <1>2 DEF Leads, Untouched
<1>5. QED
  BY <1>3, <1>4 DEF s

LEMMA WhenLeads ==
  ASSUME NEW condition, NEW s, IsSeq(s), NEW kind, NEW cell, NEW u, NEW v, Leads(s, kind, cell, u, v)
  PROVE  /\ IsSeq(When(condition, s))
         /\ Leads(When(condition, s), kind, cell, u, IF condition THEN v ELSE u)
<1>1. IsSeq(<<>>) /\ Untouched(<<>>, kind, cell)
  BY NothingIsFresh DEF Part, Fresh, Chain, Untouched
<1>2. Leads(<<>>, kind, cell, u, u)
  BY <1>1, UntouchedLeads
<1>3. QED
  BY <1>1, <1>2 DEF When

LEMMA OffsetLeads ==
  ASSUME NEW changes, NEW f, NEW n, NEW u
  PROVE  /\ IsSeq(Offset(changes))
         /\ Leads(Offset(changes), "field", f, u, IF f \in DOMAIN changes THEN changes[f] ELSE u)
         /\ Leads(Offset(changes), "record", n, u, u)
<1> DEFINE op == [do |-> "offset", to |-> changes]
           v == IF f \in DOMAIN changes THEN changes[f] ELSE u
<1>1. op.do = "offset" /\ op.to = changes
  OBVIOUS
<1> HIDE DEF op
<1>2. /\ Leads(<<op>>, "field", f, u, v) /\ Leads(<<op>>, "record", n, u, u) /\ IsSeq(<<op>>)
  <2>1. Sets(op, "field", f) <=> f \in DOMAIN changes
    BY <1>1 DEF Sets
  <2>2. ValueOf(op, "field", f) = changes[f]
    BY <1>1 DEF ValueOf
  <2>3. ~Sets(op, "record", n)
    BY <1>1 DEF Sets
  <2>4. QED
    BY <2>1, <2>2, <2>3, SingleLeads
<1>3. Part(OffsetChanged, {"sync", "wco"})
  BY OffsetChangedIsFresh
<1>4. IsSeq(OffsetChanged) /\ OfKinds(OffsetChanged, {"sync", "wco"})
  BY <1>3 DEF Part, Fresh, Chain
<1>5. Untouched(OffsetChanged, "field", f) /\ Untouched(OffsetChanged, "record", n)
  BY <1>4, NoFieldSet, NoRecordSet
<1>6. Leads(OffsetChanged, "field", f, v, v) /\ Leads(OffsetChanged, "record", n, u, u)
  BY <1>5, UntouchedLeads
<1> HIDE DEF v
<1>7. /\ Leads(<<op>> \o OffsetChanged, "field", f, u, v) /\ Leads(<<op>> \o OffsetChanged, "record", n, u, u)
      /\ IsSeq(<<op>> \o OffsetChanged)
  BY <1>2, <1>4, <1>6, LeadsThrough, JoinedIsSeq
<1>8. Offset(changes) = <<op>> \o OffsetChanged
  BY DEF Offset, op
<1>9. QED
  BY <1>7, <1>8 DEF v

LEMMA WriteLeads ==
  ASSUME NEW n, NEW data, NEW m, NEW f, NEW u
  PROVE  /\ IsSeq(WriteRecord(n, data))
         /\ Leads(WriteRecord(n, data), "record", m, u, IF m = n THEN Record(data) ELSE u)
         /\ Leads(WriteRecord(n, data), "field", f, u, u)
<1> DEFINE op(name) == [do |-> name, record |-> n, data |-> data]
           a == [do |-> "sync"]
           v == IF m = n THEN Record(data) ELSE u
           first == <<a>> \o <<op("put_x")>> \o <<op("put_y")>> \o <<op("put_z")>>
<1>1. \A name \in Writes : op(name).do = name /\ op(name).record = n /\ op(name).data = data
  OBVIOUS
<1>2. a.do = "sync"
  OBVIOUS
<1>3. WriteRecord(n, data) = first \o <<op("put_sum")>>
  BY DEF WriteRecord, Do, Put
<1> HIDE DEF op, a
<1>4. \A name \in Writes : /\ ~Sets(op(name), "field", f)
                           /\ name # "put_sum" => ~Sets(op(name), "record", m)
  BY <1>1 DEF Sets, Writes, LaterBytes
<1>5. ~Sets(a, "field", f) /\ ~Sets(a, "record", m)
  BY <1>2 DEF Sets
<1>6. /\ IsSeq(<<a>>) /\ Leads(<<a>>, "field", f, u, u) /\ Leads(<<a>>, "record", m, u, u)
  BY <1>5, SingleLeads
<1>7. \A name \in Writes : IsSeq(<<op(name)>>) /\ Leads(<<op(name)>>, "field", f, u, u)
  BY <1>4, SingleLeads
<1>8. \A name \in Unwritten : name \in Writes /\ Leads(<<op(name)>>, "record", m, u, u)
  BY <1>4, SingleLeads DEF Unwritten, Writes, LaterBytes
<1>9. Leads(<<op("put_sum")>>, "record", m, u, v)
  <2>1. /\ Sets(op("put_sum"), "record", m) <=> m = n
        /\ ValueOf(op("put_sum"), "record", m) = Record(data)
    BY <1>1 DEF Sets, ValueOf, Writes, LaterBytes
  <2>2. QED
    BY <2>1, SingleLeads
<1> HIDE DEF v
<1>10. IsSeq(first) /\ Leads(first, "field", f, u, u) /\ Leads(first, "record", m, u, u)
  <2> DEFINE s == <<a>> \o <<op("put_x")>> t == s \o <<op("put_y")>>
  <2>1. {"put_x", "put_y", "put_z"} \subseteq Unwritten
    BY DEF Unwritten
  <2>2. IsSeq(s) /\ Leads(s, "field", f, u, u) /\ Leads(s, "record", m, u, u)
    BY <1>6, <1>7, <1>8, <2>1, LeadsThrough, JoinedIsSeq
  <2> HIDE DEF s
  <2>3. IsSeq(t) /\ Leads(t, "field", f, u, u) /\ Leads(t, "record", m, u, u)
    BY <1>7, <1>8, <2>1, <2>2, LeadsThrough, JoinedIsSeq
  <2> HIDE DEF t
  <2>4. first = t \o <<op("put_z")>>
    BY DEF t, s
  <2> HIDE DEF first
  <2>5. QED
    BY <1>7, <1>8, <2>1, <2>3, <2>4, LeadsThrough, JoinedIsSeq
<1> HIDE DEF first
<1>11. "put_sum" \in Writes
  BY DEF Writes, LaterBytes
<1>12. /\ IsSeq(first \o <<op("put_sum")>>) /\ Leads(first \o <<op("put_sum")>>, "field", f, u, u)
       /\ Leads(first \o <<op("put_sum")>>, "record", m, u, v)
  BY <1>7, <1>9, <1>10, <1>11, LeadsThrough, JoinedIsSeq
<1>13. QED
  BY <1>3, <1>12 DEF v

\* A line, and what the parser is told at its end.
LEMMA MoveLeads ==
  ASSUME NEW name \in {"line", "arc", "jog"}, NEW target, NEW f, NEW n, NEW u
  PROVE  /\ IsSeq(MoveTo(name, target)) /\ IsSeq(MoveTo("position", target))
         /\ Leads(MoveTo(name, target), "field", f, u, u) /\ Leads(MoveTo(name, target), "record", n, u, u)
         /\ Leads(MoveTo("position", target), "field", f, u, IF f = "position" THEN target ELSE u)
         /\ Leads(MoveTo("position", target), "record", n, u, u)
<1> DEFINE a == [do |-> name, target |-> target] b == [do |-> "position", target |-> target]
<1>1. a.do = name /\ b.do = "position" /\ b.target = target
  OBVIOUS
<1>2. MoveTo(name, target) = <<a>> /\ MoveTo("position", target) = <<b>>
  BY DEF MoveTo
<1> HIDE DEF a, b
<1>3. /\ ~Sets(a, "field", f) /\ ~Sets(a, "record", n) /\ ~Sets(b, "record", n)
      /\ Sets(b, "field", f) <=> f = "position"
      /\ ValueOf(b, "field", f) = target
  BY <1>1 DEF Sets, ValueOf
<1>4. QED
  BY <1>2, <1>3, SingleLeads

\* One part after the other.
LEMMA Along ==
  ASSUME NEW A, IsSeq(A), NEW T, IsSeq(T), NEW S, IsSeq(S), NEW U1, IsSeq(U1),
         NEW N, IsSeq(N), NEW U2, IsSeq(U2), NEW M, IsSeq(M), NEW P, IsSeq(P),
         NEW kind, NEW cell, Untouched(A, kind, cell), Untouched(U1, kind, cell),
         Untouched(U2, kind, cell), Untouched(P, kind, cell),
         NEW u, NEW u1, NEW u2, NEW u3, NEW v,
         Leads(T, kind, cell, u, u1), Leads(S, kind, cell, u1, u2), Leads(N, kind, cell, u2, u3),
         Leads(M, kind, cell, u3, v)
  PROVE  Leads(A \o T \o S \o U1 \o N \o U2 \o M \o P, kind, cell, u, v)
<1> DEFINE s1 == A \o T s2 == s1 \o S s3 == s2 \o U1 s4 == s3 \o N s5 == s4 \o U2 s6 == s5 \o M
<1>1. /\ Leads(A, kind, cell, u, u) /\ Leads(U1, kind, cell, u2, u2)
      /\ Leads(U2, kind, cell, u3, u3) /\ Leads(P, kind, cell, v, v)
  BY UntouchedLeads
<1>2. IsSeq(s1) /\ Leads(s1, kind, cell, u, u1)
  BY <1>1, LeadsThrough, JoinedIsSeq
<1> HIDE DEF s1
<1>3. IsSeq(s2) /\ Leads(s2, kind, cell, u, u2)
  BY <1>2, LeadsThrough, JoinedIsSeq
<1> HIDE DEF s2
<1>4. IsSeq(s3) /\ Leads(s3, kind, cell, u, u2)
  BY <1>1, <1>3, LeadsThrough, JoinedIsSeq
<1> HIDE DEF s3
<1>5. IsSeq(s4) /\ Leads(s4, kind, cell, u, u3)
  BY <1>4, LeadsThrough, JoinedIsSeq
<1> HIDE DEF s4
<1>6. IsSeq(s5) /\ Leads(s5, kind, cell, u, u3)
  BY <1>1, <1>5, LeadsThrough, JoinedIsSeq
<1> HIDE DEF s5
<1>7. IsSeq(s6) /\ Leads(s6, kind, cell, u, v)
  BY <1>6, LeadsThrough, JoinedIsSeq
<1> HIDE DEF s6
<1>8. Leads(s6 \o P, kind, cell, u, v)
  BY <1>1, <1>7, LeadsThrough
<1>9. QED
  BY <1>8 DEF s6, s5, s4, s3, s2, s1

\* The offset of a block for the tool.
ToolOffset(b) == IF b.tool_length = "CANCEL" THEN 0 ELSE b.xyz[ToolAxis]

\* Actions that set nothing.
Quiet == {"set", "outputs", "sync", "pause", "end"}

LEMMA QuietSet == \A s, kind, cell : Part(s, Quiet) => IsSeq(s) /\ Untouched(s, kind, cell)
BY NothingSet DEF Part, Fresh, Chain, Quiet

LEMMA ToolLeads ==
  ASSUME NEW b, NEW g, NEW f, NEW n, NEW u, f = "tool_length_offset" => u = g.tool_length_offset
  PROVE  /\ IsSeq(ToolLengthOffset(b, g))
         /\ Leads(ToolLengthOffset(b, g), "field", f, u,
                  IF f = "tool_length_offset" /\ b.axis = "TOOL_LENGTH_OFFSET" THEN ToolOffset(b) ELSE u)
         /\ Leads(ToolLengthOffset(b, g), "record", n, u, u)
<1> DEFINE offset == ToolOffset(b)
           changes == [tool_length_offset |-> offset]
           differs == g.tool_length_offset # offset
           tells == When(differs, Offset(changes))
           sets == Set([tool_length |-> b.tool_length])
           v == IF f = "tool_length_offset" THEN offset ELSE u
<1>1. DOMAIN changes = {"tool_length_offset"} /\ changes.tool_length_offset = offset
  OBVIOUS
<1>2. ToolLengthOffset(b, g) = When(b.axis = "TOOL_LENGTH_OFFSET", sets \o tells)
  BY DEF ToolLengthOffset, ToolOffset
<1> HIDE DEF changes, offset
<1>3. /\ IsSeq(Offset(changes)) /\ Leads(Offset(changes), "field", f, u, v)
      /\ Leads(Offset(changes), "record", n, u, u)
  <2>1. v = IF f \in DOMAIN changes THEN changes[f] ELSE u
    BY <1>1
  <2>2. QED
    BY <2>1, OffsetLeads
<1>4. /\ IsSeq(tells) /\ Leads(tells, "field", f, u, IF differs THEN v ELSE u)
      /\ Leads(tells, "record", n, u, IF differs THEN u ELSE u)
  <2> HIDE DEF v, differs
  <2>1. QED
    BY <1>3, WhenLeads
<1>5. (IF differs THEN v ELSE u) = v /\ (IF differs THEN u ELSE u) = u
  OBVIOUS
<1>6. Part(sets, Quiet)
  <2>1. DOMAIN [tool_length |-> b.tool_length] \cap Tracked = {}
    BY DEF Tracked
  <2>2. QED
    BY <2>1, SetIsFresh DEF Quiet
<1> HIDE DEF sets, tells, v, differs
<1>7. IsSeq(sets) /\ Leads(sets, "field", f, u, u) /\ Leads(sets, "record", n, u, u)
  BY <1>6, QuietSet, UntouchedLeads
<1>8. /\ IsSeq(sets \o tells) /\ Leads(sets \o tells, "field", f, u, v)
      /\ Leads(sets \o tells, "record", n, u, u)
  BY <1>4, <1>5, <1>7, LeadsThrough, JoinedIsSeq
<1>9. /\ IsSeq(ToolLengthOffset(b, g))
      /\ Leads(ToolLengthOffset(b, g), "field", f, u, IF b.axis = "TOOL_LENGTH_OFFSET" THEN v ELSE u)
      /\ Leads(ToolLengthOffset(b, g), "record", n, u, IF b.axis = "TOOL_LENGTH_OFFSET" THEN u ELSE u)
  BY <1>2, <1>8, WhenLeads
<1>10. QED
  BY <1>9 DEF v, offset

\* The system a block selects.
LEMMA SystemLeads ==
  ASSUME NEW b, NEW g, NEW f, NEW n, NEW u, f = "coord_select" => u = g.coord_select,
         f = "coord_system" => u = g.coord_system,
         b.coord_select = g.coord_select => b.system = g.coord_system
  PROVE  /\ IsSeq(SelectSystem(b, g))
         /\ Leads(SelectSystem(b, g), "field", f, u,
                  IF f = "coord_select" THEN b.coord_select ELSE IF f = "coord_system" THEN b.system ELSE u)
         /\ Leads(SelectSystem(b, g), "record", n, u, u)
<1> DEFINE changes == [coord_select |-> b.coord_select, coord_system |-> b.system]
           differs == g.coord_select # b.coord_select
           v == IF f = "coord_select" THEN b.coord_select ELSE IF f = "coord_system" THEN b.system ELSE u
<1>1. /\ DOMAIN changes = {"coord_select", "coord_system"}
      /\ changes.coord_select = b.coord_select /\ changes.coord_system = b.system
  OBVIOUS
<1>2. SelectSystem(b, g) = When(differs, Offset(changes))
  BY DEF SelectSystem
<1> HIDE DEF changes
<1>3. v = IF f \in DOMAIN changes THEN changes[f] ELSE u
  BY <1>1
<1>4. /\ IsSeq(Offset(changes)) /\ Leads(Offset(changes), "field", f, u, v)
      /\ Leads(Offset(changes), "record", n, u, u)
  BY <1>3, OffsetLeads
<1>5. (IF differs THEN v ELSE u) = v
  OBVIOUS
<1> HIDE DEF v, differs
<1>6. /\ IsSeq(SelectSystem(b, g)) /\ Leads(SelectSystem(b, g), "field", f, u, IF differs THEN v ELSE u)
      /\ Leads(SelectSystem(b, g), "record", n, u, IF differs THEN u ELSE u)
  BY <1>2, <1>4, WhenLeads
<1>7. QED
  BY <1>5, <1>6 DEF v

\* G10 sets the system that is active.
SetsActive(b) == b.non_modal = "SET_COORDINATE_DATA" /\ b.coord_select = b.select

\* The offset of G92 after a block, from u before it.
OffsetAfter(b, u) ==
  IF b.non_modal = "SET_COORDINATE_OFFSET" THEN b.xyz
  ELSE IF b.non_modal = "RESET_COORDINATE_OFFSET" THEN Origin ELSE u

LEMMA NonModalLeads ==
  ASSUME NEW b, b.coord_select \in 0..5, NEW g, NEW f, NEW u,
         f # "position" \/ b.non_modal \in {"NO_ACTION"} \cup OffsetActions
  PROVE  LET s == NonModalSteps(b, g)
         IN /\ IsSeq(s)
            /\ Leads(s, "field", f, u,
                     IF f = "coord_system" /\ SetsActive(b) THEN b.ijk
                     ELSE IF f = "coord_offset" THEN OffsetAfter(b, u) ELSE u)
            /\ Leads(s, "record", b.coord_select, u, IF SetsActive(b) THEN Record(b.ijk) ELSE u)
<1> DEFINE v == IF f = "coord_system" /\ SetsActive(b) THEN b.ijk
                ELSE IF f = "coord_offset" THEN OffsetAfter(b, u) ELSE u
           n == b.coord_select
           w == IF SetsActive(b) THEN Record(b.ijk) ELSE u
           Goal(s) == IsSeq(s) /\ Leads(s, "field", f, u, v) /\ Leads(s, "record", n, u, w)
<1>1. CASE b.non_modal = "SET_COORDINATE_DATA"
  <2> DEFINE changes == [coord_system |-> b.ijk]
             writes == WriteRecord(b.select, b.ijk)
             same == b.coord_select = b.select
             tells == When(same, Offset(changes))
  <2>1. DOMAIN changes = {"coord_system"} /\ changes.coord_system = b.ijk
    OBVIOUS
  <2>2. NonModalSteps(b, g) = writes \o tells
    BY <1>1 DEF NonModalSteps
  <2>3. /\ IsSeq(writes) /\ Leads(writes, "field", f, u, u)
        /\ Leads(writes, "record", n, u, IF n = b.select THEN Record(b.ijk) ELSE u)
    BY WriteLeads
  <2>4. w = IF n = b.select THEN Record(b.ijk) ELSE u
    BY <1>1 DEF SetsActive
  <2> DEFINE x == IF f \in DOMAIN changes THEN changes[f] ELSE u
  <2>5. v = IF same THEN x ELSE u
    BY <1>1, <2>1 DEF SetsActive, OffsetAfter
  <2>6. /\ IsSeq(Offset(changes)) /\ Leads(Offset(changes), "field", f, u, x)
        /\ Leads(Offset(changes), "record", n, w, w)
    BY OffsetLeads
  <2> HIDE DEF changes, x, v, w, writes, same
  <2>7. /\ IsSeq(tells) /\ Leads(tells, "field", f, u, IF same THEN x ELSE u)
        /\ Leads(tells, "record", n, w, IF same THEN w ELSE w)
    BY <2>6, WhenLeads
  <2>8. (IF same THEN w ELSE w) = w
    OBVIOUS
  <2> HIDE DEF tells, n
  <2>9. /\ IsSeq(writes \o tells) /\ Leads(writes \o tells, "field", f, u, v)
        /\ Leads(writes \o tells, "record", n, u, w)
    BY <2>3, <2>4, <2>5, <2>7, <2>8, LeadsThrough, JoinedIsSeq
  <2>10. Goal(NonModalSteps(b, g))
    BY <2>2, <2>9
  <2>11. QED
    BY <2>10 DEF v, n, w
<1>2. CASE b.non_modal \in {"GO_HOME_0", "GO_HOME_1"}
  <2> DEFINE first == When(b.axis # "NONE", MoveTo("line", b.xyz))
             second == MoveTo("line", b.ijk)
             third == MoveTo("position", b.ijk)
  <2>1. NonModalSteps(b, g) = first \o second \o third
    BY <1>2 DEF NonModalSteps
  <2>2. f # "position" /\ v = u /\ w = u
    BY <1>2 DEF OffsetActions, SetsActive, OffsetAfter
  <2> HIDE DEF v, w
  <2>3. /\ IsSeq(MoveTo("line", b.xyz)) /\ Leads(MoveTo("line", b.xyz), "field", f, u, u)
        /\ Leads(MoveTo("line", b.xyz), "record", n, u, u)
    BY MoveLeads
  <2>4. /\ IsSeq(first) /\ Leads(first, "field", f, u, IF b.axis # "NONE" THEN u ELSE u)
        /\ Leads(first, "record", n, u, IF b.axis # "NONE" THEN u ELSE u)
    BY <2>3, WhenLeads
  <2>5. (IF b.axis # "NONE" THEN u ELSE u) = u
    OBVIOUS
  <2>6. IsSeq(second) /\ Leads(second, "field", f, u, u) /\ Leads(second, "record", n, u, u)
    BY MoveLeads
  <2>7. IsSeq(third) /\ Leads(third, "field", f, u, u) /\ Leads(third, "record", n, u, u)
    BY <2>2, MoveLeads
  <2> HIDE DEF first, second, third, n
  <2>8. /\ IsSeq(first \o second) /\ Leads(first \o second, "field", f, u, u)
        /\ Leads(first \o second, "record", n, u, u)
    BY <2>4, <2>5, <2>6, LeadsThrough, JoinedIsSeq
  <2> DEFINE both == first \o second
  <2> HIDE DEF both
  <2>9. IsSeq(both) /\ Leads(both, "field", f, u, u) /\ Leads(both, "record", n, u, u)
    BY <2>8 DEF both
  <2>10. Goal(both \o third)
    BY <2>2, <2>7, <2>9, LeadsThrough, JoinedIsSeq
  <2>11. NonModalSteps(b, g) = both \o third
    BY <2>1 DEF both
  <2>12. QED
    BY <2>10, <2>11 DEF v, n, w
<1>3. CASE b.non_modal \in {"SET_HOME_0", "SET_HOME_1"}
  <2>1. PICK m \in {6, 7} : NonModalSteps(b, g) = WriteRecord(m, g.position)
    BY <1>3 DEF NonModalSteps, IndexG28, IndexG30, NCoordinateSystem
  <2>2. v = u /\ w = u /\ n # m
    BY <1>3 DEF SetsActive, OffsetAfter
  <2> HIDE DEF v, w, n
  <2>3. Goal(WriteRecord(m, g.position))
    BY <2>2, WriteLeads
  <2>4. QED
    BY <2>1, <2>3 DEF v, n, w
<1>4. CASE b.non_modal \in {"SET_COORDINATE_OFFSET", "RESET_COORDINATE_OFFSET"}
  <2> DEFINE z == IF b.non_modal = "SET_COORDINATE_OFFSET" THEN b.xyz ELSE Origin
             changes == [coord_offset |-> z]
  <2>1. DOMAIN changes = {"coord_offset"} /\ changes.coord_offset = z
    OBVIOUS
  <2>2. NonModalSteps(b, g) = Offset(changes)
    <3>1. CASE b.non_modal = "SET_COORDINATE_OFFSET"
      BY <3>1 DEF NonModalSteps
    <3>2. CASE b.non_modal = "RESET_COORDINATE_OFFSET"
      BY <3>2 DEF NonModalSteps
    <3>3. QED
      BY <1>4, <3>1, <3>2
  <2>3. w = u /\ v = IF f \in DOMAIN changes THEN changes[f] ELSE u
    BY <1>4, <2>1 DEF SetsActive, OffsetAfter
  <2> HIDE DEF changes, v, w, n
  <2>4. Goal(Offset(changes))
    BY <2>3, OffsetLeads
  <2>5. QED
    BY <2>2, <2>4 DEF v, n, w
<1>5. CASE b.non_modal \notin {"SET_COORDINATE_DATA", "GO_HOME_0", "GO_HOME_1", "SET_HOME_0", "SET_HOME_1",
                               "SET_COORDINATE_OFFSET", "RESET_COORDINATE_OFFSET"}
  <2>1. NonModalSteps(b, g) = <<>>
    BY <1>5 DEF NonModalSteps
  <2>2. v = u /\ w = u
    BY <1>5 DEF SetsActive, OffsetAfter
  <2>3. IsSeq(<<>>) /\ \A kind, cell : Untouched(<<>>, kind, cell)
    BY NothingIsFresh DEF Part, Fresh, Chain, Untouched
  <2> HIDE DEF v, w, n
  <2>4. Goal(<<>>)
    BY <2>2, <2>3, UntouchedLeads
  <2>5. QED
    BY <2>1, <2>4 DEF v, n, w
<1>6. QED
  BY <1>1, <1>2, <1>3, <1>4, <1>5

LEMMA MotionLeads ==
  ASSUME NEW b, NEW f, NEW n, NEW u
  PROVE  LET s == MotionSteps(b)
             moves == b.axis = "MOTION_MODE" /\ b.motion \in Moves
         IN /\ IsSeq(s)
            /\ Leads(s, "field", f, u, IF f = "position" /\ moves THEN b.xyz ELSE u)
            /\ Leads(s, "record", n, u, u)
<1> DEFINE moves == b.axis = "MOTION_MODE" /\ b.motion \in Moves
           v == IF f = "position" /\ moves THEN b.xyz ELSE u
           line == MoveTo("line", b.xyz)
           arc == MoveTo("arc", b.xyz)
           told == MoveTo("position", b.xyz)
           Goal(s) == IsSeq(s) /\ Leads(s, "field", f, u, v) /\ Leads(s, "record", n, u, u)
<1>1. /\ IsSeq(line) /\ Leads(line, "field", f, u, u) /\ Leads(line, "record", n, u, u)
      /\ IsSeq(arc) /\ Leads(arc, "field", f, u, u) /\ Leads(arc, "record", n, u, u)
      /\ IsSeq(told) /\ Leads(told, "field", f, u, IF f = "position" THEN b.xyz ELSE u)
      /\ Leads(told, "record", n, u, u)
  BY MoveLeads
<1>2. CASE moves
  <2>1. v = IF f = "position" THEN b.xyz ELSE u
    BY <1>2
  <2>2. MotionSteps(b) = line \o told \/ MotionSteps(b) = arc \o line \o told
    BY <1>2 DEF MotionSteps, Moves
  <2> HIDE DEF v, line, arc, told
  <2>3. Goal(line \o told)
    BY <1>1, <2>1, LeadsThrough, JoinedIsSeq
  <2> DEFINE both == arc \o line
  <2>4. IsSeq(both) /\ Leads(both, "field", f, u, u) /\ Leads(both, "record", n, u, u)
    BY <1>1, LeadsThrough, JoinedIsSeq
  <2> HIDE DEF both
  <2>5. Goal(both \o told)
    BY <1>1, <2>1, <2>4, LeadsThrough, JoinedIsSeq
  <2>6. Goal(MotionSteps(b))
    BY <2>2, <2>3, <2>5 DEF both
  <2>7. QED
    BY <2>6 DEF v
<1>3. CASE ~moves
  <2>1. v = u
    BY <1>3
  <2> DEFINE op == [do |-> "probe", target |-> b.xyz,
                    silent |-> b.motion \in {"PROBE_TOWARD_NO_ERROR", "PROBE_AWAY_NO_ERROR"}]
  <2>2. op.do = "probe"
    OBVIOUS
  <2>3. MotionSteps(b) = <<>> \/ MotionSteps(b) = <<op>>
    BY <1>3 DEF MotionSteps, Moves
  <2> HIDE DEF op, v
  <2>4. IsSeq(<<>>) /\ \A kind, cell : Untouched(<<>>, kind, cell)
    BY NothingIsFresh DEF Part, Fresh, Chain, Untouched
  <2>5. Goal(<<>>)
    BY <2>1, <2>4, UntouchedLeads
  <2>6. ~Sets(op, "field", f) /\ ~Sets(op, "record", n)
    BY <2>2 DEF Sets
  <2>7. Goal(<<op>>)
    BY <2>1, <2>6, SingleLeads
  <2>8. Goal(MotionSteps(b))
    BY <2>3, <2>5, <2>7
  <2>9. QED
    BY <2>8 DEF v
<1>4. QED
  BY <1>2, <1>3

\* What a line leads to: the system it selects, what it stores, the offsets, the
\* position of a motion; a line that offsets the position leaves it.
LEMMA StepsLead ==
  ASSUME NEW b, GoodBlock(b), b.status = "OK", ~b.jog, NEW g, GoodParser(g),
         b.coord_select = g.coord_select => b.system = g.coord_system
  PROVE  LET s == Steps(b, g)
         IN /\ Leads(s, "field", "coord_select", g.coord_select, b.coord_select)
            /\ Leads(s, "field", "coord_system", g.coord_system, IF SetsActive(b) THEN b.ijk ELSE b.system)
            /\ \A r : Leads(s, "record", b.coord_select, r, IF SetsActive(b) THEN Record(b.ijk) ELSE r)
            /\ Leads(s, "field", "coord_offset", g.coord_offset, OffsetAfter(b, g.coord_offset))
            /\ Leads(s, "field", "tool_length_offset", g.tool_length_offset,
                     IF b.axis = "TOOL_LENGTH_OFFSET" THEN ToolOffset(b) ELSE g.tool_length_offset)
            /\ b.axis = "MOTION_MODE" /\ b.motion \in Moves /\ b.non_modal = "NO_ACTION"
                 => Leads(s, "field", "position", g.position, b.xyz)
            /\ b.axis = "NON_MODAL" /\ b.non_modal \in OffsetActions
                 => Leads(s, "field", "position", g.position, g.position)
<1> DEFINE s == Steps(b, g)
           A == Set([feed_rate |-> b.feed_rate, feed |-> b.f])
                \o Spindle(b, g) \o Coolant(b, g) \o When(b.non_modal = "DWELL", Do("outputs"))
                \o Set([plane_select |-> b.plane_select, units |-> b.units])
           T == ToolLengthOffset(b, g)
           S == SelectSystem(b, g)
           U1 == Set([distance |-> b.distance])
           N == NonModalSteps(b, g)
           U2 == Set([motion |-> b.motion])
           M == MotionSteps(b)
           P == ProgramFlow(b)
<1>1. s = A \o T \o S \o U1 \o N \o U2 \o M \o P
  BY DEF Steps
<1>2. Part(A, Quiet) /\ Part(U1, Quiet) /\ Part(U2, Quiet) /\ Part(P, Quiet)
  <2>1. {"set", "outputs", "sync", "pause", "end"} \subseteq Quiet
    BY DEF Quiet
  <2>2. Part(Spindle(b, g), Quiet) /\ Part(Coolant(b, g), Quiet) /\ Part(P, Quiet)
    BY <2>1, OutputsAreFresh
  <2>3. Part(Do("outputs"), Quiet)
    BY <2>1, DoIsFresh
  <2>4. Part(When(b.non_modal = "DWELL", Do("outputs")), Quiet)
    BY <2>3, WhenIsFresh
  <2>5. /\ Part(Set([feed_rate |-> b.feed_rate, feed |-> b.f]), Quiet)
        /\ Part(Set([plane_select |-> b.plane_select, units |-> b.units]), Quiet)
        /\ Part(U1, Quiet) /\ Part(U2, Quiet)
    <3>1. /\ DOMAIN [feed_rate |-> b.feed_rate, feed |-> b.f] \cap Tracked = {}
          /\ DOMAIN [plane_select |-> b.plane_select, units |-> b.units] \cap Tracked = {}
          /\ DOMAIN [distance |-> b.distance] \cap Tracked = {}
          /\ DOMAIN [motion |-> b.motion] \cap Tracked = {}
      BY DEF Tracked
    <3>2. QED
      BY <2>1, <3>1, SetIsFresh
  <2> DEFINE a1 == Set([feed_rate |-> b.feed_rate, feed |-> b.f])
             a2 == Spindle(b, g)
             a3 == Coolant(b, g)
             a4 == When(b.non_modal = "DWELL", Do("outputs"))
             a5 == Set([plane_select |-> b.plane_select, units |-> b.units])
             c1 == a1 \o a2
             c2 == c1 \o a3
             c3 == c2 \o a4
  <2> HIDE DEF a1, a2, a3, a4, a5
  <2>6. Part(a1, Quiet) /\ Part(a2, Quiet) /\ Part(a3, Quiet) /\ Part(a4, Quiet) /\ Part(a5, Quiet)
    BY <2>2, <2>4, <2>5 DEF a1, a2, a3, a4, a5
  <2>7. Part(c1, Quiet)
    BY <2>6, ConcatIsFresh
  <2> HIDE DEF c1
  <2>8. Part(c2, Quiet)
    BY <2>6, <2>7, ConcatIsFresh
  <2> HIDE DEF c2
  <2>9. Part(c3, Quiet)
    BY <2>6, <2>8, ConcatIsFresh
  <2> HIDE DEF c3
  <2>10. Part(c3 \o a5, Quiet)
    BY <2>6, <2>9, ConcatIsFresh
  <2>11. A = c3 \o a5
    BY DEF c1, c2, c3, a1, a2, a3, a4, a5
  <2>12. QED
    BY <2>2, <2>5, <2>10, <2>11
<1> HIDE DEF A, U1, U2, P, s
<1>3. /\ IsSeq(A) /\ IsSeq(U1) /\ IsSeq(U2) /\ IsSeq(P)
      /\ \A kind, cell : /\ Untouched(A, kind, cell) /\ Untouched(U1, kind, cell)
                         /\ Untouched(U2, kind, cell) /\ Untouched(P, kind, cell)
  BY <1>2, QuietSet
<1>4. b.coord_select \in 0..5
  BY DEF GoodBlock
<1>5. IsSeq(T) /\ IsSeq(S) /\ IsSeq(N) /\ IsSeq(M)
  <2>1. IsSeq(T)
    BY ToolLeads
  <2>2. IsSeq(S)
    BY SystemLeads
  <2>3. IsSeq(N)
    BY <1>4, NonModalLeads
  <2>4. IsSeq(M)
    BY MotionLeads
  <2>5. QED
    BY <2>1, <2>2, <2>3, <2>4
<1>6. ASSUME NEW kind, NEW cell, NEW u, NEW u1, NEW u2, NEW u3, NEW v,
             Leads(T, kind, cell, u, u1), Leads(S, kind, cell, u1, u2), Leads(N, kind, cell, u2, u3),
             Leads(M, kind, cell, u3, v)
      PROVE  Leads(s, kind, cell, u, v)
  <2> HIDE DEF T, S, N, M
  <2>1. QED
    BY <1>1, <1>3, <1>5, <1>6, Along
<1>7. Leads(s, "field", "coord_select", g.coord_select, b.coord_select)
  <2> DEFINE u == g.coord_select v == b.coord_select
  <2>1. Leads(T, "field", "coord_select", u, u)
    BY ToolLeads
  <2>2. Leads(S, "field", "coord_select", u, v)
    BY SystemLeads
  <2>3. Leads(N, "field", "coord_select", v, v)
    BY <1>4, NonModalLeads
  <2>4. Leads(M, "field", "coord_select", v, v)
    BY MotionLeads
  <2> HIDE DEF T, S, N, M, u, v
  <2>5. Leads(s, "field", "coord_select", u, v)
    BY <1>6, <2>1, <2>2, <2>3, <2>4
  <2>6. QED
    BY <2>5 DEF u, v
<1>8. Leads(s, "field", "coord_system", g.coord_system, IF SetsActive(b) THEN b.ijk ELSE b.system)
  <2> DEFINE u == g.coord_system v == b.system w == IF SetsActive(b) THEN b.ijk ELSE b.system
  <2>1. Leads(T, "field", "coord_system", u, u)
    BY ToolLeads
  <2>2. Leads(S, "field", "coord_system", u, v)
    BY SystemLeads
  <2>3. Leads(N, "field", "coord_system", v, w)
    BY <1>4, NonModalLeads
  <2>4. Leads(M, "field", "coord_system", w, w)
    BY MotionLeads
  <2> HIDE DEF T, S, N, M, u, v, w
  <2>5. Leads(s, "field", "coord_system", u, w)
    BY <1>6, <2>1, <2>2, <2>3, <2>4
  <2>6. QED
    BY <2>5 DEF u, v, w
<1>9. ASSUME NEW r
      PROVE  Leads(s, "record", b.coord_select, r, IF SetsActive(b) THEN Record(b.ijk) ELSE r)
  <2> DEFINE n == b.coord_select w == IF SetsActive(b) THEN Record(b.ijk) ELSE r
  <2>1. Leads(T, "record", n, r, r)
    <3>1. "units" = "tool_length_offset" => r = g.tool_length_offset
      OBVIOUS
    <3>2. QED
      BY <3>1, ToolLeads
  <2>2. Leads(S, "record", n, r, r)
    <3>1. ("units" = "coord_select" => r = g.coord_select) /\ ("units" = "coord_system" => r = g.coord_system)
      OBVIOUS
    <3>2. QED
      BY <3>1, SystemLeads
  <2>3. Leads(N, "record", n, r, w)
    <3>1. "units" # "position"
      OBVIOUS
    <3>2. QED
      BY <1>4, <3>1, NonModalLeads
  <2>4. Leads(M, "record", n, w, w)
    BY MotionLeads
  <2> HIDE DEF T, S, N, M, n, w
  <2>5. Leads(s, "record", n, r, w)
    BY <1>6, <2>1, <2>2, <2>3, <2>4
  <2>6. QED
    BY <2>5 DEF n, w
<1>10. Leads(s, "field", "coord_offset", g.coord_offset, OffsetAfter(b, g.coord_offset))
  <2> DEFINE u == g.coord_offset v == OffsetAfter(b, g.coord_offset)
  <2>1. Leads(T, "field", "coord_offset", u, u)
    BY ToolLeads
  <2>2. Leads(S, "field", "coord_offset", u, u)
    BY SystemLeads
  <2>3. Leads(N, "field", "coord_offset", u, v)
    BY <1>4, NonModalLeads
  <2>4. Leads(M, "field", "coord_offset", v, v)
    BY MotionLeads
  <2> HIDE DEF T, S, N, M, u, v
  <2>5. Leads(s, "field", "coord_offset", u, v)
    BY <1>6, <2>1, <2>2, <2>3, <2>4
  <2>6. QED
    BY <2>5 DEF u, v
<1>11. Leads(s, "field", "tool_length_offset", g.tool_length_offset,
             IF b.axis = "TOOL_LENGTH_OFFSET" THEN ToolOffset(b) ELSE g.tool_length_offset)
  <2> DEFINE u == g.tool_length_offset v == IF b.axis = "TOOL_LENGTH_OFFSET" THEN ToolOffset(b) ELSE u
  <2>1. Leads(T, "field", "tool_length_offset", u, v)
    BY ToolLeads
  <2>2. Leads(S, "field", "tool_length_offset", v, v)
    BY SystemLeads
  <2>3. Leads(N, "field", "tool_length_offset", v, v)
    BY <1>4, NonModalLeads
  <2>4. Leads(M, "field", "tool_length_offset", v, v)
    BY MotionLeads
  <2> HIDE DEF T, S, N, M, u, v
  <2>5. Leads(s, "field", "tool_length_offset", u, v)
    BY <1>6, <2>1, <2>2, <2>3, <2>4
  <2>6. QED
    BY <2>5 DEF u, v
<1>12. ASSUME b.non_modal \in {"NO_ACTION"} \cup OffsetActions
       PROVE  Leads(s, "field", "position", g.position,
                    IF b.axis = "MOTION_MODE" /\ b.motion \in Moves THEN b.xyz ELSE g.position)
  <2> DEFINE u == g.position v == IF b.axis = "MOTION_MODE" /\ b.motion \in Moves THEN b.xyz ELSE u
  <2>1. Leads(T, "field", "position", u, u)
    BY ToolLeads
  <2>2. Leads(S, "field", "position", u, u)
    BY SystemLeads
  <2>3. Leads(N, "field", "position", u, u)
    BY <1>4, <1>12, NonModalLeads
  <2>4. Leads(M, "field", "position", u, v)
    BY MotionLeads
  <2> HIDE DEF T, S, N, M, u, v
  <2>5. Leads(s, "field", "position", u, v)
    BY <1>6, <2>1, <2>2, <2>3, <2>4
  <2>6. QED
    BY <2>5 DEF u, v
<1>13. QED
  <2>1. /\ b.axis = "MOTION_MODE" /\ b.motion \in Moves /\ b.non_modal = "NO_ACTION"
             => Leads(s, "field", "position", g.position, b.xyz)
        /\ b.axis = "NON_MODAL" /\ b.non_modal \in OffsetActions
             => Leads(s, "field", "position", g.position, g.position)
    BY <1>12
  <2>2. QED
    BY <1>7, <1>8, <1>9, <1>10, <1>11, <2>1 DEF s

\* A jog sets nothing but the position.
LEMMA JogLeads ==
  ASSUME NEW b, b.jog, NEW g, NEW f, NEW n, NEW u
  PROVE  /\ IsSeq(Steps(b, g))
         /\ Leads(Steps(b, g), "field", f, u, IF f = "position" THEN b.xyz ELSE u)
         /\ Leads(Steps(b, g), "record", n, u, u)
<1> DEFINE line == MoveTo("line", b.xyz)
           jog == MoveTo("jog", b.xyz)
           told == MoveTo("position", b.xyz)
           both == line \o jog
<1>1. Steps(b, g) = both \o told
  BY DEF Steps
<1>2. /\ IsSeq(line) /\ Leads(line, "field", f, u, u) /\ Leads(line, "record", n, u, u)
      /\ IsSeq(jog) /\ Leads(jog, "field", f, u, u) /\ Leads(jog, "record", n, u, u)
      /\ IsSeq(told) /\ Leads(told, "field", f, u, IF f = "position" THEN b.xyz ELSE u)
      /\ Leads(told, "record", n, u, u)
  BY MoveLeads
<1> HIDE DEF line, jog, told
<1>3. IsSeq(both) /\ Leads(both, "field", f, u, u) /\ Leads(both, "record", n, u, u)
  BY <1>2, LeadsThrough, JoinedIsSeq
<1> HIDE DEF both
<1>4. QED
  BY <1>1, <1>2, <1>3, LeadsThrough, JoinedIsSeq

-----------------------------------------------------------------------------
(* Steps that carry on.                                                     *)

LEMMA TidyTail ==
  ASSUME NEW todo, Chain(todo), todo # <<>>, Tidy(todo), todo[1].do # "reset"
  PROVE  Tidy(Tail(todo))
<1> DEFINE t == Tail(todo)
<1>1. /\ Len(t) = Len(todo) - 1 /\ Len(todo) \in Nat /\ 1 \in 1..Len(todo)
      /\ \A i \in 1..Len(t) : t[i] = todo[i + 1] /\ i + 1 \in 1..Len(todo)
  BY TailIsChain, ChainLength
<1> HIDE DEF t
<1>2. ASSUME NEW i \in 1..Len(t), NEW j \in 1..Len(t), t[i].do = "end", j > i
      PROVE  t[j].do \notin Effects
  <2>1. /\ i + 1 \in 1..Len(todo) /\ j + 1 \in 1..Len(todo) /\ j + 1 > i + 1
        /\ t[i] = todo[i + 1] /\ t[j] = todo[j + 1]
    BY <1>1, <1>2
  <2>2. QED
    BY <1>2, <2>1 DEF Tidy
<1>3. Has(t, {"clear"}) => Has(t, {"reset"})
  <2> SUFFICES ASSUME Has(t, {"clear"}) PROVE Has(t, {"reset"})
    OBVIOUS
  <2>1. Has(todo, {"clear"})
    BY <1>1 DEF Has
  <2>2. PICK i \in 1..Len(todo) : todo[i].do = "reset"
    BY <2>1 DEF Tidy, Has
  <2>3. i # 1 /\ i - 1 \in 1..Len(t) /\ (i - 1) + 1 = i
    BY <1>1, <2>2
  <2>4. t[i - 1] = todo[i]
    BY <1>1, <2>3
  <2>5. QED
    BY <2>2, <2>3, <2>4 DEF Has
<1>4. QED
  BY <1>2, <1>3 DEF Tidy, t

LEMMA TidyBehind ==
  ASSUME NEW s, IsSeq(s), NEW K, OfKinds(s, K), "end" \notin K, NEW t, IsSeq(t), Tidy(t),
         "clear" \in K => Has(t, {"reset"})
  PROVE  Tidy(s \o t)
<1> DEFINE u == s \o t
<1>1. /\ Len(s) \in Nat /\ Len(t) \in Nat /\ Len(u) = Len(s) + Len(t)
      /\ \A i \in 1..Len(u) : u[i] = IF i <= Len(s) THEN s[i] ELSE t[i - Len(s)]
  BY Joined
<1> HIDE DEF u
<1>2. \A i \in 1..Len(u) : \/ i \in 1..Len(s) /\ u[i] = s[i]
                           \/ i - Len(s) \in 1..Len(t) /\ u[i] = t[i - Len(s)]
  BY <1>1
<1>3. ASSUME NEW i \in 1..Len(u), NEW j \in 1..Len(u), u[i].do = "end", j > i
      PROVE  u[j].do \notin Effects
  <2>1. i - Len(s) \in 1..Len(t) /\ u[i] = t[i - Len(s)]
    BY <1>2, <1>3 DEF OfKinds
  <2>2. ~(j <= Len(s)) /\ j - Len(s) > i - Len(s) /\ j - Len(s) \in 1..Len(t)
    BY <1>1, <1>3, <2>1
  <2>3. u[j] = t[j - Len(s)]
    BY <1>1, <2>2
  <2>4. QED
    BY <1>3, <2>1, <2>2, <2>3 DEF Tidy
<1>4. Has(t, {"clear"}) \/ "clear" \in K => Has(t, {"reset"})
  BY DEF Tidy
<1>5. Has(u, {"clear"}) => Has(t, {"clear"}) \/ "clear" \in K
  BY <1>2 DEF Has, OfKinds
<1>6. Has(t, {"reset"}) => Has(u, {"reset"})
  BY AnnouncedBehind DEF u
<1>7. QED
  BY <1>3, <1>4, <1>5, <1>6 DEF Tidy, u

\* Sequences without the end of a program, and without what comes after one.
LEMMA QuietIsTidy ==
  ASSUME NEW s, NEW K, OfKinds(s, K), K \cap (Effects \cup {"clear"}) = {}
  PROVE  Tidy(s)
<1>1. \A i \in 1..Len(s) : s[i].do \notin Effects /\ s[i].do # "clear"
  BY DEF OfKinds
<1>2. QED
  BY <1>1 DEF Tidy, Has

\* Nothing is done.
LEMMA KeptCarries ==
  ASSUME main'.todo = main.todo, eeprom'.records = eeprom.records,
         Ending(rt, main) => Ending(rt', main'),
         ~Ending(rt', main') =>
           /\ machine.state = "CHECK" => machine'.state = "CHECK"
           /\ \A f \in Fields : gc'[f] = gc[f],
         IsProgrammed(hist') =>
           /\ hist'.programmed = hist.programmed
           /\ gc'.position = gc.position \/ Has(main.todo, Unpredictable)
  PROVE  Carries
BY Zenon DEF Carries, Fields

\* The first action is done. The first bytes of a record are written with the
\* checksum still to come.
LEMMA DoneCarries ==
  ASSUME Chain(main.todo), main.todo # <<>>, main'.todo = Tail(main.todo),
         main.todo[1].do \notin {"end", "reset"},
         Ending(rt, main) => Ending(rt', main'),
         ~Ending(rt', main') =>
           /\ machine.state = "CHECK" => machine'.state = "CHECK"
           /\ \A f \in Fields : gc'[f] = IF Sets(main.todo[1], "field", f)
                                         THEN ValueOf(main.todo[1], "field", f) ELSE gc[f]
           /\ \A n \in Records :
                \/ eeprom'.records[n] = IF Sets(main.todo[1], "record", n)
                                        THEN ValueOf(main.todo[1], "record", n) ELSE eeprom.records[n]
                \/ /\ ~Sets(main.todo[1], "record", n)
                   /\ \E i \in 1..Len(Tail(main.todo)) : Sets(Tail(main.todo)[i], "record", n),
         IsProgrammed(hist') =>
           /\ hist'.programmed = hist.programmed
           /\ \/ main.todo[1].do \in Unpredictable
              \/ gc'.position = IF Sets(main.todo[1], "field", "position")
                                THEN ValueOf(main.todo[1], "field", "position") ELSE gc.position
  PROVE  Carries
<1> DEFINE t == Tail(main.todo)
           op == main.todo[1]
           next(kind, cell, u) == IF Sets(op, kind, cell) THEN ValueOf(op, kind, cell) ELSE u
<1> SUFFICES ASSUME ~Ending(rt', main') PROVE Carries
  BY DEF Carries
<1>1. \A kind, cell, u, v : Leads(main.todo, kind, cell, u, v) => Leads(t, kind, cell, next(kind, cell, u), v)
  BY LeadsOn
<1>2. /\ Tidy(main.todo) => Tidy(t)
      /\ Has(main.todo, {"end"}) => Has(t, {"end"})
      /\ Has(main.todo, {"reset"}) => Has(t, {"reset"})
      /\ ~Has(main.todo, Unpredictable) => ~Has(t, Unpredictable)
  <2>1. Tidy(main.todo) => Tidy(t)
    BY TidyTail
  <2>2. ~Has(main.todo, Unpredictable) => ~Has(t, Unpredictable)
    BY TailHasNot
  <2>3. /\ Len(t) = Len(main.todo) - 1 /\ Len(main.todo) \in Nat
        /\ \A i \in 1..Len(t) : t[i] = main.todo[i + 1]
    BY TailIsChain, ChainLength
  <2>4. ASSUME NEW name \in {"end", "reset"}, Has(main.todo, {name})
        PROVE  Has(t, {name})
    <3>1. PICK i \in 1..Len(main.todo) : main.todo[i].do = name
      BY <2>4 DEF Has
    <3>2. i # 1 /\ i - 1 \in 1..Len(t) /\ (i - 1) + 1 = i
      BY <2>3, <3>1
    <3>3. t[i - 1] = main.todo[i]
      BY <2>3, <3>2
    <3>4. QED
      BY <3>1, <3>2, <3>3 DEF Has
  <2>5. QED
    BY <2>1, <2>2, <2>4
<1>3. 1 \in 1..Len(main.todo)
  BY ChainLength
<1> HIDE DEF t
<1>4. \A f \in Fields : \A v : Leads(main.todo, "field", f, gc[f], v) => Leads(t, "field", f, gc'[f], v)
  BY <1>1
<1>5. ASSUME NEW n \in Records, NEW v, Leads(main.todo, "record", n, eeprom.records[n], v)
      PROVE  Leads(t, "record", n, eeprom'.records[n], v)
  <2>1. Leads(t, "record", n, next("record", n, eeprom.records[n]), v)
    BY <1>1, <1>5
  <2>2. CASE eeprom'.records[n] = next("record", n, eeprom.records[n])
    BY <2>1, <2>2
  <2>3. CASE \E i \in 1..Len(t) : Sets(t[i], "record", n)
    BY <2>1, <2>3, Overwritten
  <2>4. QED
    BY <2>2, <2>3 DEF t
<1>6. ASSUME IsProgrammed(hist'), ~Has(main.todo, Unpredictable)
      PROVE  \A v : Leads(main.todo, "field", "position", gc.position, v)
                      => Leads(t, "field", "position", gc'.position, v)
  <2>1. op.do \notin Unpredictable
    BY <1>3, <1>6 DEF Has
  <2>2. gc'.position = next("field", "position", gc.position)
    BY <1>6, <2>1
  <2>3. QED
    BY <1>1, <2>2
<1> HIDE DEF op, next
<1>7. ~Ending(rt, main) /\ (machine.state = "CHECK" => machine'.state = "CHECK")
  OBVIOUS
<1>8. IsProgrammed(hist') => hist'.programmed = hist.programmed
  OBVIOUS
<1>9. main'.todo = t
  BY DEF t
<1>10. QED
  BY <1>2, <1>4, <1>5, <1>6, <1>7, <1>8, <1>9, Zenon DEF Carries, Fields

\* Others take the place of the first action.
LEMMA ReplacedCarries ==
  ASSUME Chain(main.todo), main.todo # <<>>, NEW s, IsSeq(s), main'.todo = s \o Tail(main.todo),
         \A kind, cell : ~Sets(main.todo[1], kind, cell), NEW K, OfKinds(s, K),
         K \cap {"end", "position", "offset"} = {}, main.todo[1].do \notin {"end", "reset"},
         K \cap {"put_sum", "clear"} = {} \/ main.todo[1].do = "clear",
         K \cap Unpredictable = {} \/ main.todo[1].do \in Unpredictable,
         Ending(rt, main) => Ending(rt', main'), UNCHANGED <<gc, machine, eeprom, hist>>
  PROVE  Carries
<1> DEFINE t == Tail(main.todo)
<1>1. IsSeq(t) /\ 1 \in 1..Len(main.todo)
  BY TailIsChain, ChainLength DEF Chain
<1>2. \A cell : Untouched(s, "field", cell)
  BY NoFieldSet
<1>3. \A cell : \A u, v : Leads(main.todo, "field", cell, u, v) => Leads(s \o t, "field", cell, u, v)
  BY <1>2, LeadsBehind
<1>4. \A name \in {"end", "reset"} : Has(main.todo, {name}) => Has(t, {name}) /\ Has(s \o t, {name})
  <2>1. /\ Len(t) = Len(main.todo) - 1 /\ Len(main.todo) \in Nat
        /\ \A i \in 1..Len(t) : t[i] = main.todo[i + 1]
    BY TailIsChain, ChainLength
  <2>2. ASSUME NEW name \in {"end", "reset"}, Has(main.todo, {name})
        PROVE  Has(t, {name})
    <3>1. PICK i \in 1..Len(main.todo) : main.todo[i].do = name
      BY <2>2 DEF Has
    <3>2. i # 1 /\ i - 1 \in 1..Len(t) /\ (i - 1) + 1 = i
      BY <2>1, <3>1
    <3>3. t[i - 1] = main.todo[i]
      BY <2>1, <3>2
    <3>4. QED
      BY <3>1, <3>2, <3>3 DEF Has
  <2>3. QED
    BY <1>1, <2>2, AnnouncedBehind
<1>5. Tidy(main.todo) => Tidy(s \o t)
  <2> SUFFICES ASSUME Tidy(main.todo) PROVE Tidy(s \o t)
    OBVIOUS
  <2>1. Tidy(t)
    BY TidyTail
  <2>2. "clear" \in K => Has(t, {"reset"})
    <3> SUFFICES ASSUME "clear" \in K PROVE Has(t, {"reset"})
      OBVIOUS
    <3>1. Has(main.todo, {"clear"})
      BY <1>1 DEF Has
    <3>2. Has(main.todo, {"reset"})
      BY <3>1 DEF Tidy
    <3>3. QED
      BY <1>4, <3>2
  <2> HIDE DEF t
  <2>3. QED
    BY <1>1, <2>1, <2>2, TidyBehind
<1>6. ASSUME Tidy(main.todo), ~Has(main.todo, {"reset"}), NEW n \in Records, NEW v,
             Leads(main.todo, "record", n, eeprom.records[n], v)
      PROVE  Leads(s \o t, "record", n, eeprom.records[n], v)
  <2>1. main.todo[1].do # "clear"
    BY <1>1, <1>6 DEF Tidy, Has
  <2>2. Untouched(s, "record", n)
    BY <2>1, NoRecordSet
  <2>3. QED
    BY <1>6, <2>2, LeadsBehind
<1>7. ~Has(main.todo, Unpredictable) => ~Has(s \o t, Unpredictable)
  <2> SUFFICES ASSUME ~Has(main.todo, Unpredictable) PROVE ~Has(s \o t, Unpredictable)
    OBVIOUS
  <2>1. main.todo[1].do \notin Unpredictable
    BY <1>1 DEF Has
  <2>2. ~Has(s, Unpredictable)
    BY <2>1 DEF Has, OfKinds
  <2>3. ~Has(t, Unpredictable)
    BY TailHasNot
  <2> DEFINE u == s \o t
  <2> HIDE DEF t
  <2>4. /\ Len(s) \in Nat /\ Len(t) \in Nat /\ Len(u) = Len(s) + Len(t)
        /\ \A i \in 1..Len(u) : u[i] = IF i <= Len(s) THEN s[i] ELSE t[i - Len(s)]
    BY <1>1, Joined
  <2> HIDE DEF u
  <2>5. \A i \in 1..Len(u) : \/ i \in 1..Len(s) /\ u[i] = s[i]
                             \/ i - Len(s) \in 1..Len(t) /\ u[i] = t[i - Len(s)]
    BY <2>4
  <2>6. ~Has(u, Unpredictable)
    BY <2>2, <2>3, <2>5 DEF Has
  <2>7. QED
    BY <2>6 DEF u
<1>8. main'.todo = s \o t /\ gc' = gc /\ machine' = machine /\ eeprom' = eeprom /\ hist' = hist
  OBVIOUS
<1> DEFINE u == s \o t
<1> HIDE DEF t, u
<1>9. main'.todo = u
  BY <1>8 DEF u
<1>10. /\ \A cell : \A x, v : Leads(main.todo, "field", cell, x, v) => Leads(u, "field", cell, x, v)
       /\ \A name \in {"end", "reset"} : Has(main.todo, {name}) => Has(u, {name})
       /\ Tidy(main.todo) => Tidy(u)
       /\ ~Has(main.todo, Unpredictable) => ~Has(u, Unpredictable)
       /\ Tidy(main.todo) /\ ~Has(main.todo, {"reset"}) =>
            \A n \in Records : \A v : Leads(main.todo, "record", n, eeprom.records[n], v)
                                        => Leads(u, "record", n, eeprom.records[n], v)
  BY <1>3, <1>4, <1>5, <1>6, <1>7 DEF u
<1>11. /\ Has(main.todo, {"end"}) => Has(u, {"end"})
       /\ Has(main.todo, {"reset"}) => Has(u, {"reset"})
  BY <1>10
<1>12. QED
  BY <1>8, <1>9, <1>10, <1>11 DEF Carries

-----------------------------------------------------------------------------
(* Actions that are done, waits and check points.                           *)

LEMMA EndingCarries == ASSUME Ending(rt', main') PROVE Carries
BY DEF Carries

\* What was programmed is taken back with the position.
LEMMA NotProgrammed ==
  ASSUME HistShape
  PROVE  /\ ~IsProgrammed(Unprogrammed)
         /\ \A n : /\ ~IsProgrammed([Unprogrammed EXCEPT !.fails = n])
                   /\ ~IsProgrammed([Unprogrammed EXCEPT !.program = n])
                   /\ [hist EXCEPT !.resets = n].programmed = hist.programmed
         /\ \A s : IsProgrammed(HistAfter(s)) => HistAfter(s) = hist /\ s.gc = gc
<1>1. DOMAIN NothingProgrammed = {}
  BY DEF NothingProgrammed
<1>2. Unprogrammed.programmed = NothingProgrammed /\ DOMAIN Unprogrammed = DOMAIN hist
  BY DEF Unprogrammed, HistShape
<1> DEFINE u == Unprogrammed
<1> HIDE DEF u
<1>3. /\ u.programmed = NothingProgrammed
      /\ DOMAIN u = {"program", "resets", "fails", "programmed"}
  BY <1>2 DEF u, HistShape
<1>4. \A n : /\ [u EXCEPT !.fails = n].programmed = u.programmed
             /\ [u EXCEPT !.program = n].programmed = u.programmed
             /\ [hist EXCEPT !.resets = n].programmed = hist.programmed
  BY <1>3 DEF HistShape
<1>5. ~IsProgrammed(u)
  BY <1>1, <1>3 DEF IsProgrammed
<1>6. \A n : /\ ~IsProgrammed([u EXCEPT !.fails = n]) /\ ~IsProgrammed([u EXCEPT !.program = n])
  BY <1>1, <1>3, <1>4 DEF IsProgrammed
<1>7. \A s : HistAfter(s) = IF s.gc = gc THEN hist ELSE u
  BY DEF HistAfter, u
<1>8. \A s : IsProgrammed(HistAfter(s)) => HistAfter(s) = hist /\ s.gc = gc
  BY <1>5, <1>7
<1>9. QED
  BY <1>4, <1>5, <1>6, <1>8 DEF u

\* The first action is done, which sets nothing.
LEMMA Popped ==
  ASSUME Inv, main.todo # <<>>, main'.todo = Tail(main.todo),
         main.todo[1].do \notin {"end", "reset", "position", "offset", "put_sum"},
         eeprom'.records = eeprom.records, Ending(rt, main) => Ending(rt', main'),
         ~Ending(rt', main') =>
           /\ machine.state = "CHECK" => machine'.state = "CHECK"
           /\ \A f \in Fields : gc'[f] = gc[f],
         IsProgrammed(hist') =>
           /\ hist'.programmed = hist.programmed
           /\ gc'.position = gc.position \/ main.todo[1].do \in Unpredictable
  PROVE  Carries
<1>1. Chain(main.todo)
  BY DEF Inv, Work
<1>2. \A kind, cell : ~Sets(main.todo[1], kind, cell)
  BY DEF Sets
<1>3. /\ \A f \in Fields : gc'[f] = gc[f] => gc'[f] = IF Sets(main.todo[1], "field", f)
                                   THEN ValueOf(main.todo[1], "field", f) ELSE gc[f]
      /\ \A n \in Records : eeprom'.records[n] = IF Sets(main.todo[1], "record", n)
                                   THEN ValueOf(main.todo[1], "record", n) ELSE eeprom.records[n]
      /\ gc'.position = gc.position => gc'.position = IF Sets(main.todo[1], "field", "position")
                                   THEN ValueOf(main.todo[1], "field", "position") ELSE gc.position
  BY <1>2
<1>4. QED
  BY <1>1, <1>3, DoneCarries

\* What a check point leaves if nothing is aborted.
LEMMA CheckedOn ==
  ASSUME PositionInv, main.pc \notin {"boot", "critical"},
         NEW t, Good(t), t.gc = gc, t.machine = machine, t.plan = plan, t.main = main,
         t.rt.alarm = rt.alarm, t.rt.flags \in {rt.flags, rt.flags \cup {"start"}},
         NEW s, s = Polled(t), ~s.main.abort
  PROVE  /\ ~Ending(rt, main) /\ s.main = main
         /\ machine.state = "CHECK" => s.machine.state = "CHECK"
         /\ \A f \in Fields : s.gc[f] = gc[f]
<1>1. StateShape(t) /\ Inv
  BY DEF Good, PositionInv, OffsetInv
<1>2. ~Ending(rt, main)
  <2>1. "reset" \notin t.rt.flags /\ ~Ending(t.rt, t.main)
    <3>1. Ending(t.rt, t.main) => Ending(s.rt, s.main)
      BY PolledEnds
    <3>2. "reset" \in t.rt.flags => s.main.abort
      BY PolledEnds
    <3>3. Preserved(t, s)
      BY PolledIsGood
    <3>4. main.abort => s.main.abort
      BY <3>3 DEF Preserved
    <3>5. QED
      BY <3>2, <3>4 DEF Ending
  <2>2. QED
    BY <2>1 DEF Ending
<1>3. MotorsAgree(machine, plan, rt, main) /\ "reset" \notin t.rt.flags
  BY <1>2 DEF PositionInv, Positions, Placed, Ending
<1>4. MotorsAgree(t.machine, t.plan, t.rt, t.main)
  BY <1>3 DEF MotorsAgree
<1>5. LET u == Polled(t)
      IN /\ u.main = t.main /\ u.rt.flags = {} /\ u.rt.alarm = "NONE"
         /\ u.machine.pos = t.machine.pos /\ u.machine.moving \in BOOLEAN
         /\ \/ /\ t.machine.state = "JOG" /\ u.machine.state = "IDLE" /\ ~u.machine.moving
               /\ u.plan.queue = <<>> /\ u.plan.pos = t.machine.pos
               /\ u.gc = [t.gc EXCEPT !.position = t.machine.pos]
            \/ /\ u.gc = t.gc /\ u.plan = t.plan
               /\ \/ /\ t.machine.state = "IDLE" /\ t.plan.queue # <<>>
                     /\ u.machine.state = "CYCLE"
                  \/ /\ "stop" \in t.rt.flags /\ u.machine.state = "IDLE"
                     /\ ~u.machine.moving
                  \/ /\ u.machine = t.machine
                     /\ t.machine.state = "IDLE" /\ "start" \in t.rt.flags
                          => t.plan.queue = <<>>
  BY <1>1, <1>3, <1>4, PolledQuietly
<1>6. /\ s.main = main
      /\ \/ machine.state = "JOG" /\ s.gc = [gc EXCEPT !.position = machine.pos]
         \/ /\ s.gc = gc
            /\ machine.state = "IDLE" \/ "stop" \in rt.flags \/ s.machine = machine
  BY <1>5
<1>7. machine.state = "CHECK" => s.machine.state = "CHECK"
  BY <1>3, <1>6 DEF MotorsAgree
<1>8. \A f \in Fields : s.gc[f] = gc[f]
  <2>1. CASE s.gc = gc
    BY <2>1
  <2>2. CASE s.gc = [gc EXCEPT !.position = machine.pos]
    <3>1. Tracked \subseteq DOMAIN gc
      BY <1>1 DEF Inv, Shapes, GcShape
    <3>2. \A f \in Fields : f \in DOMAIN gc /\ f # "position"
      BY <3>1 DEF Fields
    <3>3. QED
      BY <2>2, <3>2
  <2>3. QED
    BY <1>6, <2>1, <2>2
<1>9. QED
  BY <1>2, <1>6, <1>7, <1>8

\* What it becomes.
LEMMA CheckPointCarries ==
  ASSUME PositionInv, main.pc \notin {"boot", "critical"},
         NEW t, Good(t), t.gc = gc, t.machine = machine, t.plan = plan, t.main = main,
         t.rt.alarm = rt.alarm, t.rt.flags \in {rt.flags, rt.flags \cup {"start"}},
         NEW s, s = Polled(t),
         NEW u, Become(u), s.main.abort => u.main.abort \/ u.main.pc = "boot",
         ~s.main.abort => /\ s.machine.state = "CHECK" => u.machine.state = "CHECK"
                          /\ \A f \in Fields : u.gc[f] = s.gc[f],
         \/ u.main.todo = main.todo
         \/ /\ main.todo # <<>> /\ u.main.todo = Tail(main.todo)
            /\ main.todo[1].do \notin {"end", "reset", "position", "offset", "put_sum"},
         eeprom' = eeprom,
         IsProgrammed(hist') =>
           /\ hist'.programmed = hist.programmed
           /\ u.gc.position = gc.position \/ (main.todo # <<>> /\ main.todo[1].do \in Unpredictable)
  PROVE  Carries
<1>1. gc' = u.gc /\ machine' = u.machine /\ main' = u.main
  BY DEF Become
<1>2. Ending(rt', main') \/ ~s.main.abort
  BY <1>1 DEF Ending
<1>3. CASE Ending(rt', main')
  BY <1>3, EndingCarries
<1>4. CASE ~s.main.abort
  <2>1. /\ ~Ending(rt, main) /\ (machine.state = "CHECK" => s.machine.state = "CHECK")
        /\ \A f \in Fields : s.gc[f] = gc[f]
    BY <1>4, CheckedOn
  <2>2. /\ machine.state = "CHECK" => machine'.state = "CHECK"
        /\ \A f \in Fields : gc'[f] = gc[f]
    BY <1>1, <1>4, <2>1
  <2>3. Inv /\ Chain(main.todo)
    BY DEF PositionInv, OffsetInv, Inv, Work
  <2>4. CASE u.main.todo = main.todo
    <3>1. main.todo # <<>> /\ main.todo[1].do \in Unpredictable => Has(main.todo, Unpredictable)
      BY <2>3, ChainLength DEF Has
    <3>2. QED
      BY <1>1, <2>1, <2>2, <2>4, <3>1, KeptCarries
  <2>5. CASE main.todo # <<>> /\ u.main.todo = Tail(main.todo)
             /\ main.todo[1].do \notin {"end", "reset", "position", "offset", "put_sum"}
    BY <1>1, <2>1, <2>2, <2>3, <2>5, Popped
  <2>6. QED
    BY <2>4, <2>5
<1>5. QED
  BY <1>2, <1>3, <1>4

\* What is set are no offsets.
LEMMA SetApart ==
  ASSUME Inv, DoSet, Op("set")
  PROVE  \A f \in Tracked : gc'[f] = gc[f]
<1> DEFINE d == TheOp.to
<1>1. DOMAIN d \cap Tracked = {}
  BY OpIsGood DEF GoodOp, Writes, LaterBytes
<1>2. gc' = Updated(gc, d)
  BY DEF DoSet
<1> HIDE DEF d
<1>3. QED
  BY <1>1, <1>2 DEF Updated, Inv, Shapes, GcShape

\* The first action sets nothing, and is done.
LEMMA ModesCarry ==
  ASSUME PositionInv,
         \/ DoSet /\ Op("set")
         \/ DoNoOutputs \/ DoWco \/ DoPause \/ LineInCheckMode \/ ProbeInCheckMode
         \/ HomeFound \/ HomeSkipped \/ DoStore \/ DoJog \/ (ProbeOpen /\ main.abort)
  PROVE  Carries
<1>1. Inv /\ HistShape /\ EepromShape /\ MachineShape(machine) /\ GcShape(gc)
  BY DEF PositionInv, OffsetInv, Inv, Shapes
<1>2. main' = Done /\ UNCHANGED <<rt, hist>>
  BY DEF DoSet, DoNoOutputs, DoWco, DoPause, LineInCheckMode, ProbeInCheckMode, HomeFound,
         HomeSkipped, DoStore, DoJog, ProbeOpen
<1>3. eeprom'.records = eeprom.records
  BY <1>1 DEF DoSet, DoNoOutputs, DoWco, DoPause, LineInCheckMode, ProbeInCheckMode, HomeFound,
         HomeSkipped, DoStore, DoJog, ProbeOpen, EepromShape
<1>4. machine.state = "CHECK" => machine'.state = "CHECK"
  BY <1>1 DEF DoSet, DoNoOutputs, DoWco, DoPause, LineInCheckMode, ProbeInCheckMode, HomeFound,
         HomeSkipped, DoStore, DoJog, ProbeOpen, MachineShape
<1>5. PICK name \in {"set", "outputs", "wco", "pause", "line", "probe", "home", "store", "jog",
                     "probe_open"} : Op(name)
  BY DEF DoNoOutputs, DoWco, DoPause, LineInCheckMode, ProbeInCheckMode, HomeFound, HomeSkipped,
         DoStore, DoJog, ProbeOpen
<1>6. main.pc = "run" /\ main.todo # <<>> /\ main.todo[1].do = name
  BY <1>1, <1>5, OpIsGood DEF Op
<1>7. main'.todo = Tail(main.todo) /\ main'.pc = "run" /\ main'.abort = main.abort
  BY <1>1, <1>2, MainChanges DEF Inv, Shapes
<1>8. (\A f \in Tracked : gc'[f] = gc[f]) \/ (Op("probe") /\ \A f \in Fields : gc'[f] = gc[f])
  <2>1. CASE DoSet /\ Op("set")
    BY <1>1, <2>1, SetApart
  <2>2. CASE ProbeInCheckMode
    BY <1>1, <2>2 DEF ProbeInCheckMode, GcShape, Fields
  <2>3. CASE UNCHANGED gc
    BY <2>3
  <2>4. QED
    BY <2>1, <2>2, <2>3 DEF DoNoOutputs, DoWco, DoPause, LineInCheckMode, HomeFound, HomeSkipped,
                            DoStore, DoJog, ProbeOpen
<1>9. \A f \in Fields : gc'[f] = gc[f]
  BY <1>8 DEF Fields
<1>10. gc'.position = gc.position \/ main.todo[1].do \in Unpredictable
  <2>1. Op("probe") => name = "probe"
    BY <1>1, <1>5, OpIsHead
  <2>2. QED
    BY <1>6, <1>8, <2>1 DEF Tracked, Unpredictable
<1>11. Ending(rt, main) => Ending(rt', main')
  BY <1>2, <1>6, <1>7 DEF Ending
<1>12. QED
  BY <1>1, <1>2, <1>3, <1>4, <1>6, <1>7, <1>9, <1>10, <1>11, Popped

\* It sets fields of the parser.
LEMMA FieldsCarry ==
  ASSUME PositionInv, (DoSet /\ Op("offset")) \/ DoPosition
  PROVE  Carries
<1> DEFINE op == main.todo[1]
<1>1. Inv /\ GcShape(gc)
  BY DEF PositionInv, OffsetInv, Inv, Shapes
<1>2. main' = Done /\ UNCHANGED <<machine, rt, eeprom, hist>>
  BY DEF DoSet, DoPosition
<1>3. PICK name \in {"offset", "position"} : Op(name)
  BY DEF DoPosition
<1>4. /\ main.pc = "run" /\ main.todo # <<>> /\ op.do = name /\ TheOp = op /\ GoodOp(op)
      /\ Chain(main.todo)
  BY <1>1, <1>3, OpIsGood DEF Op, Inv, Work
<1>5. main'.todo = Tail(main.todo) /\ main'.pc = "run" /\ main'.abort = main.abort
  BY <1>1, <1>2, MainChanges DEF Inv, Shapes
<1> HIDE DEF op
<1>6. \A f \in Tracked : gc'[f] = IF Sets(op, "field", f) THEN ValueOf(op, "field", f) ELSE gc[f]
  <2>1. CASE DoSet /\ Op("offset")
    <3>1. name = "offset" /\ gc' = Updated(gc, op.to)
      BY <1>1, <1>3, <1>4, <2>1, OpIsHead DEF DoSet
    <3>2. QED
      BY <1>1, <1>4, <3>1 DEF Updated, GcShape, Sets, ValueOf
  <2>2. CASE DoPosition
    <3>1. name = "position" /\ gc' = [gc EXCEPT !.position = op.target]
      BY <1>1, <1>3, <1>4, <2>2, OpIsHead DEF DoPosition
    <3>2. QED
      BY <1>1, <1>4, <3>1 DEF GcShape, Sets, ValueOf
  <2>3. QED
    BY <2>1, <2>2
<1>7. \A n \in Records : ~Sets(op, "record", n)
  BY <1>4 DEF Sets
<1>8. Ending(rt, main) => Ending(rt', main')
  BY <1>2, <1>4, <1>5 DEF Ending
<1>9. /\ \A f \in Fields : gc'[f] = IF Sets(op, "field", f) THEN ValueOf(op, "field", f) ELSE gc[f]
      /\ gc'.position = IF Sets(op, "field", "position") THEN ValueOf(op, "field", "position")
                        ELSE gc.position
  BY <1>6 DEF Fields, Tracked
<1>10. op.do \notin {"end", "reset"}
  BY <1>4
<1>11. \A n \in Records : eeprom'.records[n] = IF Sets(op, "record", n)
                                               THEN ValueOf(op, "record", n) ELSE eeprom.records[n]
  BY <1>2, <1>7
<1>12. QED
  BY <1>2, <1>4, <1>5, <1>8, <1>9, <1>10, <1>11, DoneCarries DEF op

\* Behind a byte of a record comes its checksum.
LEMMA FirstByteToSum ==
  ASSUME NEW todo, Chain(todo), todo # <<>>, todo[1].do \in Unwritten
  PROVE  \E i \in 1..Len(Tail(todo)) : Tail(todo)[i].do = "put_sum" /\ Tail(todo)[i].record = todo[1].record
<1> DEFINE Summed(t, r) == \E i \in 1..Len(t) : t[i].do = "put_sum" /\ t[i].record = r
<1>1. ASSUME NEW s, Chain(s), s # <<>>, s[1].do = "put_z" PROVE Summed(Tail(s), s[1].record)
  <2>1. Tail(s) # <<>> /\ Tail(s)[1].record = s[1].record /\ Tail(s)[1].do = "put_sum"
    BY <1>1, NextByte DEF Unwritten
  <2>2. Chain(Tail(s))
    BY <1>1, TailIsChain
  <2>3. QED
    BY <2>1, <2>2, ChainLength
<1>2. ASSUME NEW t, Chain(t), t # <<>>, NEW r, Summed(Tail(t), r) PROVE Summed(t, r)
  <2>1. PICK i \in 1..Len(Tail(t)) : Tail(t)[i].do = "put_sum" /\ Tail(t)[i].record = r
    BY <1>2
  <2>2. Len(Tail(t)) = Len(t) - 1 /\ Len(t) \in Nat /\ Tail(t)[i] = t[i + 1]
    BY <1>2, <2>1, TailIsChain, ChainLength
  <2>3. i + 1 \in 1..Len(t)
    BY <2>1, <2>2
  <2>4. QED
    BY <2>1, <2>2, <2>3
<1> HIDE DEF Summed
<1>3. ASSUME NEW s, Chain(s), s # <<>>, s[1].do = "put_y" PROVE Summed(Tail(s), s[1].record)
  <2>1. Tail(s) # <<>> /\ Tail(s)[1].record = s[1].record /\ Tail(s)[1].do = "put_z"
    BY <1>3, NextByte DEF Unwritten
  <2>2. Chain(Tail(s))
    BY <1>3, TailIsChain
  <2>3. QED
    BY <1>1, <1>2, <2>1, <2>2
<1>4. ASSUME todo[1].do = "put_x" PROVE Summed(Tail(todo), todo[1].record)
  <2>1. Tail(todo) # <<>> /\ Tail(todo)[1].record = todo[1].record /\ Tail(todo)[1].do = "put_y"
    BY <1>4, NextByte DEF Unwritten
  <2>2. Chain(Tail(todo))
    BY TailIsChain
  <2>3. QED
    BY <1>2, <1>3, <2>1, <2>2
<1>5. Summed(Tail(todo), todo[1].record)
  BY <1>1, <1>3, <1>4 DEF Unwritten
<1>6. QED
  BY <1>5 DEF Summed

\* It writes a byte of a record, the rest and the checksum behind it.
LEMMA PutCarries ==
  ASSUME PositionInv, DoPut
  PROVE  Carries
<1> DEFINE op == main.todo[1]
           t == Tail(main.todo)
           n == op.record
<1>1. Inv /\ EepromShape
  BY DEF PositionInv, OffsetInv, Inv, Shapes
<1>2. PICK name \in DOMAIN ByteOf :
        Op(name) /\ eeprom' = [eeprom EXCEPT !.records[TheOp.record].data[ByteOf[name]] =
                                               TheOp.data[ByteOf[name]]]
  BY DEF DoPut
<1>3. /\ main.pc = "run" /\ main.todo # <<>> /\ TheOp = op /\ op.do = name /\ GoodOp(op)
      /\ Chain(main.todo)
  BY <1>1, <1>2, OpIsGood DEF Op, Inv, Work
<1>4. main' = Done /\ UNCHANGED <<gc, machine, rt, hist>>
  BY DEF DoPut
<1>5. main'.todo = t /\ main'.pc = "run" /\ main'.abort = main.abort
  BY <1>1, <1>4, MainChanges DEF Inv, Shapes
<1>6. name \in Unwritten /\ name \in Writes /\ name \notin {"end", "reset", "offset", "position", "put_sum"}
  BY DEF ByteOf, Unwritten, Writes, LaterBytes
<1>7. n \in Records /\ \A m \in Records : m # n => eeprom'.records[m] = eeprom.records[m]
  BY <1>1, <1>2, <1>3, <1>6 DEF GoodOp, EepromShape
<1>8. \E i \in 1..Len(t) : Sets(t[i], "record", n)
  <2>1. \E i \in 1..Len(t) : t[i].do = "put_sum" /\ t[i].record = n
    BY <1>3, <1>6, FirstByteToSum
  <2>2. QED
    BY <2>1 DEF Sets
<1>9. \A kind, cell : ~Sets(op, kind, cell)
  BY <1>3, <1>6 DEF Sets
<1>10. Ending(rt, main) => Ending(rt', main')
  BY <1>3, <1>4, <1>5 DEF Ending
<1> HIDE DEF op, n
<1>11. \A m \in Records :
         \/ eeprom'.records[m] = IF Sets(op, "record", m) THEN ValueOf(op, "record", m)
                                 ELSE eeprom.records[m]
         \/ /\ ~Sets(op, "record", m)
            /\ \E i \in 1..Len(t) : Sets(t[i], "record", m)
  BY <1>7, <1>8, <1>9
<1>12. /\ \A f \in Fields : gc'[f] = IF Sets(op, "field", f) THEN ValueOf(op, "field", f) ELSE gc[f]
       /\ gc'.position = IF Sets(op, "field", "position") THEN ValueOf(op, "field", "position")
                         ELSE gc.position
  BY <1>4, <1>9
<1>13. op.do \notin {"end", "reset"}
  BY <1>3, <1>6
<1>14. QED
  BY <1>3, <1>4, <1>5, <1>10, <1>11, <1>12, <1>13, DoneCarries DEF op

LEMMA SumCarries ==
  ASSUME PositionInv, DoSum
  PROVE  Carries
<1> DEFINE op == main.todo[1]
           n == op.record
<1>1. Inv /\ EepromShape
  BY DEF PositionInv, OffsetInv, Inv, Shapes
<1>2. Op("put_sum") /\ eeprom' = [eeprom EXCEPT !.records[TheOp.record].sum = Sum(TheOp.data)]
  BY DEF DoSum
<1>3. /\ main.pc = "run" /\ main.todo # <<>> /\ TheOp = op /\ op.do = "put_sum" /\ GoodOp(op)
      /\ Chain(main.todo)
  BY <1>1, <1>2, OpIsGood DEF Op, Inv, Work
<1>4. main' = Done /\ UNCHANGED <<gc, machine, rt, hist>>
  BY DEF DoSum
<1>5. main'.todo = Tail(main.todo) /\ main'.pc = "run" /\ main'.abort = main.abort
  BY <1>1, <1>4, MainChanges DEF Inv, Shapes
<1>6. n \in Records /\ op.data \in Vector
  BY <1>3 DEF GoodOp, Writes, LaterBytes
<1>7. eeprom.records[n].data = op.data
  <2>1. InWrite(main.todo)
    BY <1>3 DEF InWrite, LaterBytes
  <2>2. \A a \in Axes : eeprom.records[n].data[a] = op.data[a]
    BY <1>3, <2>1 DEF PositionInv, OffsetInv, Stored, BytesWritten, Axes
  <2>3. eeprom.records[n].data \in Vector
    BY <1>1, <1>6 DEF EepromShape
  <2> HIDE DEF n, op
  <2>4. QED
    BY <1>6, <2>2, <2>3 DEF Vector
<1>8. \A m \in Records : eeprom'.records[m] = IF m = n THEN Record(op.data) ELSE eeprom.records[m]
  <2>1. \A m \in Records : m # n => eeprom'.records[m] = eeprom.records[m]
    BY <1>1, <1>2, <1>3, <1>6 DEF EepromShape
  <2>2. eeprom'.records[n] = [eeprom.records[n] EXCEPT !.sum = Sum(op.data)]
    BY <1>1, <1>2, <1>3, <1>6 DEF EepromShape
  <2>3. eeprom.records[n] \in [data : Vector, sum : Int]
    BY <1>1, <1>6 DEF EepromShape
  <2> HIDE DEF n
  <2>4. eeprom'.records[n] = [data |-> op.data, sum |-> Sum(op.data)]
    BY <1>7, <2>2, <2>3
  <2>5. QED
    BY <2>1, <2>4 DEF Record
<1>9. Ending(rt, main) => Ending(rt', main')
  BY <1>3, <1>4, <1>5 DEF Ending
<1>10. /\ \A cell : ~Sets(op, "field", cell)
       /\ \A m : Sets(op, "record", m) <=> m = n
       /\ \A m : ValueOf(op, "record", m) = Record(op.data)
  BY <1>3 DEF Sets, ValueOf
<1> HIDE DEF op, n
<1>11. \A m \in Records : eeprom'.records[m] = IF Sets(op, "record", m)
                                               THEN ValueOf(op, "record", m) ELSE eeprom.records[m]
  BY <1>8, <1>10
<1>12. /\ \A f \in Fields : gc'[f] = IF Sets(op, "field", f) THEN ValueOf(op, "field", f) ELSE gc[f]
       /\ gc'.position = IF Sets(op, "field", "position") THEN ValueOf(op, "field", "position")
                         ELSE gc.position
  BY <1>4, <1>10
<1>13. op.do \notin {"end", "reset"}
  BY <1>3
<1>14. QED
  BY <1>3, <1>4, <1>5, <1>9, <1>11, <1>12, <1>13, DoneCarries DEF op

\* Nothing is done: waits begin, the motors move, flags are raised.
LEMMA WaitsCarry ==
  ASSUME PositionInv,
         \/ DoSync \/ DoLine \/ ProbeRun \/ EndOfLine \/ ProbeContact \/ Move \/ MotionEnds
         \/ JogCancel \/ StatusReport \/ UNCHANGED vars
  PROVE  Carries
<1>1. /\ Inv /\ MachineShape(machine) /\ RtShape(rt) /\ MainShape(main)
  BY DEF PositionInv, OffsetInv, Inv, Shapes
<1>2. UNCHANGED <<gc, eeprom, hist>>
  BY DEF DoSync, DoLine, ProbeRun, EndOfLine, ProbeContact, Move, MotionEnds, JogCancel,
         StatusReport, vars
<1>3. machine'.state = machine.state
  BY <1>1 DEF DoSync, DoLine, ProbeRun, EndOfLine, ProbeContact, Move, MotionEnds, JogCancel,
         StatusReport, vars, MachineShape
<1>4. /\ rt' \in {rt, AutoStart(rt), Raise(rt, "start"), Raise(rt, "stop"), Raise(rt, "cancel")}
      /\ \/ main' = main \/ main' = [main EXCEPT !.contact = TRUE]
         \/ main.pc = "run" /\ \E pc : main' = At(pc)
  BY DEF DoSync, DoLine, ProbeRun, EndOfLine, ProbeContact, Move, MotionEnds, JogCancel,
         StatusReport, vars, Op
<1>5. rt.flags \subseteq rt'.flags
  BY <1>1, <1>4 DEF AutoStart, Raise, RtShape
<1>6. /\ main'.todo = main.todo /\ main'.abort = main.abort
      /\ main'.pc = main.pc \/ main.pc = "run"
  <2>1. CASE main' = main \/ main' = [main EXCEPT !.contact = TRUE]
    BY <1>1, <2>1 DEF MainShape
  <2>2. CASE main.pc = "run" /\ \E pc : main' = At(pc)
    BY <1>1, <2>2, MainChanges
  <2>3. QED
    BY <1>4, <2>1, <2>2
<1>7. Ending(rt, main) => Ending(rt', main')
  BY <1>5, <1>6 DEF Ending
<1>8. QED
  BY <1>2, <1>3, <1>6, <1>7, KeptCarries

\* The main program is aborted, or will be.
LEMMA EndsCarry ==
  ASSUME PositionInv, DoReset \/ UserReset \/ SoftLimit \/ Critical \/ HomeFailed \/ PowerFail
  PROVE  Carries
<1>1. Inv /\ RtShape(rt)
  BY DEF PositionInv, OffsetInv, Inv, Shapes
<1>2. CASE DoReset \/ UserReset
  <2>1. "reset" \in Raise(rt, "reset").flags /\ DOMAIN Raise(rt, "reset") = DOMAIN rt
    BY <1>1 DEF Raise, RtShape
  <2>2. rt' = AfterReset(rt)
    BY <1>2 DEF DoReset, UserReset
  <2>3. "reset" \in rt'.flags
    BY <1>1, <2>1, <2>2 DEF AfterReset, RtShape
  <2>4. QED
    BY <2>3, EndingCarries DEF Ending
<1>3. CASE SoftLimit \/ Critical
  <2> DEFINE s == Polled(State)
             t == [s EXCEPT !.main = [Done EXCEPT !.abort = TRUE]]
             v == [Done EXCEPT !.abort = TRUE]
  <2>1. /\ Op("line") \/ main.pc = "critical"
        /\ \/ Become(t) \/ main' = At("critical") \/ main' = v
    BY <1>3, Zenon DEF SoftLimit, Critical
  <2>2. main.todo # <<>> /\ main.todo[1].do = "line"
    <3>1. CASE Op("line")
      BY <1>1, <3>1, OpIsGood
    <3>2. CASE main.pc = "critical"
      BY <1>1, <3>2 DEF Inv, Work, WaitsInAction
    <3>3. QED
      BY <2>1, <3>1, <3>2
  <2>3. Good(s) /\ Preserved(State, s)
    BY <1>1, StateIsGood, PolledIsGood
  <2> HIDE DEF s
  <2>4. t.main.abort = TRUE
    BY <1>1, <2>2, <2>3, PolledDone
  <2>5. At("critical").pc = "critical" /\ v.abort = TRUE
    BY <1>1, MainChanges DEF Inv, Shapes
  <2> HIDE DEF t, v
  <2>6. Ending(rt', main')
    BY <2>1, <2>4, <2>5 DEF Ending, Become
  <2>7. QED
    BY <2>6, EndingCarries
<1>4. CASE HomeFailed
  <2> DEFINE a == [rt EXCEPT !.alarm = "HOMING_FAIL"]
             r == AfterReset(a)
             t == [State EXCEPT !.rt = r, !.main = Done]
             v == Polled(t)
  <2>1. Op("home") /\ Become(v)
    BY <1>4, Zenon DEF HomeFailed
  <2>2. RtShape(r) /\ "reset" \in r.flags
    <3>1. RtShape(a)
      BY <1>1 DEF RtShape
    <3> HIDE DEF a
    <3>2. "reset" \in Raise(a, "reset").flags
      BY <3>1 DEF Raise, RtShape
    <3>3. "reset" \in r.flags
      BY <3>1, <3>2 DEF AfterReset, RtShape
    <3>4. QED
      BY <3>1, <3>3, FlagsAreGood
  <2> HIDE DEF r
  <2>3. "reset" \in r.flags => v.main.abort
    <3>1. "home" # "homed"
      OBVIOUS
    <3>2. QED
      BY <2>1, <2>2, <3>1, AlarmedState, Zenon
  <2> HIDE DEF v
  <2>4. Ending(rt', main')
    BY <2>1, <2>2, <2>3 DEF Ending, Become
  <2>5. QED
    BY <2>4, EndingCarries
<1>5. CASE PowerFail
  <2>1. main'.pc = "boot"
    BY <1>5 DEF PowerFail, Become, PowerUp
  <2>2. QED
    BY <2>1, EndingCarries DEF Ending
<1>6. QED
  BY <1>2, <1>3, <1>4, <1>5

\* Waits for the buffer and for room.
LEMMA SyncCarries ==
  ASSUME PositionInv, SyncWait
  PROVE  Carries
<1> DEFINE s == Polled(State)
           over == s.main.abort \/ (s.plan.queue = <<>> /\ s.machine.state # "CYCLE")
           t == [s EXCEPT !.main = [Done EXCEPT !.abort = s.main.abort]]
           u == IF over THEN t ELSE s
<1>1. main.pc = "sync" /\ Become(u) /\ UNCHANGED eeprom /\ hist' = HistAfter(s)
  BY Zenon DEF SyncWait
<1>2. Inv /\ HistShape
  BY DEF PositionInv, OffsetInv, Inv, Shapes
<1>3. /\ main.todo # <<>> /\ main.todo[1].do \in {"sync", "outputs"} /\ Chain(main.todo)
  BY <1>1, <1>2 DEF Inv, Work, WaitsInAction
<1> DEFINE x == State
<1>4. /\ Good(x) /\ x.gc = gc /\ x.machine = machine /\ x.plan = plan /\ x.rt = rt /\ x.main = main
  BY <1>2, StateIsGood
<1>5. s = Polled(x)
  OBVIOUS
<1> HIDE DEF x, s
<1>6. Good(s) /\ Preserved(x, s)
  BY <1>4, <1>5, PolledIsGood
<1>7. s.main.todo = main.todo /\ s.main.abort \in BOOLEAN
  BY <1>4, <1>6 DEF Preserved, Good, StateShape, MainShape
<1>8. /\ t.main.todo = Tail(main.todo) /\ t.main.abort = s.main.abort
      /\ t.gc = s.gc /\ t.machine = s.machine
  <2>1. Preserved(State, s)
    BY <1>6 DEF x
  <2>2. QED
    BY <1>2, <1>3, <1>6, <1>7, <2>1, PolledDone
<1> HIDE DEF t
<1>9. /\ u.gc = s.gc /\ u.machine = s.machine /\ (s.main.abort => u.main.abort)
      /\ u.main.todo = main.todo \/ u.main.todo = Tail(main.todo)
  BY <1>7, <1>8
<1> HIDE DEF u, over
<1>10. IsProgrammed(hist') => hist' = hist /\ s.gc = gc
  BY <1>1, <1>2, NotProgrammed
<1>11. main.todo[1].do \notin {"end", "reset", "position", "offset", "put_sum"}
  BY <1>3
<1>12. x.rt.alarm = rt.alarm /\ x.rt.flags \in {rt.flags, rt.flags \cup {"start"}}
  BY <1>4
<1>13. QED
  BY <1>1, <1>3, <1>4, <1>5, <1>9, <1>10, <1>11, <1>12, CheckPointCarries

LEMMA LineCarries ==
  ASSUME PositionInv, LineWait
  PROVE  Carries
<1> DEFINE s == Polled(State)
           full == Len(s.plan.queue) >= QueueSize
           done == [s EXCEPT !.main = [Done EXCEPT !.abort = s.main.abort]]
           started == [s EXCEPT !.rt = Raise(@, "start")]
           buffered == [done EXCEPT !.plan = Buffered(@, TheOp.target)]
<1>1. /\ main.pc = "line" /\ UNCHANGED eeprom /\ hist' = HistAfter(s)
      /\ \E u \in {done, started, buffered} : Become(u) /\ (s.main.abort => u = done)
  <2>1. /\ main.pc = "line" /\ UNCHANGED eeprom /\ hist' = HistAfter(s)
        /\ CASE s.main.abort -> Become(done)
             [] ~s.main.abort /\ full -> Become(started)
             [] OTHER -> Become(buffered)
    BY Zenon DEF LineWait
  <2> HIDE DEF s, full, done, started, buffered
  <2>2. QED
    BY <2>1
<1>2. Inv /\ HistShape
  BY DEF PositionInv, OffsetInv, Inv, Shapes
<1>3. /\ main.todo # <<>> /\ main.todo[1].do = "line" /\ Chain(main.todo)
  BY <1>1, <1>2 DEF Inv, Work, WaitsInAction
<1> DEFINE x == State
<1>4. /\ Good(x) /\ x.gc = gc /\ x.machine = machine /\ x.plan = plan /\ x.rt = rt /\ x.main = main
  BY <1>2, StateIsGood
<1>5. s = Polled(x)
  OBVIOUS
<1> HIDE DEF x, s
<1>6. Good(s) /\ Preserved(x, s)
  BY <1>4, <1>5, PolledIsGood
<1>7. s.main.todo = main.todo /\ s.main.abort \in BOOLEAN /\ StateShape(s)
  BY <1>4, <1>6 DEF Preserved, Good, StateShape, MainShape
<1>8. /\ done.main.todo = Tail(main.todo) /\ done.main.abort = s.main.abort
      /\ done.gc = s.gc /\ done.machine = s.machine /\ Good(done)
  <2>1. Preserved(State, s)
    BY <1>6 DEF x
  <2>2. QED
    BY <1>2, <1>3, <1>6, <1>7, <2>1, PolledDone
<1>9. started.main = s.main /\ started.gc = s.gc /\ started.machine = s.machine
  BY <1>7 DEF StateShape
<1> HIDE DEF done
<1>10. /\ buffered.main = done.main /\ buffered.gc = done.gc /\ buffered.machine = done.machine
  BY <1>8 DEF Good, StateShape
<1> HIDE DEF started, buffered
<1>11. PICK u \in {done, started, buffered} : Become(u) /\ (s.main.abort => u = done)
  BY <1>1
<1>12. /\ u.gc = s.gc /\ u.machine = s.machine /\ (s.main.abort => u.main.abort)
       /\ u.main.todo = main.todo \/ u.main.todo = Tail(main.todo)
  BY <1>7, <1>8, <1>9, <1>10, <1>11
<1>13. IsProgrammed(hist') => hist' = hist /\ s.gc = gc
  BY <1>1, <1>2, NotProgrammed
<1>14. main.todo[1].do \notin {"end", "reset", "position", "offset", "put_sum"}
  BY <1>3
<1>15. x.rt.alarm = rt.alarm /\ x.rt.flags \in {rt.flags, rt.flags \cup {"start"}}
  BY <1>4
<1>16. QED
  BY <1>1, <1>3, <1>4, <1>5, <1>11, <1>12, <1>13, <1>14, <1>15, CheckPointCarries

\* A probing cycle waits, ends or is aborted.
LEMMA ProbeCarries ==
  ASSUME PositionInv, ProbeWait
  PROVE  Carries
<1> DEFINE s == Polled(State)
           aborted == [s EXCEPT !.main = [Done EXCEPT !.abort = TRUE]]
           t == Probed(s)
<1>1. /\ main.pc = "probing" /\ UNCHANGED <<eeprom, hist>>
      /\ \E u \in {aborted, t, s} : /\ Become(u) /\ (s.main.abort => u = aborted)
                                    /\ (~s.main.abort => u = s \/ (u = t /\ s.machine.state = "IDLE"))
  <2> DEFINE end == CASE s.main.abort -> aborted
                      [] ~s.main.abort /\ s.machine.state = "IDLE" -> Probed(s)
                      [] OTHER -> s
  <2>1. main.pc = "probing" /\ Become(end) /\ UNCHANGED <<eeprom, hist>>
    BY Zenon DEF ProbeWait
  <2>2. \/ end = aborted /\ s.main.abort
        \/ end = t /\ ~s.main.abort /\ s.machine.state = "IDLE"
        \/ end = s /\ ~s.main.abort
    <3> HIDE DEF s, aborted
    <3>1. QED
      OBVIOUS
  <2> HIDE DEF s, aborted, t, end
  <2>3. QED
    BY <2>1, <2>2
<1>2. Inv /\ HistShape
  BY DEF PositionInv, OffsetInv, Inv, Shapes
<1>3. /\ main.todo # <<>> /\ main.todo[1].do = "probe_run" /\ Chain(main.todo)
  BY <1>1, <1>2 DEF Inv, Work, WaitsInAction
<1> DEFINE x == State
<1>4. /\ Good(x) /\ x.gc = gc /\ x.machine = machine /\ x.plan = plan /\ x.rt = rt /\ x.main = main
  BY <1>2, StateIsGood
<1>5. s = Polled(x)
  OBVIOUS
<1>6. /\ Good(s) /\ Preserved(State, s)
      /\ ~s.main.abort => /\ s.main = main /\ s.rt.flags = {}
                          /\ MotorsAgree(s.machine, s.plan, s.rt, s.main)
  <2>1. ~Begins(main.todo, {"position", "jog"})
    BY <1>3 DEF Begins
  <2> HIDE DEF s
  <2>2. s = Polled(State)
    BY DEF s
  <2>3. QED
    BY <1>1, <2>1, <2>2, SettledHere
<1>7. s.main.todo = main.todo
  BY <1>4, <1>6 DEF Preserved
<1> HIDE DEF x, s
<1>8. aborted.main.todo = Tail(main.todo) /\ aborted.main.abort
  BY <1>2, <1>3, <1>6, PolledDone
<1>9. ASSUME ~s.main.abort, s.machine.state = "IDLE"
      PROVE  t.main.todo = Tail(main.todo) /\ \A f \in Fields : t.gc[f] = s.gc[f]
  <2>1. LET w == Probed(s)
        IN w.main.todo = Tail(main.todo) /\ SameFields(s.gc, w.gc)
    BY <1>1, <1>6, <1>9, ProbedState
  <2>2. QED
    BY <2>1 DEF SameFields
<1> HIDE DEF aborted, t
<1>10. PICK u \in {aborted, t, s} : /\ Become(u) /\ (s.main.abort => u = aborted)
                                    /\ (~s.main.abort => u = s \/ (u = t /\ s.machine.state = "IDLE"))
  BY <1>1
<1>11. /\ s.main.abort => u.main.abort
       /\ u.main.todo = main.todo \/ u.main.todo = Tail(main.todo)
  <2>1. CASE s.main.abort
    BY <1>8, <1>10, <2>1
  <2>2. CASE ~s.main.abort /\ u = s
    BY <1>7, <2>2
  <2>3. CASE ~s.main.abort /\ u = t /\ s.machine.state = "IDLE"
    BY <1>9, <2>3
  <2>4. QED
    BY <1>10, <2>1, <2>2, <2>3
<1>12. ASSUME ~s.main.abort
       PROVE  /\ s.machine.state = "CHECK" => u.machine.state = "CHECK"
              /\ \A f \in Fields : u.gc[f] = s.gc[f]
  <2>1. CASE u = s
    BY <2>1
  <2>2. CASE u = t /\ s.machine.state = "IDLE"
    BY <1>9, <1>12, <2>2
  <2>3. QED
    BY <1>10, <1>12, <2>1, <2>2
<1>13. main.todo[1].do \in Unpredictable
       /\ main.todo[1].do \notin {"end", "reset", "position", "offset", "put_sum"}
  BY <1>3 DEF Unpredictable
<1>14. x.rt.alarm = rt.alarm /\ x.rt.flags \in {rt.flags, rt.flags \cup {"start"}}
  BY <1>4
<1>15. QED
  BY <1>1, <1>3, <1>4, <1>5, <1>10, <1>11, <1>12, <1>13, <1>14, CheckPointCarries

\* A probe that is closed ends the cycle with an alarm.
LEMMA ClosedCarries ==
  ASSUME PositionInv, ProbeClosed
  PROVE  Carries
<1> DEFINE r == [rt EXCEPT !.alarm = "PROBE_FAIL_INITIAL"]
           t == [State EXCEPT !.rt = r, !.main = Done]
           v == Polled(t)
<1>1. Inv /\ HistShape /\ RtShape(rt)
  BY DEF PositionInv, OffsetInv, Inv, Shapes
<1>2. Op("probe_open") /\ ~main.abort /\ Become(v) /\ UNCHANGED <<eeprom, hist>>
  <2>1. [State EXCEPT !.rt = [@ EXCEPT !.alarm = "PROBE_FAIL_INITIAL"], !.main = Done] = t
    <3> DEFINE s == State
    <3>1. s.rt = rt
      BY <1>1, StateIsGood
    <3> HIDE DEF s
    <3>2. [s EXCEPT !.rt = [@ EXCEPT !.alarm = "PROBE_FAIL_INITIAL"], !.main = Done]
             = [s EXCEPT !.rt = r, !.main = Done]
      BY <3>1
    <3>3. QED
      BY <3>2 DEF s
  <2>2. QED
    BY <2>1, Zenon DEF ProbeClosed
<1>3. RtShape(r) /\ r.flags = rt.flags
  BY <1>1 DEF RtShape
<1> HIDE DEF r
<1>4. /\ Good(t) /\ t.gc = gc
      /\ v.main.todo = Tail(main.todo)
      /\ "reset" \in r.flags => v.main.abort
  <2>1. "probe_open" # "homed"
    OBVIOUS
  <2>2. QED
    BY <1>2, <1>3, <2>1, AlarmedState, Zenon
<1> HIDE DEF t
<1>5. SameFields(t.gc, v.gc)
  BY <1>4, PolledFields DEF Good
<1> HIDE DEF v
<1>6. /\ main.pc = "run" /\ main.todo # <<>> /\ Chain(main.todo) /\ main.todo[1].do = "probe_open"
  BY <1>1, <1>2, OpIsGood DEF Op, Inv, Work
<1>7. machine.state # "CHECK"
  <2>1. Has(main.todo, {"probe_open", "homed"})
    BY <1>6, ChainLength DEF Has
  <2>2. QED
    BY <2>1 DEF PositionInv, Positions, Ordered
<1>8. Ending(rt, main) => Ending(rt', main')
  BY <1>2, <1>3, <1>4, <1>6 DEF Ending, Become
<1>9. \A f \in Fields : gc'[f] = gc[f]
  BY <1>2, <1>4, <1>5 DEF SameFields, Become
<1>10. main'.todo = Tail(main.todo) /\ eeprom'.records = eeprom.records /\ hist' = hist
  BY <1>2, <1>4 DEF Become
<1>11. main.todo[1].do \in Unpredictable
       /\ main.todo[1].do \notin {"end", "reset", "position", "offset", "put_sum"}
  BY <1>6 DEF Unpredictable
<1>12. QED
  BY <1>1, <1>6, <1>7, <1>8, <1>9, <1>10, <1>11, Popped

\* The end of homing: the parser is told where the machine is.
LEMMA HomedCarries ==
  ASSUME PositionInv, Homed
  PROVE  Carries
<1> DEFINE s == Polled(State)
           aborted == [s EXCEPT !.main = [Done EXCEPT !.abort = TRUE]]
           v == [Done EXCEPT !.startup = TheOp.startup]
           synced == [s EXCEPT !.machine = [@ EXCEPT !.state = "IDLE", !.moving = FALSE],
                               !.gc = [@ EXCEPT !.position = s.machine.pos],
                               !.plan = [@ EXCEPT !.pos = s.machine.pos],
                               !.main = v]
           u == IF s.main.abort THEN aborted ELSE synced
<1>1. Op("homed") /\ UNCHANGED <<eeprom, hist>> /\ Become(u)
  BY Zenon DEF Homed
<1>2. Inv /\ HistShape
  BY DEF PositionInv, OffsetInv, Inv, Shapes
<1>3. main.pc = "run" /\ main.todo # <<>> /\ main.todo[1].do = "homed" /\ Chain(main.todo)
  BY <1>1, <1>2, OpIsGood DEF Op, Inv, Work
<1> DEFINE x == State
<1>4. /\ Good(x) /\ x.gc = gc /\ x.machine = machine /\ x.plan = plan /\ x.rt = rt /\ x.main = main
  BY <1>2, StateIsGood
<1>5. s = Polled(x)
  OBVIOUS
<1>6. /\ Good(s) /\ Preserved(State, s) /\ s.main.todo = main.todo
      /\ s.machine.state = "CHECK" => machine.state = "CHECK"
  <2>1. ~Begins(main.todo, {"position", "jog"})
    BY <1>3 DEF Begins
  <2> HIDE DEF s
  <2>2. s = Polled(State)
    BY DEF s
  <2>3. QED
    BY <1>3, <2>1, <2>2, SettledHere
<1> HIDE DEF x, s
<1>7. aborted.main.todo = Tail(main.todo) /\ aborted.main.abort
  BY <1>2, <1>3, <1>6, PolledDone
<1>8. v.todo = Tail(main.todo)
  BY <1>2 DEF Inv, Shapes, MainShape, Done
<1> HIDE DEF aborted, v
<1>9. StateShape(s)
  BY <1>6 DEF Good
<1>10. synced.main = v /\ synced.gc = [s.gc EXCEPT !.position = s.machine.pos]
  BY <1>9 DEF StateShape
<1> HIDE DEF synced
<1>11. u.main.todo = Tail(main.todo) /\ (s.main.abort => u.main.abort)
  BY <1>7, <1>8, <1>10
<1>12. machine.state # "CHECK"
  <2>1. Has(main.todo, {"probe_open", "homed"})
    BY <1>3, ChainLength DEF Has
  <2>2. QED
    BY <2>1 DEF PositionInv, Positions, Ordered
<1>13. ASSUME ~s.main.abort
       PROVE  /\ s.machine.state = "CHECK" => u.machine.state = "CHECK"
              /\ \A f \in Fields : u.gc[f] = s.gc[f]
  <2>1. \A f \in Fields : f \in DOMAIN s.gc /\ f # "position"
    BY <1>9 DEF StateShape, GcShape, Fields
  <2>2. u = synced
    BY <1>13
  <2>3. QED
    BY <1>6, <1>10, <1>12, <2>1, <2>2
<1> HIDE DEF u
<1>14. main.todo[1].do \in Unpredictable
       /\ main.todo[1].do \notin {"end", "reset", "position", "offset", "put_sum"}
  BY <1>3 DEF Unpredictable, HomingKinds
<1>15. x.rt.alarm = rt.alarm /\ x.rt.flags \in {rt.flags, rt.flags \cup {"start"}}
  BY <1>4
<1>16. QED
  BY <1>1, <1>3, <1>4, <1>5, <1>11, <1>13, <1>14, <1>15, CheckPointCarries

\* Between two lines.
LEMMA IdleCarries ==
  ASSUME PositionInv, Idle
  PROVE  Carries
<1> DEFINE start(r) == [State EXCEPT !.rt = r]
           s(r) == Polled(start(r))
           booting(r) == [s(r) EXCEPT !.main = [@ EXCEPT !.pc = "boot"]]
           next(r) == IF s(r).main.abort THEN booting(r) ELSE s(r)
<1>1. /\ main.pc = "idle" /\ UNCHANGED eeprom
      /\ \E r \in {rt, AutoStart(rt)} : Become(next(r)) /\ hist' = HistAfter(next(r))
  BY Zenon DEF Idle
<1>2. PICK r \in {rt, AutoStart(rt)} : Become(next(r)) /\ hist' = HistAfter(next(r))
  BY <1>1
<1>3. Inv /\ HistShape
  BY DEF PositionInv, OffsetInv, Inv, Shapes
<1>4. RtShape(rt) /\ RtShape(r)
  BY <1>3, FlagsAreGood DEF Inv, Shapes
<1> DEFINE t == start(r)
<1>5. /\ Good(t) /\ t.main = main /\ t.gc = gc /\ t.machine = machine /\ t.plan = plan /\ t.rt = r
  <2> DEFINE s0 == State
             w == [s0 EXCEPT !.rt = r]
  <2>1. Good(s0) /\ s0.main = main /\ s0.gc = gc /\ s0.machine = machine /\ s0.plan = plan
    BY <1>3, StateIsGood
  <2>2. t = w
    OBVIOUS
  <2> HIDE DEF s0
  <2>3. StateShape(s0)
    BY <2>1 DEF Good
  <2>4. /\ DOMAIN w = DOMAIN s0 /\ w.gc = s0.gc /\ w.machine = s0.machine /\ w.plan = s0.plan
        /\ w.main = s0.main /\ w.rt = r
    BY <2>3 DEF StateShape
  <2> HIDE DEF w, t, start
  <2>5. StateShape(w) /\ Preserved(s0, w)
    BY <1>4, <2>3, <2>4 DEF StateShape, Preserved
  <2>6. Good(w)
    BY <2>1, <2>4, <2>5, KeptIsGood
  <2>7. QED
    BY <2>1, <2>2, <2>4, <2>6
<1> HIDE DEF start
<1> DEFINE p == s(r)
           v == [p EXCEPT !.main = [@ EXCEPT !.pc = "boot"]]
           u == IF p.main.abort THEN v ELSE p
<1>6. Become(u) /\ hist' = HistAfter(u)
  BY <1>2
<1>7. p = Polled(t)
  OBVIOUS
<1> HIDE DEF p, t
<1>8. Good(p) /\ p.main.todo = main.todo
  BY <1>5, <1>7, PolledIsGood DEF Preserved, Good
<1>9. v.main.todo = main.todo /\ v.main.pc = "boot"
  BY <1>8 DEF Good, StateShape, MainShape
<1> HIDE DEF v
<1>10. /\ u.main.todo = main.todo /\ (p.main.abort => u.main.pc = "boot")
       /\ ~p.main.abort => u = p
  BY <1>8, <1>9
<1> HIDE DEF u
<1>11. IsProgrammed(hist') => hist' = hist /\ u.gc = gc
  BY <1>3, <1>6, NotProgrammed
<1>12. t.rt.alarm = rt.alarm /\ t.rt.flags \in {rt.flags, rt.flags \cup {"start"}}
  BY <1>4, <1>5, AutoStartFlags
<1>13. main.pc \notin {"boot", "critical"} /\ eeprom' = eeprom
  BY <1>1
<1>14. QED
  BY <1>5, <1>6, <1>7, <1>10, <1>11, <1>12, <1>13, CheckPointCarries

\* Others take the place of the first action.
LEMMA ReplacesCarry ==
  ASSUME PositionInv, DoArc \/ DoProbe \/ (ProbeOpen /\ ~main.abort) \/ DoClear
  PROVE  Carries
<1>1. Inv /\ OffsetInv /\ MainShape(main)
  BY DEF PositionInv, OffsetInv, Inv, Shapes
<1>2. PICK name \in {"arc", "probe", "probe_open", "clear"} : Op(name)
  BY DEF DoArc, DoProbe, ProbeOpen, DoClear
<1>3. main.pc = "run" /\ main.todo # <<>> /\ main.todo[1].do = name /\ Chain(main.todo)
  BY <1>1, <1>2, OpIsGood DEF Op, Inv, Work
<1>4. \A kind, cell : ~Sets(main.todo[1], kind, cell)
  BY <1>3 DEF Sets
<1>5. UNCHANGED <<gc, machine, rt, eeprom, hist>>
  BY DEF DoArc, DoProbe, ProbeOpen, DoClear
<1>6. main'.pc = "run" /\ main'.abort = main.abort
  BY <1>1, ReplacedBy DEF Replaces
<1>7. Ending(rt, main) => Ending(rt', main')
  BY <1>3, <1>5, <1>6 DEF Ending
<1>8. CASE DoArc
  <2> DEFINE t == Tail(main.todo)
  <2>1. /\ Op("arc")
        /\ \E points \in {<<>>} \cup {MoveTo("line", p) : p \in ArcPoints} :
             main' = [main EXCEPT !.todo = points \o t]
    BY <1>8 DEF DoArc
  <2>2. PICK points \in {<<>>} \cup {MoveTo("line", p) : p \in ArcPoints} :
          main' = [main EXCEPT !.todo = points \o t]
    BY <2>1
  <2>3. IsSeq(points) /\ OfKinds(points, {"line"})
    <3>1. <<>> \in Seq({}) /\ \A p : MoveTo("line", p) \in Seq({[do |-> "line", target |-> p]})
      BY DEF MoveTo
    <3>2. IsSeq(<<>>) /\ \A p : IsSeq(MoveTo("line", p))
      BY <3>1, SequencesAreSeq
    <3>3. OfKinds(<<>>, {"line"}) /\ \A p : OfKinds(MoveTo("line", p), {"line"})
      BY DEF OfKinds, MoveTo
    <3>4. QED
      BY <3>2, <3>3
  <2> HIDE DEF t
  <2>4. main'.todo = points \o t
    BY <1>1, <2>2, MainReplaced
  <2> DEFINE K == {"line"}
  <2>5. /\ K \cap {"end", "position", "offset"} = {} /\ K \cap {"put_sum", "clear"} = {}
        /\ K \cap Unpredictable = {} /\ OfKinds(points, K)
    BY <2>3 DEF Unpredictable, HomingKinds
  <2> HIDE DEF K
  <2>6. main.todo[1].do = "arc"
    BY <1>1, <2>1, OpIsGood
  <2>7. main.todo[1].do \notin {"end", "reset"}
    BY <2>6
  <2>8. QED
    BY <1>3, <1>4, <1>5, <1>7, <2>3, <2>4, <2>5, <2>7, ReplacedCarries DEF t
<1>9. CASE ~DoArc
  <2>1. PICK s : IsSeq(s) /\ OfKinds(s, Replacement) /\ main'.todo = s \o Tail(main.todo)
    BY <1>1, ReplacedBy DEF Replaces
  <2>2. name # "arc"
    <3>1. ~Op("arc")
      BY <1>1, <1>9, OpIsHead DEF DoProbe, ProbeOpen, DoClear
    <3>2. QED
      BY <1>2, <3>1
  <2>3. /\ name = "clear" => Replacement = {"sync", "clear"} \cup Writes
        /\ name = "probe" => Replacement = {"sync", "probe_open"}
        /\ name = "probe_open" => Replacement = {"line", "sync", "wco", "probe_run"}
    <3>1. /\ name = "clear" => Op("clear")
          /\ name = "probe" => Op("probe") /\ ~Op("clear")
          /\ name = "probe_open" => ~Op("probe") /\ ~Op("clear")
      BY <1>1, <1>2, OpIsHead
    <3>2. QED
      BY <3>1 DEF Replacement
  <2>4. /\ Replacement \cap {"end", "position", "offset"} = {}
        /\ Replacement \cap {"put_sum", "clear"} = {} \/ main.todo[1].do = "clear"
        /\ Replacement \cap Unpredictable = {} \/ main.todo[1].do \in Unpredictable
    <3>1. CASE name = "clear"
      BY <1>3, <2>3, <3>1 DEF Writes, LaterBytes, Unpredictable, HomingKinds
    <3>2. CASE name = "probe"
      BY <1>3, <2>3, <3>2 DEF Unpredictable
    <3>3. CASE name = "probe_open"
      BY <1>3, <2>3, <3>3 DEF Unpredictable
    <3>4. QED
      BY <2>2, <3>1, <3>2, <3>3
  <2>5. main.todo[1].do \notin {"end", "reset"}
    BY <1>3
  <2> DEFINE K == Replacement
  <2>6. /\ K \cap {"end", "position", "offset"} = {} /\ OfKinds(s, K)
        /\ K \cap {"put_sum", "clear"} = {} \/ main.todo[1].do = "clear"
        /\ K \cap Unpredictable = {} \/ main.todo[1].do \in Unpredictable
    BY <2>1, <2>4
  <2> HIDE DEF K
  <2>7. QED
    BY <1>3, <1>4, <1>5, <1>7, <2>1, <2>5, <2>6, ReplacedCarries
<1>10. QED
  BY <1>8, <1>9

-----------------------------------------------------------------------------
(* What begins.                                                             *)

LEMMA NothingLeads ==
  \A kind, cell, u, v : /\ Leads(<<>>, kind, cell, u, v) <=> v = u
                        /\ ~Has(<<>>, {"reset", "end"}) /\ ~Has(<<>>, Unpredictable) /\ Tidy(<<>>)
<1>1. \A kind, cell : Untouched(<<>>, kind, cell)
  BY DEF Untouched
<1>2. ~Has(<<>>, {"reset", "end"}) /\ ~Has(<<>>, Unpredictable) /\ Tidy(<<>>)
  BY DEF Has, Tidy
<1>3. QED
  BY <1>1, <1>2, UntouchedLeads

\* Between two lines the active system is stored.
LEMMA StoredAtRest ==
  ASSUME Outcome, ~Ending(rt, main), main.todo = <<>>, machine.state # "CHECK"
  PROVE  /\ gc.coord_select \in 0..5 /\ gc.coord_system \in Vector
         /\ eeprom.records[gc.coord_select] = Record(gc.coord_system)
<1>1. WillBeStored(gc, <<>>, eeprom.records)
  BY NothingLeads DEF Outcome
<1>2. QED
  BY <1>1, NothingLeads DEF WillBeStored

\* A command that sets no offset.
LEMMA CommandOutcome ==
  ASSUME Outcome, ~Ending(rt, main), main.todo = <<>>, NEW K, OfKinds(main'.todo, K),
         K \cap {"position", "offset", "put_sum", "end"} = {},
         Has(main'.todo, {"clear"}) => Has(main'.todo, {"reset"}),
         machine.state = "CHECK" => machine'.state = "CHECK", UNCHANGED <<gc, eeprom>>,
         ~IsProgrammed(hist')
  PROVE  Outcome'
<1> DEFINE t == main'.todo
<1>1. Tidy(t)
  BY DEF Tidy, OfKinds
<1>2. \A kind, cell, u : Leads(t, kind, cell, u, u)
  BY NothingSet, UntouchedLeads
<1>3. machine.state # "CHECK" => WillBeStored(gc, t, eeprom.records)
  <2> SUFFICES ASSUME machine.state # "CHECK" PROVE WillBeStored(gc, t, eeprom.records)
    OBVIOUS
  <2>1. /\ gc.coord_select \in 0..5 /\ gc.coord_system \in Vector
        /\ eeprom.records[gc.coord_select] = Record(gc.coord_system)
    BY StoredAtRest
  <2>2. /\ Leads(t, "field", "coord_select", gc.coord_select, gc.coord_select)
        /\ Leads(t, "field", "coord_system", gc.coord_system, gc.coord_system)
        /\ Leads(t, "record", gc.coord_select, eeprom.records[gc.coord_select], Record(gc.coord_system))
    BY <1>2, <2>1
  <2>3. QED
    BY <2>1, <2>2 DEF WillBeStored
<1>4. gc' = gc /\ eeprom' = eeprom
  OBVIOUS
<1>5. QED
  BY <1>1, <1>3, <1>4 DEF Outcome

LEMMA CommandsOutcome ==
  ASSUME PositionInv, Outcome, ~HomeQueued, Refused \/ CheckMode \/ Unlock \/ Clear \/ Home
  PROVE  Outcome'
<1>1. Inv /\ MachineShape(machine) /\ HistShape /\ MainShape(main)
  BY DEF PositionInv, OffsetInv, Inv, Shapes
<1>2. UNCHANGED <<gc, plan, rt, eeprom>>
  BY DEF Refused, CheckMode, Unlock, Clear, Home
<1>3. PICK kind, todo : Reads(kind) /\ Directly(todo)
  BY Zenon DEF Refused, CheckMode, Unlock, Clear, Home, Takes
<1>4. main.todo = <<>> /\ ~Ending(rt, main)
  <2>1. main.pc = "idle" /\ ~main.abort /\ rt = [flags |-> {}, alarm |-> "NONE"]
    BY <1>3 DEF Reads
  <2>2. main.todo = <<>>
    BY <1>1, <1>3, ReadsAtRest
  <2>3. QED
    BY <2>1, <2>2 DEF Ending
<1>5. ~IsProgrammed(hist')
  BY <1>1, <1>3, NotProgrammed DEF Directly
<1>6. machine.state = "CHECK" => machine'.state = "CHECK"
  <2>1. CASE Refused \/ Clear
    BY <2>1 DEF Refused, Clear
  <2>2. CASE CheckMode \/ Unlock \/ Home
    BY <1>1, <2>2 DEF CheckMode, Unlock, Home, Takes, TakenIn, MachineShape
  <2>3. QED
    BY <2>1, <2>2
<1>7. CASE Home
  <2>1. OfKinds(main'.todo, HomingKinds)
    BY <1>1, <1>7, HomeKeeps
  <2>2. HomingKinds \cap {"position", "offset", "put_sum", "end"} = {} /\ ~Has(main'.todo, {"clear"})
    BY <2>1 DEF HomingKinds, Has, OfKinds
  <2>3. QED
    BY <1>2, <1>4, <1>5, <1>6, <2>1, <2>2, CommandOutcome
<1>8. CASE Refused \/ CheckMode \/ Unlock \/ Clear
  <2> DEFINE K == {"clear", "reset"}
  <2>1. OfKinds(main'.todo, K) /\ K \cap {"position", "offset", "put_sum", "end"} = {}
    BY <1>1, <1>8, CommandsKeep
  <2> HIDE DEF K
  <2>2. Has(main'.todo, {"clear"}) => Has(main'.todo, {"reset"})
    <3>1. \A x : Directly(x) => main'.todo = x
      BY <1>1 DEF Directly, MainShape
    <3>2. CASE Clear
      <4> DEFINE a == [do |-> "clear", record |-> 0] b == [do |-> "reset"] s == <<a>> \o <<b>>
      <4>1. Directly(<<[do |-> "clear", record |-> 0]>> \o Do("reset"))
        BY <3>2 DEF Clear
      <4>2. main'.todo = s
        BY <3>1, <4>1 DEF Do
      <4>3. b.do = "reset"
        OBVIOUS
      <4> HIDE DEF a, b
      <4>4. Len(s) = 2 /\ s[2] = b
        BY PairOf
      <4> HIDE DEF s
      <4>5. QED
        BY <4>2, <4>3, <4>4 DEF Has
    <3>3. CASE Refused \/ CheckMode \/ Unlock
      <4>1. Directly(<<>>) \/ Directly(Do("reset"))
        BY <3>3 DEF Refused, CheckMode, Unlock
      <4>2. main'.todo = <<>> \/ main'.todo = Do("reset")
        BY <3>1, <4>1
      <4>3. QED
        BY <4>2 DEF Has, Do
    <3>4. QED
      BY <1>8, <3>2, <3>3
  <2>3. QED
    BY <1>2, <1>4, <1>5, <1>6, <2>1, <2>2, CommandOutcome
<1>9. QED
  BY <1>7, <1>8

\* A sound record is the one its data would be written as.
LEMMA SoundRecord ==
  ASSUME EepromShape, NEW n \in Records, Sound(eeprom.records[n])
  PROVE  eeprom.records[n] = Record(eeprom.records[n].data) /\ eeprom.records[n].data \in Vector
<1> DEFINE r == eeprom.records[n]
<1>1. r \in [data : Vector, sum : Int]
  BY DEF EepromShape
<1> HIDE DEF r
<1>2. r.sum = Sum(r.data) => r = Record(r.data)
  BY <1>1 DEF Record
<1>3. QED
  BY <1>1, <1>2 DEF Sound, r

\* The end of a program selects the first system, which is sound.
LEMMA EndOutcome ==
  ASSUME PositionInv, Outcome, DoEnd
  PROVE  Outcome'
<1> DEFINE t == Tail(main.todo)
           record == eeprom.records[0]
<1>1. Inv /\ OffsetInv /\ MainShape(main) /\ GcShape(gc) /\ EepromShape /\ HistShape
  BY DEF PositionInv, OffsetInv, Inv, Shapes
<1>2. Op("end") /\ UNCHANGED <<machine, plan, rt, eeprom, report, hist>>
  BY DEF DoEnd
<1>3. /\ main.pc = "run" /\ main.todo # <<>> /\ main.todo[1].do = "end" /\ Chain(main.todo)
      /\ 1 \in 1..Len(main.todo)
  BY <1>1, <1>2, OpIsGood DEF Op, Inv, Work
<1> SUFFICES ASSUME ~Ending(rt', main') PROVE Outcome'
  BY DEF Outcome
<1>4. Done.todo = t /\ Done.abort = main.abort /\ Done.pc = "run" /\ DOMAIN Done = DOMAIN main
  BY <1>1, MainChanges DEF MainShape, Done
<1>5. main'.abort = main.abort
  BY <1>1, <1>4 DEF DoEnd, MainShape
<1>6. ~Ending(rt, main)
  BY <1>2, <1>3, <1>5 DEF Ending
<1>7. Tidy(main.todo) /\ ~IsProgrammed(hist)
  <2>1. Has(main.todo, Unpredictable)
    BY <1>3 DEF Has, Unpredictable
  <2>2. QED
    BY <1>6, <2>1 DEF Outcome
<1>8. Tidy(t)
  BY <1>3, <1>7, TidyTail
<1>9. CASE machine.state = "CHECK"
  <2>1. main'.todo = t
    BY <1>4, <1>9 DEF DoEnd
  <2>2. QED
    BY <1>2, <1>7, <1>8, <1>9, <2>1 DEF Outcome
<1>10. CASE machine.state # "CHECK"
  <2>1. 0 \in Records /\ 0 \in 0..5
    BY DEF Records, IndexG30, NCoordinateSystem
  <2>2. Sound(record) /\ record = Record(record.data) /\ record.data \in Vector
    BY <1>1, <1>2, <2>1, FirstIsSound, SoundRecord
  <2>3. /\ gc' = [gc EXCEPT !.coord_select = 0, !.coord_system = record.data]
        /\ main' = [Done EXCEPT !.todo = OffsetChanged \o @]
    BY <1>10, <2>2 DEF DoEnd
  <2>4. main'.todo = OffsetChanged \o t
    BY <1>1, <1>4, <2>3 DEF MainShape
  <2>5. gc'.coord_select = 0 /\ gc'.coord_system = record.data
    BY <1>1, <2>3 DEF GcShape, Tracked
  <2>6. IsSeq(OffsetChanged) /\ IsSeq(t) /\ OfKinds(OffsetChanged, {"sync", "wco"})
    <3>1. Part(OffsetChanged, {"sync", "wco"})
      BY OffsetChangedIsFresh
    <3>2. Chain(t)
      BY <1>3, TailIsChain
    <3>3. QED
      BY <3>1, <3>2 DEF Part, Fresh, Chain
  <2> DEFINE K == {"sync", "wco"}
  <2>7. /\ K \cap {"position", "offset", "put_sum"} = {} /\ "end" \notin K /\ "clear" \notin K
        /\ OfKinds(OffsetChanged, K)
    BY <2>6
  <2> HIDE DEF K
  <2>8. \A kind, cell, u : Leads(OffsetChanged, kind, cell, u, u)
    BY <2>7, NothingSet, UntouchedLeads
  <2>9. \A kind, cell, u : Leads(t, kind, cell, u, u)
    <3>1. \A i \in 1..Len(t) : t[i].do \notin Effects
      <4>1. /\ Len(t) = Len(main.todo) - 1 /\ Len(main.todo) \in Nat
            /\ \A i \in 1..Len(t) : t[i] = main.todo[i + 1]
        BY <1>3, TailIsChain, ChainLength
      <4> HIDE DEF t
      <4>2. ASSUME NEW i \in 1..Len(t) PROVE i + 1 \in 1..Len(main.todo) /\ i + 1 > 1
        BY <4>1
      <4>3. QED
        BY <1>3, <1>7, <4>1, <4>2 DEF Tidy
    <3>2. \A kind, cell : Untouched(t, kind, cell)
      BY <3>1 DEF Untouched, Sets, Effects, Writes, LaterBytes
    <3>3. QED
      BY <3>2, UntouchedLeads
  <2> HIDE DEF t, record
  <2> DEFINE s == OffsetChanged \o t
  <2>10. \A kind, cell, u : Leads(s, kind, cell, u, u)
    BY <2>6, <2>8, <2>9, LeadsThrough
  <2>11. Tidy(s)
    BY <1>8, <2>6, <2>7, TidyBehind
  <2> HIDE DEF s
  <2>12. eeprom.records[0] = Record(record.data)
    BY <2>2 DEF record
  <2>13. WillBeStored(gc', s, eeprom.records)
    BY <2>1, <2>2, <2>5, <2>10, <2>12 DEF WillBeStored
  <2>14. main'.todo = s /\ eeprom' = eeprom /\ hist' = hist
    BY <1>2, <2>4 DEF s
  <2>15. QED
    BY <1>7, <2>11, <2>13, <2>14 DEF Outcome
<1>11. QED
  BY <1>9, <1>10

\* main() reads the first system, or repairs it.
LEMMA BootOutcome ==
  ASSUME PositionInv, Boot
  PROVE  Outcome'
<1> DEFINE record == eeprom.records[0]
           system == IF Sound(record) THEN record.data ELSE Origin
           locked == machine.state = "ALARM"
           w == [pc |-> "run", todo |-> <<>>, startup |-> IF locked THEN <<>> ELSE <<0, 1>>,
                 abort |-> FALSE, contact |-> FALSE]
<1>1. Inv /\ HistShape /\ EepromShape
  BY DEF PositionInv, OffsetInv, Inv, Shapes
<1>2. /\ gc' = GcInit(system, machine.pos) /\ main' = w
      /\ eeprom' = [eeprom EXCEPT !.records[0] = IF Sound(record) THEN @ ELSE Record(Origin)]
      /\ hist' = Unprogrammed
  BY DEF Boot
<1>3. 0 \in Records /\ 0 \in 0..5
  BY DEF Records, IndexG30, NCoordinateSystem
<1>4. main'.todo = <<>> /\ ~IsProgrammed(hist')
  BY <1>1, <1>2, NotProgrammed
<1>5. /\ system \in Vector /\ eeprom'.records[0] = Record(system)
  <2>1. eeprom'.records[0] = IF Sound(record) THEN record ELSE Record(Origin)
    BY <1>1, <1>2, <1>3 DEF EepromShape
  <2>2. CASE Sound(record)
    BY <1>1, <1>3, <2>1, <2>2, SoundRecord
  <2>3. CASE ~Sound(record)
    BY <2>1, <2>3, OriginInTravel
  <2>4. QED
    BY <2>2, <2>3
<1> HIDE DEF system
<1>6. gc'.coord_select = 0 /\ gc'.coord_system = system
  BY <1>2 DEF GcInit
<1>7. \A kind, cell, u : Leads(<<>>, kind, cell, u, u)
  BY NothingLeads
<1>8. WillBeStored(gc', <<>>, eeprom'.records)
  BY <1>3, <1>5, <1>6, <1>7 DEF WillBeStored
<1>9. QED
  BY <1>4, <1>8, NothingLeads DEF Outcome

-----------------------------------------------------------------------------
(* What a line leads to.                                                    *)

LEMMA JoinedThrice ==
  ASSUME NEW s, IsSeq(s), NEW t, IsSeq(t), NEW u, IsSeq(u)
  PROVE  (s \o t) \o u = s \o (t \o u)
<1>1. PICK R, S, T : s \in Seq(R) /\ t \in Seq(S) /\ u \in Seq(T)
  BY DEF IsSeq
<1> DEFINE Q == R \cup S \cup T
<1>2. s \in Seq(Q) /\ t \in Seq(Q) /\ u \in Seq(Q)
  BY <1>1
<1> HIDE DEF Q
<1>3. QED
  BY <1>2, ConcatAssociative

LEMMA KindsJoined ==
  ASSUME NEW s, IsSeq(s), NEW K, OfKinds(s, K), NEW t, IsSeq(t), NEW L, OfKinds(t, L)
  PROVE  OfKinds(s \o t, K \cup L)
<1> DEFINE u == s \o t
<1>1. /\ Len(s) \in Nat /\ Len(t) \in Nat /\ Len(u) = Len(s) + Len(t)
      /\ \A i \in 1..Len(u) : u[i] = IF i <= Len(s) THEN s[i] ELSE t[i - Len(s)]
  BY Joined
<1> HIDE DEF u
<1>2. \A i \in 1..Len(u) : \/ i \in 1..Len(s) /\ u[i] = s[i]
                           \/ i - Len(s) \in 1..Len(t) /\ u[i] = t[i - Len(s)]
  BY <1>1
<1>3. OfKinds(u, K \cup L)
  BY <1>2 DEF OfKinds
<1>4. QED
  BY <1>3 DEF u

\* Nothing is set behind the end of a program.
LEMMA StepsTidy ==
  ASSUME NEW b, GoodBlock(b), b.status = "OK", NEW g, GoodParser(g),
         NEW then, IsSeq(then), OfKinds(then, {"sync", "store"})
  PROVE  /\ IsSeq(Steps(b, g)) /\ Tidy(Steps(b, g) \o then)
<1> DEFINE s == Steps(b, g)
           flow == ProgramFlow(b)
           rest == flow \o then
<1>1. /\ {"sync", "store"} \cap (Effects \cup {"clear"}) = {} /\ Quiet \cap (Effects \cup {"clear"}) = {}
      /\ (Quiet \cup {"sync", "store"}) \cap (Effects \cup {"clear"}) = {}
  BY DEF Effects, Quiet, Writes, LaterBytes
<1>2. CASE b.jog
  <2>1. Part(s, JogKinds)
    BY <1>2, StepsAreFresh
  <2>2. IsSeq(s) /\ OfKinds(s, JogKinds) /\ "end" \notin JogKinds /\ "clear" \notin JogKinds
    BY <2>1 DEF Part, Fresh, Chain, JogKinds, Writes, LaterBytes
  <2>3. Tidy(then)
    BY <1>1, QuietIsTidy
  <2> HIDE DEF s
  <2>4. Tidy(s \o then)
    BY <2>2, <2>3, TidyBehind
  <2>5. QED
    BY <2>2, <2>4 DEF s
<1>3. CASE ~b.jog
  <2> DEFINE K == PlainKinds \cup {"probe"}
  <2>1. PlainKinds \subseteq K /\ "probe" \in K
    OBVIOUS
  <2>2. "end" \notin K /\ "clear" \notin K
    BY DEF PlainKinds, Writes, LaterBytes
  <2> HIDE DEF K
  <2>3. PICK s0 : Part(s0, K) /\ s = s0 \o flow
    BY <1>3, <2>1, StepsThenFlow
  <2>4. Part(flow, Quiet)
    <3>1. {"set", "outputs", "sync", "pause", "end"} \subseteq Quiet
      BY DEF Quiet
    <3>2. QED
      BY <3>1, OutputsAreFresh
  <2> HIDE DEF s, flow
  <2>5. IsSeq(s0) /\ OfKinds(s0, K) /\ IsSeq(flow) /\ OfKinds(flow, Quiet)
    BY <2>3, <2>4 DEF Part, Fresh, Chain
  <2>6. IsSeq(rest) /\ OfKinds(rest, Quiet \cup {"sync", "store"})
    BY <2>5, JoinedIsSeq, KindsJoined
  <2>7. Tidy(rest)
    BY <1>1, <2>6, QuietIsTidy
  <2>8. s \o then = s0 \o rest /\ IsSeq(s)
    <3>1. IsSeq(s0 \o flow) /\ (s0 \o flow) \o then = s0 \o (flow \o then)
      BY <2>5, JoinedThrice, JoinedIsSeq
    <3>2. QED
      BY <2>3, <3>1
  <2> HIDE DEF rest
  <2>9. Tidy(s0 \o rest)
    BY <2>2, <2>5, <2>6, <2>7, TidyBehind
  <2>10. QED
    BY <2>8, <2>9 DEF s
<1>4. QED
  BY <1>2, <1>3

\* A line that programs a position moves there, or sets an offset: it neither
\* probes nor ends the program.
LEMMA ProgrammedLine ==
  ASSUME NEW b, GoodBlock(b), NEW g, Meant(b, g), DOMAIN Programmed(b) # {}
  PROVE  /\ b.status = "OK" /\ b.program_flow # "COMPLETED" /\ b.axes \subseteq Axes
         /\ DOMAIN Programmed(b) = b.axes
         /\ \A a \in b.axes : Programmed(b)[a] = Val(b, a) * Unit(b)
         /\ \/ b.axis = "NON_MODAL" /\ b.non_modal = "SET_COORDINATE_OFFSET"
            \/ /\ b.axis = "NON_MODAL" /\ b.non_modal = "SET_COORDINATE_DATA" /\ Val(b, "L") = 20
               /\ SetsActive(b)
            \/ /\ b.axis = "MOTION_MODE" /\ b.non_modal = "NO_ACTION" /\ b.distance = "ABSOLUTE"
               /\ b.motion \in Moves
<1> DEFINE named == [a \in b.axes |-> Val(b, a) * Unit(b)]
           here == b.non_modal = "SET_COORDINATE_OFFSET" \/
                   (b.non_modal = "SET_COORDINATE_DATA" /\ Val(b, "L") = 20 /\ b.select = b.coord_select)
           there == /\ b.non_modal = "NO_ACTION" /\ b.distance = "ABSOLUTE" /\ b.axis = "MOTION_MODE"
                    /\ b.motion \in {"SEEK", "LINEAR", "CW_ARC", "CCW_ARC"}
           flag == b.status = "OK" /\ b.program_flow # "COMPLETED" /\ (here \/ there)
<1>1. Programmed(b) = IF flag THEN named ELSE NothingProgrammed
  BY Zenon DEF Programmed
<1>2. DOMAIN NothingProgrammed = {} /\ DOMAIN named = b.axes
  BY DEF NothingProgrammed
<1> HIDE DEF flag, named
<1>3. flag /\ Programmed(b) = named /\ b.axes # {}
  BY <1>1, <1>2
<1>4. here => b.axis = "NON_MODAL"
  BY <1>3 DEF Meant, OffsetActions
<1>5. here \/ there
  BY <1>3 DEF flag
<1>6. \/ b.axis = "NON_MODAL" /\ b.non_modal = "SET_COORDINATE_OFFSET"
      \/ /\ b.axis = "NON_MODAL" /\ b.non_modal = "SET_COORDINATE_DATA" /\ Val(b, "L") = 20
         /\ SetsActive(b)
      \/ /\ b.axis = "MOTION_MODE" /\ b.non_modal = "NO_ACTION" /\ b.distance = "ABSOLUTE"
         /\ b.motion \in Moves
  BY <1>4, <1>5 DEF SetsActive, Moves
<1>7. b.status = "OK" /\ b.program_flow # "COMPLETED"
  BY <1>3 DEF flag
<1>8. b.axes \subseteq Axes
  BY DEF Meant
<1>9. \A a \in b.axes : Programmed(b)[a] = Val(b, a) * Unit(b)
  BY <1>3 DEF named
<1>10. QED
  BY <1>2, <1>3, <1>6, <1>7, <1>8, <1>9

\* The work position follows from the position and the offsets it leads to.
LEMMA WorkPosition ==
  ASSUME NEW g, GoodParser(g), NEW b, GoodBlock(b), NEW a \in Axes, NEW n \in Int
  PROVE  LET tool == ToolLengthVector(g.tool_length_offset)
         IN /\ b.xyz[a] = Without(g, b.system, tool)[a] - n
                 => g.position[a] - Plus(Plus(b.system, b.xyz), tool)[a] = n
            /\ b.ijk[a] = Without(g, g.coord_offset, tool)[a] - n
                 => g.position[a] - Plus(Plus(b.ijk, g.coord_offset), tool)[a] = n
            /\ b.xyz[a] = Offsetting(b, g)[a] + n
                 => b.xyz[a] - Plus(Plus(b.system, g.coord_offset), tool)[a] = n
<1> DEFINE tool == ToolLengthVector(g.tool_length_offset)
<1>1. /\ tool \in Vector /\ g.position \in Vector /\ g.coord_offset \in Vector
      /\ b.system \in Vector /\ b.xyz \in Vector /\ b.ijk \in Vector
  BY PointsAreVectors DEF GoodParser, GoodBlock
<1>2. Offsetting(b, g) = Plus(Plus(b.system, g.coord_offset), tool)
  BY DEF Offsetting
<1> HIDE DEF tool
<1>3. \A u, v \in Vector : /\ Plus(u, v)[a] = u[a] + v[a] /\ Minus(u, v)[a] = u[a] - v[a]
                           /\ Plus(u, v) \in Vector /\ Minus(u, v) \in Vector
                           /\ u[a] \in Int /\ v[a] \in Int
  BY DEF Plus, Minus, Vector
<1> DEFINE p == g.position[a] o == g.coord_offset[a] t == tool[a]
           x == b.xyz[a] i == b.ijk[a] s == b.system[a]
<1>4. /\ p \in Int /\ o \in Int /\ t \in Int /\ x \in Int /\ i \in Int /\ s \in Int
      /\ Without(g, b.system, tool)[a] = (p - s) - t
      /\ Without(g, g.coord_offset, tool)[a] = (p - o) - t
      /\ Plus(Plus(b.system, b.xyz), tool)[a] = (s + x) + t
      /\ Plus(Plus(b.ijk, g.coord_offset), tool)[a] = (i + o) + t
      /\ Plus(Plus(b.system, g.coord_offset), tool)[a] = (s + o) + t
  <2>1. /\ Minus(g.position, b.system) \in Vector /\ Minus(g.position, b.system)[a] = p - s
        /\ Minus(g.position, g.coord_offset) \in Vector /\ Minus(g.position, g.coord_offset)[a] = p - o
        /\ Plus(b.system, b.xyz) \in Vector /\ Plus(b.system, b.xyz)[a] = s + x
        /\ Plus(b.ijk, g.coord_offset) \in Vector /\ Plus(b.ijk, g.coord_offset)[a] = i + o
        /\ Plus(b.system, g.coord_offset) \in Vector /\ Plus(b.system, g.coord_offset)[a] = s + o
    BY <1>1, <1>3
  <2>2. p \in Int /\ o \in Int /\ t \in Int /\ x \in Int /\ i \in Int /\ s \in Int
    BY <1>1, <1>3
  <2>3. /\ Without(g, b.system, tool)[a] = (p - s) - t
        /\ Without(g, g.coord_offset, tool)[a] = (p - o) - t
    <3>1. Minus(Minus(g.position, b.system), tool)[a] = Minus(g.position, b.system)[a] - tool[a]
      BY <1>1, <1>3, <2>1
    <3>2. Minus(Minus(g.position, g.coord_offset), tool)[a] = Minus(g.position, g.coord_offset)[a] - tool[a]
      BY <1>1, <1>3, <2>1
    <3>3. QED
      BY <2>1, <3>1, <3>2 DEF Without
  <2>4. /\ Plus(Plus(b.system, b.xyz), tool)[a] = (s + x) + t
        /\ Plus(Plus(b.ijk, g.coord_offset), tool)[a] = (i + o) + t
        /\ Plus(Plus(b.system, g.coord_offset), tool)[a] = (s + o) + t
    <3>1. Plus(Plus(b.system, b.xyz), tool)[a] = Plus(b.system, b.xyz)[a] + tool[a]
      BY <1>1, <1>3, <2>1
    <3>2. Plus(Plus(b.ijk, g.coord_offset), tool)[a] = Plus(b.ijk, g.coord_offset)[a] + tool[a]
      BY <1>1, <1>3, <2>1
    <3>3. Plus(Plus(b.system, g.coord_offset), tool)[a] = Plus(b.system, g.coord_offset)[a] + tool[a]
      BY <1>1, <1>3, <2>1
    <3>4. QED
      BY <2>1, <3>1, <3>2, <3>3
  <2>5. QED
    BY <2>2, <2>3, <2>4
<1> HIDE DEF p, o, t, x, i, s
<1>5. /\ x = ((p - s) - t) - n => p - ((s + x) + t) = n
      /\ i = ((p - o) - t) - n => p - ((i + o) + t) = n
      /\ x = ((s + o) + t) + n => x - ((s + o) + t) = n
  BY <1>4
<1>6. QED
  BY <1>2, <1>4, <1>5 DEF tool, p, o, t, x, i, s

\* The system that a block has read.
SystemOf(b, g, records) ==
  IF b.coord_select = g.coord_select THEN b.system = g.coord_system
  ELSE Sound(records[b.coord_select]) /\ b.system = records[b.coord_select].data

LEMMA StepsStored ==
  ASSUME EepromShape, GoodParser(gc), NEW b, GoodBlock(b), b.status = "OK",
         SystemOf(b, gc, eeprom.records), b.jog => b.coord_select = gc.coord_select,
         NEW then, IsSeq(then), OfKinds(then, {"sync", "store"}),
         eeprom.records[gc.coord_select] = Record(gc.coord_system)
  PROVE  WillBeStored(gc, Steps(b, gc) \o then, eeprom.records)
<1> DEFINE s == Steps(b, gc)
           n == b.coord_select
           r == eeprom.records[n]
           x == IF b.jog THEN b.system ELSE IF SetsActive(b) THEN b.ijk ELSE b.system
<1>1. n \in 0..5 /\ n \in Records /\ x \in Vector /\ b.system \in Vector
  BY DEF GoodBlock, Records, IndexG30, NCoordinateSystem
<1>2. r = Record(b.system)
  <2>1. CASE n = gc.coord_select
    BY <2>1 DEF SystemOf
  <2>2. CASE n # gc.coord_select
    <3>1. Sound(eeprom.records[n]) /\ b.system = eeprom.records[n].data
      BY <2>2 DEF SystemOf
    <3>2. QED
      BY <1>1, <3>1, SoundRecord
  <2>3. QED
    BY <2>1, <2>2
<1>3. IsSeq(s)
  BY StepsTidy
<1>4. /\ Leads(s, "field", "coord_select", gc.coord_select, n)
      /\ Leads(s, "field", "coord_system", gc.coord_system, x)
      /\ Leads(s, "record", n, r, Record(x))
  <2>1. CASE b.jog
    <3>1. b.system = gc.coord_system /\ n = gc.coord_select /\ x = b.system
      BY <2>1 DEF SystemOf
    <3>2. /\ \A f, u : f # "position" => Leads(s, "field", f, u, u)
          /\ \A m, u : Leads(s, "record", m, u, u)
      BY <2>1, JogLeads
    <3>3. QED
      BY <1>2, <3>1, <3>2
  <2>2. CASE ~b.jog
    <3>1. n = gc.coord_select => b.system = gc.coord_system
      BY DEF SystemOf
    <3>2. /\ Leads(s, "field", "coord_select", gc.coord_select, n)
          /\ Leads(s, "field", "coord_system", gc.coord_system, IF SetsActive(b) THEN b.ijk ELSE b.system)
          /\ \A u : Leads(s, "record", n, u, IF SetsActive(b) THEN Record(b.ijk) ELSE u)
      BY <2>2, <3>1, StepsLead
    <3>3. CASE SetsActive(b)
      BY <2>2, <3>2, <3>3
    <3>4. CASE ~SetsActive(b)
      BY <1>2, <2>2, <3>2, <3>4
    <3>5. QED
      BY <3>3, <3>4
  <2>3. QED
    BY <2>1, <2>2
<1>5. \A kind, cell, u : Leads(then, kind, cell, u, u)
  <2> DEFINE K == {"sync", "store"}
  <2>1. K \cap {"position", "offset", "put_sum"} = {} /\ OfKinds(then, K)
    OBVIOUS
  <2> HIDE DEF K
  <2>2. QED
    BY <2>1, NothingSet, UntouchedLeads
<1> HIDE DEF s, x
<1>6. /\ Leads(s \o then, "field", "coord_select", gc.coord_select, n)
      /\ Leads(s \o then, "field", "coord_system", gc.coord_system, x)
      /\ Leads(s \o then, "record", n, r, Record(x))
  BY <1>3, <1>4, <1>5, LeadsThrough
<1>7. QED
  BY <1>1, <1>6 DEF WillBeStored, s

LEMMA StepsThere ==
  ASSUME GoodParser(gc), NEW b, GoodBlock(b), b.status = "OK",
         b.coord_select = gc.coord_select => b.system = gc.coord_system,
         b.jog => b.coord_select = gc.coord_select /\ b.non_modal \notin OffsetActions,
         NEW then, IsSeq(then), OfKinds(then, {"sync", "store"}),
         Meant(b, gc), DOMAIN Programmed(b) # {}
  PROVE  /\ ~Has(Steps(b, gc) \o then, Unpredictable)
         /\ WillBeThere(gc, Steps(b, gc) \o then, Programmed(b))
<1> DEFINE s == Steps(b, gc)
           e == Programmed(b)
           tool == ToolLengthVector(gc.tool_length_offset)
<1>1. /\ b.program_flow # "COMPLETED" /\ b.axes \subseteq Axes /\ DOMAIN e = b.axes
      /\ \A a \in b.axes : e[a] = Val(b, a) * Unit(b)
      /\ \/ b.axis = "NON_MODAL" /\ b.non_modal = "SET_COORDINATE_OFFSET"
         \/ /\ b.axis = "NON_MODAL" /\ b.non_modal = "SET_COORDINATE_DATA" /\ Val(b, "L") = 20
            /\ SetsActive(b)
         \/ /\ b.axis = "MOTION_MODE" /\ b.non_modal = "NO_ACTION" /\ b.distance = "ABSOLUTE"
            /\ b.motion \in Moves
  BY ProgrammedLine
<1>2. IsSeq(s)
  BY StepsTidy
<1>3. ~Has(s \o then, Unpredictable)
  <2> DEFINE K == PlainKinds \cup JogKinds
             L == {"sync", "store"}
  <2>1. OfKinds(s, K)
    <3>1. b.axis # "MOTION_MODE" \/ b.motion \in Moves
      BY <1>1
    <3>2. Part(s, PlainKinds) \/ Part(s, JogKinds)
      BY <1>1, <3>1, StepsAreFresh
    <3>3. QED
      BY <3>2 DEF Part, OfKinds
  <2>2. (K \cup L) \cap Unpredictable = {}
    BY DEF PlainKinds, JogKinds, Writes, LaterBytes, Unpredictable, HomingKinds
  <2>3. OfKinds(then, L)
    OBVIOUS
  <2> HIDE DEF K, L, s
  <2>4. OfKinds(s \o then, K \cup L)
    BY <1>2, <2>1, <2>3, KindsJoined
  <2>5. QED
    BY <2>2, <2>4 DEF Has, OfKinds, s
<1> DEFINE There(p, x, o, t) ==
             /\ Leads(s, "field", "position", gc.position, p)
             /\ Leads(s, "field", "coord_system", gc.coord_system, x)
             /\ Leads(s, "field", "coord_offset", gc.coord_offset, o)
             /\ Leads(s, "field", "tool_length_offset", gc.tool_length_offset, t)
             /\ \A a \in b.axes : p[a] - Plus(Plus(x, o), ToolLengthVector(t))[a] = e[a]
<1>4. \A a \in b.axes : a \in Axes /\ e[a] \in Int
  <2>1. \A letter : Val(b, letter) \in Int
    BY ValIsInt DEF GoodBlock
  <2>2. Unit(b) \in Int
    BY UnitsAssumption DEF Unit
  <2>3. QED
    BY <1>1, <2>1, <2>2
<1>5. /\ gc.position \in Vector /\ gc.coord_offset \in Vector /\ gc.tool_length_offset \in Int
      /\ b.xyz \in Vector /\ b.ijk \in Vector /\ b.system \in Vector
  BY DEF GoodParser, GoodBlock
<1>6. ASSUME b.jog
      PROVE  \E p, x, o \in Vector : \E t \in Int : There(p, x, o, t)
  <2>1. /\ b.axis = "MOTION_MODE" /\ b.non_modal = "NO_ACTION" /\ b.distance = "ABSOLUTE"
        /\ b.system = gc.coord_system
    BY <1>1, <1>6 DEF OffsetActions
  <2>2. \A a \in b.axes : b.xyz[a] = Offsetting(b, gc)[a] + e[a]
    BY <1>1, <2>1 DEF Meant
  <2>3. \A a \in b.axes : b.xyz[a] - Plus(Plus(b.system, gc.coord_offset), tool)[a] = e[a]
    BY <1>4, <2>2, WorkPosition
  <2>4. /\ Leads(s, "field", "position", gc.position, b.xyz)
        /\ \A f, u : f # "position" => Leads(s, "field", f, u, u)
    BY <1>6, JogLeads
  <2> HIDE DEF s, e
  <2>5. There(b.xyz, b.system, gc.coord_offset, gc.tool_length_offset)
    BY <2>1, <2>3, <2>4
  <2> HIDE DEF There
  <2>6. \E p, x, o \in Vector : \E t \in Int : There(p, x, o, t)
    BY <1>5, <2>5
  <2>7. QED
    BY <2>6
<1>7. ASSUME ~b.jog
      PROVE  \E p, x, o \in Vector : \E t \in Int : There(p, x, o, t)
  <2> DEFINE x == IF SetsActive(b) THEN b.ijk ELSE b.system
             o == OffsetAfter(b, gc.coord_offset)
             t == gc.tool_length_offset
             p == IF b.axis = "MOTION_MODE" THEN b.xyz ELSE gc.position
  <2>1. /\ Leads(s, "field", "coord_system", gc.coord_system, x)
        /\ Leads(s, "field", "coord_offset", gc.coord_offset, o)
        /\ Leads(s, "field", "tool_length_offset", gc.tool_length_offset,
                 IF b.axis = "TOOL_LENGTH_OFFSET" THEN ToolOffset(b) ELSE gc.tool_length_offset)
        /\ b.axis = "MOTION_MODE" /\ b.motion \in Moves /\ b.non_modal = "NO_ACTION"
             => Leads(s, "field", "position", gc.position, b.xyz)
        /\ b.axis = "NON_MODAL" /\ b.non_modal \in OffsetActions
             => Leads(s, "field", "position", gc.position, gc.position)
    BY <1>7, StepsLead
  <2>2. Leads(s, "field", "tool_length_offset", gc.tool_length_offset, t)
    <3>1. b.axis # "TOOL_LENGTH_OFFSET"
      BY <1>1
    <3>2. QED
      BY <2>1, <3>1
  <2>3. Leads(s, "field", "position", gc.position, p)
    <3>1. CASE b.axis = "MOTION_MODE"
      <4>1. b.motion \in Moves /\ b.non_modal = "NO_ACTION"
        BY <1>1, <3>1
      <4>2. QED
        BY <2>1, <3>1, <4>1
    <3>2. CASE b.axis # "MOTION_MODE"
      <4>1. b.axis = "NON_MODAL" /\ b.non_modal \in OffsetActions
        BY <1>1, <3>2 DEF OffsetActions
      <4>2. QED
        BY <2>1, <3>2, <4>1
    <3>3. QED
      BY <3>1, <3>2
  <2>4. \A a \in b.axes : p[a] - Plus(Plus(x, o), tool)[a] = e[a]
    <3>1. CASE b.axis = "NON_MODAL" /\ b.non_modal = "SET_COORDINATE_OFFSET"
      <4>1. x = b.system /\ o = b.xyz /\ p = gc.position
        BY <3>1 DEF SetsActive, OffsetAfter
      <4>2. \A a \in b.axes : b.xyz[a] = Without(gc, b.system, tool)[a] - e[a]
        BY <1>1, <3>1 DEF Meant
      <4>3. QED
        BY <1>4, <4>1, <4>2, WorkPosition
    <3>2. CASE /\ b.axis = "NON_MODAL" /\ b.non_modal = "SET_COORDINATE_DATA" /\ Val(b, "L") = 20
               /\ SetsActive(b)
      <4>1. x = b.ijk /\ o = gc.coord_offset /\ p = gc.position
        BY <3>2 DEF OffsetAfter
      <4>2. \A a \in b.axes : b.ijk[a] = Without(gc, gc.coord_offset, tool)[a] - e[a]
        BY <1>1, <3>2 DEF Meant
      <4>3. QED
        BY <1>4, <4>1, <4>2, WorkPosition
    <3>3. CASE /\ b.axis = "MOTION_MODE" /\ b.non_modal = "NO_ACTION" /\ b.distance = "ABSOLUTE"
               /\ b.motion \in Moves
      <4>1. x = b.system /\ o = gc.coord_offset /\ p = b.xyz
        BY <3>3 DEF SetsActive, OffsetAfter
      <4>2. \A a \in b.axes : b.xyz[a] = Offsetting(b, gc)[a] + e[a]
        BY <1>1, <3>3 DEF Meant
      <4>3. QED
        BY <1>4, <4>1, <4>2, WorkPosition
    <3>4. QED
      BY <1>1, <3>1, <3>2, <3>3
  <2>5. p \in Vector /\ x \in Vector /\ o \in Vector /\ t \in Int
    BY <1>5, PointsAreVectors DEF OffsetAfter
  <2> HIDE DEF s, e, p, x, o
  <2>6. There(p, x, o, t)
    BY <2>1, <2>2, <2>3, <2>4
  <2> HIDE DEF There, t
  <2>7. \E p0, x0, o0 \in Vector : \E t0 \in Int : There(p0, x0, o0, t0)
    BY <2>5, <2>6
  <2>8. QED
    BY <2>7
<1> HIDE DEF There
<1>8. PICK p \in Vector, x \in Vector, o \in Vector, t \in Int : There(p, x, o, t)
  BY <1>6, <1>7
<1>9. \A kind, cell, u : Leads(then, kind, cell, u, u)
  <2> DEFINE K == {"sync", "store"}
  <2>1. K \cap {"position", "offset", "put_sum"} = {} /\ OfKinds(then, K)
    OBVIOUS
  <2> HIDE DEF K
  <2>2. QED
    BY <2>1, NothingSet, UntouchedLeads
<1> HIDE DEF s, e
<1>10. /\ Leads(s \o then, "field", "position", gc.position, p)
       /\ Leads(s \o then, "field", "coord_system", gc.coord_system, x)
       /\ Leads(s \o then, "field", "coord_offset", gc.coord_offset, o)
       /\ Leads(s \o then, "field", "tool_length_offset", gc.tool_length_offset, t)
       /\ \A a \in DOMAIN e : p[a] - Plus(Plus(x, o), ToolLengthVector(t))[a] = e[a]
  <2>1. /\ Leads(s, "field", "position", gc.position, p)
        /\ Leads(s, "field", "coord_system", gc.coord_system, x)
        /\ Leads(s, "field", "coord_offset", gc.coord_offset, o)
        /\ Leads(s, "field", "tool_length_offset", gc.tool_length_offset, t)
        /\ \A a \in b.axes : p[a] - Plus(Plus(x, o), ToolLengthVector(t))[a] = e[a]
    BY <1>8 DEF There
  <2>2. QED
    BY <1>1, <1>2, <1>9, <2>1, LeadsThrough
<1>11. WillBeThere(gc, s \o then, e)
  BY <1>8, <1>10 DEF WillBeThere
<1>12. QED
  BY <1>3, <1>11 DEF s, e

LEMMA ExecuteOutcome ==
  ASSUME PositionInv, Outcome, NEW words \in Lines, Modeless(words), NEW jog \in BOOLEAN,
         NEW then, IsSeq(then), OfKinds(then, {"sync", "store"}), NEW rest,
         main.todo = <<>>, main.pc \in {"run", "idle"}, Execute(words, jog, then, rest),
         UNCHANGED <<gc, plan, eeprom>>
  PROVE  Outcome'
<1> DEFINE p == Parsed(gc, jog, words)
           b == Checked(p, gc, eeprom.records)
           changed == b.machine # "SAME"
           repairs == WriteRecord(CHOOSE n \in b.repair : TRUE, Origin)
           todo == IF b.status = "OK" THEN Steps(b, gc) \o then
                   ELSE IF b.repair # {} THEN repairs
                   ELSE <<>>
<1>1. /\ main' = [main EXCEPT !.pc = "run", !.startup = rest, !.todo = todo]
      /\ machine' = [machine EXCEPT !.mode = IF changed THEN b.machine ELSE @]
      /\ rt' = [rt EXCEPT !.alarm = IF changed THEN "MACHINE_MODE_CHANGED" ELSE @]
      /\ hist' = [hist EXCEPT !.programmed = Programmed(b),
                              !.program = IF main.pc = "idle" THEN Tail(@) ELSE @]
  BY Zenon DEF Execute
<1>2. /\ Inv /\ HistShape /\ MachineShape(machine) /\ RtShape(rt) /\ MainShape(main) /\ EepromShape
  BY DEF PositionInv, OffsetInv, Inv, Shapes
<1>3. GoodParser(gc) /\ gc.coord_select \in 0..5 /\ GoodRecords(eeprom.records)
  BY <1>2, WordsAreLines DEF Inv, Shapes, GcShape, GoodParser
<1> HIDE DEF todo, changed
<1>4. p \in WordBlocks(gc, jog) /\ p.machine = "SAME"
  BY <1>3, ParsedIsBlock DEF Modeless
<1> HIDE DEF p
<1>5. /\ b.machine = "SAME" /\ b.repair \in SUBSET Records
      /\ \A n \in b.repair : ~Sound(eeprom.records[n])
      /\ b.status = "OK" =>
           /\ GoodBlock(b) /\ b.jog = jog /\ SystemOf(b, gc, eeprom.records)
           /\ jog => b.coord_select = gc.coord_select /\ b.non_modal \notin OffsetActions
           /\ Meant(b, gc)
  <2> HIDE DEF b
  <2>1. LET c == Checked(p, gc, eeprom.records)
        IN /\ c.machine = p.machine /\ c.repair \in SUBSET Records
           /\ \A n \in c.repair : ~Sound(eeprom.records[n])
           /\ c.status = "OK" =>
                /\ GoodBlock(c) /\ c.jog = jog
                /\ IF c.coord_select = gc.coord_select THEN c.system = gc.coord_system
                   ELSE Sound(eeprom.records[c.coord_select])
                        /\ c.system = eeprom.records[c.coord_select].data
                /\ jog => c.coord_select = gc.coord_select /\ c.non_modal \notin OffsetActions
                /\ Meant(c, gc)
    BY <1>3, <1>4, CheckedIsGood
  <2>2. QED
    BY <1>4, <2>1 DEF b, SystemOf
<1> HIDE DEF b
<1>6. /\ main'.todo = todo /\ main'.pc = "run" /\ main'.abort = main.abort
      /\ machine'.state = machine.state /\ rt'.flags = rt.flags
  BY <1>1, <1>2, <1>5 DEF MainShape, MachineShape, RtShape, changed
<1>7. hist'.programmed = Programmed(b)
  BY <1>1, <1>2 DEF HistShape
<1> SUFFICES ASSUME ~Ending(rt', main') PROVE Outcome'
  BY DEF Outcome
<1>8. ~Ending(rt, main)
  BY <1>6 DEF Ending
<1>9. machine.state # "CHECK" =>
        /\ gc.coord_select \in 0..5 /\ gc.coord_system \in Vector
        /\ eeprom.records[gc.coord_select] = Record(gc.coord_system)
  BY <1>8, StoredAtRest
<1>10. /\ Tidy(todo)
       /\ machine.state # "CHECK" => WillBeStored(gc, todo, eeprom.records)
       /\ DOMAIN Programmed(b) # {} => /\ ~Has(todo, Unpredictable)
                                       /\ WillBeThere(gc, todo, Programmed(b))
  <2>1. CASE b.status = "OK"
    <3>1. todo = Steps(b, gc) \o then
      BY <2>1 DEF todo
    <3>2. Tidy(todo)
      BY <1>3, <1>5, <2>1, <3>1, StepsTidy
    <3>3. machine.state # "CHECK" => WillBeStored(gc, todo, eeprom.records)
      BY <1>2, <1>3, <1>5, <1>9, <2>1, <3>1, StepsStored
    <3>4. b.coord_select = gc.coord_select => b.system = gc.coord_system
      BY <1>5, <2>1 DEF SystemOf
    <3>5. DOMAIN Programmed(b) # {} => /\ ~Has(todo, Unpredictable)
                                       /\ WillBeThere(gc, todo, Programmed(b))
      BY <1>3, <1>5, <2>1, <3>1, <3>4, StepsThere
    <3>6. QED
      BY <3>2, <3>3, <3>5
  <2>2. ASSUME b.status # "OK" PROVE DOMAIN Programmed(b) = {}
    BY <2>2 DEF Programmed, NothingProgrammed
  <2>3. CASE b.status # "OK" /\ b.repair # {}
    <3> DEFINE n == CHOOSE n \in b.repair : TRUE
    <3>1. n \in b.repair /\ n \in Records /\ ~Sound(eeprom.records[n])
      BY <1>5, <2>3
    <3>2. todo = WriteRecord(n, Origin)
      BY <2>3 DEF todo
    <3> HIDE DEF n
    <3>3. Part(todo, {"sync"} \cup Writes)
      BY <3>1, <3>2, OriginInTravel, WriteRecordIsFresh
    <3>4. Tidy(todo)
      BY <3>3 DEF Tidy, Has, Part, OfKinds, Writes, LaterBytes
    <3>5. machine.state # "CHECK" => WillBeStored(gc, todo, eeprom.records)
      <4> SUFFICES ASSUME machine.state # "CHECK" PROVE WillBeStored(gc, todo, eeprom.records)
        OBVIOUS
      <4>1. gc.coord_select # n
        <5>1. \A data : Sound(Record(data))
          BY DEF Sound, Record
        <5>2. QED
          BY <1>9, <3>1, <5>1
      <4>2. \A f, u : Leads(todo, "field", f, u, u)
        BY <3>2, WriteLeads
      <4>3. \A u : Leads(todo, "record", gc.coord_select, u, u)
        BY <3>2, <4>1, WriteLeads
      <4>4. QED
        BY <1>9, <4>2, <4>3 DEF WillBeStored
    <3>6. QED
      BY <2>2, <2>3, <3>4, <3>5
  <2>4. CASE b.status # "OK" /\ b.repair = {}
    <3>1. todo = <<>>
      BY <2>4 DEF todo
    <3>2. machine.state # "CHECK" => WillBeStored(gc, <<>>, eeprom.records)
      BY <1>9, NothingLeads DEF WillBeStored
    <3>3. QED
      BY <2>2, <2>4, <3>1, <3>2, NothingLeads
  <2>5. QED
    BY <2>1, <2>3, <2>4
<1>11. gc' = gc /\ eeprom' = eeprom
  OBVIOUS
<1>12. QED
  BY <1>6, <1>7, <1>10, <1>11 DEF Outcome, IsProgrammed

LEMMA LinesOutcome ==
  ASSUME PositionInv, Outcome, Gcode \/ Jog \/ StoreStartup \/ Startup
  PROVE  Outcome'
<1> DEFINE store == [do |-> "store", words |-> TheWords]
           stored == Do("sync") \o <<store>>
           words == eeprom.startup[Head(main.startup)]
           rest == Tail(main.startup)
<1>1. /\ UNCHANGED <<gc, plan, eeprom>>
      /\ \/ Takes("gcode") /\ Execute(TheWords, FALSE, <<>>, <<>>)
         \/ Takes("jog") /\ Execute(TheWords, TRUE, <<>>, <<>>)
         \/ Takes("store") /\ Execute(TheWords, FALSE, stored, <<>>)
         \/ /\ main.pc = "run" /\ main.todo = <<>> /\ main.startup # <<>>
            /\ Execute(words, FALSE, <<>>, rest)
  BY Zenon DEF Gcode, Jog, StoreStartup, Startup
<1>2. Inv /\ HistShape /\ MainShape(main)
  BY DEF PositionInv, OffsetInv, Inv, Shapes
<1>3. IsSeq(<<>>) /\ OfKinds(<<>>, {"sync", "store"})
  <2>1. Part(<<>>, {"sync", "store"})
    BY NothingIsFresh
  <2>2. QED
    BY <2>1 DEF Part, Fresh, Chain
<1>4. ASSUME NEW kind, Takes(kind)
      PROVE  main.todo = <<>> /\ main.pc = "idle" /\ TheWords \in Lines /\ Modeless(TheWords)
  <2>1. main.todo = <<>> /\ main.pc = "idle" /\ hist.program # <<>>
    BY <1>2, <1>4, ReadsAtRest DEF Takes
  <2>2. TheWords \in Lines
    BY <1>2, <2>1, WordsAreLines
  <2>3. Modeless(TheWords)
    <3> DEFINE q == hist.program L == [kind : STRING, words : Lines]
    <3>1. q \in Seq(L) /\ q # <<>>
      BY <1>2, <2>1 DEF HistShape
    <3>2. \A i \in 1..Len(q) : Modeless(q[i].words)
      BY DEF PositionInv, Positions, LinesAreModeless
    <3>3. TheWords = Head(q).words
      BY DEF TheWords
    <3> HIDE DEF q, L
    <3>4. Head(q) = q[1] /\ 1 \in 1..Len(q)
      BY <3>1
    <3>5. QED
      BY <3>2, <3>3, <3>4
  <2>4. QED
    BY <2>1, <2>2, <2>3
<1>5. IsSeq(stored) /\ OfKinds(stored, {"sync", "store"})
  <2> DEFINE sync == [do |-> "sync"] S == {sync, store}
  <2>1. sync.do = "sync" /\ store.do = "store"
    OBVIOUS
  <2>2. stored = <<sync>> \o <<store>>
    BY DEF Do
  <2> HIDE DEF stored, sync, store
  <2>3. stored \in Seq(S) /\ Len(stored) = 2 /\ stored[1] = sync /\ stored[2] = store
    BY <2>2, PairOf
  <2>4. \A i \in 1..Len(stored) : i = 1 \/ i = 2
    BY <2>3
  <2>5. IsSeq(stored)
    BY <2>3, SequencesAreSeq
  <2>6. QED
    BY <2>1, <2>3, <2>4, <2>5 DEF OfKinds
<1> HIDE DEF stored
<1>6. CASE Takes("gcode") /\ Execute(TheWords, FALSE, <<>>, <<>>)
  BY <1>1, <1>3, <1>4, <1>6, ExecuteOutcome
<1>7. CASE Takes("jog") /\ Execute(TheWords, TRUE, <<>>, <<>>)
  BY <1>1, <1>3, <1>4, <1>7, ExecuteOutcome
<1>8. CASE Takes("store") /\ Execute(TheWords, FALSE, stored, <<>>)
  BY <1>1, <1>4, <1>5, <1>8, ExecuteOutcome
<1>9. CASE /\ main.pc = "run" /\ main.todo = <<>> /\ main.startup # <<>>
           /\ Execute(words, FALSE, <<>>, rest)
  <2>1. Head(main.startup) \in StartupLines
    BY <1>2, <1>9 DEF MainShape
  <2>2. words \in Lines /\ Modeless(words)
    BY <1>2, <2>1, WordsAreLines DEF PositionInv, Positions, LinesAreModeless
  <2> HIDE DEF words, rest
  <2>3. QED
    BY <1>1, <1>3, <1>9, <2>2, ExecuteOutcome
<1>10. QED
  BY <1>1, <1>6, <1>7, <1>8, <1>9

-----------------------------------------------------------------------------
(* The theorems.                                                            *)

LEMMA InitOutcome == Init => Outcome
<1>1. Init => main.pc = "boot"
  BY DEF Init, PowerUp
<1>2. QED
  BY <1>1 DEF Outcome, Ending

LEMMA NextOutcome ==
  ASSUME ~HomeQueued
  PROVE  PositionInv /\ Outcome /\ [Next]_vars => Outcome'
<1> SUFFICES ASSUME PositionInv, Outcome, [Next]_vars PROVE Outcome'
  OBVIOUS
<1>1. CASE DoSet \/ DoPosition \/ DoPut \/ DoSum
  <2>1. DoSet => (DoSet /\ Op("set")) \/ (DoSet /\ Op("offset"))
    BY DEF DoSet
  <2>2. Carries
    BY <1>1, <2>1, ModesCarry, FieldsCarry, PutCarries, SumCarries
  <2>3. QED
    BY <2>2, OutcomeCarried
<1>2. CASE \/ DoNoOutputs \/ DoWco \/ DoPause \/ LineInCheckMode \/ ProbeInCheckMode
           \/ HomeFound \/ HomeSkipped \/ DoStore \/ DoJog
  BY <1>2, ModesCarry, OutcomeCarried
<1>3. CASE DoArc \/ DoProbe \/ ProbeOpen \/ DoClear
  BY <1>3, ModesCarry, ReplacesCarry, OutcomeCarried
<1>4. CASE \/ DoSync \/ DoLine \/ ProbeRun \/ EndOfLine \/ ProbeContact \/ Move \/ MotionEnds
           \/ JogCancel \/ StatusReport \/ UNCHANGED vars
  BY <1>4, WaitsCarry, OutcomeCarried
<1>5. CASE DoReset \/ UserReset \/ SoftLimit \/ Critical \/ HomeFailed \/ PowerFail
  BY <1>5, EndsCarry, OutcomeCarried
<1>6. CASE SyncWait \/ LineWait \/ ProbeWait \/ ProbeClosed \/ Homed \/ Idle
  BY <1>6, SyncCarries, LineCarries, ProbeCarries, ClosedCarries, HomedCarries, IdleCarries,
     OutcomeCarried
<1>7. CASE DoEnd \/ Boot
  BY <1>7, EndOutcome, BootOutcome
<1>8. CASE Gcode \/ Jog \/ StoreStartup \/ Startup
  BY <1>8, LinesOutcome
<1>9. CASE Refused \/ CheckMode \/ Unlock \/ Clear \/ Home
  BY <1>9, CommandsOutcome
<1>10. QED
  BY <1>1, <1>2, <1>3, <1>4, <1>5, <1>6, <1>7, <1>8, <1>9 DEF Next

LEMMA SettledOutcome ==
  ASSUME PositionInv, Outcome, AtRest
  PROVE  OffsetIsStored /\ ProgrammedIsWorkPosition
<1>1. main.todo = <<>> /\ ~Ending(rt, main)
  BY DEF AtRest, Ending, PositionInv, OffsetInv, Inv, Work, WaitsInAction
<1>2. machine.state # "CHECK" => gc.coord_system = eeprom.records[gc.coord_select].data
  BY <1>1, StoredAtRest DEF Record
<1>3. ASSUME NEW a \in DOMAIN hist.programmed
      PROVE  gc.position[a] - WorkOffset(gc)[a] = hist.programmed[a]
  <2>1. WillBeThere(gc, <<>>, hist.programmed)
    BY <1>1, <1>3 DEF Outcome, IsProgrammed
  <2>2. \A f, u, v : Leads(<<>>, "field", f, u, v) => v = u
    BY NothingLeads
  <2>3. QED
    BY <1>3, <2>1, <2>2 DEF WillBeThere, WorkOffset
<1>4. QED
  BY <1>2, <1>3 DEF OffsetIsStored, ProgrammedIsWorkPosition

\* Between two lines the active coordinate system is the one the EEPROM holds,
\* whichever commands selected, set, cleared or read one, and whatever cut them
\* short: G10, G54 to G59, M2, $RST=# and boot. Check mode is excepted, which
\* resets the selection alone.
THEOREM OffsetIsStoredAlways ==
  ASSUME ~HomeQueued, NoMachineModes
  PROVE  Spec => []OffsetIsStored
<1>1. PositionInv /\ Outcome => OffsetIsStored
  BY SettledOutcome DEF OffsetIsStored
<1>2. PositionInv /\ Outcome /\ [Next]_vars => PositionInv' /\ Outcome'
  BY NextPositionInv, NextOutcome
<1>3. Init => PositionInv /\ Outcome
  BY InitPositionInv, InitOutcome
<1>4. QED
  BY <1>1, <1>2, <1>3, PTL DEF Spec

\* The work position between two lines is what the words of the last line named,
\* in either unit and under every offset: motions and arcs in absolute
\* coordinates, jogs, G92, and G10 L20 on the active system.
THEOREM ProgrammedIsWorkPositionAlways ==
  ASSUME ~HomeQueued, NoMachineModes
  PROVE  Spec => []ProgrammedIsWorkPosition
<1>1. PositionInv /\ Outcome => ProgrammedIsWorkPosition
  BY SettledOutcome DEF ProgrammedIsWorkPosition
<1>2. PositionInv /\ Outcome /\ [Next]_vars => PositionInv' /\ Outcome'
  BY NextPositionInv, NextOutcome
<1>3. Init => PositionInv /\ Outcome
  BY InitPositionInv, InitOutcome
<1>4. QED
  BY <1>1, <1>2, <1>3, PTL DEF Spec

=============================================================================
