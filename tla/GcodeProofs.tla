---------------------------- MODULE GcodeProofs ----------------------------
(***************************************************************************)
(* What the parser makes of any line, whatever its words: blocks and the   *)
(* actions of blocks are of their types, and the actions of one block      *)
(* follow each other in few patterns.                                      *)
(***************************************************************************)
EXTENDS ProgramProperties, SequenceTheorems, DataInduction

-----------------------------------------------------------------------------
(* The blocks a line is collected into.                                     *)

WordMaps == UNION {[L -> Int] : L \in SUBSET ValueLetters}
MachineWords == {"M88", "M89"}
CommandFields == Modes \cup {"non_modal", "program_flow", "machine", "ignored"}
WordFields == CommandFields \cup {"status", "jog", "axis", "groups", "words"}

Groups == {entry[2].group : entry \in CommandTable}
Statuses == {"OK", "COMMAND_VALUE_NOT_INTEGER", "UNSUPPORTED_COMMAND", "AXIS_COMMAND_CONFLICT",
             "MODAL_GROUP_VIOLATION", "MAX_VALUE_EXCEEDED", "WORD_REPEATED", "NEGATIVE_VALUE",
             "BAD_NUMBER_FORMAT"}

\* What a field of a block may hold, collected under the parser state g.
FieldValues(g) ==
  {g[m] : m \in Modes} \cup {entry[2].value : entry \in CommandTable}
    \cup {entry[2].axis : entry \in CommandTable} \cup (SUBSET Groups) \cup WordMaps \cup BOOLEAN
    \cup Statuses \cup {"NO_ACTION", "RUNNING", "SAME", 0, "NONE"}

\* The actions that make the position read as given claim the axis words.
OffsetActions == {"SET_COORDINATE_DATA", "SET_COORDINATE_OFFSET"}

\* The blocks a line is collected into.
WordBlocks(g, jog) ==
  {b \in [WordFields -> FieldValues(g)] :
     /\ b.words \in WordMaps /\ b.coord_select \in 0..5 /\ b.groups \in SUBSET Groups
     /\ b.jog = jog
     /\ b.coord_select # g.coord_select => "G12" \in b.groups
     /\ b.non_modal \in OffsetActions => b.axis = "NON_MODAL"}

GoodCommand(code, c) ==
  /\ c.mode \in CommandFields
  /\ c.mode = "coord_select" => c.group = "G12" /\ c.value \in 0..5
  /\ c.mode = "machine" => code \in MachineWords
  /\ c.mode = "non_modal" /\ c.value \in OffsetActions => c.axis = "NON_MODAL"

\* Every command sets one of the modes, a coordinate system one of six, and
\* only two commands the machine mode.
LEMMA TableIsGood == \A entry \in CommandTable : GoodCommand(entry[1], entry[2])
<1>1. \A code, v : /\ v \notin OffsetActions => GoodCommand(code, NonModal(v))
                   /\ GoodCommand(code, AxisAction(v))
                   /\ GoodCommand(code, Motion(v)) /\ GoodCommand(code, ToolLength(v))
  BY DEF GoodCommand, NonModal, AxisAction, Motion, ToolLength, Modal, Command, CommandFields, Modes
<1>2. \A code : \A n \in 0..5 : GoodCommand(code, System(n))
  BY DEF GoodCommand, System, Modal, Command, CommandFields, Modes
<1>3. \A code, group, v : \A m \in CommandFields \ {"coord_select", "machine", "non_modal"} :
        GoodCommand(code, Modal(group, m, v))
  BY DEF GoodCommand, Modal, Command
<1>4. \A code \in MachineWords : \A group, v : GoodCommand(code, Modal(group, "machine", v))
  BY DEF GoodCommand, Modal, Command, CommandFields
<1>5. /\ {"feed_rate", "units", "distance", "plane_select", "spindle", "coolant", "motion",
          "program_flow", "ignored"} \subseteq CommandFields \ {"coord_select", "machine", "non_modal"}
      /\ "M88" \in MachineWords /\ "M89" \in MachineWords
      /\ {"DWELL", "ABSOLUTE_OVERRIDE", "SET_HOME_0", "SET_HOME_1", "RESET_COORDINATE_OFFSET"}
           \cap OffsetActions = {}
  BY DEF CommandFields, Modes, MachineWords, OffsetActions
<1>6. QED
  BY <1>1, <1>2, <1>3, <1>4, <1>5 DEF CommandTable

\* So every code that is known is a good command.
LEMMA CommandsAreGood ==
  \A code \in DOMAIN Commands :
    /\ GoodCommand(code, Commands[code])
    /\ \E entry \in CommandTable : Commands[code] = entry[2]
<1> SUFFICES ASSUME NEW code \in DOMAIN Commands
             PROVE  /\ GoodCommand(code, Commands[code])
                    /\ \E entry \in CommandTable : Commands[code] = entry[2]
  OBVIOUS
<1>1. \E entry \in CommandTable : entry[1] = code
  BY Zenon DEF Commands
<1> DEFINE chosen == CHOOSE entry \in CommandTable : entry[1] = code
<1>2. chosen \in CommandTable /\ chosen[1] = code
  BY <1>1, Zenon
<1>3. Commands[code] = chosen[2]
  BY Zenon DEF Commands
<1> HIDE DEF chosen
<1>4. QED
  BY <1>2, <1>3, TableIsGood

\* A failed block is a block with another status.
LEMMA FailKeeps ==
  ASSUME NEW g, NEW jog, NEW b \in WordBlocks(g, jog), NEW s \in Statuses, NEW bad
  PROVE  /\ Fail(b, s) \in WordBlocks(g, jog) /\ Fail(b, s).machine = b.machine
         /\ FailIf(b, bad, s) \in WordBlocks(g, jog) /\ FailIf(b, bad, s).machine = b.machine
<1>1. "status" \in WordFields /\ s \in FieldValues(g)
  BY DEF WordFields, FieldValues
<1> DEFINE failed == [b EXCEPT !.status = s]
<1>2. failed \in [WordFields -> FieldValues(g)]
  BY <1>1 DEF WordBlocks
<1>3. /\ failed.words = b.words /\ failed.jog = b.jog /\ failed.groups = b.groups
      /\ failed.coord_select = b.coord_select /\ failed.machine = b.machine
      /\ failed.non_modal = b.non_modal /\ failed.axis = b.axis
  BY DEF WordBlocks, WordFields, CommandFields, Modes
<1>4. Fail(b, s) = IF b.status = "OK" THEN failed ELSE b
  BY DEF Fail
<1> HIDE DEF failed
<1>5. failed \in WordBlocks(g, jog)
  BY <1>2, <1>3 DEF WordBlocks
<1>6. QED
  BY <1>3, <1>4, <1>5 DEF FailIf

\* A command sets its mode, claims the axes and takes its modal group.
LEMMA CommandWordKeeps ==
  ASSUME NEW g, NEW jog, NEW b \in WordBlocks(g, jog), NEW code
  PROVE  /\ CommandWord(b, code) \in WordBlocks(g, jog)
         /\ code \notin MachineWords => CommandWord(b, code).machine = b.machine
<1>1. CASE code \notin DOMAIN Commands
  <2>1. {"COMMAND_VALUE_NOT_INTEGER", "UNSUPPORTED_COMMAND"} \subseteq Statuses
    BY DEF Statuses
  <2>2. QED
    BY <1>1, <2>1, FailKeeps DEF CommandWord
<1>2. CASE code \in DOMAIN Commands
  <2> DEFINE c == Commands[code]
             claimed == [b EXCEPT ![c.mode] = c.value,
                                  !.axis = IF c.axis = "NONE" THEN @ ELSE c.axis,
                                  !.groups = @ \cup {c.group}]
  <2>1. GoodCommand(code, c) /\ \E entry \in CommandTable : c = entry[2]
    BY <1>2, CommandsAreGood
  <2> HIDE DEF c
  <2>2. c.value \in FieldValues(g) /\ c.axis \in FieldValues(g) /\ c.group \in Groups
    BY <2>1 DEF FieldValues, Groups
  <2>3. c.mode \in WordFields /\ c.mode \notin {"status", "jog", "axis", "groups", "words"}
    BY <2>1 DEF GoodCommand, WordFields, CommandFields, Modes
  <2>4. b.groups \cup {c.group} \in SUBSET Groups /\ SUBSET Groups \subseteq FieldValues(g)
    BY <2>2 DEF WordBlocks, FieldValues
  <2>5. claimed \in [WordFields -> FieldValues(g)]
    BY <2>2, <2>3, <2>4 DEF WordBlocks, WordFields
  <2>6. /\ claimed.words = b.words /\ claimed.jog = b.jog /\ claimed.groups = b.groups \cup {c.group}
        /\ claimed.coord_select = IF c.mode = "coord_select" THEN c.value ELSE b.coord_select
        /\ c.mode # "machine" => claimed.machine = b.machine
        /\ claimed.non_modal = IF c.mode = "non_modal" THEN c.value ELSE b.non_modal
        /\ claimed.axis = IF c.axis = "NONE" THEN b.axis ELSE c.axis
    BY <2>3 DEF WordBlocks, WordFields, CommandFields, Modes
  <2> HIDE DEF claimed
  <2>7. c.axis = "NONE" \/ b.axis = "NONE" =>
          /\ claimed \in WordBlocks(g, jog)
          /\ code \notin MachineWords => claimed.machine = b.machine
    <3>1. ASSUME c.axis = "NONE" \/ b.axis = "NONE", claimed.non_modal \in OffsetActions
          PROVE  claimed.axis = "NON_MODAL"
      BY <2>1, <2>6, <3>1 DEF WordBlocks, GoodCommand
    <3>2. QED
      BY <2>1, <2>4, <2>5, <2>6, <3>1 DEF WordBlocks, GoodCommand
  <2>8. {"AXIS_COMMAND_CONFLICT", "MODAL_GROUP_VIOLATION"} \subseteq Statuses
    BY DEF Statuses
  <2>9. CommandWord(b, code) = IF c.axis # "NONE" /\ b.axis # "NONE" THEN Fail(b, "AXIS_COMMAND_CONFLICT")
                               ELSE FailIf(claimed, c.group \in b.groups, "MODAL_GROUP_VIOLATION")
    BY <1>2, Zenon DEF CommandWord, c, claimed
  <2>10. QED
    BY <2>7, <2>8, <2>9, FailKeeps
<1>3. QED
  BY <1>1, <1>2

\* A value is kept under its letter.
LEMMA ValueWordKeeps ==
  ASSUME NEW g, NEW jog, NEW b \in WordBlocks(g, jog), NEW letter \in ValueLetters, NEW value \in Int
  PROVE  /\ ValueWord(b, letter, value) \in WordBlocks(g, jog)
         /\ ValueWord(b, letter, value).machine = b.machine
<1> DEFINE w == Updated(b.words, [l \in {letter} |-> Kept(l, value)])
<1>1. w \in WordMaps
  <2>1. PICK L \in SUBSET ValueLetters : b.words \in [L -> Int]
    BY DEF WordBlocks, WordMaps
  <2>2. Kept(letter, value) \in Int
    BY DEF Kept
  <2>3. w \in [L \cup {letter} -> Int]
    BY <2>1, <2>2 DEF Updated
  <2>4. QED
    BY <2>3 DEF WordMaps
<1> HIDE DEF w
<1>2. WordMaps \subseteq FieldValues(g)
  BY DEF FieldValues
<1> DEFINE kept == [b EXCEPT !.words = w]
<1>3. kept \in WordBlocks(g, jog) /\ kept.machine = b.machine
  <2>1. kept \in [WordFields -> FieldValues(g)]
    BY <1>1, <1>2 DEF WordBlocks, WordFields
  <2>2. /\ kept.words = w /\ kept.jog = b.jog /\ kept.groups = b.groups
        /\ kept.coord_select = b.coord_select /\ kept.machine = b.machine
        /\ kept.non_modal = b.non_modal /\ kept.axis = b.axis
    BY DEF WordBlocks, WordFields, CommandFields, Modes
  <2> HIDE DEF kept
  <2>3. QED
    BY <1>1, <2>1, <2>2 DEF WordBlocks
<1>4. {"MAX_VALUE_EXCEEDED", "WORD_REPEATED", "NEGATIVE_VALUE"} \subseteq Statuses
  BY DEF Statuses
<1>5. ValueWord(b, letter, value) =
        IF letter = "T" /\ value > MaxTool THEN Fail(b, "MAX_VALUE_EXCEEDED")
        ELSE IF letter \in DOMAIN b.words THEN Fail(b, "WORD_REPEATED")
        ELSE FailIf(kept, letter \in NonNegative /\ value < 0, "NEGATIVE_VALUE")
  BY Zenon DEF ValueWord, w, kept
<1> HIDE DEF kept
<1>6. QED
  BY <1>3, <1>4, <1>5, FailKeeps

LEMMA WordKeeps ==
  ASSUME NEW g, NEW jog, NEW b \in WordBlocks(g, jog), NEW word \in STRING \X Int
  PROVE  /\ Word(b, word) \in WordBlocks(g, jog)
         /\ word[1] \notin MachineWords => Word(b, word).machine = b.machine
<1>1. "BAD_NUMBER_FORMAT" \in Statuses
  BY DEF Statuses
<1>2. word[2] \in Int
  OBVIOUS
<1>3. QED
  BY <1>1, <1>2, FailKeeps, CommandWordKeeps, ValueWordKeeps DEF Word

LEMMA NewBlockKept ==
  ASSUME NEW g, NEW jog \in BOOLEAN, g.coord_select \in 0..5
  PROVE  NewBlock(g, jog) \in WordBlocks(g, jog) /\ NewBlock(g, jog).machine = "SAME"
<1> DEFINE inherited == [m \in Modes |-> g[m]]
           fresh == [status |-> "OK", jog |-> jog, non_modal |-> "NO_ACTION",
                     program_flow |-> "RUNNING", machine |-> "SAME", ignored |-> 0,
                     axis |-> "NONE", groups |-> {}, words |-> [letter \in {} |-> 0]]
           b == Updated(inherited, fresh)
<1>1. DOMAIN fresh = {"status", "jog", "non_modal", "program_flow", "machine", "ignored", "axis",
                      "groups", "words"}
  OBVIOUS
<1>2. /\ fresh.status = "OK" /\ fresh.jog = jog /\ fresh.non_modal = "NO_ACTION"
      /\ fresh.program_flow = "RUNNING" /\ fresh.machine = "SAME" /\ fresh.ignored = 0
      /\ fresh.axis = "NONE" /\ fresh.groups = {} /\ fresh.words = [letter \in {} |-> 0]
  OBVIOUS
<1>3. fresh.words \in WordMaps
  <2>1. fresh.words \in [{} -> Int]
    BY <1>2
  <2>2. QED
    BY <2>1 DEF WordMaps
<1> HIDE DEF fresh
<1>4. b \in [WordFields -> FieldValues(g)]
  <2>1. DOMAIN b = WordFields
    BY <1>1 DEF Updated, WordFields, CommandFields, Modes
  <2>2. \A m \in Modes : b[m] = g[m]
    BY <1>1 DEF Updated, Modes
  <2>3. \A f \in DOMAIN fresh : b[f] = fresh[f]
    BY <1>1 DEF Updated
  <2>4. \A f \in DOMAIN fresh : fresh[f] \in FieldValues(g)
    BY <1>1, <1>2, <1>3 DEF FieldValues, Statuses
  <2>5. \A f \in WordFields : f \in Modes \/ f \in DOMAIN fresh
    BY <1>1 DEF WordFields, CommandFields
  <2>6. \A f \in WordFields : b[f] \in FieldValues(g)
    BY <2>2, <2>3, <2>4, <2>5 DEF FieldValues
  <2>7. b = [f \in DOMAIN b |-> b[f]]
    BY DEF Updated
  <2> HIDE DEF b
  <2>8. QED
    BY <2>1, <2>6, <2>7
<1>5. /\ b.words = fresh.words /\ b.jog = jog /\ b.groups = {} /\ b.machine = "SAME"
      /\ b.coord_select = g.coord_select /\ b.non_modal = "NO_ACTION"
  BY <1>1, <1>2 DEF Updated, Modes
<1> HIDE DEF b
<1>6. b \in WordBlocks(g, jog)
  BY <1>3, <1>4, <1>5 DEF WordBlocks, OffsetActions
<1> DEFINE forJog == [b EXCEPT !.motion = "LINEAR", !.feed_rate = "UNITS_PER_MIN"]
<1>7. forJog \in WordBlocks(g, jog) /\ forJog.machine = b.machine
  <2>1. "LINEAR" \in FieldValues(g) /\ "UNITS_PER_MIN" \in FieldValues(g)
    <3>1. /\ <<"G1", Motion("LINEAR")>> \in CommandTable
          /\ <<"G94", Modal("G5", "feed_rate", "UNITS_PER_MIN")>> \in CommandTable
      BY DEF CommandTable
    <3>2. Motion("LINEAR").value = "LINEAR" /\ Modal("G5", "feed_rate", "UNITS_PER_MIN").value = "UNITS_PER_MIN"
      BY DEF Motion, Modal, Command
    <3>3. QED
      BY <3>1, <3>2 DEF FieldValues
  <2>2. forJog \in [WordFields -> FieldValues(g)]
    BY <1>4, <2>1
  <2>3. /\ forJog.words = b.words /\ forJog.jog = b.jog /\ forJog.groups = b.groups
        /\ forJog.coord_select = b.coord_select /\ forJog.machine = b.machine
        /\ forJog.non_modal = b.non_modal /\ forJog.axis = b.axis
    BY <1>4 DEF WordFields, CommandFields, Modes
  <2> HIDE DEF forJog
  <2>4. QED
    BY <1>6, <2>2, <2>3 DEF WordBlocks
<1>8. NewBlock(g, jog) = IF jog THEN forJog ELSE b
  BY Zenon DEF NewBlock, forJog, b, inherited, fresh
<1>9. QED
  BY <1>5, <1>6, <1>7, <1>8

\* The words of any line make a block.
LEMMA ParsedIsBlock ==
  ASSUME NEW g, NEW jog \in BOOLEAN, g.coord_select \in 0..5, NEW line \in Lines
  PROVE  /\ Parsed(g, jog, line) \in WordBlocks(g, jog)
         /\ (\A n \in 1..Len(line) : line[n][1] \notin MachineWords)
              => Parsed(g, jog, line).machine = "SAME"
<1> DEFINE S == WordBlocks(g, jog)
           N == Len(line)
           F == [x \in (1..N) \X S |-> Word(x[2], line[x[1]])]
           Step(block, n) == IF n = 0 THEN NewBlock(g, jog) ELSE Word(block[n - 1], line[n])
           Is(block) == block = [n \in 0..N |-> Step(block, n)]
           block == CHOOSE r : Is(r)
<1>1. N \in Nat /\ \A n \in 1..N : line[n] \in STRING \X Int
  BY DEF Lines
<1>2. F \in [(1..N) \X S -> S]
  BY <1>1, WordKeeps
<1>3. NewBlock(g, jog) \in S
  BY NewBlockKept
<1>4. \E r : Is(r)
  <2> DEFINE base == NewBlock(g, jog)
  <2>1. base \in S
    BY <1>3
  <2> HIDE DEF N, F, S, base, Step, Is, block
  <2>2. PICK r \in [0..N -> S] : Recursive(r, N, base, F)
    BY <1>1, <1>2, <2>1, RecursionExists
  <2>3. ASSUME NEW n \in 0..N PROVE r[n] = Step(r, n)
    <3>1. CASE n = 0
      BY <1>1, <2>2, <3>1 DEF Step, base, Recursive
    <3>2. CASE n # 0
      <4>1. n \in 1..N /\ r[n - 1] \in S /\ r[n] = F[<<n, r[n - 1]>>]
        BY <1>1, <2>2, <3>2 DEF Recursive
      <4>2. F[<<n, r[n - 1]>>] = Word(r[n - 1], line[n])
        BY <4>1 DEF F
      <4>3. QED
        BY <3>2, <4>1, <4>2 DEF Step
    <3>3. QED
      BY <3>1, <3>2
  <2>4. r = [n \in 0..N |-> Step(r, n)]
    BY <2>3
  <2>5. QED
    BY <2>4 DEF Is
<1>5. Is(block)
  BY <1>4, Zenon
<1>6. Parsed(g, jog, line) = block[N]
  BY Zenon DEF Parsed
<1> HIDE DEF block
<1>7. block[0] = NewBlock(g, jog) /\ \A n \in 1..N : block[n] = Word(block[n - 1], line[n])
  BY <1>1, <1>5
<1>8. block[N] \in S
  <2> HIDE DEF N, S
  <2>1. \A n \in 1..N : block[n - 1] \in S => block[n] \in S
    BY <1>1, <1>7, WordKeeps DEF S
  <2>2. \A n \in 0..N : block[n] \in S
    BY <1>1, <1>3, <1>7, <2>1, IntervalInduction
  <2>3. QED
    BY <1>1, <2>2
<1>9. ASSUME \A n \in 1..N : line[n][1] \notin MachineWords
      PROVE  block[N].machine = "SAME"
  <2> DEFINE Q == {b \in S : b.machine = "SAME"}
  <2>1. block[0] \in Q
    BY <1>3, <1>7, NewBlockKept
  <2>2. \A n \in 1..N : block[n - 1] \in Q => block[n] \in Q
    BY <1>1, <1>7, <1>9, WordKeeps
  <2> HIDE DEF Q, N
  <2>3. \A n \in 0..N : block[n] \in Q
    BY <1>1, <2>1, <2>2, IntervalInduction
  <2>4. QED
    BY <1>1, <2>3 DEF Q
<1>10. QED
  BY <1>6, <1>8, <1>9

-----------------------------------------------------------------------------
(* The checks of a block.                                                   *)

BlockFields ==
  WordFields \cup {"axes", "unused", "f", "select", "s", "xyz", "ijk", "system", "repair"}

GoodBlock(b) ==
  /\ DOMAIN b = BlockFields /\ b = [f \in DOMAIN b |-> b[f]]
  /\ b.words \in WordMaps /\ b.coord_select \in 0..5
  /\ b.xyz \in Vector /\ b.ijk \in Vector /\ b.system \in Vector
  /\ b.repair \in SUBSET Records /\ (b.status = "OK" => b.select \in 0..5)

GoodParser(g) ==
  /\ g.position \in Vector /\ g.coord_system \in Vector /\ g.coord_offset \in Vector
  /\ g.tool_length_offset \in Int /\ g.coord_select \in 0..5

GoodRecords(ee) == \A n \in Records : ee[n].data \in Vector

\* What a check leaves alone: most of all it does not take an error back. Some
\* change the targets, and some find a record of ee that is to be repaired.
KeepsWords(b, c) ==
  /\ GoodBlock(c)
  /\ c.jog = b.jog /\ c.machine = b.machine /\ c.words = b.words /\ c.groups = b.groups
  /\ c.coord_select = b.coord_select /\ c.non_modal = b.non_modal
  /\ c.units = b.units /\ c.axes = b.axes /\ c.distance = b.distance
  /\ c.program_flow = b.program_flow
  /\ b.axes # {} => c.axis = b.axis
  /\ c.status = "OK" => b.status = "OK"

KeepsTarget(b, c) ==
  KeepsWords(b, c) /\ c.xyz = b.xyz /\ c.ijk = b.ijk /\ c.system = b.system /\ c.repair = b.repair

Keeps(b, c, ee) == KeepsWords(b, c) /\ \A n \in c.repair : n \in b.repair \/ ~Sound(ee[n])

KeepsSystem(b, c, ee) == Keeps(b, c, ee) /\ c.system = b.system

LEMMA KeepsSelf == \A b : GoodBlock(b) => KeepsTarget(b, b)
BY DEF KeepsWords, KeepsTarget

LEMMA KeepsTargetChain ==
  \A b, c, d : KeepsTarget(b, c) /\ KeepsTarget(c, d) => KeepsTarget(b, d)
BY DEF KeepsWords, KeepsTarget

LEMMA KeepsSystemChain ==
  \A b, c, d, ee : KeepsSystem(b, c, ee) /\ KeepsSystem(c, d, ee) => KeepsSystem(b, d, ee)
BY DEF KeepsWords, KeepsSystem, Keeps

LEMMA KeepsChain == \A b, c, d, ee : Keeps(b, c, ee) /\ Keeps(c, d, ee) => Keeps(b, d, ee)
BY DEF KeepsWords, Keeps

LEMMA KeepsImplied ==
  \A b, c, ee : /\ KeepsTarget(b, c) => KeepsSystem(b, c, ee)
                /\ KeepsSystem(b, c, ee) => Keeps(b, c, ee)
                /\ Keeps(b, c, ee) \/ KeepsTarget(b, c) => GoodBlock(c)
BY DEF KeepsWords, KeepsSystem, KeepsTarget, Keeps

\* An error, and the fields that are the work of the checks alone.
LEMMA FieldsKept ==
  ASSUME NEW b, GoodBlock(b), NEW v
  PROVE  /\ v # "OK" => KeepsTarget(b, Fail(b, v)) /\ \A bad : KeepsTarget(b, FailIf(b, bad, v))
         /\ KeepsTarget(b, [b EXCEPT !.f = v]) /\ KeepsTarget(b, [b EXCEPT !.unused = v])
         /\ b.axes = {} \/ v = b.axis => KeepsTarget(b, [b EXCEPT !.axis = v])
<1> USE DEF GoodBlock, BlockFields, WordFields, CommandFields, Modes
<1>1. /\ KeepsTarget(b, [b EXCEPT !.f = v]) /\ KeepsTarget(b, [b EXCEPT !.unused = v])
      /\ b.axes = {} \/ v = b.axis => KeepsTarget(b, [b EXCEPT !.axis = v])
  BY DEF KeepsWords, KeepsTarget
<1>2. v # "OK" => KeepsTarget(b, [b EXCEPT !.status = v])
  BY DEF KeepsWords, KeepsTarget
<1>3. QED
  BY <1>1, <1>2, KeepsSelf DEF Fail, FailIf

LEMMA FailIfKept == \A b, bad, v : GoodBlock(b) /\ v # "OK" => KeepsTarget(b, FailIf(b, bad, v))
BY FieldsKept

LEMMA UsedKept == \A b, letters : GoodBlock(b) => KeepsTarget(b, Used(b, letters))
BY FieldsKept DEF Used

LEMMA TargetsKept ==
  ASSUME NEW b, GoodBlock(b), NEW v \in Vector, NEW ee
  PROVE  /\ KeepsSystem(b, [b EXCEPT !.xyz = v], ee) /\ KeepsSystem(b, [b EXCEPT !.ijk = v], ee)
         /\ Keeps(b, [b EXCEPT !.system = v], ee) /\ [b EXCEPT !.system = v].system = v
         /\ [b EXCEPT !.system = v].xyz = b.xyz
BY DEF KeepsWords, KeepsSystem, Keeps, GoodBlock, BlockFields, WordFields, CommandFields, Modes

LEMMA PointsAreVectors ==
  ASSUME NEW u \in Vector, NEW v \in Vector, NEW d \in Int
  PROVE  Plus(u, v) \in Vector /\ Minus(u, v) \in Vector /\ Origin \in Vector
         /\ ToolLengthVector(d) \in Vector
BY DEF Vector, Plus, Minus, Origin, ToolLengthVector

LEMMA ValIsInt ==
  ASSUME NEW b, b.words \in WordMaps, NEW letter
  PROVE  Val(b, letter) \in Int
BY DEF Val, Given, WordMaps

\* Step 3 starts with the values of the words.
LEMMA ValuedIsGood ==
  ASSUME NEW g, NEW jog, NEW b \in WordBlocks(g, jog), GoodParser(g)
  PROVE  /\ GoodBlock(Valued(b, g)) /\ Valued(b, g).system = g.coord_system
         /\ Valued(b, g).jog = b.jog /\ Valued(b, g).machine = b.machine
         /\ Valued(b, g).coord_select = b.coord_select /\ Valued(b, g).groups = b.groups
         /\ Valued(b, g).status = b.status /\ Valued(b, g).words = b.words
         /\ Valued(b, g).repair = {}
         /\ Valued(b, g).axes \subseteq Axes
         /\ Valued(b, g).non_modal \in OffsetActions => Valued(b, g).axis = "NON_MODAL"
         /\ \A a \in Valued(b, g).axes :
              Valued(b, g).xyz[a] = Val(Valued(b, g), a) * Unit(Valued(b, g))
<1> DEFINE axes == DOMAIN b.words \cap Axes
           claimed == [b EXCEPT !.axis = IF axes # {} /\ @ = "NONE" THEN "MOTION_MODE" ELSE @]
           values == [axes |-> axes, unused |-> DOMAIN b.words, f |-> Val(b, "F"), select |-> 0,
                      s |-> IF Given(b, "S") THEN Val(b, "S") ELSE g.spindle_speed,
                      xyz |-> [a \in Axes |-> Val(b, a) * Unit(b)],
                      ijk |-> [a \in Axes |-> Val(b, Offsets[a])],
                      system |-> g.coord_system, repair |-> {}]
           c == Updated(claimed, values)
<1>1. DOMAIN values = {"axes", "unused", "f", "select", "s", "xyz", "ijk", "system", "repair"}
  OBVIOUS
<1>2. /\ values.xyz = [a \in Axes |-> Val(b, a) * Unit(b)] /\ values.select = 0
      /\ values.ijk = [a \in Axes |-> Val(b, Offsets[a])]
      /\ values.system = g.coord_system /\ values.repair = {} /\ values.axes \subseteq Axes
  OBVIOUS
<1>3. values.xyz \in Vector /\ values.ijk \in Vector /\ values.system \in Vector
  <2>1. b.words \in WordMaps
    BY DEF WordBlocks
  <2>2. Unit(b) \in Int
    BY UnitsAssumption DEF Unit
  <2>3. \A letter : Val(b, letter) \in Int
    BY <2>1, ValIsInt
  <2> HIDE DEF values
  <2>4. QED
    BY <1>2, <2>2, <2>3 DEF Vector, GoodParser
<1> HIDE DEF values
<1>4. /\ DOMAIN claimed = WordFields
      /\ \A f \in {"words", "coord_select", "jog", "machine", "groups", "status", "units",
                    "non_modal"} : claimed[f] = b[f]
      /\ b.axis # "NONE" => claimed.axis = b.axis
  BY DEF WordBlocks, WordFields, CommandFields, Modes
<1> HIDE DEF claimed
<1>5. /\ DOMAIN c = BlockFields /\ c = [f \in DOMAIN c |-> c[f]]
      /\ \A f \in {"words", "coord_select", "jog", "machine", "groups", "status", "units",
                    "non_modal"} : c[f] = b[f]
      /\ b.axis # "NONE" => c.axis = b.axis
      /\ \A f \in DOMAIN values : c[f] = values[f]
  BY <1>1, <1>4 DEF Updated, BlockFields, WordFields, CommandFields, Modes
<1>6. Valued(b, g) = c
  BY Zenon DEF Valued, c, claimed, values, axes
<1>8. /\ \A a : Val(c, a) = Val(b, a)
      /\ Unit(c) = Unit(b) /\ c.axes \subseteq Axes /\ c.xyz = values.xyz
  <2> HIDE DEF c
  <2>1. c.words = b.words /\ c.units = b.units
    BY <1>5
  <2>2. QED
    BY <1>1, <1>2, <1>5, <2>1 DEF Val, Given, Unit
<1> HIDE DEF c
<1>9. \A a \in c.axes : c.xyz[a] = Val(c, a) * Unit(c)
  <2> SUFFICES ASSUME NEW a \in c.axes PROVE c.xyz[a] = Val(c, a) * Unit(c)
    OBVIOUS
  <2>1. c.xyz[a] = Val(b, a) * Unit(b)
    BY <1>2, <1>8
  <2>2. QED
    BY <1>8, <2>1
<1>10. c.non_modal \in OffsetActions => c.axis = "NON_MODAL"
  BY <1>5 DEF WordBlocks
<1>7. QED
  BY <1>1, <1>2, <1>3, <1>5, <1>6, <1>8, <1>9, <1>10 DEF GoodBlock, WordBlocks, Records

LEMMA EarlyChecksKept ==
  ASSUME NEW b, GoodBlock(b), NEW g
  PROVE  KeepsTarget(b, ToolLengthAxis(Dwell(FeedRate(b, g))))
<1>1. ASSUME NEW c, GoodBlock(c) PROVE KeepsTarget(c, FeedRate(c, g))
  <2>1. PICK f, bad : FeedRate(c, g) = FailIf([c EXCEPT !.f = f], bad, "UNDEFINED_FEED_RATE")
    BY DEF FeedRate
  <2> DEFINE d == [c EXCEPT !.f = f]
  <2>2. KeepsTarget(c, d)
    BY <1>1, FieldsKept
  <2> HIDE DEF d
  <2>3. GoodBlock(d) => KeepsTarget(d, FailIf(d, bad, "UNDEFINED_FEED_RATE"))
    BY FailIfKept
  <2>4. FeedRate(c, g) = FailIf(d, bad, "UNDEFINED_FEED_RATE")
    BY <2>1 DEF d
  <2>5. QED
    BY <2>2, <2>3, <2>4, KeepsTargetChain DEF KeepsTarget, KeepsWords
<1>2. ASSUME NEW c, GoodBlock(c) PROVE KeepsTarget(c, Dwell(c))
  <2> DEFINE d == FailIf(c, ~Given(c, "P"), "VALUE_WORD_MISSING")
  <2>1. KeepsTarget(c, d)
    BY <1>2, FailIfKept
  <2>2. Dwell(c) = IF c.non_modal = "DWELL" THEN Used(d, {"P"}) ELSE c
    BY DEF Dwell
  <2> HIDE DEF d
  <2>3. KeepsTarget(d, Used(d, {"P"}))
    BY <2>1, UsedKept DEF KeepsTarget, KeepsWords
  <2>4. QED
    BY <1>2, <2>1, <2>2, <2>3, KeepsSelf, KeepsTargetChain
<1>3. \A c : GoodBlock(c) => KeepsTarget(c, ToolLengthAxis(c))
  BY FailIfKept DEF ToolLengthAxis
<1>4. QED
  BY <1>1, <1>2, <1>3, KeepsTargetChain DEF KeepsTarget, KeepsWords

\* settings_read_coord_data(): the data of a sound record, or an error.
LEMMA ReadKept ==
  ASSUME NEW b, GoodBlock(b), NEW ee, GoodRecords(ee), NEW n \in Records
  PROVE  /\ KeepsSystem(b, Read(b, ee, n, "ijk"), ee)
         /\ Keeps(b, Read(b, ee, n, "system"), ee)
         /\ Read(b, ee, n, "system").status = "OK" =>
              /\ Sound(ee[n]) /\ Read(b, ee, n, "system").system = ee[n].data
              /\ Read(b, ee, n, "system").xyz = b.xyz
<1> DEFINE failed == Fail(b, "SETTING_READ_FAIL")
<1>1. CASE b.status # "OK"
  BY <1>1, KeepsSelf, KeepsImplied DEF Read
<1>2. CASE b.status = "OK" /\ Sound(ee[n])
  BY <1>2, TargetsKept, KeepsImplied DEF Read, GoodRecords
<1>3. CASE b.status = "OK" /\ ~Sound(ee[n])
  <2>1. KeepsTarget(b, failed) /\ failed.status # "OK"
    BY <1>3, FieldsKept DEF Fail, GoodBlock, BlockFields, WordFields
  <2> DEFINE c == [failed EXCEPT !.repair = {n}]
  <2>2. KeepsWords(failed, c) /\ c.repair = {n} /\ c.system = failed.system /\ c.status = failed.status
    BY <2>1 DEF KeepsTarget, KeepsWords, GoodBlock, BlockFields, WordFields, CommandFields, Modes
  <2>3. Read(b, ee, n, "system") = c /\ Read(b, ee, n, "ijk") = c
    BY <1>3 DEF Read
  <2> HIDE DEF failed, c
  <2>4. QED
    BY <1>3, <2>1, <2>2, <2>3 DEF KeepsTarget, KeepsWords, Keeps, KeepsSystem
<1>4. QED
  BY <1>1, <1>2, <1>3

LEMMA CoordinateSystemKept ==
  ASSUME NEW b, GoodBlock(b), NEW g, GoodParser(g), NEW ee, GoodRecords(ee),
         b.system = g.coord_system, b.coord_select # g.coord_select => "G12" \in b.groups
  PROVE  LET c == CoordinateSystem(b, g, ee)
         IN /\ Keeps(b, c, ee)
            /\ c.status = "OK" =>
                 /\ c.xyz = b.xyz
                 /\ IF c.coord_select = g.coord_select THEN c.system = g.coord_system
                    ELSE Sound(ee[c.coord_select]) /\ c.system = ee[c.coord_select].data
<1>1. b.coord_select \in Records
  BY DEF GoodBlock, Records, IndexG30, NCoordinateSystem
<1>2. QED
  BY <1>1, ReadKept, KeepsSelf, KeepsImplied DEF CoordinateSystem, Keeps, KeepsWords

\* Where the position would be without the offsets x and y.
Without(g, x, y) == Minus(Minus(g.position, x), y)

LEMMA SetCoordinateOffsetKept ==
  ASSUME NEW b, GoodBlock(b), NEW g, GoodParser(g), NEW ee
  PROVE  /\ KeepsSystem(b, SetCoordinateOffset(b, g), ee)
         /\ \A a \in b.axes \cap Axes : SetCoordinateOffset(b, g).xyz[a] =
              Without(g, b.system, ToolLengthVector(g.tool_length_offset))[a] - b.xyz[a]
<1> DEFINE here == Minus(Minus(g.position, b.system), ToolLengthVector(g.tool_length_offset))
           c == FailIf(b, b.axes = {}, "NO_AXIS_WORDS")
           v == [a \in Axes |-> IF a \in b.axes THEN here[a] - c.xyz[a] ELSE g.coord_offset[a]]
<1>1. KeepsTarget(b, c)
  BY FailIfKept
<1>2. SetCoordinateOffset(b, g) = [c EXCEPT !.xyz = v]
  BY DEF SetCoordinateOffset
<1>3. here \in Vector
  BY PointsAreVectors DEF GoodParser, GoodBlock
<1> HIDE DEF c, here
<1>4. v \in Vector
  BY <1>1, <1>3 DEF Vector, GoodParser, KeepsTarget, KeepsWords, GoodBlock
<1>6. \A a \in b.axes \cap Axes : v[a] = here[a] - b.xyz[a]
  BY <1>1 DEF KeepsTarget
<1>7. here = Without(g, b.system, ToolLengthVector(g.tool_length_offset))
  BY DEF here, Without
<1> HIDE DEF v
<1>8. [c EXCEPT !.xyz = v].xyz = v
  BY <1>1 DEF KeepsTarget, KeepsWords, GoodBlock, BlockFields
<1>5. QED
  BY <1>1, <1>2, <1>4, <1>6, <1>7, <1>8, TargetsKept, KeepsImplied, KeepsSystemChain

\* What the offsets of b and g add up to.
Offsetting(b, g) == Plus(Plus(b.system, g.coord_offset), ToolLengthVector(g.tool_length_offset))

LEMMA TargetKept ==
  ASSUME NEW b, GoodBlock(b), NEW g, GoodParser(g), NEW ee
  PROVE  /\ KeepsSystem(b, Target(b, g), ee)
         /\ b.axis = "MOTION_MODE" /\ b.non_modal = "NO_ACTION" /\ b.distance = "ABSOLUTE" =>
              \A a \in b.axes \cap Axes : Target(b, g).xyz[a] = Offsetting(b, g)[a] + b.xyz[a]
<1> DEFINE offset == Plus(Plus(b.system, g.coord_offset), ToolLengthVector(g.tool_length_offset))
<1>1. offset \in Vector
  BY PointsAreVectors DEF GoodParser, GoodBlock
<1> HIDE DEF offset
<1>2. CASE b.axis = "TOOL_LENGTH_OFFSET" \/ b.axes = {}
  <2>1. \A a \in b.axes \cap Axes : ~(b.axis = "MOTION_MODE")
    BY <1>2
  <2>2. QED
    BY <1>2, <2>1, KeepsSelf, KeepsImplied DEF Target
<1>3. CASE ~(b.axis = "TOOL_LENGTH_OFFSET" \/ b.axes = {})
  <2> DEFINE base == IF b.non_modal = "ABSOLUTE_OVERRIDE" THEN Origin
                     ELSE IF b.distance = "ABSOLUTE" THEN offset ELSE g.position
  <2>1. base \in Vector
    <3>1. Origin \in Vector /\ g.position \in Vector
      BY PointsAreVectors DEF GoodParser, Origin, Vector
    <3>2. QED
      BY <1>1, <3>1
  <2> DEFINE v == [a \in Axes |-> IF a \in b.axes THEN base[a] + b.xyz[a] ELSE g.position[a]]
  <2>7. b.non_modal = "NO_ACTION" /\ b.distance = "ABSOLUTE" => base = Offsetting(b, g)
    BY DEF offset, Offsetting
  <2> HIDE DEF base
  <2>2. v \in Vector
    BY <2>1 DEF Vector, GoodParser, GoodBlock
  <2>8. \A a \in b.axes \cap Axes : v[a] = base[a] + b.xyz[a]
    OBVIOUS
  <2>3. Target(b, g) = IF b.axis = "TOOL_LENGTH_OFFSET" \/ b.axes = {} THEN b
                       ELSE [b EXCEPT !.xyz = v]
    BY Zenon DEF Target, offset, base, v
  <2>4. Target(b, g) = [b EXCEPT !.xyz = v]
    BY <1>3, <2>3, Zenon
  <2> HIDE DEF v
  <2>5. KeepsSystem(b, [b EXCEPT !.xyz = v], ee)
    BY <2>2, TargetsKept
  <2>9. [b EXCEPT !.xyz = v].xyz = v
    BY DEF GoodBlock, BlockFields
  <2>6. QED
    BY <2>4, <2>5, <2>7, <2>8, <2>9
<1>4. QED
  BY <1>2, <1>3

LEMMA GoHomeKept ==
  ASSUME NEW b, GoodBlock(b), NEW g, GoodParser(g), NEW ee, GoodRecords(ee), NEW n \in Records
  PROVE  KeepsSystem(b, GoHome(b, g, ee, n), ee)
<1> DEFINE stored == Read(b, ee, n, "ijk")
           v == [a \in Axes |-> IF a \in b.axes THEN stored.ijk[a] ELSE g.position[a]]
<1>1. KeepsSystem(b, stored, ee) /\ GoodBlock(stored)
  BY ReadKept, KeepsImplied
<1>2. GoHome(b, g, ee, n) = IF b.axes = {} THEN [stored EXCEPT !.axis = "NONE"]
                            ELSE [stored EXCEPT !.ijk = v]
  BY DEF GoHome
<1> HIDE DEF stored
<1>3. v \in Vector
  BY <1>1 DEF GoodBlock, Vector, GoodParser
<1> HIDE DEF v
<1>4. /\ b.axes = {} => KeepsSystem(stored, [stored EXCEPT !.axis = "NONE"], ee)
      /\ KeepsSystem(stored, [stored EXCEPT !.ijk = v], ee)
  <2>1. stored.axes = b.axes
    BY <1>1 DEF KeepsSystem, Keeps, KeepsWords
  <2>2. QED
    BY <1>1, <1>3, <2>1, FieldsKept, TargetsKept, KeepsImplied
<1>5. QED
  BY <1>1, <1>2, <1>4, KeepsSystemChain

\* G10 takes one of the six systems.
LEMMA SetCoordinateDataKept ==
  ASSUME NEW b, GoodBlock(b), NEW g, GoodParser(g), NEW ee, GoodRecords(ee)
  PROVE  /\ KeepsSystem(b, SetCoordinateData(b, g, ee), ee)
         /\ Val(b, "L") = 20 => \A a \in b.axes \cap Axes : SetCoordinateData(b, g, ee).ijk[a] =
              Without(g, g.coord_offset, ToolLengthVector(g.tool_length_offset))[a] - b.xyz[a]
<1> DEFINE p == Val(b, "P") % 256
           n == IF p > 0 THEN p - 1 ELSE b.coord_select
           l == Val(b, "L")
           c1 == FailIf(b, b.axes = {}, "NO_AXIS_WORDS")
           c2 == FailIf(c1, ~Given(b, "P") /\ ~Given(b, "L"), "VALUE_WORD_MISSING")
           c3 == FailIf(c2, p > NCoordinateSystem, "UNSUPPORTED_COORD_SYS")
           c4 == FailIf(c3, l \notin {2, 20} \/ (l = 2 /\ Given(b, "R")), "UNSUPPORTED_COMMAND")
           c5 == Used(c4, {"L", "P"})
           stored == Read(c5, ee, n, "ijk")
           here == Minus(Minus(g.position, g.coord_offset), ToolLengthVector(g.tool_length_offset))
           v == [a \in Axes |-> IF a \notin b.axes THEN stored.ijk[a]
                                ELSE IF l = 20 THEN here[a] - b.xyz[a] ELSE b.xyz[a]]
<1>1. p \in 0..255 /\ b.coord_select \in 0..5 /\ NCoordinateSystem = 6 /\ Records = 0..7
  BY ValIsInt DEF GoodBlock, Records, IndexG30, NCoordinateSystem
<1>2. n \in Nat /\ (p <= NCoordinateSystem => n \in 0..5 /\ n \in Records)
  BY <1>1
<1>3. SetCoordinateData(b, g, ee) = [stored EXCEPT !.select = n, !.ijk = v]
  BY Zenon DEF SetCoordinateData, p, n, l, c1, c2, c3, c4, c5, stored, here, v
<1>4. here \in Vector
  BY PointsAreVectors DEF GoodParser
<1>18. /\ here = Without(g, g.coord_offset, ToolLengthVector(g.tool_length_offset))
       /\ Val(b, "L") = 20 => \A a \in b.axes \cap Axes : v[a] = here[a] - b.xyz[a]
  <2> HIDE DEF stored, here
  <2>1. here = Without(g, g.coord_offset, ToolLengthVector(g.tool_length_offset))
    BY DEF here, Without
  <2>2. QED
    BY <2>1
<1> HIDE DEF p, n, l, here
<1>5. KeepsTarget(b, c1)
  BY FailIfKept
<1> HIDE DEF c1
<1>6. KeepsTarget(c1, c2)
  BY <1>5, KeepsImplied, FailIfKept
<1> HIDE DEF c2
<1>7. KeepsTarget(c2, c3) /\ (c3.status = "OK" => p <= NCoordinateSystem)
  <2>1. GoodBlock(c2)
    BY <1>6, KeepsImplied
  <2>2. KeepsTarget(c2, c3)
    BY <2>1, FailIfKept
  <2>3. p > NCoordinateSystem => c3.status # "OK"
    BY <2>1 DEF FailIf, Fail, GoodBlock, BlockFields, WordFields
  <2>4. QED
    BY <1>1, <2>2, <2>3
<1> HIDE DEF c3
<1>8. KeepsTarget(c3, c4)
  BY <1>7, KeepsImplied, FailIfKept
<1> HIDE DEF c4
<1>9. KeepsTarget(c4, c5)
  BY <1>8, KeepsImplied, UsedKept
<1> HIDE DEF c5
<1>10. KeepsTarget(b, c5) /\ GoodBlock(c5)
  BY <1>5, <1>6, <1>7, <1>8, <1>9, KeepsTargetChain, KeepsImplied
<1>11. c5.status = "OK" => p <= NCoordinateSystem
  BY <1>7, <1>8, <1>9 DEF KeepsTarget, KeepsWords
<1>12. KeepsSystem(c5, stored, ee) /\ (stored.status = "OK" => p <= NCoordinateSystem)
  <2>1. CASE c5.status = "OK"
    BY <1>2, <1>10, <1>11, <2>1, ReadKept
  <2>2. CASE c5.status # "OK"
    BY <1>10, <2>2, KeepsSelf, KeepsImplied DEF Read
  <2>3. QED
    BY <2>1, <2>2
<1> HIDE DEF stored
<1>13. GoodBlock(stored)
  BY <1>12, KeepsImplied DEF KeepsSystem
<1>14. v \in Vector
  BY <1>4, <1>13 DEF GoodBlock, Vector
<1> HIDE DEF v
<1> DEFINE d == [stored EXCEPT !.select = n, !.ijk = v]
<1>15. KeepsSystem(stored, d, ee)
  BY <1>2, <1>12, <1>13, <1>14
     DEF KeepsSystem, Keeps, KeepsWords, GoodBlock, BlockFields, WordFields, CommandFields, Modes
<1>19. d.ijk = v
  BY <1>13 DEF GoodBlock, BlockFields
<1>20. SetCoordinateData(b, g, ee) = d
  BY <1>3 DEF d
<1> HIDE DEF d
<1>16. KeepsSystem(b, c5, ee)
  BY <1>10, KeepsImplied
<1>17. QED
  BY <1>12, <1>15, <1>16, <1>18, <1>19, <1>20, KeepsSystemChain

LEMMA NonModalActionKept ==
  ASSUME NEW b, GoodBlock(b), NEW g, GoodParser(g), NEW ee, GoodRecords(ee)
  PROVE  KeepsSystem(b, NonModalAction(b, g, ee), ee)
<1> DEFINE t == Target(b, g)
<1>1. KeepsSystem(b, t, ee) /\ GoodBlock(t)
  BY TargetKept, KeepsImplied
<1>2. \A n \in {IndexG28, IndexG30} : KeepsSystem(b, GoHome(t, g, ee, n), ee)
  <2>1. IndexG28 \in Records /\ IndexG30 \in Records
    BY DEF Records, IndexG28, IndexG30, NCoordinateSystem
  <2> HIDE DEF t
  <2>2. \A n \in Records : KeepsSystem(t, GoHome(t, g, ee, n), ee)
    BY <1>1, GoHomeKept
  <2>3. QED
    BY <1>1, <2>1, <2>2, KeepsSystemChain
<1> DEFINE bad == b.motion \notin {"SEEK", "LINEAR"}
           overridden == FailIf(t, bad, "G53_INVALID_MOTION_MODE")
<1>3. KeepsSystem(b, overridden, ee)
  <2> HIDE DEF t, bad
  <2>1. KeepsTarget(t, overridden)
    BY <1>1, FailIfKept
  <2> HIDE DEF overridden
  <2>2. QED
    BY <1>1, <2>1, KeepsImplied, KeepsSystemChain
<1>4. /\ KeepsSystem(b, SetCoordinateData(b, g, ee), ee)
      /\ KeepsSystem(b, SetCoordinateOffset(b, g), ee)
  BY SetCoordinateDataKept, SetCoordinateOffsetKept
<1>5. \/ NonModalAction(b, g, ee) = SetCoordinateData(b, g, ee)
      \/ NonModalAction(b, g, ee) = SetCoordinateOffset(b, g)
      \/ NonModalAction(b, g, ee) = GoHome(t, g, ee, IndexG28)
      \/ NonModalAction(b, g, ee) = GoHome(t, g, ee, IndexG30)
      \/ NonModalAction(b, g, ee) = overridden
      \/ NonModalAction(b, g, ee) = t
  BY DEF NonModalAction
<1> HIDE DEF t, overridden
<1>6. QED
  BY <1>1, <1>2, <1>3, <1>4, <1>5

\* What the words of a block mean once they are checked: an offset that makes the
\* position read as given, or an absolute position under all offsets.
Meant(c, g) ==
  LET tool == ToolLengthVector(g.tool_length_offset)
  IN /\ c.axes \subseteq Axes
     /\ c.axes # {} /\ c.non_modal \in OffsetActions => c.axis = "NON_MODAL"
     /\ \A a \in c.axes :
          LET named == Val(c, a) * Unit(c)
          IN /\ c.non_modal = "SET_COORDINATE_OFFSET" => c.xyz[a] = Without(g, c.system, tool)[a] - named
             /\ c.non_modal = "SET_COORDINATE_DATA" /\ Val(c, "L") = 20
                  => c.ijk[a] = Without(g, g.coord_offset, tool)[a] - named
             /\ c.non_modal = "NO_ACTION" /\ c.distance = "ABSOLUTE" /\ c.axis = "MOTION_MODE"
                  => c.xyz[a] = Offsetting(c, g)[a] + named

LEMMA NonModalMeant ==
  ASSUME NEW b, GoodBlock(b), NEW g, GoodParser(g), NEW ee, GoodRecords(ee), b.axes \subseteq Axes,
         b.axes # {} /\ b.non_modal \in OffsetActions => b.axis = "NON_MODAL",
         \A a \in b.axes : b.xyz[a] = Val(b, a) * Unit(b)
  PROVE  Meant(NonModalAction(b, g, ee), g)
<1> DEFINE c == NonModalAction(b, g, ee)
           tool == ToolLengthVector(g.tool_length_offset)
<1>1. KeepsSystem(b, c, ee)
  BY NonModalActionKept
<1>2. /\ b.non_modal = "SET_COORDINATE_OFFSET" => c = SetCoordinateOffset(b, g)
      /\ b.non_modal = "SET_COORDINATE_DATA" => c = SetCoordinateData(b, g, ee)
      /\ b.non_modal = "NO_ACTION" => c = Target(b, g)
  BY DEF NonModalAction
<1> HIDE DEF c
<1>3. /\ c.axes = b.axes /\ c.non_modal = b.non_modal /\ c.distance = b.distance /\ c.system = b.system
      /\ c.axes # {} => c.axis = b.axis
      /\ \A letter : Val(c, letter) = Val(b, letter)
      /\ Unit(c) = Unit(b) /\ Offsetting(c, g) = Offsetting(b, g)
  BY <1>1 DEF KeepsSystem, Keeps, KeepsWords, Val, Given, Unit, Offsetting
<1>4. b.non_modal = "SET_COORDINATE_OFFSET" =>
        \A a \in b.axes : c.xyz[a] = Without(g, b.system, tool)[a] - b.xyz[a]
  BY <1>2, SetCoordinateOffsetKept
<1>5. b.non_modal = "SET_COORDINATE_DATA" /\ Val(b, "L") = 20 =>
        \A a \in b.axes : c.ijk[a] = Without(g, g.coord_offset, tool)[a] - b.xyz[a]
  BY <1>2, SetCoordinateDataKept
<1>6. b.non_modal = "NO_ACTION" /\ b.distance = "ABSOLUTE" /\ b.axis = "MOTION_MODE" =>
        \A a \in b.axes : c.xyz[a] = Offsetting(b, g)[a] + b.xyz[a]
  BY <1>2, TargetKept
<1> DEFINE named(a) == Val(b, a) * Unit(b)
<1>7. \A a \in b.axes : b.xyz[a] = named(a)
  OBVIOUS
<1> HIDE DEF named, tool
<1>8. \A a \in c.axes :
        /\ c.non_modal = "SET_COORDINATE_OFFSET" => c.xyz[a] = Without(g, c.system, tool)[a] - named(a)
        /\ c.non_modal = "SET_COORDINATE_DATA" /\ Val(c, "L") = 20
             => c.ijk[a] = Without(g, g.coord_offset, tool)[a] - named(a)
        /\ c.non_modal = "NO_ACTION" /\ c.distance = "ABSOLUTE" /\ c.axis = "MOTION_MODE"
             => c.xyz[a] = Offsetting(c, g)[a] + named(a)
  BY <1>3, <1>4, <1>5, <1>6, <1>7
<1>9. \A a : Val(c, a) * Unit(c) = named(a)
  BY <1>3 DEF named
<1>10. c.axes \subseteq Axes /\ (c.axes # {} /\ c.non_modal \in OffsetActions => c.axis = "NON_MODAL")
  BY <1>3
<1> HIDE DEF named
<1>11. Meant(c, g)
  BY <1>8, <1>9, <1>10, Zenon DEF Meant, tool
<1>12. QED
  BY <1>11 DEF c

\* The checks that follow leave the meaning alone.
LEMMA MeantStill ==
  ASSUME NEW b, NEW c, NEW g, KeepsTarget(b, c), Meant(b, g)
  PROVE  Meant(c, g)
<1>1. /\ c.axes = b.axes /\ c.non_modal = b.non_modal /\ c.distance = b.distance /\ c.system = b.system
      /\ c.xyz = b.xyz /\ c.ijk = b.ijk /\ (c.axes # {} => c.axis = b.axis)
      /\ \A letter : Val(c, letter) = Val(b, letter)
      /\ Unit(c) = Unit(b) /\ Offsetting(c, g) = Offsetting(b, g)
  BY DEF KeepsTarget, KeepsWords, Val, Given, Unit, Offsetting
<1>2. QED
  BY <1>1 DEF Meant

LEMMA ArcKept ==
  ASSUME NEW b, GoodBlock(b), NEW g
  PROVE  KeepsTarget(b, Arc(b, g))
<1>1. ASSUME NEW c, GoodBlock(c), NEW bad, NEW worse, NEW letters, NEW v, NEW w, v # "OK", w # "OK"
      PROVE  /\ KeepsTarget(c, FailIf(FailIf(c, bad, v), worse, w))
             /\ KeepsTarget(c, FailIf(Used(FailIf(c, bad, v), letters), worse, w))
             /\ KeepsTarget(c, FailIf(FailIf(Used(c, letters), bad, v), worse, w))
  <2>1. \A d : GoodBlock(d) => KeepsTarget(d, FailIf(d, bad, v)) /\ KeepsTarget(d, FailIf(d, worse, w))
                               /\ KeepsTarget(d, Used(d, letters))
    BY <1>1, FailIfKept, UsedKept
  <2>2. \A d, e : KeepsTarget(d, e) => GoodBlock(e)
    BY KeepsImplied
  <2>3. QED
    BY <1>1, <2>1, <2>2, KeepsTargetChain
<1>2. ASSUME NEW c, GoodBlock(c) PROVE KeepsTarget(c, RadiusArc(c, g))
  <2>1. PICK bad, worse : RadiusArc(c, g) =
          FailIf(FailIf(Used(c, {"R"}), bad, "INVALID_TARGET"), worse, "ARC_RADIUS_ERROR")
    BY Zenon DEF RadiusArc
  <2>2. QED
    BY <1>1, <1>2, <2>1
<1>3. ASSUME NEW c, GoodBlock(c) PROVE KeepsTarget(c, CentreArc(c, g))
  <2>1. PICK bad, worse : CentreArc(c, g) =
          FailIf(Used(FailIf(c, bad, "NO_OFFSETS_IN_PLANE"), {"I", "J", "K"}), worse, "INVALID_TARGET")
    BY Zenon DEF CentreArc
  <2>2. QED
    BY <1>1, <1>3, <2>1
<1>4. PICK bad, worse : LET c == FailIf(FailIf(b, bad, "NO_AXIS_WORDS"), worse, "NO_AXIS_WORDS_IN_PLANE")
                        IN Arc(b, g) = IF Given(b, "R") THEN RadiusArc(c, g) ELSE CentreArc(c, g)
  BY Zenon DEF Arc
<1> DEFINE d == FailIf(FailIf(b, bad, "NO_AXIS_WORDS"), worse, "NO_AXIS_WORDS_IN_PLANE")
<1>5. KeepsTarget(b, d) /\ GoodBlock(d)
  BY <1>1, KeepsImplied
<1>6. Arc(b, g) = IF Given(b, "R") THEN RadiusArc(d, g) ELSE CentreArc(d, g)
  BY <1>4
<1> HIDE DEF d
<1>7. QED
  BY <1>2, <1>3, <1>5, <1>6, KeepsTargetChain

LEMMA MotionModeKept ==
  ASSUME NEW b, GoodBlock(b), NEW g
  PROVE  KeepsTarget(b, MotionMode(b, g))
<1> DEFINE fed == FailIf(b, b.f = 0, "UNDEFINED_FEED_RATE")
           idle == IF b.axes = {} THEN "NONE" ELSE b.axis
<1>1. KeepsTarget(b, fed) /\ GoodBlock(fed)
  BY FailIfKept, KeepsImplied
<1>2. KeepsTarget(fed, Arc(fed, g))
  BY <1>1, ArcKept
<1>3. \E bad, worse :
        Probe(fed, g) = FailIf(FailIf(fed, bad, "NO_AXIS_WORDS"), worse, "INVALID_TARGET")
  BY Zenon DEF Probe
<1>4. \/ MotionMode(b, g) = FailIf(b, b.axes # {}, "AXIS_WORDS_EXIST")
      \/ MotionMode(b, g) = b
      \/ MotionMode(b, g) = [b EXCEPT !.axis = idle]
      \/ MotionMode(b, g) = [fed EXCEPT !.axis = idle]
      \/ MotionMode(b, g) = Arc(fed, g)
      \/ MotionMode(b, g) = Probe(fed, g)
  BY DEF MotionMode
<1> HIDE DEF fed
<1>9. /\ b.axes = {} \/ idle = b.axis
      /\ fed.axes = {} \/ idle = fed.axis
  BY <1>1 DEF KeepsTarget, KeepsWords
<1> HIDE DEF idle
<1>5. KeepsTarget(fed, Probe(fed, g))
  <2>1. PICK bad, worse :
          Probe(fed, g) = FailIf(FailIf(fed, bad, "NO_AXIS_WORDS"), worse, "INVALID_TARGET")
    BY <1>3
  <2> DEFINE c == FailIf(fed, bad, "NO_AXIS_WORDS")
  <2>2. KeepsTarget(fed, c) /\ GoodBlock(c)
    BY <1>1, FailIfKept, KeepsImplied
  <2> HIDE DEF c
  <2>3. KeepsTarget(c, FailIf(c, worse, "INVALID_TARGET"))
    BY <2>2, FailIfKept
  <2>4. QED
    BY <2>1, <2>2, <2>3, KeepsTargetChain DEF c
<1>6. KeepsTarget(b, [b EXCEPT !.axis = idle]) /\ KeepsTarget(fed, [fed EXCEPT !.axis = idle])
  BY <1>1, <1>9, FieldsKept
<1>7. KeepsTarget(b, b) /\ KeepsTarget(b, FailIf(b, b.axes # {}, "AXIS_WORDS_EXIST"))
  BY KeepsSelf, FailIfKept
<1>8. QED
  BY <1>1, <1>2, <1>4, <1>5, <1>6, <1>7, KeepsTargetChain

\* A jog that is accepted ends within the travel.
LEMMA JogOnlyKept ==
  ASSUME NEW b, GoodBlock(b)
  PROVE  /\ KeepsTarget(b, JogOnly(AllUsed(b)))
         /\ JogOnly(AllUsed(b)).status = "OK" /\ b.jog /\ SoftLimits
              => ~OutOfTravel(JogOnly(AllUsed(b)).xyz)
         /\ JogOnly(AllUsed(b)).status = "OK" /\ b.jog
              => b.non_modal \notin OffsetActions /\ "G12" \notin b.groups
<1> DEFINE c == AllUsed(b)
<1>1. KeepsTarget(b, c) /\ GoodBlock(c)
  BY FailIfKept, KeepsImplied DEF AllUsed
<1> DEFINE bad == ~(c.groups \subseteq {"G0", "G3", "G6"}) \/
                     c.non_modal \notin {"NO_ACTION", "ABSOLUTE_OVERRIDE"}
<1>2. JogOnly(c) = IF c.jog THEN FailIf(FailIf(c, bad, "INVALID_JOG_COMMAND"),
                                        SoftLimits /\ OutOfTravel(c.xyz), "TRAVEL_EXCEEDED")
                   ELSE c
  BY Zenon DEF JogOnly, bad
<1>9. ~bad => b.non_modal \notin OffsetActions /\ "G12" \notin b.groups
  <2> HIDE DEF c
  <2>1. c.non_modal = b.non_modal /\ c.groups = b.groups
    BY <1>1 DEF KeepsTarget, KeepsWords
  <2>2. QED
    BY <2>1 DEF OffsetActions
<1> HIDE DEF c, bad
<1> DEFINE d == FailIf(c, bad, "INVALID_JOG_COMMAND")
           far == SoftLimits /\ OutOfTravel(c.xyz)
           e == FailIf(d, far, "TRAVEL_EXCEEDED")
<1>3. KeepsTarget(c, d) /\ GoodBlock(d)
  BY <1>1, FailIfKept, KeepsImplied
<1>10. d.status = "OK" => ~bad
  BY <1>1 DEF FailIf, Fail, GoodBlock, BlockFields, WordFields
<1> HIDE DEF d
<1>4. KeepsTarget(d, e) /\ (far => e.status # "OK")
  <2>1. "status" \in DOMAIN d
    BY <1>3 DEF GoodBlock, BlockFields, WordFields
  <2>2. far => e.status # "OK"
    BY <2>1 DEF FailIf, Fail
  <2> HIDE DEF far
  <2>3. QED
    BY <1>3, <2>2, FailIfKept
<1>5. JogOnly(c) = IF c.jog THEN e ELSE c
  BY <1>2 DEF d, far, e
<1> HIDE DEF e
<1>6. KeepsTarget(b, JogOnly(c))
  BY <1>1, <1>3, <1>4, <1>5, KeepsTargetChain
<1>7. e.xyz = c.xyz /\ c.jog = b.jog /\ (e.status = "OK" => d.status = "OK")
  BY <1>1, <1>3, <1>4 DEF KeepsTarget, KeepsWords
<1>8. QED
  BY <1>4, <1>5, <1>6, <1>7, <1>9, <1>10 DEF c

\* What the checks make of the words of a line: a block of its type, with the
\* data of the coordinate system it selects, within the travel if it is a jog. A
\* record that is to be repaired is not sound. What it programs is where its words
\* have it.
LEMMA CheckedIsGood ==
  ASSUME NEW g, GoodParser(g), NEW jog, NEW b \in WordBlocks(g, jog), NEW ee, GoodRecords(ee)
  PROVE  LET c == Checked(b, g, ee)
         IN /\ c.machine = b.machine /\ c.repair \in SUBSET Records
            /\ \A n \in c.repair : ~Sound(ee[n])
            /\ c.status = "OK" =>
                 /\ GoodBlock(c) /\ c.jog = jog
                 /\ jog /\ SoftLimits => ~OutOfTravel(c.xyz)
                 /\ IF c.coord_select = g.coord_select THEN c.system = g.coord_system
                    ELSE Sound(ee[c.coord_select]) /\ c.system = ee[c.coord_select].data
                 /\ jog => /\ c.coord_select = g.coord_select
                           /\ c.non_modal \notin OffsetActions
                 /\ Meant(c, g)
<1> DEFINE v == Valued(b, g)
           feed == Dwell(FeedRate(v, g))
           early == ToolLengthAxis(feed)
           system == CoordinateSystem(early, g, ee)
           values == NonModalAction(system, g, ee)
           moved == MotionMode(values, g)
           done == JogOnly(AllUsed(moved))
           none == [repair |-> {}]
<1>1. Checked(b, g, ee) = IF b.status # "OK" THEN Updated(b, none) ELSE done
  BY Zenon DEF Checked, v, feed, early, system, values, moved, done, none
<1>2. CASE b.status # "OK"
  <2> DEFINE c == Updated(b, none)
  <2>1. DOMAIN none = {"repair"} /\ none.repair = {}
    OBVIOUS
  <2> HIDE DEF none
  <2>2. c.status = b.status /\ c.machine = b.machine /\ c.repair = {}
    BY <2>1 DEF Updated, WordBlocks, WordFields, CommandFields, Modes
  <2> HIDE DEF c
  <2>3. QED
    BY <1>1, <1>2, <2>2 DEF c
<1>3. CASE b.status = "OK"
  <2>1. /\ GoodBlock(v) /\ v.system = g.coord_system /\ v.jog = jog /\ v.machine = b.machine
        /\ v.coord_select = b.coord_select /\ v.groups = b.groups
        /\ v.repair = {} /\ v.axes \subseteq Axes
        /\ v.non_modal \in OffsetActions => v.axis = "NON_MODAL"
        /\ \A a \in v.axes : v.xyz[a] = Val(v, a) * Unit(v)
    BY ValuedIsGood DEF WordBlocks
  <2>2. b.coord_select # g.coord_select => "G12" \in b.groups
    BY DEF WordBlocks
  <2> HIDE DEF v
  <2>3. KeepsTarget(v, early)
    BY <2>1, EarlyChecksKept
  <2> HIDE DEF feed, early
  <2>4. /\ GoodBlock(early) /\ early.system = g.coord_system
        /\ early.coord_select # g.coord_select => "G12" \in early.groups
    BY <2>1, <2>2, <2>3 DEF KeepsTarget, KeepsWords
  <2>5. /\ Keeps(early, system, ee)
        /\ system.status = "OK" =>
             /\ system.xyz = early.xyz
             /\ IF system.coord_select = g.coord_select THEN system.system = g.coord_system
                ELSE Sound(ee[system.coord_select]) /\ system.system = ee[system.coord_select].data
    BY <2>4, CoordinateSystemKept
  <2> HIDE DEF system
  <2>6. GoodBlock(system)
    BY <2>5, KeepsImplied
  <2>7. KeepsSystem(system, values, ee) /\ GoodBlock(values)
    BY <2>6, NonModalActionKept, KeepsImplied
  <2>17. system.status = "OK" => Meant(values, g)
    <3>1. KeepsWords(v, system)
      BY <2>3, <2>5 DEF KeepsTarget, Keeps, KeepsWords
    <3>2. /\ system.axes = v.axes /\ system.non_modal = v.non_modal /\ (v.axes # {} => system.axis = v.axis)
          /\ \A a : Val(system, a) = Val(v, a)
          /\ Unit(system) = Unit(v)
      BY <3>1 DEF KeepsWords, Val, Given, Unit
    <3>3. system.status = "OK" => \A a \in system.axes : system.xyz[a] = Val(system, a) * Unit(system)
      <4> SUFFICES ASSUME system.status = "OK", NEW a \in system.axes
                   PROVE  system.xyz[a] = Val(system, a) * Unit(system)
        OBVIOUS
      <4>1. system.xyz = v.xyz
        BY <2>3, <2>5 DEF KeepsTarget
      <4>2. v.xyz[a] = Val(v, a) * Unit(v)
        BY <2>1, <3>2
      <4>3. QED
        BY <3>2, <4>1, <4>2
    <3>4. QED
      BY <2>1, <2>6, <3>2, <3>3, NonModalMeant
  <2> HIDE DEF values
  <2>8. KeepsTarget(values, moved) /\ GoodBlock(moved)
    BY <2>7, MotionModeKept, KeepsImplied
  <2> HIDE DEF moved
  <2>9. /\ KeepsTarget(moved, done)
        /\ done.status = "OK" /\ moved.jog /\ SoftLimits => ~OutOfTravel(done.xyz)
        /\ done.status = "OK" /\ moved.jog => moved.non_modal \notin OffsetActions /\ "G12" \notin moved.groups
    BY <2>8, JogOnlyKept
  <2> HIDE DEF done
  <2>10. KeepsSystem(system, done, ee)
    BY <2>7, <2>8, <2>9, KeepsImplied, KeepsSystemChain
  <2>11. Keeps(v, done, ee)
    BY <2>3, <2>5, <2>10, KeepsImplied, KeepsChain
  <2>12. moved.jog = jog
    BY <2>1, <2>3, <2>5, <2>7, <2>8 DEF Keeps, KeepsSystem, KeepsTarget, KeepsWords
  <2>13. done.status = "OK" => /\ system.status = "OK" /\ done.system = system.system
                               /\ done.coord_select = system.coord_select
    BY <2>10 DEF Keeps, KeepsSystem, KeepsWords
  <2>14. /\ GoodBlock(done) /\ done.jog = jog /\ done.machine = b.machine
         /\ \A n \in done.repair : ~Sound(ee[n])
    BY <2>1, <2>11 DEF Keeps, KeepsWords
  <2>15. done.repair \in SUBSET Records
    BY <2>14 DEF GoodBlock
  <2>18. done.status = "OK" => Meant(done, g)
    BY <2>8, <2>9, <2>13, <2>17, KeepsTargetChain, MeantStill
  <2>19. done.status = "OK" /\ jog => done.coord_select = g.coord_select /\ done.non_modal \notin OffsetActions
    <3>1. moved.groups = b.groups /\ done.coord_select = b.coord_select /\ done.non_modal = moved.non_modal
      BY <2>1, <2>3, <2>5, <2>7, <2>8, <2>9 DEF Keeps, KeepsSystem, KeepsTarget, KeepsWords
    <3>2. QED
      BY <2>2, <2>9, <2>12, <3>1
  <2>16. QED
    BY <1>1, <1>3, <2>5, <2>9, <2>12, <2>13, <2>14, <2>15, <2>18, <2>19
<1>4. QED
  BY <1>2, <1>3

-----------------------------------------------------------------------------
(* The actions of a block, and how they follow each other.                  *)

Targeted == {"line", "arc", "position", "jog", "probe", "probe_open", "probe_run"}
Tracked == {"position", "coord_system", "coord_offset", "tool_length_offset", "coord_select"}

GoodField(f, v) ==
  /\ f # "position"
  /\ f \in {"coord_system", "coord_offset"} => v \in Vector
  /\ f = "tool_length_offset" => v \in Int
  /\ f = "coord_select" => v \in 0..5

\* The bytes of a record after the first one.
LaterBytes == {"put_y", "put_z", "put_sum"}
Writes == {"put_x"} \cup LaterBytes

GoodOp(op) ==
  /\ op.do \in Targeted => op.target \in Vector
  /\ op.do = "set" => DOMAIN op.to \cap Tracked = {}
  /\ op.do = "offset" => \A f \in DOMAIN op.to : GoodField(f, op.to[f])
  /\ op.do \in Writes => op.record \in Records /\ op.data \in Vector
  /\ op.do = "clear" => op.record \in Records
  /\ op.do = "home" => op.axes \subseteq Axes
  /\ op.do = "homed" => op.startup \in Seq(StartupLines)
  /\ op.do = "store" => op.words \in Lines

\* Actions that come after a line, to the end of that line; actions that are not
\* the first, and actions that are not the last.
AtTarget == {"position", "jog", "probe_run"}
Arriving == AtTarget \cup LaterBytes
Unwritten == {"put_x", "put_y", "put_z"}
Awaiting == {"arc", "line", "jog", "home"} \cup Unwritten

Follows(op, next) ==
  /\ op.do = "arc" => next.do = "line"
  /\ op.do = "line" => next.do \in {"line"} \cup AtTarget
  /\ op.do = "jog" => next.do = "position"
  /\ next.do \in AtTarget => op.do \in {"line", "jog"} /\ next.target = op.target
  /\ op.do = "put_x" <=> next.do = "put_y"
  /\ op.do = "put_y" <=> next.do = "put_z"
  /\ op.do = "put_z" <=> next.do = "put_sum"
  /\ op.do \in Unwritten => next.record = op.record /\ next.data = op.data

IsSeq(s) == s \in Seq({s[i] : i \in DOMAIN s})

Announced(s, i) == \E j \in 1..Len(s) : j > i /\ s[j].do = "wco"

\* A sequence of actions, and one that does not start at the end of a line.
Chain(s) ==
  /\ IsSeq(s)
  /\ \A i \in 1..Len(s) : GoodOp(s[i])
  /\ \A i \in 1..Len(s) : s[i].do \in Awaiting => i < Len(s)
  /\ \A i \in 1..Len(s) : i < Len(s) => Follows(s[i], s[i + 1])
  /\ \A i \in 1..Len(s) : s[i].do = "offset" => Announced(s, i)

Fresh(s) == Chain(s) /\ (s # <<>> => s[1].do \notin Arriving)

\* The actions of s are of the kinds K.
OfKinds(s, K) == \A i \in 1..Len(s) : s[i].do \in K
Part(s, K) == Fresh(s) /\ OfKinds(s, K)

LEMMA SequencesAreSeq ==
  ASSUME NEW S, NEW s \in Seq(S)
  PROVE  IsSeq(s)
<1>1. Len(s) \in Nat /\ DOMAIN s = 1..Len(s) /\ s = [i \in 1..Len(s) |-> s[i]]
  OBVIOUS
<1> DEFINE T == {s[i] : i \in DOMAIN s}
<1>2. \A i \in 1..Len(s) : s[i] \in T
  BY <1>1
<1> HIDE DEF T
<1>3. s \in Seq(T)
  BY <1>1, <1>2
<1>4. QED
  BY <1>3 DEF IsSeq, T

LEMMA NothingIsFresh == \A K : Part(<<>>, K)
<1>1. <<>> \in Seq({})
  OBVIOUS
<1>2. IsSeq(<<>>)
  BY <1>1, SequencesAreSeq
<1>3. QED
  BY <1>2 DEF Part, Fresh, Chain, OfKinds

LEMMA SingleIsFresh ==
  ASSUME NEW K, NEW op, GoodOp(op), op.do \in K, op.do \notin Awaiting \cup {"offset"}
  PROVE  /\ Chain(<<op>>) /\ OfKinds(<<op>>, K) /\ <<op>>[1] = op
         /\ op.do \notin Arriving => Part(<<op>>, K)
<1>1. <<op>> \in Seq({op}) /\ Len(<<op>>) = 1 /\ <<op>>[1] = op
  OBVIOUS
<1>2. IsSeq(<<op>>)
  BY <1>1, SequencesAreSeq
<1> DEFINE s == <<op>>
<1> HIDE DEF s
<1>3. QED
  BY <1>1, <1>2 DEF Part, Fresh, Chain, OfKinds, s

LEMMA PrependedIsChain ==
  ASSUME NEW op, GoodOp(op), NEW t, Chain(t),
         t = <<>> => op.do \notin Awaiting, t # <<>> => Follows(op, t[1]),
         op.do = "offset" => \E j \in 1..Len(t) : t[j].do = "wco"
  PROVE  /\ Chain(<<op>> \o t)
         /\ \A K : op.do \in K /\ OfKinds(t, K) => OfKinds(<<op>> \o t, K)
         /\ (<<op>> \o t)[1] = op /\ Len(<<op>> \o t) = Len(t) + 1
         /\ \A i \in 1..Len(t) : i + 1 \in 1..Len(<<op>> \o t) /\ (<<op>> \o t)[i + 1] = t[i]
<1> DEFINE s == <<op>> \o t
<1>1. t \in Seq({t[i] : i \in DOMAIN t})
  BY DEF Chain, IsSeq
<1>2. PICK T : t \in Seq(T)
  BY <1>1
<1>3. s \in Seq(T \cup {op})
  BY <1>2
<1>4. Len(t) \in Nat /\ Len(s) = Len(t) + 1 /\ s[1] = op /\ \A i \in 2..Len(s) : s[i] = t[i - 1]
  BY <1>2
<1>5. IsSeq(s) /\ (t = <<>> <=> Len(t) = 0)
  BY <1>2, <1>3, SequencesAreSeq, EmptySeq
<1> HIDE DEF s
<1>6. \A i \in 1..Len(s) : i = 1 \/ (i \in 2..Len(s) /\ i - 1 \in 1..Len(t))
  BY <1>4
<1>7. \A i \in 1..Len(s) : GoodOp(s[i]) /\ (s[i].do \in Awaiting => i < Len(s))
  BY <1>4, <1>5, <1>6 DEF Chain
<1>8. ASSUME NEW i \in 1..Len(s), i < Len(s) PROVE Follows(s[i], s[i + 1])
  <2>1. CASE i = 1
    BY <1>4, <1>5, <1>8, <2>1
  <2>2. CASE i # 1
    <3>1. i - 1 \in 1..Len(t) /\ i - 1 < Len(t) /\ s[i] = t[i - 1] /\ s[i + 1] = t[(i - 1) + 1]
      BY <1>4, <1>8, <2>2
    <3>2. QED
      BY <3>1 DEF Chain
  <2>3. QED
    BY <2>1, <2>2
<1>9. ASSUME NEW i \in 1..Len(s), s[i].do = "offset" PROVE Announced(s, i)
  <2>1. PICK j \in 1..Len(t) : t[j].do = "wco" /\ j > i - 1
    BY <1>4, <1>6, <1>9 DEF Chain, Announced
  <2>2. j + 1 \in 1..Len(s) /\ s[j + 1] = t[j]
    BY <1>4
  <2>3. QED
    BY <2>1, <2>2 DEF Announced
<1>10. \A K : op.do \in K /\ OfKinds(t, K) => OfKinds(s, K)
  BY <1>4, <1>6 DEF OfKinds
<1>11. \A i \in 1..Len(t) : i + 1 \in 1..Len(s) /\ s[i + 1] = t[i]
  BY <1>4
<1>12. QED
  BY <1>4, <1>5, <1>7, <1>8, <1>9, <1>10, <1>11 DEF Chain, s

Before(op, t) == <<op>> \o t

LEMMA BeforeIsChain ==
  ASSUME NEW op, GoodOp(op), NEW t, Chain(t),
         t = <<>> => op.do \notin Awaiting, t # <<>> => Follows(op, t[1]),
         op.do = "offset" => \E j \in 1..Len(t) : t[j].do = "wco"
  PROVE  /\ Chain(Before(op, t))
         /\ \A K : op.do \in K /\ OfKinds(t, K) => OfKinds(Before(op, t), K)
         /\ Before(op, t)[1] = op /\ Len(Before(op, t)) = Len(t) + 1
         /\ \A i \in 1..Len(t) : i + 1 \in 1..Len(Before(op, t)) /\ Before(op, t)[i + 1] = t[i]
BY PrependedIsChain DEF Before

LEMMA ConcatIsFresh ==
  ASSUME NEW K, NEW s, Part(s, K), NEW t, Part(t, K)
  PROVE  Part(s \o t, K)
<1> DEFINE u == s \o t
<1>1. s \in Seq({s[i] : i \in DOMAIN s}) /\ t \in Seq({t[i] : i \in DOMAIN t})
  BY DEF Part, Fresh, Chain, IsSeq
<1>2. PICK S, T : s \in Seq(S) /\ t \in Seq(T)
  BY <1>1
<1>3. u \in Seq(S \cup T)
  BY <1>2
<1>4. /\ Len(s) \in Nat /\ Len(t) \in Nat /\ Len(u) = Len(s) + Len(t)
      /\ \A i \in 1..Len(s) : i \in 1..Len(u) /\ u[i] = s[i]
      /\ \A i \in 1..Len(t) : i + Len(s) \in 1..Len(u) /\ u[i + Len(s)] = t[i]
      /\ \A i \in 1..Len(u) : i > Len(s) => i - Len(s) \in 1..Len(t) /\ u[i] = t[i - Len(s)]
  BY <1>2
<1>5. IsSeq(u) /\ (t = <<>> <=> Len(t) = 0) /\ (s = <<>> <=> Len(s) = 0) /\ (u = <<>> <=> Len(u) = 0)
  BY <1>2, <1>3, SequencesAreSeq, EmptySeq
<1> HIDE DEF u
<1>6. \A i \in 1..Len(u) : i \in 1..Len(s) \/ i > Len(s)
  BY <1>4
<1>7. \A i \in 1..Len(u) : /\ GoodOp(u[i]) /\ u[i].do \in K
                           /\ u[i].do \in Awaiting => i < Len(u)
  <2> SUFFICES ASSUME NEW i \in 1..Len(u)
               PROVE  GoodOp(u[i]) /\ u[i].do \in K /\ (u[i].do \in Awaiting => i < Len(u))
    OBVIOUS
  <2>1. CASE i \in 1..Len(s)
    BY <1>4, <2>1 DEF Part, Fresh, Chain, OfKinds
  <2>2. CASE i > Len(s)
    BY <1>4, <2>2 DEF Part, Fresh, Chain, OfKinds
  <2>3. QED
    BY <1>6, <2>1, <2>2
<1>8. ASSUME NEW i \in 1..Len(u), i < Len(u) PROVE Follows(u[i], u[i + 1])
  <2>1. CASE i < Len(s)
    <3>1. i \in 1..Len(s) /\ i + 1 \in 1..Len(s) /\ u[i] = s[i] /\ u[i + 1] = s[i + 1]
      BY <1>4, <2>1
    <3>2. QED
      BY <2>1, <3>1 DEF Part, Fresh, Chain
  <2>2. CASE i = Len(s)
    <3>1. i \in 1..Len(s) /\ 1 \in 1..Len(t) /\ u[i] = s[i] /\ u[i + 1] = t[1] /\ t # <<>>
      BY <1>4, <1>5, <1>8, <2>2
    <3>2. s[i].do \notin Awaiting /\ t[1].do \notin Arriving
      BY <2>2, <3>1 DEF Part, Fresh, Chain
    <3>3. QED
      BY <3>1, <3>2 DEF Follows, Awaiting, Arriving, AtTarget, LaterBytes, Unwritten
  <2>3. CASE i > Len(s)
    <3>1. /\ i - Len(s) \in 1..Len(t) /\ i - Len(s) < Len(t)
          /\ u[i] = t[i - Len(s)] /\ u[i + 1] = t[(i - Len(s)) + 1]
      BY <1>4, <1>8, <2>3
    <3>2. QED
      BY <3>1 DEF Part, Fresh, Chain
  <2>4. QED
    BY <1>4, <2>1, <2>2, <2>3
<1>9. ASSUME NEW i \in 1..Len(u), u[i].do = "offset" PROVE Announced(u, i)
  <2>1. CASE i \in 1..Len(s)
    <3>1. PICK j \in 1..Len(s) : j > i /\ s[j].do = "wco"
      BY <1>4, <1>9, <2>1 DEF Part, Fresh, Chain, Announced
    <3>2. QED
      BY <1>4, <3>1 DEF Announced
  <2>2. CASE i > Len(s)
    <3>1. PICK j \in 1..Len(t) : j > i - Len(s) /\ t[j].do = "wco"
      BY <1>4, <1>9, <2>2 DEF Part, Fresh, Chain, Announced
    <3>2. j + Len(s) \in 1..Len(u) /\ j + Len(s) > i /\ u[j + Len(s)].do = "wco"
      BY <1>4, <3>1
    <3>3. QED
      BY <3>2 DEF Announced
  <2>3. QED
    BY <1>6, <2>1, <2>2
<1>10. u # <<>> => u[1].do \notin Arriving
  BY <1>4, <1>5 DEF Part, Fresh
<1>11. QED
  BY <1>5, <1>7, <1>8, <1>9, <1>10 DEF Part, Fresh, Chain, OfKinds, u

\* What is left after the first action.
LEMMA TailIsChain ==
  ASSUME NEW s, Chain(s), s # <<>>
  PROVE  /\ Chain(Tail(s)) /\ Len(Tail(s)) = Len(s) - 1
         /\ \A i \in 1..Len(Tail(s)) : Tail(s)[i] = s[i + 1] /\ i + 1 \in 1..Len(s)
         /\ \A K : OfKinds(s, K) => OfKinds(Tail(s), K)
         /\ s[1].do \notin {"line", "jog"} \cup Unwritten => Fresh(Tail(s))
<1> DEFINE t == Tail(s)
<1>1. s \in Seq({s[i] : i \in DOMAIN s})
  BY DEF Chain, IsSeq
<1>2. PICK S : s \in Seq(S)
  BY <1>1
<1>3. /\ t \in Seq(S) /\ Len(t) \in Nat /\ Len(t) = Len(s) - 1 /\ 1 \in 1..Len(s)
      /\ \A i \in 1..Len(t) : t[i] = s[i + 1] /\ i + 1 \in 1..Len(s)
  BY <1>2
<1>4. IsSeq(t) /\ (t = <<>> <=> Len(t) = 0)
  BY <1>3, SequencesAreSeq, EmptySeq
<1> HIDE DEF t
<1>5. \A i \in 1..Len(t) : /\ GoodOp(t[i]) /\ (t[i].do \in Awaiting => i < Len(t))
                           /\ i < Len(t) => Follows(t[i], t[i + 1])
  <2> SUFFICES ASSUME NEW i \in 1..Len(t)
               PROVE  /\ GoodOp(t[i]) /\ (t[i].do \in Awaiting => i < Len(t))
                      /\ i < Len(t) => Follows(t[i], t[i + 1])
    OBVIOUS
  <2>1. t[i] = s[i + 1] /\ i + 1 \in 1..Len(s)
    BY <1>3
  <2>2. i < Len(t) => t[i + 1] = s[(i + 1) + 1] /\ i + 1 < Len(s)
    BY <1>3
  <2>3. i + 1 < Len(s) => i < Len(t)
    BY <1>3
  <2>4. QED
    BY <2>1, <2>2, <2>3 DEF Chain
<1>6. ASSUME NEW i \in 1..Len(t), t[i].do = "offset" PROVE Announced(t, i)
  <2>1. PICK j \in 1..Len(s) : j > i + 1 /\ s[j].do = "wco"
    BY <1>3, <1>6 DEF Chain, Announced
  <2>2. j - 1 \in 1..Len(t) /\ t[j - 1] = s[j]
    BY <1>3, <2>1
  <2>3. QED
    BY <2>1, <2>2 DEF Announced
<1>7. \A K : OfKinds(s, K) => OfKinds(t, K)
  BY <1>3 DEF OfKinds
<1>8. ASSUME s[1].do \notin {"line", "jog"} \cup Unwritten, t # <<>> PROVE t[1].do \notin Arriving
  <2>1. 1 < Len(s) /\ t[1] = s[2]
    BY <1>3, <1>4, <1>8
  <2>2. QED
    BY <1>3, <1>8, <2>1 DEF Chain, Follows, Arriving, LaterBytes, Unwritten, AtTarget
<1>9. QED
  BY <1>3, <1>4, <1>5, <1>6, <1>7, <1>8 DEF Chain, Fresh, t

PlainKinds == {"set", "offset", "sync", "wco", "outputs", "pause", "line", "arc", "position"} \cup Writes
LineKinds == PlainKinds \cup {"end", "probe"}
JogKinds == {"line", "jog", "position", "sync"} \cup Writes

LEMMA WhenIsFresh ==
  ASSUME NEW K, NEW condition, NEW actions, Part(actions, K)
  PROVE  Part(When(condition, actions), K)
BY NothingIsFresh DEF When

LEMMA DoIsFresh ==
  ASSUME NEW K, NEW name \in {"sync", "outputs", "wco", "pause", "end", "reset"}, name \in K
  PROVE  Part(Do(name), K)
<1> DEFINE op == [do |-> name]
<1>1. op.do = name
  OBVIOUS
<1>2. GoodOp(op) /\ op.do \notin Awaiting \cup Arriving \cup {"offset"}
  BY <1>1 DEF GoodOp, Targeted, Awaiting, Arriving, AtTarget, LaterBytes, Unwritten, Writes
<1>3. Do(name) = <<op>>
  BY DEF Do
<1> HIDE DEF op
<1>4. QED
  BY <1>1, <1>2, <1>3, SingleIsFresh

LEMMA SetIsFresh ==
  ASSUME NEW K, "set" \in K, NEW changes, DOMAIN changes \cap Tracked = {}
  PROVE  Part(Set(changes), K)
<1> DEFINE op == [do |-> "set", to |-> changes]
<1>1. op.do = "set" /\ op.to = changes
  OBVIOUS
<1> HIDE DEF op
<1>2. GoodOp(op) /\ op.do \notin Awaiting \cup Arriving \cup {"offset"}
  BY <1>1 DEF GoodOp, Targeted, Awaiting, Arriving, AtTarget, LaterBytes, Unwritten, Writes
<1>3. Set(changes) = <<op>>
  BY DEF Set, op
<1>4. QED
  BY <1>1, <1>2, <1>3, SingleIsFresh

LEMMA OffsetChangedIsFresh ==
  ASSUME NEW K, {"sync", "wco"} \subseteq K
  PROVE  Part(OffsetChanged, K) /\ \E j \in 1..Len(OffsetChanged) : OffsetChanged[j].do = "wco"
<1>1. Part(Do("sync"), K) /\ Part(Do("wco"), K)
  BY DoIsFresh
<1>2. Part(OffsetChanged, K)
  BY <1>1, ConcatIsFresh DEF OffsetChanged
<1> DEFINE sync == [do |-> "sync"] wco == [do |-> "wco"]
<1>3. sync.do = "sync" /\ wco.do = "wco"
  OBVIOUS
<1>4. Do("sync") = <<sync>> /\ Do("wco") = <<wco>> /\ OffsetChanged = <<sync>> \o <<wco>>
  BY DEF OffsetChanged, Do
<1> HIDE DEF sync, wco
<1>5. Chain(<<wco>>) /\ <<wco>>[1] = wco /\ Len(<<wco>>) = 1 /\ GoodOp(sync)
  BY <1>1, <1>3, <1>4 DEF Part, Fresh, GoodOp, Targeted, Writes, LaterBytes
<1>6. Follows(sync, wco)
  BY <1>3 DEF Follows, Arriving, AtTarget, LaterBytes, Unwritten
<1>7. 2 \in 1..Len(<<sync>> \o <<wco>>) /\ (<<sync>> \o <<wco>>)[2] = wco
  BY <1>3, <1>5, <1>6
<1>8. QED
  BY <1>2, <1>3, <1>4, <1>7

LEMMA OffsetIsFresh ==
  ASSUME NEW K, {"offset", "sync", "wco"} \subseteq K,
         NEW changes, \A f \in DOMAIN changes : GoodField(f, changes[f])
  PROVE  Part(Offset(changes), K)
<1> DEFINE op == [do |-> "offset", to |-> changes]
<1>1. op.do = "offset" /\ op.to = changes
  OBVIOUS
<1> HIDE DEF op
<1>2. GoodOp(op) /\ op.do \notin Awaiting \cup Arriving
  BY <1>1 DEF GoodOp, Targeted, Awaiting, Arriving, AtTarget, LaterBytes, Unwritten, Writes
<1>3. /\ Chain(OffsetChanged) /\ OfKinds(OffsetChanged, K)
      /\ OffsetChanged # <<>> => OffsetChanged[1].do \notin Arriving
      /\ \E j \in 1..Len(OffsetChanged) : OffsetChanged[j].do = "wco"
  BY OffsetChangedIsFresh DEF Part, Fresh
<1>4. OffsetChanged # <<>> => Follows(op, OffsetChanged[1])
  BY <1>1, <1>3 DEF Follows, Awaiting, Arriving, AtTarget, LaterBytes, Unwritten
<1> DEFINE s == <<op>> \o OffsetChanged
<1>5. Chain(s) /\ OfKinds(s, K) /\ s[1] = op
  BY <1>1, <1>2, <1>3, <1>4, PrependedIsChain
<1>6. Offset(changes) = s
  BY DEF Offset, op
<1> HIDE DEF s
<1>7. QED
  BY <1>2, <1>5, <1>6 DEF Part, Fresh

LEMMA SumIsInt == ASSUME NEW data \in Vector PROVE Sum(data) \in Int
<1>1. data["X"] \in Int /\ data["Y"] \in Int /\ data["Z"] \in Int
  BY DEF Vector, Axes
<1>2. PICK c : Sum(data) = ((IF c # 0 THEN 1 ELSE 0) + data["Z"]) % 256
  BY Zenon DEF Sum
<1>3. QED
  BY <1>1, <1>2

LEMMA WriteRecordIsFresh ==
  ASSUME NEW K, {"sync"} \cup Writes \subseteq K, NEW n \in Records, NEW data \in Vector
  PROVE  Part(WriteRecord(n, data), K)
<1> DEFINE op(name) == [do |-> name, record |-> n, data |-> data]
           x == op("put_x") y == op("put_y") z == op("put_z") sum == op("put_sum")
           sync == [do |-> "sync"]
<1>1. /\ x.do = "put_x" /\ y.do = "put_y" /\ z.do = "put_z" /\ sum.do = "put_sum"
      /\ \A put \in {x, y, z, sum} : put.record = n /\ put.data = data
      /\ sync.do = "sync"
  OBVIOUS
<1>2. WriteRecord(n, data) = (((<<sync>> \o <<x>>) \o <<y>>) \o <<z>>) \o <<sum>>
  BY DEF WriteRecord, Do, Put
<1> DEFINE S == {sync, x, y, z, sum}
<1>3. <<sync>> \in Seq(S) /\ <<x>> \in Seq(S) /\ <<y>> \in Seq(S) /\ <<z>> \in Seq(S) /\ <<sum>> \in Seq(S)
  OBVIOUS
<1> HIDE DEF sync, x, y, z, sum, S
<1>4. WriteRecord(n, data) = Before(sync, Before(x, Before(y, Before(z, <<sum>>))))
  <2>1. \A s, t, u \in Seq(S) : (s \o t) \o u = s \o (t \o u) /\ s \o t \in Seq(S)
    BY ConcatAssociative, ConcatProperties
  <2>2. QED
    BY <1>2, <1>3, <2>1 DEF Before
<1>5. \A put \in {x, y, z, sum, sync} : GoodOp(put)
  BY <1>1 DEF GoodOp, Targeted, Writes, LaterBytes
<1>6. /\ Follows(sync, x) /\ Follows(x, y) /\ Follows(y, z) /\ Follows(z, sum)
  BY <1>1 DEF Follows, AtTarget, LaterBytes, Unwritten
<1> DEFINE s1 == <<sum>> s2 == Before(z, s1) s3 == Before(y, s2) s4 == Before(x, s3)
           s5 == Before(sync, s4)
<1>7. Chain(s1) /\ OfKinds(s1, K) /\ s1[1] = sum /\ s1 # <<>>
  BY <1>1, <1>5, SingleIsFresh DEF Awaiting, Unwritten, Writes, LaterBytes
<1> HIDE DEF s1
<1>8. Chain(s2) /\ OfKinds(s2, K) /\ s2[1] = z /\ s2 # <<>>
  BY <1>1, <1>5, <1>6, <1>7, BeforeIsChain DEF Writes, LaterBytes, Chain
<1> HIDE DEF s2
<1>9. Chain(s3) /\ OfKinds(s3, K) /\ s3[1] = y /\ s3 # <<>>
  BY <1>1, <1>5, <1>6, <1>8, BeforeIsChain DEF Writes, LaterBytes, Chain
<1> HIDE DEF s3
<1>10. Chain(s4) /\ OfKinds(s4, K) /\ s4[1] = x /\ s4 # <<>>
  BY <1>1, <1>5, <1>6, <1>9, BeforeIsChain DEF Writes, LaterBytes, Chain
<1> HIDE DEF s4
<1>11. Chain(s5) /\ OfKinds(s5, K) /\ s5[1] = sync
  BY <1>1, <1>5, <1>6, <1>10, BeforeIsChain
<1>12. QED
  BY <1>1, <1>4, <1>11 DEF Part, Fresh, Arriving, AtTarget, LaterBytes, s1, s2, s3, s4, s5

\* A line to a point, and what follows it to that point.
LEMMA LineIsFresh ==
  ASSUME NEW K, NEW v \in Vector, NEW op, GoodOp(op), op.do \in {"position", "probe_run"},
         op.target = v, {"line", op.do} \subseteq K
  PROVE  Part(MoveTo("line", v) \o <<op>>, K)
<1> DEFINE line == [do |-> "line", target |-> v]
<1>1. line.do = "line" /\ line.target = v
  OBVIOUS
<1>2. MoveTo("line", v) = <<line>>
  BY DEF MoveTo
<1> HIDE DEF line
<1>3. GoodOp(line)
  BY <1>1 DEF GoodOp, Writes, LaterBytes
<1>4. Chain(<<op>>) /\ OfKinds(<<op>>, K) /\ <<op>>[1] = op
  BY SingleIsFresh DEF Awaiting, Unwritten
<1>5. Follows(line, op)
  BY <1>1 DEF Follows, Arriving, AtTarget, LaterBytes, Unwritten
<1> DEFINE s == <<line>> \o <<op>>
<1>6. Chain(s) /\ OfKinds(s, K) /\ s[1] = line
  BY <1>1, <1>3, <1>4, <1>5, PrependedIsChain
<1> HIDE DEF s
<1>7. MoveTo("line", v) \o <<op>> = s
  BY <1>2 DEF s
<1>8. QED
  BY <1>1, <1>6, <1>7 DEF Part, Fresh, Arriving, AtTarget, LaterBytes

LEMMA MoveIsFresh ==
  ASSUME NEW K, {"line", "position"} \subseteq K, NEW v \in Vector
  PROVE  /\ Part(MoveTo("line", v) \o MoveTo("position", v), K)
         /\ MoveTo("line", v) \o MoveTo("position", v) # <<>>
         /\ (MoveTo("line", v) \o MoveTo("position", v))[1].do = "line"
<1> DEFINE op == [do |-> "position", target |-> v]
<1>1. op.do = "position" /\ op.target = v /\ GoodOp(op)
  BY DEF GoodOp, Writes, LaterBytes
<1>2. MoveTo("position", v) = <<op>>
  BY DEF MoveTo
<1> DEFINE line == [do |-> "line", target |-> v]
<1>3. line.do = "line" /\ MoveTo("line", v) = <<line>>
  BY DEF MoveTo
<1> HIDE DEF op, line
<1>4. Part(MoveTo("line", v) \o <<op>>, K)
  BY <1>1, LineIsFresh
<1>5. <<line>> \o <<op>> # <<>> /\ (<<line>> \o <<op>>)[1] = line
  OBVIOUS
<1>6. QED
  BY <1>2, <1>3, <1>4, <1>5

\* Another line, or an arc, before a line.
LEMMA PrecededIsFresh ==
  ASSUME NEW K, NEW name \in {"line", "arc"}, name \in K, NEW u \in Vector, NEW t, Part(t, K),
         t # <<>>, t[1].do = "line"
  PROVE  Part(MoveTo(name, u) \o t, K) /\ (MoveTo(name, u) \o t)[1].do = name
<1> DEFINE op == [do |-> name, target |-> u]
<1>1. op.do = name /\ op.target = u
  OBVIOUS
<1>2. MoveTo(name, u) = <<op>>
  BY DEF MoveTo
<1> HIDE DEF op
<1>3. GoodOp(op) /\ Follows(op, t[1])
  BY <1>1 DEF GoodOp, Follows, Arriving, AtTarget, LaterBytes, Writes, Unwritten
<1>4. QED
  BY <1>1, <1>2, <1>3, PrependedIsChain DEF Part, Fresh, Arriving, AtTarget, LaterBytes

LEMMA OutputsAreFresh ==
  ASSUME NEW K, {"set", "outputs", "sync", "pause"} \subseteq K, NEW b, NEW g
  PROVE  /\ Part(Spindle(b, g), K) /\ Part(Coolant(b, g), K)
         /\ (b.program_flow = "COMPLETED" => "end" \in K) => Part(ProgramFlow(b), K)
<1>1. /\ \A name \in {"sync", "outputs", "pause"} : Part(Do(name), K)
      /\ "end" \in K => Part(Do("end"), K)
  BY DoIsFresh
<1>2. ASSUME NEW v PROVE Part(Set([spindle_speed |-> v]), K) /\ Part(Set([spindle |-> v]), K)
                         /\ Part(Set([coolant |-> v]), K)
  BY SetIsFresh DEF Tracked
<1>3. Part(Spindle(b, g), K)
  <2> DEFINE s1 == When(g.spindle_speed # b.s /\ g.spindle # "DISABLE", Do("outputs"))
             s2 == Set([spindle_speed |-> b.s])
             s3 == When(g.spindle # b.spindle, Do("outputs") \o Set([spindle |-> b.spindle]))
  <2>1. Part(s1, K) /\ Part(s2, K) /\ Part(s3, K)
    BY <1>1, <1>2, WhenIsFresh, ConcatIsFresh
  <2>2. Spindle(b, g) = (s1 \o s2) \o s3
    BY DEF Spindle
  <2> HIDE DEF s1, s2, s3
  <2>3. QED
    BY <2>1, <2>2, ConcatIsFresh
<1>4. Part(Coolant(b, g), K)
  <2>1. PICK v : Coolant(b, g) = When(g.coolant # b.coolant, Do("outputs") \o Set([coolant |-> v]))
    BY Zenon DEF Coolant
  <2>2. QED
    BY <1>1, <1>2, <2>1, WhenIsFresh, ConcatIsFresh
<1>5. ASSUME b.program_flow = "COMPLETED" => "end" \in K
      PROVE  Part(ProgramFlow(b), K)
  <2> DEFINE changes == [motion |-> "LINEAR", plane_select |-> "XY", distance |-> "ABSOLUTE",
                         feed_rate |-> "UNITS_PER_MIN", spindle |-> "DISABLE", coolant |-> {}]
  <2>1. DOMAIN changes \cap Tracked = {}
    BY DEF Tracked
  <2>2. ProgramEnd = Set(changes) \o Do("end")
    BY Zenon DEF ProgramEnd
  <2> HIDE DEF changes
  <2>3. "end" \in K => Part(ProgramEnd, K)
    BY <1>1, <2>1, <2>2, SetIsFresh, ConcatIsFresh
  <2> DEFINE s1 == When(b.program_flow # "RUNNING", Do("sync"))
             s2 == When(b.program_flow = "PAUSED", Do("pause"))
             s3 == When(b.program_flow = "COMPLETED", ProgramEnd)
  <2>4. Part(s1, K) /\ Part(s2, K) /\ Part(s3, K)
    BY <1>1, <1>5, <2>3, WhenIsFresh, NothingIsFresh DEF When
  <2>5. ProgramFlow(b) = (s1 \o s2) \o s3
    BY DEF ProgramFlow
  <2> HIDE DEF s1, s2, s3
  <2>6. QED
    BY <2>4, <2>5, ConcatIsFresh
<1>6. QED
  BY <1>3, <1>4, <1>5

LEMMA OffsetStepsAreFresh ==
  ASSUME NEW K, PlainKinds \subseteq K, NEW b, GoodBlock(b), b.status = "OK", NEW g, GoodParser(g)
  PROVE  Part(ToolLengthOffset(b, g), K) /\ Part(SelectSystem(b, g), K)
<1> USE DEF PlainKinds, Writes, LaterBytes
<1>1. Part(ToolLengthOffset(b, g), K)
  <2> DEFINE offset == IF b.tool_length = "CANCEL" THEN 0 ELSE b.xyz[ToolAxis]
             told == [tool_length |-> b.tool_length]
             changes == [tool_length_offset |-> offset]
  <2>1. offset \in Int
    BY DEF GoodBlock, Vector, ToolAxis, Axes
  <2>2. DOMAIN told \cap Tracked = {}
    BY DEF Tracked
  <2> HIDE DEF offset
  <2>3. \A f \in DOMAIN changes : GoodField(f, changes[f])
    BY <2>1 DEF GoodField
  <2>4. ToolLengthOffset(b, g) =
          When(b.axis = "TOOL_LENGTH_OFFSET",
               Set(told) \o When(g.tool_length_offset # offset, Offset(changes)))
    BY Zenon DEF ToolLengthOffset, offset
  <2> HIDE DEF told, changes
  <2>5. Part(Set(told), K) /\ Part(Offset(changes), K)
    BY <2>2, <2>3, SetIsFresh, OffsetIsFresh
  <2>6. QED
    BY <2>4, <2>5, WhenIsFresh, ConcatIsFresh
<1>2. Part(SelectSystem(b, g), K)
  <2> DEFINE changes == [coord_select |-> b.coord_select, coord_system |-> b.system]
  <2>1. \A f \in DOMAIN changes : GoodField(f, changes[f])
    BY DEF GoodField, GoodBlock
  <2>2. SelectSystem(b, g) = When(g.coord_select # b.coord_select, Offset(changes))
    BY Zenon DEF SelectSystem
  <2> HIDE DEF changes
  <2>3. QED
    BY <2>1, <2>2, OffsetIsFresh, WhenIsFresh
<1>3. QED
  BY <1>1, <1>2

LEMMA NonModalStepsAreFresh ==
  ASSUME NEW K, PlainKinds \subseteq K, NEW b, GoodBlock(b), b.status = "OK", NEW g, GoodParser(g)
  PROVE  Part(NonModalSteps(b, g), K)
<1> USE DEF PlainKinds, Writes, LaterBytes
<1>1. /\ b.select \in Records /\ IndexG28 \in Records /\ IndexG30 \in Records
      /\ b.ijk \in Vector /\ b.xyz \in Vector /\ g.position \in Vector /\ Origin \in Vector
  BY DEF GoodBlock, GoodParser, Records, IndexG28, IndexG30, NCoordinateSystem, Origin, Vector
<1>2. \A n \in Records : \A v \in Vector : Part(WriteRecord(n, v), K)
  BY WriteRecordIsFresh
<1>3. ASSUME NEW v \in Vector
      PROVE  Part(Offset([coord_system |-> v]), K) /\ Part(Offset([coord_offset |-> v]), K)
  BY OffsetIsFresh DEF GoodField
<1> DEFINE write == WriteRecord(b.select, b.ijk)
           active == When(b.coord_select = b.select, Offset([coord_system |-> b.ijk]))
           arrive == MoveTo("line", b.ijk) \o MoveTo("position", b.ijk)
           home == When(b.axis # "NONE", MoveTo("line", b.xyz)) \o arrive
<1>4. Part(write \o active, K)
  BY <1>1, <1>2, <1>3, WhenIsFresh, ConcatIsFresh
<1>5. Part(home, K)
  <2>1. Part(arrive, K) /\ arrive # <<>> /\ arrive[1].do = "line"
    BY <1>1, MoveIsFresh
  <2> HIDE DEF arrive
  <2>2. Part(MoveTo("line", b.xyz) \o arrive, K)
    BY <1>1, <2>1, PrecededIsFresh
  <2>3. Part(<<>> \o arrive, K)
    BY <2>1, NothingIsFresh, ConcatIsFresh
  <2>4. QED
    BY <2>2, <2>3 DEF When
<1>6. NonModalSteps(b, g) \in {write \o active, home, WriteRecord(IndexG28, g.position),
        WriteRecord(IndexG30, g.position), Offset([coord_offset |-> b.xyz]),
        Offset([coord_offset |-> Origin]), <<>>}
  <2> DEFINE homing == When(b.axis # "NONE", MoveTo("line", b.xyz)) \o MoveTo("line", b.ijk)
                         \o MoveTo("position", b.ijk)
  <2>1. homing = home
    <3>1. PICK S : MoveTo("line", b.ijk) \in Seq(S) /\ MoveTo("position", b.ijk) \in Seq(S)
                     /\ When(b.axis # "NONE", MoveTo("line", b.xyz)) \in Seq(S)
      <4> DEFINE S == {[do |-> u, target |-> v] : u \in {"line", "position"}, v \in {b.xyz, b.ijk}}
      <4>1. \A u \in {"line", "position"} : \A v \in {b.xyz, b.ijk} : MoveTo(u, v) \in Seq(S)
        BY DEF MoveTo
      <4>2. <<>> \in Seq(S)
        OBVIOUS
      <4> HIDE DEF S
      <4>3. QED
        BY <4>1, <4>2 DEF When
    <3>2. QED
      BY <3>1, ConcatAssociative
  <2>2. NonModalSteps(b, g) \in {write \o active, homing, WriteRecord(IndexG28, g.position),
          WriteRecord(IndexG30, g.position), Offset([coord_offset |-> b.xyz]),
          Offset([coord_offset |-> Origin]), <<>>}
    BY DEF NonModalSteps
  <2> HIDE DEF homing, home
  <2>3. QED
    BY <2>1, <2>2
<1> HIDE DEF home, write, active
<1>7. QED
  BY <1>1, <1>2, <1>3, <1>4, <1>5, <1>6, NothingIsFresh

Moves == {"SEEK", "LINEAR", "CW_ARC", "CCW_ARC"}

LEMMA MotionStepsAreFresh ==
  ASSUME NEW K, PlainKinds \subseteq K, NEW b, GoodBlock(b),
         "probe" \in K \/ b.axis # "MOTION_MODE" \/ b.motion \in Moves
  PROVE  Part(MotionSteps(b), K)
<1> USE DEF PlainKinds, Writes, LaterBytes
<1> DEFINE move == MoveTo("line", b.xyz) \o MoveTo("position", b.xyz)
           arc == MoveTo("arc", b.xyz) \o move
           op == [do |-> "probe", target |-> b.xyz,
                  silent |-> b.motion \in {"PROBE_TOWARD_NO_ERROR", "PROBE_AWAY_NO_ERROR"}]
<1>1. b.xyz \in Vector
  BY DEF GoodBlock
<1>2. Part(move, K) /\ move # <<>> /\ move[1].do = "line"
  BY <1>1, MoveIsFresh
<1>3. MoveTo("arc", b.xyz) \o MoveTo("line", b.xyz) \o MoveTo("position", b.xyz) = arc
  <2> DEFINE S == {[do |-> u, target |-> b.xyz] : u \in {"arc", "line", "position"}}
  <2>1. \A u \in {"arc", "line", "position"} : MoveTo(u, b.xyz) \in Seq(S)
    BY DEF MoveTo
  <2> HIDE DEF S
  <2>2. QED
    BY <2>1, ConcatAssociative
<1>4. op.do = "probe" /\ op.target = b.xyz
  OBVIOUS
<1>5. MotionSteps(b) \in {<<>>, move, arc} \/ (MotionSteps(b) = <<op>> /\ "probe" \in K)
  BY <1>3 DEF MotionSteps, Moves
<1> HIDE DEF move
<1>6. Part(arc, K)
  BY <1>1, <1>2, PrecededIsFresh
<1> HIDE DEF op, arc
<1>7. "probe" \in K => Part(<<op>>, K)
  BY <1>1, <1>4, SingleIsFresh
     DEF GoodOp, Targeted, Awaiting, Arriving, AtTarget, LaterBytes, Unwritten, Writes
<1>8. QED
  BY <1>2, <1>5, <1>6, <1>7, NothingIsFresh

\* A line is what it does, and then the flow of the program.
LEMMA StepsThenFlow ==
  ASSUME NEW b, GoodBlock(b), b.status = "OK", ~b.jog, NEW g, GoodParser(g),
         NEW K, PlainKinds \subseteq K, "probe" \in K \/ b.axis # "MOTION_MODE" \/ b.motion \in Moves
  PROVE  \E s : Part(s, K) /\ Steps(b, g) = s \o ProgramFlow(b)
<1> DEFINE fed == [feed_rate |-> b.feed_rate, feed |-> b.f]
           planed == [plane_select |-> b.plane_select, units |-> b.units]
           measured == [distance |-> b.distance]
           moved == [motion |-> b.motion]
           s1 == Set(fed) s2 == Spindle(b, g) s3 == Coolant(b, g)
           s4 == When(b.non_modal = "DWELL", Do("outputs"))
           s5 == Set(planed) s6 == ToolLengthOffset(b, g) s7 == SelectSystem(b, g)
           s8 == Set(measured) s9 == NonModalSteps(b, g) s10 == Set(moved)
           s11 == MotionSteps(b)
<1>1. /\ DOMAIN fed \cap Tracked = {} /\ DOMAIN planed \cap Tracked = {}
      /\ DOMAIN measured \cap Tracked = {} /\ DOMAIN moved \cap Tracked = {}
  BY DEF Tracked
<1>2. Steps(b, g) = s1 \o s2 \o s3 \o s4 \o s5 \o s6 \o s7 \o s8 \o s9 \o s10 \o s11 \o ProgramFlow(b)
  BY Zenon DEF Steps
<1> HIDE DEF fed, planed, measured, moved
<1>3. Part(s1, K) /\ Part(s5, K) /\ Part(s8, K) /\ Part(s10, K)
  BY <1>1, SetIsFresh DEF PlainKinds, Writes, LaterBytes
<1>4. Part(s2, K) /\ Part(s3, K)
  BY OutputsAreFresh DEF PlainKinds
<1>5. Part(s4, K)
  BY DoIsFresh, WhenIsFresh DEF PlainKinds, Writes, LaterBytes
<1>6. Part(s6, K) /\ Part(s7, K)
  BY OffsetStepsAreFresh
<1>7. Part(s9, K) /\ Part(s11, K)
  BY NonModalStepsAreFresh, MotionStepsAreFresh
<1> HIDE DEF s1, s2, s3, s4, s5, s6, s7, s8, s9, s10, s11
<1>8. Part(s1 \o s2 \o s3 \o s4, K)
  BY <1>3, <1>4, <1>5, ConcatIsFresh
<1>9. Part(s1 \o s2 \o s3 \o s4 \o s5 \o s6 \o s7 \o s8, K)
  BY <1>3, <1>6, <1>8, ConcatIsFresh
<1>10. Part(s1 \o s2 \o s3 \o s4 \o s5 \o s6 \o s7 \o s8 \o s9 \o s10 \o s11, K)
  BY <1>3, <1>4, <1>7, <1>9, ConcatIsFresh
<1>11. QED
  BY <1>2, <1>10

\* What a line or a jog that is accepted does. Only a jog starts the motors
\* itself; all its motion is to its target.
LEMMA StepsAreFresh ==
  ASSUME NEW b, GoodBlock(b), b.status = "OK", NEW g, GoodParser(g)
  PROVE  /\ ~b.jog => Part(Steps(b, g), LineKinds)
         /\ ~b.jog /\ b.program_flow # "COMPLETED" /\ (b.axis # "MOTION_MODE" \/ b.motion \in Moves)
              => Part(Steps(b, g), PlainKinds)
         /\ b.jog => /\ Part(Steps(b, g), JogKinds)
                     /\ \A i \in 1..Len(Steps(b, g)) : Steps(b, g)[i].target = b.xyz
<1>1. ASSUME ~b.jog, NEW K, PlainKinds \subseteq K, b.program_flow = "COMPLETED" => "end" \in K,
             "probe" \in K \/ b.axis # "MOTION_MODE" \/ b.motion \in Moves
      PROVE  Part(Steps(b, g), K)
  <2>1. PICK s : Part(s, K) /\ Steps(b, g) = s \o ProgramFlow(b)
    BY <1>1, StepsThenFlow
  <2>2. Part(ProgramFlow(b), K)
    BY <1>1, OutputsAreFresh DEF PlainKinds
  <2>3. QED
    BY <2>1, <2>2, ConcatIsFresh
<1>2. ASSUME b.jog
      PROVE  /\ Part(Steps(b, g), JogKinds)
             /\ \A i \in 1..Len(Steps(b, g)) : Steps(b, g)[i].target = b.xyz
  <2> DEFINE line == [do |-> "line", target |-> b.xyz]
             jog == [do |-> "jog", target |-> b.xyz]
             position == [do |-> "position", target |-> b.xyz]
             s3 == <<position>> s2 == Before(jog, s3) s1 == Before(line, s2)
  <2>1. /\ line.do = "line" /\ line.target = b.xyz /\ jog.do = "jog" /\ jog.target = b.xyz
        /\ position.do = "position" /\ position.target = b.xyz
    OBVIOUS
  <2>2. Steps(b, g) = s1
    <3>1. Steps(b, g) = <<line>> \o <<jog>> \o <<position>>
      BY <1>2, Zenon DEF Steps, MoveTo
    <3> DEFINE S == {line, jog, position}
    <3>2. <<line>> \in Seq(S) /\ <<jog>> \in Seq(S) /\ <<position>> \in Seq(S)
      OBVIOUS
    <3> HIDE DEF S, line, jog, position
    <3>3. QED
      BY <3>1, <3>2, ConcatAssociative DEF Before
  <2> HIDE DEF line, jog, position
  <2>3. GoodOp(line) /\ GoodOp(jog) /\ GoodOp(position)
    BY <2>1 DEF GoodOp, GoodBlock, Writes, LaterBytes
  <2>4. Follows(line, jog) /\ Follows(jog, position)
    BY <2>1 DEF Follows, Arriving, AtTarget, LaterBytes, Unwritten
  <2>5. Chain(s3) /\ OfKinds(s3, JogKinds) /\ s3[1] = position /\ Len(s3) = 1 /\ s3 # <<>>
    BY <2>1, <2>3, SingleIsFresh DEF Awaiting, JogKinds, Unwritten, Writes, LaterBytes
  <2> HIDE DEF s3
  <2>6. /\ Chain(s2) /\ OfKinds(s2, JogKinds) /\ s2[1] = jog /\ Len(s2) = 2 /\ s2[2] = position
        /\ s2 # <<>>
    <3>1. jog.do # "offset" /\ jog.do \in JogKinds /\ Follows(jog, s3[1])
      BY <2>1, <2>4, <2>5 DEF JogKinds, Writes, LaterBytes
    <3>2. /\ Chain(s2) /\ OfKinds(s2, JogKinds) /\ s2[1] = jog /\ Len(s2) = Len(s3) + 1
          /\ \A i \in 1..Len(s3) : s2[i + 1] = s3[i]
      BY <2>3, <2>5, <3>1, BeforeIsChain
    <3> HIDE DEF s2
    <3>3. s2[1 + 1] = s3[1]
      BY <2>5, <3>2
    <3>4. s2 # <<>>
      BY <2>5, <3>2
    <3>5. QED
      BY <2>5, <3>2, <3>3, <3>4
  <2> HIDE DEF s2
  <2>7. /\ Chain(s1) /\ OfKinds(s1, JogKinds) /\ s1[1] = line /\ Len(s1) = 3 /\ s1[2] = jog
        /\ s1[3] = position
    <3>1. /\ line.do # "offset" /\ line.do \in JogKinds /\ Follows(line, s2[1]) /\ GoodOp(line)
          /\ Chain(s2) /\ OfKinds(s2, JogKinds) /\ s2 # <<>>
      BY <2>1, <2>3, <2>4, <2>6 DEF JogKinds, Writes, LaterBytes
    <3>2. /\ Chain(s1) /\ OfKinds(s1, JogKinds) /\ s1[1] = line /\ Len(s1) = Len(s2) + 1
          /\ \A i \in 1..Len(s2) : s1[i + 1] = s2[i]
      BY <3>1, BeforeIsChain
    <3> HIDE DEF s1
    <3>3. 1 \in 1..Len(s2) /\ 2 \in 1..Len(s2)
      BY <2>6
    <3>4. s1[1 + 1] = s2[1] /\ s1[2 + 1] = s2[2]
      BY <3>2, <3>3
    <3>5. QED
      BY <2>6, <3>2, <3>4
  <2> HIDE DEF s1
  <2>8. QED
    BY <2>1, <2>2, <2>7 DEF Part, Fresh, Arriving, AtTarget, LaterBytes
<1>3. /\ PlainKinds \subseteq LineKinds /\ "end" \in LineKinds /\ "probe" \in LineKinds
  BY DEF LineKinds
<1>4. QED
  BY <1>1, <1>2, <1>3
=============================================================================
