----------------------------- MODULE GcodeWords -----------------------------
(***************************************************************************)
(* The first half of gc_execute_line(): the words of a line are collected  *)
(* into a block. A line is a sequence of words, a word a letter with its   *)
(* number: <<"G38.2", 0>> for a command, <<"X", 3>> for a value. What is   *)
(* not a letter and a number is the word <<"?", 0>>.                       *)
(***************************************************************************)
EXTENDS Integers, Sequences

Lines == Seq(STRING \X Int)

\* The function f with the values of g where g has any.
Updated(f, g) ==
  [x \in DOMAIN f \cup DOMAIN g |-> IF x \in DOMAIN g THEN g[x] ELSE f[x]]

Axes == {"X", "Y", "Z"}
ValueLetters == {"F", "I", "J", "K", "L", "N", "P", "R", "S", "T"} \cup Axes
NonNegative == {"F", "N", "P", "T", "S"}
MaxTool == 255

\* The modes a block inherits from the parser state: gc_modal_t.
Modes == {"motion", "feed_rate", "units", "distance", "plane_select", "tool_length",
          "coord_select", "spindle", "coolant"}

\* What a command word does: its modal group, the mode it sets and to what, and
\* the claim it makes on the axis words of the block.
Command(group, mode, value, axis) ==
  [group |-> group, mode |-> mode, value |-> value, axis |-> axis]

Modal(group, mode, value) == Command(group, mode, value, "NONE")
NonModal(value) == Modal("G0", "non_modal", value)
AxisAction(value) == Command("G0", "non_modal", value, "NON_MODAL")
Motion(value) == Command("G1", "motion", value, "MOTION_MODE")
ToolLength(value) == Command("G8", "tool_length", value, "TOOL_LENGTH_OFFSET")
System(n) == Modal("G12", "coord_select", n)

CommandTable ==
  {<<"G4", NonModal("DWELL")>>, <<"G53", NonModal("ABSOLUTE_OVERRIDE")>>,
   <<"G10", AxisAction("SET_COORDINATE_DATA")>>, <<"G28", AxisAction("GO_HOME_0")>>,
   <<"G28.1", NonModal("SET_HOME_0")>>, <<"G30", AxisAction("GO_HOME_1")>>,
   <<"G30.1", NonModal("SET_HOME_1")>>, <<"G92", AxisAction("SET_COORDINATE_OFFSET")>>,
   <<"G92.1", NonModal("RESET_COORDINATE_OFFSET")>>, <<"G0", Motion("SEEK")>>,
   <<"G1", Motion("LINEAR")>>, <<"G2", Motion("CW_ARC")>>, <<"G3", Motion("CCW_ARC")>>,
   <<"G38.2", Motion("PROBE_TOWARD")>>, <<"G38.3", Motion("PROBE_TOWARD_NO_ERROR")>>,
   <<"G38.4", Motion("PROBE_AWAY")>>, <<"G38.5", Motion("PROBE_AWAY_NO_ERROR")>>,
   <<"G80", Modal("G1", "motion", "NONE")>>, <<"G17", Modal("G2", "plane_select", "XY")>>,
   <<"G18", Modal("G2", "plane_select", "ZX")>>,
   <<"G19", Modal("G2", "plane_select", "YZ")>>,
   <<"G90", Modal("G3", "distance", "ABSOLUTE")>>,
   <<"G91", Modal("G3", "distance", "INCREMENTAL")>>,
   <<"G91.1", Modal("G4", "ignored", 0)>>, <<"G40", Modal("G7", "ignored", 0)>>,
   <<"G61", Modal("G13", "ignored", 0)>>,
   <<"G93", Modal("G5", "feed_rate", "INVERSE_TIME")>>,
   <<"G94", Modal("G5", "feed_rate", "UNITS_PER_MIN")>>,
   <<"G20", Modal("G6", "units", "INCHES")>>, <<"G21", Modal("G6", "units", "MM")>>,
   <<"G43.1", ToolLength("ENABLE_DYNAMIC")>>, <<"G49", ToolLength("CANCEL")>>,
   <<"G54", System(0)>>, <<"G55", System(1)>>, <<"G56", System(2)>>, <<"G57", System(3)>>,
   <<"G58", System(4)>>, <<"G59", System(5)>>,
   <<"M0", Modal("M4", "program_flow", "PAUSED")>>, <<"M1", Modal("M4", "ignored", 0)>>,
   <<"M2", Modal("M4", "program_flow", "COMPLETED")>>,
   <<"M30", Modal("M4", "program_flow", "COMPLETED")>>,
   <<"M3", Modal("M7", "spindle", "CW")>>, <<"M4", Modal("M7", "spindle", "CCW")>>,
   <<"M5", Modal("M7", "spindle", "DISABLE")>>, <<"M7", Modal("M8", "coolant", {"MIST"})>>,
   <<"M8", Modal("M8", "coolant", {"FLOOD"})>>, <<"M9", Modal("M8", "coolant", {})>>,
   <<"M88", Modal("M10", "machine", "HOTWIRE")>>,
   <<"M89", Modal("M10", "machine", "MILL")>>}

Commands ==
  [code \in {entry[1] : entry \in CommandTable} |->
     (CHOOSE entry \in CommandTable : entry[1] = code)[2]]

\* Commands with a fraction the firmware does not know, and other letters' numbers.
NotInteger == {"G1.5", "G17.5", "M3.5"}

-----------------------------------------------------------------------------
\* Errors stop a line at the first of them.
Fail(b, status) == IF b.status = "OK" THEN [b EXCEPT !.status = status] ELSE b

FailIf(b, bad, status) == IF bad THEN Fail(b, status) ELSE b

\* Step 1: an empty block that inherits the modes of the parser state.
NewBlock(gc, jog) ==
  LET b == Updated([m \in Modes |-> gc[m]],
             [status |-> "OK", jog |-> jog, non_modal |-> "NO_ACTION", program_flow |-> "RUNNING",
              machine |-> "SAME", ignored |-> 0, axis |-> "NONE", groups |-> {},
              words |-> [letter \in {} |-> 0]])
  IN IF jog THEN [b EXCEPT !.motion = "LINEAR", !.feed_rate = "UNITS_PER_MIN"] ELSE b

CommandWord(b, code) ==
  IF code \notin DOMAIN Commands
  THEN Fail(b, IF code \in NotInteger THEN "COMMAND_VALUE_NOT_INTEGER" ELSE "UNSUPPORTED_COMMAND")
  ELSE LET c == Commands[code]
           claimed == [b EXCEPT ![c.mode] = c.value,
                                !.axis = IF c.axis = "NONE" THEN @ ELSE c.axis,
                                !.groups = @ \cup {c.group}]
       IN IF c.axis # "NONE" /\ b.axis # "NONE" THEN Fail(b, "AXIS_COMMAND_CONFLICT")
          ELSE FailIf(claimed, c.group \in b.groups, "MODAL_GROUP_VIOLATION")

\* L and T are kept in a byte.
Kept(letter, value) == IF letter \in {"L", "T"} THEN value % 256 ELSE value

ValueWord(b, letter, value) ==
  IF letter = "T" /\ value > MaxTool THEN Fail(b, "MAX_VALUE_EXCEEDED")
  ELSE IF letter \in DOMAIN b.words THEN Fail(b, "WORD_REPEATED")
  ELSE FailIf([b EXCEPT !.words = Updated(@, [l \in {letter} |-> Kept(l, value)])],
              letter \in NonNegative /\ value < 0, "NEGATIVE_VALUE")

Word(b, word) ==
  IF b.status # "OK" THEN b
  ELSE IF word[1] \in ValueLetters THEN ValueWord(b, word[1], word[2])
  ELSE IF word[1] = "?" THEN Fail(b, "BAD_NUMBER_FORMAT") ELSE CommandWord(b, word[1])

\* Step 2: all words of the line.
Parsed(gc, jog, line) ==
  LET block[n \in 0..Len(line)] ==
        IF n = 0 THEN NewBlock(gc, jog) ELSE Word(block[n - 1], line[n])
  IN block[Len(line)]
=============================================================================
