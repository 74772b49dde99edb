----------------------------- MODULE GcodeBlock -----------------------------
(***************************************************************************)
(* The second half of gc_execute_line(): a block of words is checked       *)
(* against the parser state and turned into targets in machine             *)
(* coordinates, and then into the actions that execute it, in their order. *)
(*                                                                         *)
(* Lengths are whole millimetres. Arc radii are compared as squares: at    *)
(* these sizes the tolerances of the code (0.005 mm and 0.1 %) cannot tell *)
(* two radii with different squares from each other.                       *)
(***************************************************************************)
EXTENDS GcodeWords, FiniteSets

CONSTANTS
  MmPerInch,     \* MM_PER_INCH, as a whole number
  SoftLimits,    \* soft limits are enabled
  MaxTravel,     \* travel of each axis from its origin, 0 if unchecked
  HomingDirMask  \* the axes that home towards the negative end

ToolAxis == "Z"                   \* TOOL_LENGTH_OFFSET_AXIS
NCoordinateSystem == 6
IndexG28 == NCoordinateSystem
IndexG30 == NCoordinateSystem + 1
Records == 0..IndexG30

ASSUME UnitsAssumption == MmPerInch \in Nat \ {0} /\ SoftLimits \in BOOLEAN
ASSUME TravelAssumption == MaxTravel \in [Axes -> Nat] /\ HomingDirMask \subseteq Axes

Vector == [Axes -> Int]
Origin == [a \in Axes |-> 0]
Plus(u, v) == [a \in Axes |-> u[a] + v[a]]
Minus(u, v) == [a \in Axes |-> u[a] - v[a]]
ToolLengthVector(d) == [a \in Axes |-> IF a = ToolAxis THEN d ELSE 0]

\* system_check_travel_limits(): an axis homes to zero and travels away from it.
OutOfTravel(target) ==
  \E a \in Axes : LET reach == IF a \in HomingDirMask THEN target[a] ELSE -target[a]
                  IN MaxTravel[a] # 0 /\ (reach < 0 \/ reach > MaxTravel[a])

\* A record with its checksum: only the last byte counts, and whether there was
\* anything before it.
Sum(data) ==
  LET Next(c, byte) == ((IF c # 0 THEN 1 ELSE 0) + byte) % 256
  IN Next(Next(Next(0, data["X"]), data["Y"]), data["Z"])

Record(data) == [data |-> data, sum |-> Sum(data)]
Sound(record) == record.sum = Sum(record.data)

-----------------------------------------------------------------------------
(* Step 3: error checks, and values in millimetres of machine space.        *)

Given(b, letter) == letter \in DOMAIN b.words
Val(b, letter) == IF Given(b, letter) THEN b.words[letter] ELSE 0
Unit(b) == IF b.units = "INCHES" THEN MmPerInch ELSE 1
Used(b, letters) == [b EXCEPT !.unused = @ \ letters]
Offsets == [X |-> "I", Y |-> "J", Z |-> "K"]

\* The values of the block, lengths in millimetres; axis words without a command
\* mean the motion mode.
Valued(b, gc) ==
  LET axes == DOMAIN b.words \cap Axes
  IN Updated([b EXCEPT !.axis = IF axes # {} /\ @ = "NONE" THEN "MOTION_MODE" ELSE @],
       [axes |-> axes, unused |-> DOMAIN b.words, f |-> Val(b, "F"), select |-> 0,
        s |-> IF Given(b, "S") THEN Val(b, "S") ELSE gc.spindle_speed,
        xyz |-> [a \in Axes |-> Val(b, a) * Unit(b)],
        ijk |-> [a \in Axes |-> Val(b, Offsets[a])],
        system |-> gc.coord_system, repair |-> {}])

FeedRate(b, gc) ==
  LET needed == /\ b.axis = "MOTION_MODE" /\ b.motion \notin {"NONE", "SEEK"}
                /\ b.feed_rate = "INVERSE_TIME"
      perMin == b.feed_rate = "UNITS_PER_MIN" /\ gc.feed_rate = "UNITS_PER_MIN"
      f == CASE b.jog \/ (perMin /\ Given(b, "F")) -> b.f * Unit(b)
             [] ~b.jog /\ perMin /\ ~Given(b, "F") -> gc.feed
             [] OTHER -> b.f
  IN FailIf([b EXCEPT !.f = f], (b.jog \/ needed) /\ ~Given(b, "F"), "UNDEFINED_FEED_RATE")

Dwell(b) ==
  IF b.non_modal = "DWELL" THEN Used(FailIf(b, ~Given(b, "P"), "VALUE_WORD_MISSING"), {"P"}) ELSE b

ToolLengthAxis(b) ==
  FailIf(b, b.axis = "TOOL_LENGTH_OFFSET" /\ b.tool_length = "ENABLE_DYNAMIC" /\ b.axes # {ToolAxis},
         "G43_DYNAMIC_AXIS_ERROR")

\* settings_read_coord_data(): a record that is not sound is to be cleared.
Read(b, ee, n, field) ==
  IF b.status # "OK" THEN b
  ELSE IF Sound(ee[n]) THEN [b EXCEPT ![field] = ee[n].data]
  ELSE [Fail(b, "SETTING_READ_FAIL") EXCEPT !.repair = {n}]

CoordinateSystem(b, gc, ee) ==
  IF "G12" \in b.groups /\ gc.coord_select # b.coord_select
  THEN Read(b, ee, b.coord_select, "system") ELSE b

\* G10: L2 sets a coordinate system, L20 makes the position read as given.
SetCoordinateData(b, gc, ee) ==
  LET p == Val(b, "P") % 256
      n == IF p > 0 THEN p - 1 ELSE b.coord_select
      l == Val(b, "L")
      c1 == FailIf(b, b.axes = {}, "NO_AXIS_WORDS")
      c2 == FailIf(c1, ~Given(b, "P") /\ ~Given(b, "L"), "VALUE_WORD_MISSING")
      c3 == FailIf(c2, p > NCoordinateSystem, "UNSUPPORTED_COORD_SYS")
      c4 == FailIf(c3, l \notin {2, 20} \/ (l = 2 /\ Given(b, "R")), "UNSUPPORTED_COMMAND")
      stored == Read(Used(c4, {"L", "P"}), ee, n, "ijk")
      here == Minus(Minus(gc.position, gc.coord_offset), ToolLengthVector(gc.tool_length_offset))
  IN [stored EXCEPT
        !.select = n,
        !.ijk = [a \in Axes |-> IF a \notin b.axes THEN @[a]
                                ELSE IF l = 20 THEN here[a] - b.xyz[a] ELSE b.xyz[a]]]

\* Seeded fault: the tool length offset is not taken out.
SetCoordinateOffsetToolForgotten(b, gc) ==
  LET here == Minus(gc.position, b.system)
  IN [FailIf(b, b.axes = {}, "NO_AXIS_WORDS") EXCEPT
        !.xyz = [a \in Axes |-> IF a \in b.axes THEN here[a] - @[a] ELSE gc.coord_offset[a]]]

\* G92: the offset that makes the position read as given.
SetCoordinateOffset(b, gc) ==
  LET here == Minus(Minus(gc.position, b.system), ToolLengthVector(gc.tool_length_offset))
  IN [FailIf(b, b.axes = {}, "NO_AXIS_WORDS") EXCEPT
        !.xyz = [a \in Axes |-> IF a \in b.axes THEN here[a] - @[a] ELSE gc.coord_offset[a]]]

\* The traditional target. Without axis words, and with G43.1, values stay as
\* they are.
Target(b, gc) ==
  LET offset == Plus(Plus(b.system, gc.coord_offset), ToolLengthVector(gc.tool_length_offset))
      base == IF b.non_modal = "ABSOLUTE_OVERRIDE" THEN Origin
              ELSE IF b.distance = "ABSOLUTE" THEN offset ELSE gc.position
  IN IF b.axis = "TOOL_LENGTH_OFFSET" \/ b.axes = {} THEN b
     ELSE [b EXCEPT !.xyz = [a \in Axes |-> IF a \in b.axes THEN base[a] + @[a] ELSE gc.position[a]]]

\* G28 and G30 go to the stored position, by way of the target if there is one.
GoHome(b, gc, ee, n) ==
  LET stored == Read(b, ee, n, "ijk")
  IN IF b.axes = {} THEN [stored EXCEPT !.axis = "NONE"]
     ELSE [stored EXCEPT !.ijk = [a \in Axes |-> IF a \in b.axes THEN @[a] ELSE gc.position[a]]]

NonModalAction(b, gc, ee) ==
  CASE b.non_modal = "SET_COORDINATE_DATA" -> SetCoordinateData(b, gc, ee)
    [] b.non_modal = "SET_COORDINATE_OFFSET" -> SetCoordinateOffset(b, gc)
    [] b.non_modal = "GO_HOME_0" -> GoHome(Target(b, gc), gc, ee, IndexG28)
    [] b.non_modal = "GO_HOME_1" -> GoHome(Target(b, gc), gc, ee, IndexG30)
    [] b.non_modal = "ABSOLUTE_OVERRIDE" ->
         FailIf(Target(b, gc), b.motion \notin {"SEEK", "LINEAR"}, "G53_INVALID_MOTION_MODE")
    [] OTHER -> Target(b, gc)

\* The axes of the arc plane.
Plane(b) ==
  CASE b.plane_select = "XY" -> <<"X", "Y">>
    [] b.plane_select = "ZX" -> <<"Z", "X">>
    [] b.plane_select = "YZ" -> <<"Y", "Z">>

Square(n) == n * n
Length2(x, y) == Square(x) + Square(y)

\* An arc by its radius: some circle of that radius joins the two points.
RadiusArc(b, gc) ==
  LET p == Plane(b)[1] q == Plane(b)[2]
      chord == Length2(b.xyz[p] - gc.position[p], b.xyz[q] - gc.position[q])
      c1 == FailIf(Used(b, {"R"}), b.xyz = gc.position, "INVALID_TARGET")
  IN FailIf(c1, 4 * Square(Val(b, "R") * Unit(b)) < chord, "ARC_RADIUS_ERROR")

\* An arc by its centre: both points are equally far from it.
CentreArc(b, gc) ==
  LET p == Plane(b)[1] q == Plane(b)[2]
      i == b.ijk[p] * Unit(b)
      j == b.ijk[q] * Unit(b)
      c1 == FailIf(b, ~Given(b, Offsets[p]) /\ ~Given(b, Offsets[q]), "NO_OFFSETS_IN_PLANE")
  IN FailIf(Used(c1, {"I", "J", "K"}),
            Length2(b.xyz[p] - gc.position[p] - i, b.xyz[q] - gc.position[q] - j) # Length2(i, j),
            "INVALID_TARGET")

Arc(b, gc) ==
  LET c1 == FailIf(b, b.axes = {}, "NO_AXIS_WORDS")
      c2 == FailIf(c1, b.axes \cap {Plane(b)[1], Plane(b)[2]} = {}, "NO_AXIS_WORDS_IN_PLANE")
  IN IF Given(b, "R") THEN RadiusArc(c2, gc) ELSE CentreArc(c2, gc)

Probe(b, gc) ==
  FailIf(FailIf(b, b.axes = {}, "NO_AXIS_WORDS"), b.xyz = gc.position, "INVALID_TARGET")

MotionMode(b, gc) ==
  LET fed == FailIf(b, b.f = 0, "UNDEFINED_FEED_RATE")
      idle == IF b.axes = {} THEN "NONE" ELSE b.axis
  IN CASE b.motion = "NONE" -> FailIf(b, b.axes # {}, "AXIS_WORDS_EXIST")
       [] b.motion # "NONE" /\ b.axis # "MOTION_MODE" -> b
       [] b.motion = "SEEK" /\ b.axis = "MOTION_MODE" -> [b EXCEPT !.axis = idle]
       [] b.motion = "LINEAR" /\ b.axis = "MOTION_MODE" -> [fed EXCEPT !.axis = idle]
       [] b.motion \in {"CW_ARC", "CCW_ARC"} /\ b.axis = "MOTION_MODE" -> Arc(fed, gc)
       [] OTHER -> Probe(fed, gc)

\* Every word must have been used.
AllUsed(b) ==
  LET single == IF b.jog THEN {"N", "F"} ELSE {"N", "F", "S", "T"}
      left == b.unused \ (single \cup (IF b.axis # "NONE" THEN Axes ELSE {}))
  IN FailIf(b, left # {}, "UNUSED_WORDS")

\* Seeded fault: mc_line() is trusted to check a jog, which it does not.
JogOnlyUnlimited(b) ==
  FailIf(b, b.jog /\ (~(b.groups \subseteq {"G0", "G3", "G6"}) \/
                      b.non_modal \notin {"NO_ACTION", "ABSOLUTE_OVERRIDE"}), "INVALID_JOG_COMMAND")

\* A jog takes units, distance mode and G53 only, and stays within the travel.
JogOnly(b) ==
  LET c1 == FailIf(b, ~(b.groups \subseteq {"G0", "G3", "G6"}) \/
                      b.non_modal \notin {"NO_ACTION", "ABSOLUTE_OVERRIDE"}, "INVALID_JOG_COMMAND")
  IN IF b.jog THEN FailIf(c1, SoftLimits /\ OutOfTravel(b.xyz), "TRAVEL_EXCEEDED") ELSE b

Checked(b, gc, ee) ==
  IF b.status # "OK" THEN Updated(b, [repair |-> {}])
  ELSE LET feed == Dwell(FeedRate(Valued(b, gc), gc))
           system == CoordinateSystem(ToolLengthAxis(feed), gc, ee)
           values == NonModalAction(system, gc, ee)
       IN JogOnly(AllUsed(MotionMode(values, gc)))

-----------------------------------------------------------------------------
(* Step 4: what a block does, as the sequence of its actions.               *)

Do(name) == <<[do |-> name]>>
Set(changes) == <<[do |-> "set", to |-> changes]>>
MoveTo(name, target) == <<[do |-> name, target |-> target]>>
When(condition, actions) == IF condition THEN actions ELSE <<>>

\* system_flag_wco_change(), protocol_buffer_synchronize() included.
OffsetChanged == Do("sync") \o Do("wco")
Offset(changes) == <<[do |-> "offset", to |-> changes]>> \o OffsetChanged

\* memcpy_to_eeprom_with_checksum(): byte by byte, the checksum last.
Put(name, n, data) == <<[do |-> name, record |-> n, data |-> data]>>

WriteRecord(n, data) ==
  Do("sync") \o Put("put_x", n, data) \o Put("put_y", n, data) \o Put("put_z", n, data)
    \o Put("put_sum", n, data)

Spindle(b, gc) ==
  When(gc.spindle_speed # b.s /\ gc.spindle # "DISABLE", Do("outputs"))
  \o Set([spindle_speed |-> b.s])
  \o When(gc.spindle # b.spindle, Do("outputs") \o Set([spindle |-> b.spindle]))

Coolant(b, gc) ==
  When(gc.coolant # b.coolant,
       Do("outputs") \o Set([coolant |-> IF b.coolant = {} THEN {} ELSE gc.coolant \cup b.coolant]))

\* Seeded fault: a changed offset is not flagged.
ToolLengthOffsetUntold(b, gc) ==
  LET offset == IF b.tool_length = "CANCEL" THEN 0 ELSE b.xyz[ToolAxis]
  IN When(b.axis = "TOOL_LENGTH_OFFSET",
          Set([tool_length |-> b.tool_length, tool_length_offset |-> offset]))

ToolLengthOffset(b, gc) ==
  LET offset == IF b.tool_length = "CANCEL" THEN 0 ELSE b.xyz[ToolAxis]
  IN When(b.axis = "TOOL_LENGTH_OFFSET",
          Set([tool_length |-> b.tool_length])
            \o When(gc.tool_length_offset # offset, Offset([tool_length_offset |-> offset])))

SelectSystem(b, gc) ==
  When(gc.coord_select # b.coord_select,
       Offset([coord_select |-> b.coord_select, coord_system |-> b.system]))

\* Seeded fault: G10 forgets that the system it sets may be the active one.
NonModalStepsInactive(b, gc) ==
  CASE b.non_modal = "SET_COORDINATE_DATA" -> WriteRecord(b.select, b.ijk)
    [] b.non_modal = "SET_COORDINATE_OFFSET" -> Offset([coord_offset |-> b.xyz])
    [] OTHER -> <<>>

NonModalSteps(b, gc) ==
  CASE b.non_modal = "SET_COORDINATE_DATA" ->
         WriteRecord(b.select, b.ijk)
           \o When(b.coord_select = b.select, Offset([coord_system |-> b.ijk]))
    [] b.non_modal \in {"GO_HOME_0", "GO_HOME_1"} ->
         When(b.axis # "NONE", MoveTo("line", b.xyz)) \o MoveTo("line", b.ijk)
           \o MoveTo("position", b.ijk)
    [] b.non_modal = "SET_HOME_0" -> WriteRecord(IndexG28, gc.position)
    [] b.non_modal = "SET_HOME_1" -> WriteRecord(IndexG30, gc.position)
    [] b.non_modal = "SET_COORDINATE_OFFSET" -> Offset([coord_offset |-> b.xyz])
    [] b.non_modal = "RESET_COORDINATE_OFFSET" -> Offset([coord_offset |-> Origin])
    [] OTHER -> <<>>

MotionSteps(b) ==
  IF b.motion = "NONE" \/ b.axis # "MOTION_MODE" THEN <<>>
  ELSE CASE b.motion \in {"LINEAR", "SEEK"} -> MoveTo("line", b.xyz) \o MoveTo("position", b.xyz)
         [] b.motion \in {"CW_ARC", "CCW_ARC"} ->
              MoveTo("arc", b.xyz) \o MoveTo("line", b.xyz) \o MoveTo("position", b.xyz)
         [] OTHER -> <<[do |-> "probe", target |-> b.xyz,
                        silent |-> b.motion \in {"PROBE_TOWARD_NO_ERROR", "PROBE_AWAY_NO_ERROR"}]>>

ProgramEnd ==
  Set([motion |-> "LINEAR", plane_select |-> "XY", distance |-> "ABSOLUTE",
       feed_rate |-> "UNITS_PER_MIN", spindle |-> "DISABLE", coolant |-> {}])
  \o Do("end")

ProgramFlow(b) ==
  When(b.program_flow # "RUNNING", Do("sync"))
  \o When(b.program_flow = "PAUSED", Do("pause")) \o When(b.program_flow = "COMPLETED", ProgramEnd)

Steps(b, gc) ==
  IF b.jog
  THEN MoveTo("line", b.xyz) \o MoveTo("jog", b.xyz) \o MoveTo("position", b.xyz)
  ELSE Set([feed_rate |-> b.feed_rate, feed |-> b.f])
       \o Spindle(b, gc) \o Coolant(b, gc) \o When(b.non_modal = "DWELL", Do("outputs"))
       \o Set([plane_select |-> b.plane_select, units |-> b.units])
       \o ToolLengthOffset(b, gc) \o SelectSystem(b, gc) \o Set([distance |-> b.distance])
       \o NonModalSteps(b, gc) \o Set([motion |-> b.motion])
       \o MotionSteps(b) \o ProgramFlow(b)
=============================================================================
