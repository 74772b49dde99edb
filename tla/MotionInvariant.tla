--------------------------- MODULE MotionInvariant --------------------------
(***************************************************************************)
(* Why the chain from planner to motors loses no step and homes at the     *)
(* switches: the types of its state, and the invariant of which            *)
(* StepsAreExact and HomedAtSwitch are parts. It holds when every homing   *)
(* cycle begins with nothing planned: see HomesWithNothingPlanned.         *)
(***************************************************************************)
EXTENDS MotionProperties

DataSlots == 0..SegmentBufferSize - 2

PlanBlocks ==
  [count : Nat, axes : SUBSET Axes, forward : BOOLEAN, kind : {"feed", "rapid", "system"},
   mm : Nat, rate : Nat, rapid : Nat, entry : Nat, maxEntry : Nat, junction : Nat]

Plans ==
  [tail : Slots, head : Slots, planned : Slots, prevNominal : Nat, block : [Slots -> PlanBlocks]]

Preps ==
  [block : Slots \cup {NoBlock}, flags : SUBSET {"RECALCULATE", "DECEL_OVERRIDE"},
   index : DataSlots, steps : Nat, cur : Nat, exit : Nat, max : Nat,
   ramp : {"accel", "decel", "decel_override", "cruise"},
   until : Int, after : Int, complete : Nat]

StepData == [count : Nat, axes : SUBSET Axes, forward : BOOLEAN]

Segments == [index : DataSlots, n : Nat \ {0}]

Generators ==
  [plan : Plans, prep : Preps, ctl : SUBSET {"HOLD", "END_MOTION", "SYS_MOTION"},
   over : Overrides, queue : Seq(Segments), blocks : [DataSlots -> StepData]]

SystemStates ==
  [state : {"IDLE", "CYCLE", "HOLD", "HOMING", "ALARM"}, suspend : SUBSET {"COMPLETE"},
   flags : SUBSET {"HOLD", "START", "STOP"}, wanted : Overrides]

Steppers == [on : BOOLEAN, index : DataSlots, left : Nat, done : Nat]

ControlPoints ==
  {"loop", "line", "home", "exec", "prep", "wake", "seek", "move", "limits", "check",
   "reverse", "homed"}

MainStates ==
  [pc : ControlPoints, then : {"loop", "line", "home", "move", "check", "homed"},
   rt : SUBSET {"HOLD", "START", "STOP", "WAKE"}, line : ProgramLines \cup {NoLine}]

Homings ==
  [axes : SUBSET Axes, lock : SUBSET Axes, approach : BOOLEAN, travel : Nat, rate : Nat,
   n : 0..3, homed : SUBSET Axes]

TypeInvariant ==
  /\ gen \in Generators /\ sys \in SystemStates /\ stepper \in Steppers
  /\ main \in MainStates /\ homing \in Homings /\ place \in [Axes -> Int] /\ host \in Hosts

-----------------------------------------------------------------------------
\* A homing cycle moves the axes, past its beginning.
Homing ==
  \/ main.pc \in {"seek", "move", "limits", "check", "reverse"}
  \/ main.pc = "prep" /\ main.then \in {"move", "check"}

\* A line is kept until it is buffered; the flags copied by a pass of the executor are
\* kept for the rest of a pass that starts the motors.
ControlInvariant ==
  /\ main.then \in {"move", "check"} => Homing
  /\ main.pc = "line" => main.then = "line"
  /\ main.then = "line" => main.line \in ProgramLines
  /\ main.pc = "homed" => main.then = "homed"
  /\ main.pc = "wake" => main.then # "homed"
  /\ main.rt # {} => "WAKE" \in main.rt /\ main.pc \in {"prep", "wake"}
                      /\ main.then \in {"loop", "line", "home"}

\* A hold decelerates only in state HOLD, and until it is complete.
HoldInvariant ==
  /\ "HOLD" \in gen.ctl => sys.state = "HOLD" /\ sys.suspend = {}
  /\ sys.suspend # {} => sys.state = "HOLD"
  /\ main.pc = "home" => sys.suspend = {}

HomingInvariant ==
  /\ "SYS_MOTION" \in gen.ctl => Homing
  /\ Homing =>
       /\ sys.state = "HOMING" /\ sys.suspend = {} /\ IsEmpty(gen.plan) /\ homing.axes # {}
       /\ homing.n \in (IF homing.approach THEN {3, 1} ELSE {2, 0})
       /\ homing.travel > 0 /\ (~homing.approach => homing.travel = Pulloff)
       /\ main.pc = "seek" => gen.prep.block = NoBlock
       /\ main.pc # "seek" => "SYS_MOTION" \in gen.ctl
       /\ main.pc = "reverse" /\ homing.approach => homing.lock = {}
  /\ main.then = "homed" =>
       /\ gen.ctl = {} /\ sys.suspend = {} /\ IsEmpty(gen.plan) /\ gen.prep.block = NoBlock
       /\ ~stepper.on /\ main.rt = {}
       /\ main.pc \in {"exec", "prep", "homed"}
       /\ main.pc = "exec" => sys.state = "HOMING"
       /\ \A a \in homing.homed : place[a] \in 1..Pulloff

-----------------------------------------------------------------------------
\* A slot between the tail and the head of the planner's ring.
InRing(plan, i) ==
  IF plan.tail <= plan.head THEN plan.tail <= i /\ i < plan.head
  ELSE plan.tail <= i \/ i < plan.head

\* A block is loaded, or was when the planner changed it: its data are in the table.
Loaded(m) == m.prep.block # NoBlock \/ "RECALCULATE" \in m.prep.flags

Untouched(b) == b.count > 0 /\ b.mm = StepLength * b.count

\* The block of which some steps may have been prepared is the first of the ring, or the
\* system motion at the head. All others are as they were planned.
BlocksAreWhole(m) ==
  LET prep == m.prep
      inHand == IF prep.block = NoBlock THEN m.plan.tail ELSE prep.block
      b == m.plan.block[inHand]
  IN /\ \A i \in Slots : InRing(m.plan, i) => Untouched(m.plan.block[i]) \/ (Loaded(m) /\ i = inHand)
     /\ "RECALCULATE" \in prep.flags => prep.block = NoBlock /\ ~IsEmpty(m.plan)
     /\ prep.block # NoBlock =>
          /\ IF "SYS_MOTION" \in m.ctl THEN prep.block = m.plan.head
             ELSE ~IsEmpty(m.plan) /\ prep.block = m.plan.tail
          /\ prep.complete <= b.mm
          /\ prep.complete > 0 => "HOLD" \in m.ctl
          /\ prep.ramp = "decel_override" => prep.complete < prep.until
     /\ Loaded(m) => /\ prep.steps = Ceiling(b.mm)
                     /\ prep.steps = 0 => "SYS_MOTION" \in m.ctl /\ "END_MOTION" \in m.ctl
     /\ ~Loaded(m) => prep.steps = 0

\* The system motion of a homing cycle is planned before it is loaded.
BlockInvariant ==
  /\ BlocksAreWhole(gen)
  /\ "SYS_MOTION" \in gen.ctl /\ main.pc # "seek" /\ gen.prep.block = NoBlock =>
       LET s == gen.plan.block[gen.plan.head]
       IN Untouched(s) /\ s.count = homing.travel /\ s.forward = ~homing.approach

-----------------------------------------------------------------------------
\* How far a slot of the table is behind the one being prepared.
Behind(i) == IF i <= gen.prep.index THEN gen.prep.index - i
             ELSE gen.prep.index + (SegmentBufferSize - 1) - i

\* The slot of the last segment that was queued.
LastIndex == IF gen.queue = <<>> THEN stepper.index ELSE gen.queue[Len(gen.queue)].index

\* The segments go through the table in order, none leaving out a slot, and the table
\* has room for as many blocks as the queue for segments.
TableInvariant ==
  LET q == gen.queue
      Follows(i, j) == j \in {i, NextIndex(i)}
  IN /\ Len(q) < SegmentBufferSize
     /\ stepper.left > 0 => q # <<>> /\ q[1].index = stepper.index /\ stepper.left < q[1].n
     /\ Follows(LastIndex, gen.prep.index)
     /\ LastIndex # gen.prep.index => gen.prep.steps > 0
     /\ \A k \in 1..Len(q) :
          /\ Behind(q[k].index) <= Len(q) - k + (IF LastIndex = gen.prep.index THEN 0 ELSE 1)
          /\ \A j \in 1..k : Behind(q[k].index) <= Behind(q[j].index)

-----------------------------------------------------------------------------
\* In an approach an axis is let go only at its switch; in a pull-off no axis is
\* farther from where it was than the steps done, and those are steps of the pull-off.
SwitchInvariant ==
  Homing =>
    /\ homing.approach /\ main.pc # "seek" => \A a \in homing.axes \ homing.lock : place[a] <= 0
    /\ ~homing.approach =>
         /\ \A a \in homing.axes : place[a] <= stepper.done
         /\ main.pc # "seek" => homing.lock = homing.axes
         /\ main.pc = "reverse" => \A a \in homing.axes : place[a] > 0
         /\ IF gen.prep.block = NoBlock THEN gen.queue = <<>> /\ stepper.done = 0
            ELSE /\ gen.blocks[gen.prep.index].count = Pulloff /\ gen.blocks[gen.prep.index].forward
                 /\ stepper.done > 0 => stepper.index = gen.prep.index
                 /\ \A k \in 1..Len(gen.queue) : gen.queue[k].index = gen.prep.index

Invariant ==
  /\ TypeInvariant
  /\ ControlInvariant
  /\ HoldInvariant
  /\ HomingInvariant
  /\ BlockInvariant
  /\ TableInvariant
  /\ StepsAreExact
  /\ SwitchInvariant

\* The planner is empty whenever a homing cycle begins, as `$H` is meant to be sent.
HomesWithNothingPlanned == [][HomeBegin => IsEmpty(gen.plan)]_vars
=============================================================================
