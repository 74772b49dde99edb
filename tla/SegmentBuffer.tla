---------------------------- MODULE SegmentBuffer ---------------------------
(***************************************************************************)
(* The segment generator of stepper.cpp, st_prep_buffer(): it checks steps *)
(* out of the first block of the planner into a ring of short segments,    *)
(* along a velocity profile that it computes when it loads a block and     *)
(* whenever the planner has changed the plan under it.                     *)
(*                                                                         *)
(* A record m holds what the generator works on: m.plan, m.prep (its       *)
(* prep_t and pl_block), m.ctl (sys.step_control), m.over (the overrides), *)
(* m.queue (the segment ring) and m.blocks (st_block_buffer). Time is left *)
(* out: a segment ends wherever one of some duration may end.              *)
(***************************************************************************)
EXTENDS Planner, Integers, FiniteSets

CONSTANTS
  SegmentBufferSize,   \* SEGMENT_BUFFER_SIZE
  Grain,               \* segments end at multiples of this length
  NoBlock              \* pl_block is NULL

ASSUME SegmentAssumption ==
  /\ SegmentBufferSize \in Nat /\ SegmentBufferSize > 2
  /\ Grain \in Nat \ {0}
  /\ NoBlock \notin Slots

Ceiling(mm) == (mm + StepLength - 1) \div StepLength

\* After st_reset().
NoPrep == [block |-> NoBlock, flags |-> {}, index |-> 0, steps |-> 0, cur |-> 0, exit |-> 0,
           max |-> 0, ramp |-> "accel", until |-> 0, after |-> 0, complete |-> 0]

\* Seeded fault: the block data ring is one slot too short.
NextIndexShort(i) == IF i + 1 = SegmentBufferSize - 2 THEN 0 ELSE i + 1

\* st_next_block_index()
NextIndex(i) == IF i + 1 = SegmentBufferSize - 1 THEN 0 ELSE i + 1

\* st_update_plan_block_parameters()
UpdatePlanBlock(m) ==
  IF m.prep.block = NoBlock THEN m
  ELSE [m EXCEPT !.plan.block[m.prep.block].entry = m.prep.cur,
                 !.prep.flags = @ \cup {"RECALCULATE"},
                 !.prep.block = NoBlock]

\* planner_recalculate(): the generator is told when the block it is in is planned.
Recalculate(m) ==
  LET u == IF m.plan.planned = m.plan.tail THEN UpdatePlanBlock(m) ELSE m
  IN IF NothingToPlan(m.plan) THEN m
     ELSE [u EXCEPT !.plan = ForwardPass(ReversePass(@))]

\* plan_cycle_reinitialize()
Reinitialize(m) ==
  LET u == UpdatePlanBlock(m) IN Recalculate([u EXCEPT !.plan.planned = u.plan.tail])

\* plan_buffer_line() for a line of the program
BufferLine(m, line) == Recalculate([m EXCEPT !.plan = AppendLine(@, line, m.over)])

-----------------------------------------------------------------------------
(* Loading a block and computing its profile.                               *)

\* The forced deceleration of a feed hold, which may end in a later block.
HoldProfile(prep, b) ==
  [prep EXCEPT !.ramp = "decel",
               !.complete = IF b.mm < b.entry THEN 0 ELSE b.mm - b.entry,
               !.exit = IF b.mm < b.entry THEN b.entry - b.mm ELSE 0]

\* The profile between the entry speed and the planned exit speed.
NormalProfile(prep, b, exit, nominal) ==
  LET intersect == (b.mm + b.entry - exit) \div 2
      p == [prep EXCEPT !.ramp = "accel", !.until = b.mm, !.exit = exit, !.complete = 0]
  IN CASE b.entry > nominal /\ b.mm <= b.entry - nominal ->   \* an override, deceleration only
            [p EXCEPT !.ramp = "decel", !.until = b.mm - (b.entry - nominal),
                      !.exit = b.entry - b.mm, !.flags = @ \cup {"DECEL_OVERRIDE"}]
       [] b.entry > nominal /\ b.mm > b.entry - nominal ->    \* an override, down to cruise
            [p EXCEPT !.ramp = "decel_override", !.until = b.mm - (b.entry - nominal),
                      !.after = nominal - exit, !.max = nominal]
       [] b.entry <= nominal /\ intersect <= 0 ->             \* acceleration only
            [p EXCEPT !.until = 0, !.max = exit]
       [] b.entry <= nominal /\ intersect > 0 /\ intersect >= b.mm ->   \* deceleration only
            [p EXCEPT !.ramp = "decel"]
       [] OTHER ->
            IF nominal - exit < intersect
            THEN [p EXCEPT !.after = nominal - exit, !.max = nominal,
                           !.ramp = IF b.entry = nominal THEN "cruise" ELSE "accel",
                           !.until = IF b.entry = nominal THEN @ ELSE @ - (nominal - b.entry)]
            ELSE [p EXCEPT !.until = intersect, !.after = intersect, !.max = intersect + exit]

\* The block the generator would load next.
NextPrepBlock(m) ==
  IF "SYS_MOTION" \in m.ctl THEN m.plan.head
  ELSE IF IsEmpty(m.plan) THEN NoBlock ELSE m.plan.tail

\* Seeded fault: a block loaded in a forced deceleration starts as planned.
LoadNewAsPlanned(m, slot) ==
  LET b == m.plan.block[slot]
      index == NextIndex(m.prep.index)
  IN [m EXCEPT
        !.blocks[index] = [count |-> b.count, axes |-> b.axes, forward |-> b.forward],
        !.prep.index = index, !.prep.steps = b.count, !.prep.cur = b.entry,
        !.prep.flags = @ \ {"DECEL_OVERRIDE"}]

\* A new block: its stepping data go to the next slot, and it starts at its entry
\* speed, unless a deceleration beyond the plan runs on into it.
LoadNew(m, slot) ==
  LET b == m.plan.block[slot]
      index == NextIndex(m.prep.index)
      forced == "HOLD" \in m.ctl \/ "DECEL_OVERRIDE" \in m.prep.flags
      entry == IF forced THEN m.prep.exit ELSE b.entry
  IN [m EXCEPT
        !.blocks[index] = [count |-> b.count, axes |-> b.axes, forward |-> b.forward],
        !.plan.block[slot].entry = entry,
        !.prep.index = index, !.prep.steps = b.count, !.prep.cur = entry,
        !.prep.flags = @ \ {"DECEL_OVERRIDE"}]

\* A block is loaded, or the rest of a loaded one that the planner has changed.
Load(m) ==
  LET slot == NextPrepBlock(m)
      n == IF "RECALCULATE" \in m.prep.flags THEN [m EXCEPT !.prep.flags = {}]
           ELSE LoadNew(m, slot)
      b == n.plan.block[slot]
      exit == IF "SYS_MOTION" \in m.ctl THEN 0 ELSE ExitSpeed(n.plan)
      profile == IF "HOLD" \in m.ctl THEN HoldProfile(n.prep, b)
                 ELSE NormalProfile(n.prep, b, exit, NominalSpeed(b, m.over))
  IN [n EXCEPT !.prep = [profile EXCEPT !.block = slot]]

-----------------------------------------------------------------------------
(* One segment.                                                             *)

\* The ramp and the speed at a distance x from the end of the block.
RampAt(prep, x) ==
  IF prep.ramp \in {"accel", "decel_override"} /\ x >= prep.until THEN prep.ramp
  ELSE IF prep.ramp # "decel" /\ x >= prep.after THEN "cruise" ELSE "decel"

SpeedAt(prep, mm, x) ==
  LET ramp == RampAt(prep, x)
      braking == ramp = "decel_override" \/ (ramp = "decel" /\ prep.ramp = "decel")
  IN IF x = prep.complete /\ ramp = "decel" THEN prep.exit
     ELSE IF x = prep.until /\ prep.ramp \in {"accel", "decel_override"} THEN prep.max
     ELSE CASE ramp = "accel" -> prep.cur + (mm - x)
            [] ramp = "cruise" -> prep.max
            [] braking -> prep.cur - (mm - x)
            [] ramp = "decel" /\ ~braking -> prep.max - (prep.after - x)

\* Where a segment may end: at the end of the profile, or after at least one and a
\* quarter steps, still moving.
SegmentEnds(m) ==
  LET mm == m.plan.block[m.prep.block].mm
      c == m.prep.complete
  IN {c} \cup {x \in c + 1..mm : /\ x % Grain = 0
                                 /\ 4 * (mm - x) >= 5 * StepLength
                                 /\ SpeedAt(m.prep, mm, x) > 0}

\* Seeded fault: every end of a profile ends the motion.
SegmentEndsMotion(m, x) ==
  LET slot == m.prep.block
      moved == [m EXCEPT !.prep.cur = SpeedAt(m.prep, m.plan.block[slot].mm, x),
                         !.prep.ramp = RampAt(m.prep, x),
                         !.queue = Append(@, [index |-> m.prep.index, n |-> m.prep.steps - Ceiling(x)]),
                         !.plan.block[slot].mm = x, !.prep.steps = Ceiling(x)]
  IN IF x > m.prep.complete THEN moved ELSE [moved EXCEPT !.ctl = @ \cup {"END_MOTION"}]

\* A segment that ends x before the end of the block is queued, unless a feed hold
\* ends without a step.
Segment(m, x) ==
  LET slot == m.prep.block
      n == m.prep.steps - Ceiling(x)
      moved == [m EXCEPT !.prep.cur = SpeedAt(m.prep, m.plan.block[slot].mm, x),
                         !.prep.ramp = RampAt(m.prep, x)]
      queued == [moved EXCEPT !.queue = Append(@, [index |-> m.prep.index, n |-> n]),
                              !.plan.block[slot].mm = x,
                              !.prep.steps = Ceiling(x)]
      ended == [queued EXCEPT !.ctl = @ \cup {"END_MOTION"}]
  IN IF n = 0 /\ "HOLD" \in m.ctl THEN [moved EXCEPT !.ctl = @ \cup {"END_MOTION"}]
     ELSE IF x > m.prep.complete THEN queued
     ELSE IF x > 0 \/ "SYS_MOTION" \in m.ctl THEN ended
     ELSE [queued EXCEPT !.prep.block = NoBlock, !.plan = Discard(@)]

\* Seeded fault: the ring is filled to its last slot.
PreparingOverFull(m) ==
  /\ "END_MOTION" \notin m.ctl
  /\ Len(m.queue) < SegmentBufferSize
  /\ m.prep.block # NoBlock \/ NextPrepBlock(m) # NoBlock

\* st_prep_buffer() goes on: there is room, and something to prepare.
Preparing(m) ==
  /\ "END_MOTION" \notin m.ctl
  /\ Len(m.queue) < SegmentBufferSize - 1
  /\ m.prep.block # NoBlock \/ NextPrepBlock(m) # NoBlock
=============================================================================
