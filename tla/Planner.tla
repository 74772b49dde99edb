------------------------------- MODULE Planner ------------------------------
(***************************************************************************)
(* planner.cpp: the ring of blocks between the line motions of the program *)
(* and the segment generator, and the plan of their entry speeds.          *)
(*                                                                         *)
(* A speed is kept as its square, as the code keeps the entry speeds, and  *)
(* lengths are in the unit over which the acceleration of the machine      *)
(* changes a squared speed by one: the 2 * acceleration of the code is 1,  *)
(* for every block. Overrides are in halves of the programmed rate. Unit   *)
(* vectors and positions are left out: the junction speed, which the code  *)
(* computes from two unit vectors, is an input of a line.                  *)
(***************************************************************************)
EXTENDS Naturals, Sequences

CONSTANTS
  BlockBufferSize,   \* BLOCK_BUFFER_SIZE
  StepLength,        \* length of a step event
  MinimumFeedRate    \* MINIMUM_FEED_RATE, squared

ASSUME PlannerAssumption ==
  /\ BlockBufferSize \in Nat /\ BlockBufferSize > 2
  /\ StepLength \in Nat \ {0}
  /\ MinimumFeedRate \in Nat \ {0}

Slots == 0..BlockBufferSize - 1

SomeLargeValue == 1000   \* SOME_LARGE_VALUE

Least(a, b) == IF a <= b THEN a ELSE b

\* plan_next_block_index() and plan_prev_block_index()
NextBlock(i) == IF i + 1 = BlockBufferSize THEN 0 ELSE i + 1
PrevBlock(i) == IF i = 0 THEN BlockBufferSize - 1 ELSE i - 1

\* The number of slots from one to another, going forward.
Distance(from, to) == (to + BlockBufferSize - from) % BlockBufferSize

\* The slots in use, oldest first.
Queued(plan) ==
  [k \in 1..Distance(plan.tail, plan.head) |-> (plan.tail + k - 1) % BlockBufferSize]

Block(count, axes, forward, kind, rate, rapid, junction) ==
  [count |-> count, axes |-> axes, forward |-> forward, kind |-> kind,
   mm |-> StepLength * count, rate |-> rate, rapid |-> rapid,
   entry |-> 0, maxEntry |-> 0, junction |-> junction]

ZeroBlock == Block(0, {}, TRUE, "feed", 0, 0, 0)

\* plan_reset()
EmptyPlan == [tail |-> 0, head |-> 0, planned |-> 0, prevNominal |-> 0,
              block |-> [i \in Slots |-> ZeroBlock]]

IsEmpty(plan) == plan.head = plan.tail

\* plan_check_full_buffer()
IsFull(plan) == plan.tail = NextBlock(plan.head)

\* plan_discard_current_block()
Discard(plan) ==
  LET next == NextBlock(plan.tail)
  IN IF IsEmpty(plan) THEN plan
     ELSE [plan EXCEPT !.tail = next,
                       !.planned = IF plan.tail = plan.planned THEN next ELSE @]

\* plan_get_exec_block_exit_speed_sqr()
ExitSpeed(plan) ==
  LET next == NextBlock(plan.tail)
  IN IF next = plan.head THEN 0 ELSE plan.block[next].entry

\* plan_compute_profile_nominal_speed(); only lines of the program are scaled.
NominalSpeed(b, over) ==
  LET scaled == CASE b.kind = "rapid" -> (b.rate * over.r * over.r) \div 4
                  [] b.kind = "feed" -> Least((b.rate * over.f * over.f) \div 4, b.rapid)
                  [] b.kind = "system" -> Least(b.rate, b.rapid)
  IN IF scaled > MinimumFeedRate THEN scaled ELSE MinimumFeedRate

\* plan_compute_profile_parameters()
ProfileParameters(b, nominal, prevNominal) ==
  [b EXCEPT !.maxEntry = Least(Least(nominal, prevNominal), b.junction)]

\* A block's profile, after that of the block before it.
ProfileBlock(plan, i, over) ==
  LET nominal == NominalSpeed(plan.block[i], over)
  IN [plan EXCEPT !.block[i] = ProfileParameters(@, nominal, plan.prevNominal),
                  !.prevNominal = nominal]

\* plan_update_velocity_profile_parameters()
UpdateVelocityProfile(plan, over) ==
  LET slots == Queued(plan)
      pass[k \in 0..Len(slots)] ==
        IF k = 0 THEN [plan EXCEPT !.prevNominal = SomeLargeValue]
        ELSE ProfileBlock(pass[k - 1], slots[k], over)
  IN pass[Len(slots)]

-----------------------------------------------------------------------------
(* planner_recalculate(), without its call of the segment generator.        *)

\* The blocks after the planned one, in order, as the code walks them: with an
\* empty ring that is every slot but the planned one.
Unplanned(plan) ==
  [k \in 1..Distance(plan.planned, PrevBlock(plan.head))
     |-> (plan.planned + k) % BlockBufferSize]

\* Nothing but the planned block: the function returns at once.
NothingToPlan(plan) == Unplanned(plan) = <<>>

\* A block brakes to the entry speed of the next one, the last block to rest. A block
\* at its maximum entry speed is passed over.
Brake(plan, i) ==
  LET b == plan.block[i]
      isLast == i = PrevBlock(plan.head)
      exit == IF isLast THEN 0 ELSE plan.block[NextBlock(i)].entry
  IN IF ~isLast /\ b.entry = b.maxEntry THEN plan
     ELSE [plan EXCEPT !.block[i].entry = Least(b.maxEntry, exit + b.mm)]

\* Back from the last block.
ReversePass(plan) ==
  LET slots == Unplanned(plan)
      pass[k \in 0..Len(slots)] ==
        IF k = 0 THEN plan ELSE Brake(pass[k - 1], slots[Len(slots) + 1 - k])
  IN pass[Len(slots)]

\* Seeded fault: any acceleration moves the planned pointer.
AccelerateEager(plan, i) ==
  LET b == plan.block[PrevBlock(i)]
      next == plan.block[i]
  IN [plan EXCEPT !.block[i].entry = Least(next.entry, b.entry + b.mm),
                  !.planned = IF b.entry < next.entry \/ next.entry = next.maxEntry THEN i ELSE @]

\* No entry speed beyond what full acceleration over the block before reaches. A block
\* that accelerates all the way, or whose successor enters at its maximum, is planned
\* for good, and the planned pointer moves past it.
Accelerate(plan, i) ==
  LET b == plan.block[PrevBlock(i)]
      next == plan.block[i]
      limited == b.entry + b.mm < next.entry
      entry == IF limited THEN b.entry + b.mm ELSE next.entry
  IN [plan EXCEPT !.block[i].entry = entry,
                  !.planned = IF limited \/ entry = next.maxEntry THEN i ELSE @]

\* Forward from the planned block.
ForwardPass(plan) ==
  LET slots == Unplanned(plan)
      pass[k \in 0..Len(slots)] ==
        IF k = 0 THEN plan ELSE Accelerate(pass[k - 1], slots[k])
  IN pass[Len(slots)]

-----------------------------------------------------------------------------
(* plan_buffer_line(), without the final planner_recalculate().             *)

\* A line of the program is appended to the ring; the first one starts from rest.
AppendLine(plan, line, over) ==
  LET b == Block(line.count, line.axes, TRUE, line.kind,
                 IF line.kind = "rapid" THEN line.rapid ELSE line.rate, line.rapid,
                 IF IsEmpty(plan) THEN 0 ELSE line.junction)
      nominal == NominalSpeed(b, over)
  IN [plan EXCEPT !.block[plan.head] = ProfileParameters(b, nominal, plan.prevNominal),
                  !.prevNominal = nominal,
                  !.head = NextBlock(@)]

\* A system motion uses the free slot at the head and leaves the ring alone.
PlaceSystemMotion(plan, count, axes, forward, rate) ==
  [plan EXCEPT !.block[plan.head] = Block(count, axes, forward, "system", rate, rate, 0)]
=============================================================================
