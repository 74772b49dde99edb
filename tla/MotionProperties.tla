-------------------------- MODULE MotionProperties --------------------------
(***************************************************************************)
(* What the chain from planner to motors promises: an optimal plan, speeds *)
(* without jumps, no step lost, a stop only from rest, a homed machine at  *)
(* its switches, and an end of every motion.                               *)
(***************************************************************************)
EXTENDS Motion, FiniteSetsExt

MotionType ==
  /\ gen.plan.tail \in Slots /\ gen.plan.head \in Slots /\ gen.plan.planned \in Slots
  /\ gen.prep.block \in Slots \cup {NoBlock}
  /\ gen.prep.flags \subseteq {"RECALCULATE", "DECEL_OVERRIDE"}
  /\ gen.prep.cur \in Nat /\ gen.prep.exit \in Nat /\ gen.prep.steps \in Nat
  /\ gen.ctl \subseteq {"HOLD", "END_MOTION", "SYS_MOTION"}
  /\ Len(gen.queue) < SegmentBufferSize
  /\ \A i \in DOMAIN gen.queue : gen.queue[i].n \in Nat \ {0}
  /\ sys.state \in {"IDLE", "CYCLE", "HOLD", "HOMING", "ALARM"}
  /\ sys.suspend \subseteq {"COMPLETE"} /\ sys.flags \subseteq {"HOLD", "START", "STOP"}
  /\ stepper.index \in 0..SegmentBufferSize - 2 /\ stepper.left \in Nat /\ stepper.done \in Nat
  /\ place \in [Axes -> Int]

-----------------------------------------------------------------------------
\* The speed at which the rest of the first block begins.
CurrentSpeed ==
  LET prep == gen.prep
  IN IF prep.block = gen.plan.tail \/ "RECALCULATE" \in prep.flags THEN prep.cur
     ELSE IF "DECEL_OVERRIDE" \in prep.flags THEN prep.exit
     ELSE gen.plan.block[gen.plan.tail].entry

\* The length from the start of the i-th queued block to the start of the j-th.
Between(i, j) ==
  MapThenSumSet(LAMBDA k : gen.plan.block[Queued(gen.plan)[k]].mm, i..j - 1)

\* The best entry speed of the i-th queued block: no more than its maximum, than any
\* later maximum and the stop at the end leave time to brake for, and than full
\* acceleration from the current speed reaches.
BestEntry(i) ==
  LET q == Queued(gen.plan)
      n == Len(q)
  IN Min({gen.plan.block[q[j]].maxEntry + Between(i, j) : j \in i..n}
           \cup {Between(i, n + 1), CurrentSpeed + Between(1, i)})

\* "The plan is optimal and no further speed improvements are possible" (planner.cpp):
\* whatever was appended, discarded, held or overridden, and however little of it was
\* recomputed, every entry speed behind the first block is the best one. A hold in
\* progress decelerates regardless of the plan.
PlanIsOptimal ==
  "HOLD" \notin gen.ctl =>
    \A i \in 2..Distance(gen.plan.tail, gen.plan.head) :
      gen.plan.block[Queued(gen.plan)[i]].entry = BestEntry(i)

\* The steps left to make of the k-th segment of a queue, of the first as many as are
\* left, if any.
ToStep(q, k, left) == IF k = 1 /\ left > 0 THEN left ELSE q[k].n

\* The steps of a block in the first segments of a queue.
QueuedOf(i, q, left) ==
  LET sum[k \in 0..Len(q)] ==
        IF k = 0 THEN 0 ELSE sum[k - 1] + (IF q[k].index = i THEN ToStep(q, k, left) ELSE 0)
  IN sum

\* The segments still to be stepped of a block in the step interrupt's table, with
\* the steps done and the steps not yet prepared.
StepsOf(i) ==
  LET q == gen.queue
      inHand == i = stepper.index /\ (q = <<>> \/ q[1].index = i)
  IN QueuedOf(i, q, stepper.left)[Len(q)] + (IF inHand THEN stepper.done ELSE 0)
       + (IF i = gen.prep.index THEN gen.prep.steps ELSE 0)

\* No step is lost or made twice, whatever interrupts a block: its steps done, queued
\* and not yet prepared are all its steps, and its data stay in the table as long as
\* there are any ("the stepper path should continue exactly as if nothing has happened").
StepsAreExact ==
  LET busy == {gen.queue[k].index : k \in DOMAIN gen.queue}
                \cup (IF gen.prep.steps > 0 THEN {gen.prep.index} ELSE {})
  IN \A i \in busy \cup (IF busy = {} /\ stepper.done > 0 THEN {stepper.index} ELSE {}) :
       StepsOf(i) = gen.blocks[i].count

\* The length of the segment a step prepares.
Covered ==
  IF gen'.queue = gen.queue THEN StepLength
  ELSE gen.plan.block[gen.prep.block].mm - gen'.plan.block[gen.prep.block].mm

\* The acceleration limit: over a segment the squared speed changes by no more than
\* its length, and between two blocks, or when a block is planned anew, not at all.
\* What a hold leaves undone is less than a step.
SpeedIsContinuous ==
  [][/\ PrepLoad => gen'.prep.cur = gen.prep.cur
     /\ PrepSegment => /\ gen'.prep.cur - gen.prep.cur <= Covered
                       /\ gen.prep.cur - gen'.prep.cur <= Covered]_vars

\* The motors run dry only when the last segment brought them to rest: at the end of
\* the plan, of a hold, and of an approach or pull-off that was not cut short.
StopsAtRest == [][ShutDown => gen.prep.cur = 0]_vars

\* A homing cycle that succeeds ends with every axis clear of its switch, and no
\* farther from it than the pull-off.
HomedAtSwitch == At("homed") => \A a \in homing.homed : place[a] \in 1..Pulloff

\* Every motion comes to an end: the motors stop for good, with all blocks checked out,
\* or a hold complete that nobody resumes, or an alarm.
MotionEnds ==
  <>[](/\ ~stepper.on
       /\ IsEmpty(gen.plan) \/ "COMPLETE" \in sys.suspend \/ sys.state = "ALARM")

\* The same with all segments stepped out. It does not hold: in a hold of an idle
\* machine a waiting block that fits in the segment buffer is prepared and leaves the
\* ring, and the resume finds nothing to start (protocol.cpp:358). See resume_lost.cfg.
MotionFinishes ==
  <>[](/\ ~stepper.on
       /\ (IsEmpty(gen.plan) /\ gen.queue = <<>>)
            \/ "COMPLETE" \in sys.suspend \/ sys.state = "ALARM")
=============================================================================
