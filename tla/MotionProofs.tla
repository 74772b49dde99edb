---------------------------- MODULE MotionProofs ----------------------------
(***************************************************************************)
(* That the chain from planner to motors loses no step and homes at the    *)
(* switches, for every machine and every scenario.                         *)
(***************************************************************************)
EXTENDS MotionInvariant, DataInduction, SequenceTheorems, FiniteSetTheorems

-----------------------------------------------------------------------------
(* Steps and lengths.                                                       *)

LEMMA CeilingIsNat == \A x \in Nat : Ceiling(x) \in Nat
BY PlannerAssumption DEF Ceiling

LEMMA CeilingOfNothing == Ceiling(0) = 0
BY PlannerAssumption DEF Ceiling

LEMMA CeilingOfSome == \A x \in Nat \ {0} : Ceiling(x) > 0
BY PlannerAssumption DEF Ceiling

LEMMA CeilingOfWhole == \A c \in Nat : Ceiling(StepLength * c) = c
BY PlannerAssumption DEF Ceiling

LEMMA CeilingMonotone == \A x, y \in Nat : x <= y => Ceiling(x) <= Ceiling(y)
BY PlannerAssumption DEF Ceiling

\* More than a step length apart, there is at least one step between.
LEMMA CeilingApart ==
  \A x, y \in Nat : 4 * (y - x) >= 5 * StepLength => Ceiling(x) < Ceiling(y)
BY PlannerAssumption DEF Ceiling

-----------------------------------------------------------------------------
(* Planning anew changes speeds and the planned pointer, and nothing else.  *)

SameBlock(b, c) ==
  /\ c.count = b.count /\ c.axes = b.axes /\ c.forward = b.forward /\ c.mm = b.mm

Replanned(p, q) ==
  /\ q \in Plans /\ q.tail = p.tail /\ q.head = p.head
  /\ \A i \in Slots : SameBlock(p.block[i], q.block[i])

LEMMA SlotsAreNat ==
  /\ Slots \subseteq Nat /\ 0 \in Slots /\ BlockBufferSize \in Nat /\ BlockBufferSize > 2
  /\ \A i \in Slots : NextBlock(i) \in Slots /\ PrevBlock(i) \in Slots
BY PlannerAssumption DEF Slots, NextBlock, PrevBlock

LEMMA ReplannedSelf == \A p \in Plans : Replanned(p, p)
BY DEF Replanned, SameBlock

LEMMA ReplannedChain ==
  \A p, q, r : Replanned(p, q) /\ Replanned(q, r) => Replanned(p, r)
BY DEF Replanned, SameBlock

LEMMA BlockIsPlanBlock ==
  ASSUME NEW p \in Plans, NEW i \in Slots
  PROVE  p.block[i] \in PlanBlocks
BY DEF Plans

\* Another speed of a block.
LEMMA EntryReplanned ==
  ASSUME NEW p \in Plans, NEW i \in Slots, NEW speed \in Nat
  PROVE  Replanned(p, [p EXCEPT !.block[i].entry = speed])
<1> DEFINE b == p.block[i]
           c == [b EXCEPT !.entry = speed]
           q == [p EXCEPT !.block = [@ EXCEPT ![i] = c]]
<1>1. b \in PlanBlocks
  BY DEF Plans
<1>2. c \in PlanBlocks /\ SameBlock(b, c)
  BY <1>1 DEF PlanBlocks, SameBlock
<1>3. [p EXCEPT !.block[i].entry = speed] = q
  BY DEF Plans
<1> HIDE DEF c
<1>4. q \in Plans /\ q.tail = p.tail /\ q.head = p.head
      /\ \A j \in Slots : q.block[j] = IF j = i THEN c ELSE p.block[j]
  BY <1>2 DEF Plans
<1>5. \A j \in Slots : SameBlock(p.block[j], q.block[j])
  BY <1>2, <1>4 DEF SameBlock
<1> QED
  BY <1>3, <1>4, <1>5 DEF Replanned

LEMMA PointerReplanned ==
  ASSUME NEW p \in Plans, NEW i \in Slots
  PROVE  Replanned(p, [p EXCEPT !.planned = i])
BY DEF Plans, Replanned, SameBlock

LEMMA NominalReplanned ==
  ASSUME NEW p \in Plans, NEW nominal \in Nat
  PROVE  Replanned(p, [p EXCEPT !.prevNominal = nominal])
BY DEF Plans, Replanned, SameBlock

LEMMA BrakeReplans ==
  ASSUME NEW p \in Plans, NEW i \in Slots
  PROVE  Replanned(p, Brake(p, i))
<1> DEFINE b == p.block[i]
           exit == IF i = PrevBlock(p.head) THEN 0 ELSE p.block[NextBlock(i)].entry
           speed == Least(b.maxEntry, exit + b.mm)
<1>1. b \in PlanBlocks /\ p.block[NextBlock(i)] \in PlanBlocks
  BY SlotsAreNat, BlockIsPlanBlock
<1>2. speed \in Nat
  BY <1>1 DEF PlanBlocks, Least
<1>3. Brake(p, i) = p \/ Brake(p, i) = [p EXCEPT !.block[i].entry = speed]
  BY DEF Brake
<1> HIDE DEF speed
<1> QED
  BY <1>2, <1>3, EntryReplanned, ReplannedSelf

LEMMA AccelerateReplans ==
  ASSUME NEW p \in Plans, NEW i \in Slots
  PROVE  Replanned(p, Accelerate(p, i))
<1> DEFINE b == p.block[PrevBlock(i)]
           next == p.block[i]
           limited == b.entry + b.mm < next.entry
           speed == IF limited THEN b.entry + b.mm ELSE next.entry
           planned == IF limited \/ speed = next.maxEntry THEN i ELSE p.planned
           q == [p EXCEPT !.block[i].entry = speed]
<1>1. b \in PlanBlocks /\ next \in PlanBlocks
  BY SlotsAreNat, BlockIsPlanBlock
<1>2. speed \in Nat /\ planned \in Slots
  BY <1>1 DEF PlanBlocks, Plans
<1>3. Accelerate(p, i) = [p EXCEPT !.block[i].entry = speed, !.planned = planned]
  BY DEF Accelerate
<1> HIDE DEF speed, planned
<1>4. Replanned(p, q)
  BY <1>2, EntryReplanned
<1> HIDE DEF q
<1>5. q \in Plans
  BY <1>4 DEF Replanned
<1>6. Replanned(q, [q EXCEPT !.planned = planned])
  BY <1>2, <1>5, PointerReplanned
<1>7. Accelerate(p, i) = [q EXCEPT !.planned = planned]
  BY <1>3, Zenon DEF q
<1> QED
  BY <1>4, <1>6, <1>7, ReplannedChain, Zenon

LEMMA ScaledIsNat ==
  ASSUME NEW rate \in Nat, NEW f \in Nat
  PROVE  (rate * f * f) \div 4 \in Nat
<1> DEFINE x == rate * f * f
<1>1. x \in Nat
  OBVIOUS
<1> HIDE DEF x
<1> QED
  BY <1>1

LEMMA NominalIsNat ==
  ASSUME NEW b \in PlanBlocks, NEW over \in Overrides
  PROVE  NominalSpeed(b, over) \in Nat
<1> DEFINE r == (b.rate * over.r * over.r) \div 4
           f == (b.rate * over.f * over.f) \div 4
<1>1. b.rate \in Nat /\ b.rapid \in Nat /\ b.kind \in {"feed", "rapid", "system"}
      /\ over.r \in Nat /\ over.f \in Nat
  BY DEF PlanBlocks, Overrides
<1>2. r \in Nat /\ f \in Nat
  BY <1>1, ScaledIsNat
<1>3. NominalSpeed(b, over) \in {r, Least(f, b.rapid), Least(b.rate, b.rapid), MinimumFeedRate}
  <2> HIDE DEF r, f
  <2>1. CASE b.kind = "rapid"
    BY <2>1 DEF NominalSpeed, r
  <2>2. CASE b.kind = "feed"
    BY <2>2 DEF NominalSpeed, f
  <2>3. CASE b.kind = "system"
    BY <2>3 DEF NominalSpeed
  <2> QED
    BY <1>1, <2>1, <2>2, <2>3
<1> HIDE DEF r, f
<1> QED
  BY <1>1, <1>2, <1>3, PlannerAssumption DEF Least

LEMMA ProfiledIsBlock ==
  ASSUME NEW b \in PlanBlocks, NEW nominal \in Nat, NEW prevNominal \in Nat
  PROVE  /\ ProfileParameters(b, nominal, prevNominal) \in PlanBlocks
         /\ SameBlock(b, ProfileParameters(b, nominal, prevNominal))
<1> DEFINE speed == Least(Least(nominal, prevNominal), b.junction)
<1>1. speed \in Nat
  BY DEF Least, PlanBlocks
<1>2. ProfileParameters(b, nominal, prevNominal) = [b EXCEPT !.maxEntry = speed]
  BY DEF ProfileParameters
<1> HIDE DEF speed
<1> QED
  BY <1>1, <1>2 DEF PlanBlocks, SameBlock

LEMMA BlockReplanned ==
  ASSUME NEW p \in Plans, NEW i \in Slots, NEW c \in PlanBlocks, SameBlock(p.block[i], c)
  PROVE  Replanned(p, [p EXCEPT !.block[i] = c])
<1> DEFINE q == [p EXCEPT !.block = [@ EXCEPT ![i] = c]]
<1>1. [p EXCEPT !.block[i] = c] = q
  BY DEF Plans
<1>2. q \in Plans /\ q.tail = p.tail /\ q.head = p.head
      /\ \A j \in Slots : q.block[j] = IF j = i THEN c ELSE p.block[j]
  BY DEF Plans
<1>3. \A j \in Slots : SameBlock(p.block[j], q.block[j])
  BY <1>2 DEF SameBlock
<1> QED
  BY <1>1, <1>2, <1>3 DEF Replanned

LEMMA ProfileReplans ==
  ASSUME NEW p \in Plans, NEW i \in Slots, NEW over \in Overrides
  PROVE  Replanned(p, ProfileBlock(p, i, over))
<1> DEFINE nominal == NominalSpeed(p.block[i], over)
           c == ProfileParameters(p.block[i], nominal, p.prevNominal)
           q == [p EXCEPT !.block[i] = c]
<1>1. p.block[i] \in PlanBlocks /\ p.prevNominal \in Nat
  BY DEF Plans
<1>2. nominal \in Nat
  BY <1>1, NominalIsNat
<1>3. c \in PlanBlocks /\ SameBlock(p.block[i], c)
  <2> HIDE DEF nominal
  <2> QED
    BY <1>1, <1>2, ProfiledIsBlock
<1>4. ProfileBlock(p, i, over) = [p EXCEPT !.block[i] = c, !.prevNominal = nominal]
  BY DEF ProfileBlock
<1> HIDE DEF c, nominal
<1>5. Replanned(p, q)
  BY <1>3, BlockReplanned
<1>6. q \in Plans
  BY <1>5 DEF Replanned
<1>7. Replanned(q, [q EXCEPT !.prevNominal = nominal])
  <2> HIDE DEF q
  <2> QED
    BY <1>2, <1>6, NominalReplanned
<1> QED
  BY <1>4, <1>5, <1>7, ReplannedChain, Zenon DEF q

-----------------------------------------------------------------------------
(* The passes of the planner, each a recursion on the slots it walks.       *)

LEMMA SlotsWalked ==
  ASSUME NEW p \in Plans
  PROVE  /\ Len(Queued(p)) \in Nat /\ \A k \in 1..Len(Queued(p)) : Queued(p)[k] \in Slots
         /\ Len(Unplanned(p)) \in Nat /\ \A k \in 1..Len(Unplanned(p)) : Unplanned(p)[k] \in Slots
<1>1. \A i \in Int : i % BlockBufferSize \in Slots
  BY PlannerAssumption DEF Slots
<1>2. \A i, j \in Slots : Distance(i, j) \in Nat
  BY PlannerAssumption DEF Distance, Slots
<1>3. /\ p.tail \in Slots /\ p.head \in Slots /\ p.planned \in Slots
      /\ p.tail \in Nat /\ p.planned \in Nat
  BY PlannerAssumption DEF Plans, Slots
<1> DEFINE n == Distance(p.tail, p.head)
           m == Distance(p.planned, PrevBlock(p.head))
<1>4. n \in Nat /\ m \in Nat
  BY <1>2, <1>3, SlotsAreNat
<1>5. Queued(p) = [k \in 1..n |-> (p.tail + k - 1) % BlockBufferSize]
      /\ Unplanned(p) = [k \in 1..m |-> (p.planned + k) % BlockBufferSize]
  BY DEF Queued, Unplanned
<1> HIDE DEF n, m
<1>6. \A k \in 1..n : p.tail + k - 1 \in Int
  BY <1>3, <1>4
<1>7. \A k \in 1..m : p.planned + k \in Int
  BY <1>3, <1>4
<1>8. Len(Queued(p)) = n /\ Len(Unplanned(p)) = m
  BY <1>4, <1>5
<1> QED
  BY <1>1, <1>4, <1>5, <1>6, <1>7, <1>8

LEMMA ReversePassReplans ==
  ASSUME NEW p \in Plans
  PROVE  Replanned(p, ReversePass(p))
<1> DEFINE S == {q \in Plans : Replanned(p, q)}
           slots == Unplanned(p)
           N == Len(slots)
           base == p
           F == [x \in (1..N) \X S |-> Brake(x[2], slots[N + 1 - x[1]])]
           Visit(pass, k) == IF k = 0 THEN p ELSE Brake(pass[k - 1], slots[N + 1 - k])
           Is(pass) == pass = [k \in 0..N |-> Visit(pass, k)]
           pass == CHOOSE r : Is(r)
<1>1. N \in Nat /\ \A k \in 1..N : slots[k] \in Slots /\ slots[N + 1 - k] \in Slots
  BY SlotsWalked
<1>2. base \in S
  BY ReplannedSelf DEF Replanned
<1>3. \A q \in S, i \in Slots : Brake(q, i) \in S
  BY BrakeReplans, ReplannedChain DEF Replanned
<1>4. F \in [(1..N) \X S -> S]
  <2> HIDE DEF N, S, slots
  <2> QED
    BY <1>1, <1>3
<1>5. \E r : Is(r)
  <2> HIDE DEF N, F, S, base, Visit, Is
  <2>1. PICK r \in [0..N -> S] : Recursive(r, N, base, F)
    BY <1>1, <1>2, <1>4, RecursionExists
  <2>2. ASSUME NEW k \in 0..N PROVE r[k] = Visit(r, k)
    <3>1. CASE k = 0
      BY <1>1, <2>1, <3>1 DEF Visit, base, Recursive
    <3>2. CASE k # 0
      <4>1. k \in 1..N /\ r[k - 1] \in S /\ r[k] = F[<<k, r[k - 1]>>]
        BY <1>1, <2>1, <3>2 DEF Recursive
      <4>2. F[<<k, r[k - 1]>>] = Brake(r[k - 1], slots[N + 1 - k])
        BY <4>1 DEF F
      <4> QED
        BY <3>2, <4>1, <4>2 DEF Visit
    <3> QED
      BY <3>1, <3>2
  <2> QED
    BY <2>2 DEF Is
<1>6. Is(pass)
  BY <1>5, Zenon
<1>7. ReversePass(p) = pass[N]
  BY Zenon DEF ReversePass
<1> HIDE DEF pass
<1>8. pass[0] = base /\ \A k \in 1..N : pass[k] = Brake(pass[k - 1], slots[N + 1 - k])
  BY <1>1, <1>6
<1>9. pass[N] \in S
  <2> HIDE DEF N, S, slots, base
  <2>1. \A k \in 1..N : pass[k - 1] \in S => pass[k] \in S
    BY <1>1, <1>3, <1>8
  <2>2. \A k \in 0..N : pass[k] \in S
    BY <1>1, <1>2, <1>8, <2>1, IntervalInduction
  <2> QED
    BY <1>1, <2>2
<1> QED
  BY <1>7, <1>9

LEMMA ForwardPassReplans ==
  ASSUME NEW p \in Plans
  PROVE  Replanned(p, ForwardPass(p))
<1> DEFINE S == {q \in Plans : Replanned(p, q)}
           slots == Unplanned(p)
           N == Len(slots)
           base == p
           F == [x \in (1..N) \X S |-> Accelerate(x[2], slots[x[1]])]
           Visit(pass, k) == IF k = 0 THEN p ELSE Accelerate(pass[k - 1], slots[k])
           Is(pass) == pass = [k \in 0..N |-> Visit(pass, k)]
           pass == CHOOSE r : Is(r)
<1>1. N \in Nat /\ \A k \in 1..N : slots[k] \in Slots
  BY SlotsWalked
<1>2. base \in S
  BY ReplannedSelf DEF Replanned
<1>3. \A q \in S, i \in Slots : Accelerate(q, i) \in S
  BY AccelerateReplans, ReplannedChain DEF Replanned
<1>4. F \in [(1..N) \X S -> S]
  <2> HIDE DEF N, S, slots
  <2> QED
    BY <1>1, <1>3
<1>5. \E r : Is(r)
  <2> HIDE DEF N, F, S, base, Visit, Is
  <2>1. PICK r \in [0..N -> S] : Recursive(r, N, base, F)
    BY <1>1, <1>2, <1>4, RecursionExists
  <2>2. ASSUME NEW k \in 0..N PROVE r[k] = Visit(r, k)
    <3>1. CASE k = 0
      BY <1>1, <2>1, <3>1 DEF Visit, base, Recursive
    <3>2. CASE k # 0
      <4>1. k \in 1..N /\ r[k - 1] \in S /\ r[k] = F[<<k, r[k - 1]>>]
        BY <1>1, <2>1, <3>2 DEF Recursive
      <4>2. F[<<k, r[k - 1]>>] = Accelerate(r[k - 1], slots[k])
        BY <4>1 DEF F
      <4> QED
        BY <3>2, <4>1, <4>2 DEF Visit
    <3> QED
      BY <3>1, <3>2
  <2> QED
    BY <2>2 DEF Is
<1>6. Is(pass)
  BY <1>5, Zenon
<1>7. ForwardPass(p) = pass[N]
  BY Zenon DEF ForwardPass
<1> HIDE DEF pass
<1>8. pass[0] = base /\ \A k \in 1..N : pass[k] = Accelerate(pass[k - 1], slots[k])
  BY <1>1, <1>6
<1>9. pass[N] \in S
  <2> HIDE DEF N, S, slots, base
  <2>1. \A k \in 1..N : pass[k - 1] \in S => pass[k] \in S
    BY <1>1, <1>3, <1>8
  <2>2. \A k \in 0..N : pass[k] \in S
    BY <1>1, <1>2, <1>8, <2>1, IntervalInduction
  <2> QED
    BY <1>1, <2>2
<1> QED
  BY <1>7, <1>9

LEMMA VelocitiesReplanned ==
  ASSUME NEW p \in Plans, NEW over \in Overrides
  PROVE  Replanned(p, UpdateVelocityProfile(p, over))
<1> DEFINE S == {q \in Plans : Replanned(p, q)}
           slots == Queued(p)
           N == Len(slots)
           base == [p EXCEPT !.prevNominal = SomeLargeValue]
           F == [x \in (1..N) \X S |-> ProfileBlock(x[2], slots[x[1]], over)]
           Visit(pass, k) == IF k = 0 THEN [p EXCEPT !.prevNominal = SomeLargeValue]
                             ELSE ProfileBlock(pass[k - 1], slots[k], over)
           Is(pass) == pass = [k \in 0..N |-> Visit(pass, k)]
           pass == CHOOSE r : Is(r)
<1>1. N \in Nat /\ \A k \in 1..N : slots[k] \in Slots
  BY SlotsWalked
<1>2. base \in S
  <2>1. SomeLargeValue \in Nat
    BY DEF SomeLargeValue
  <2>2. Replanned(p, base)
    BY <2>1, NominalReplanned, Zenon
  <2> HIDE DEF base
  <2> QED
    BY <2>2 DEF Replanned
<1>3. \A q \in S, i \in Slots : ProfileBlock(q, i, over) \in S
  BY ProfileReplans, ReplannedChain DEF Replanned
<1>4. F \in [(1..N) \X S -> S]
  <2> HIDE DEF N, S, slots
  <2> QED
    BY <1>1, <1>3
<1>5. \E r : Is(r)
  <2> HIDE DEF N, F, S, base, Visit, Is
  <2>1. PICK r \in [0..N -> S] : Recursive(r, N, base, F)
    BY <1>1, <1>2, <1>4, RecursionExists
  <2>2. ASSUME NEW k \in 0..N PROVE r[k] = Visit(r, k)
    <3>1. CASE k = 0
      BY <1>1, <2>1, <3>1 DEF Visit, base, Recursive
    <3>2. CASE k # 0
      <4>1. k \in 1..N /\ r[k - 1] \in S /\ r[k] = F[<<k, r[k - 1]>>]
        BY <1>1, <2>1, <3>2 DEF Recursive
      <4>2. F[<<k, r[k - 1]>>] = ProfileBlock(r[k - 1], slots[k], over)
        BY <4>1 DEF F
      <4> QED
        BY <3>2, <4>1, <4>2 DEF Visit
    <3> QED
      BY <3>1, <3>2
  <2> QED
    BY <2>2 DEF Is
<1>6. Is(pass)
  BY <1>5, Zenon
<1>7. UpdateVelocityProfile(p, over) = pass[N]
  BY Zenon DEF UpdateVelocityProfile
<1> HIDE DEF pass
<1>8. pass[0] = base /\ \A k \in 1..N : pass[k] = ProfileBlock(pass[k - 1], slots[k], over)
  BY <1>1, <1>6
<1>9. pass[N] \in S
  <2> HIDE DEF N, S, slots, base
  <2>1. \A k \in 1..N : pass[k - 1] \in S => pass[k] \in S
    BY <1>1, <1>3, <1>8
  <2>2. \A k \in 0..N : pass[k] \in S
    BY <1>1, <1>2, <1>8, <2>1, IntervalInduction
  <2> QED
    BY <1>1, <2>2
<1> QED
  BY <1>7, <1>9

-----------------------------------------------------------------------------
(* What the planner does to the segment generator.                          *)

\* The generator goes on with its block, or is told to load it again.
Interrupted(m, g) ==
  /\ g \in Generators /\ Replanned(m.plan, g.plan)
  /\ g.ctl = m.ctl /\ g.over = m.over /\ g.queue = m.queue /\ g.blocks = m.blocks
  /\ \/ g.prep = m.prep
     \/ /\ m.prep.block # NoBlock
        /\ g.prep = [m.prep EXCEPT !.flags = @ \cup {"RECALCULATE"}, !.block = NoBlock]

LEMMA FieldsOfGenerator ==
  ASSUME NEW m \in Generators
  PROVE  /\ m.plan \in Plans /\ m.prep \in Preps
         /\ m.ctl \in SUBSET {"HOLD", "END_MOTION", "SYS_MOTION"} /\ m.over \in Overrides
         /\ m.queue \in Seq(Segments) /\ m.blocks \in [DataSlots -> StepData]
BY DEF Generators

LEMMA PlanChanged ==
  ASSUME NEW m \in Generators, NEW p \in Plans
  PROVE  LET g == [m EXCEPT !.plan = p]
         IN /\ g \in Generators /\ g.plan = p /\ g.prep = m.prep /\ g.ctl = m.ctl
            /\ g.over = m.over /\ g.queue = m.queue /\ g.blocks = m.blocks
BY DEF Generators

LEMMA InterruptedSelf == \A m \in Generators : Interrupted(m, m)
BY ReplannedSelf, FieldsOfGenerator DEF Interrupted

LEMMA InterruptedChain ==
  ASSUME NEW m \in Generators, NEW g \in Generators, NEW h, Interrupted(m, g), Interrupted(g, h)
  PROVE  Interrupted(m, h)
<1>1. Replanned(m.plan, h.plan)
  BY ReplannedChain, Zenon DEF Interrupted
<1>2. h \in Generators /\ h.ctl = m.ctl /\ h.over = m.over /\ h.queue = m.queue
      /\ h.blocks = m.blocks
  BY Zenon DEF Interrupted
<1>3. CASE g.prep = m.prep
  BY <1>1, <1>2, <1>3, Zenon DEF Interrupted
<1>4. CASE g.prep # m.prep
  <2>1. m.prep.block # NoBlock
        /\ g.prep = [m.prep EXCEPT !.flags = @ \cup {"RECALCULATE"}, !.block = NoBlock]
    BY <1>4, Zenon DEF Interrupted
  <2>2. g.prep.block = NoBlock
    BY <2>1, FieldsOfGenerator DEF Preps
  <2>3. h.prep = g.prep
    BY <2>2, Zenon DEF Interrupted
  <2> QED
    BY <1>1, <1>2, <2>1, <2>3, Zenon DEF Interrupted
<1> QED
  BY <1>3, <1>4

LEMMA UpdateInterrupts ==
  ASSUME NEW m \in Generators
  PROVE  Interrupted(m, UpdatePlanBlock(m)) /\ UpdatePlanBlock(m).prep.block = NoBlock
<1>1. CASE m.prep.block = NoBlock
  BY <1>1, InterruptedSelf DEF UpdatePlanBlock
<1>2. CASE m.prep.block # NoBlock
  <2> DEFINE i == m.prep.block
             speed == m.prep.cur
             p == [m.plan EXCEPT !.block[i].entry = speed]
             r == [m.prep EXCEPT !.flags = @ \cup {"RECALCULATE"}, !.block = NoBlock]
             g == [m EXCEPT !.plan = p, !.prep = r]
  <2>1. m.plan \in Plans /\ m.prep \in Preps /\ i \in Slots /\ speed \in Nat
    BY <1>2, FieldsOfGenerator DEF Preps
  <2>2. Replanned(m.plan, p)
    BY <2>1, EntryReplanned
  <2>3. r \in Preps /\ r.block = NoBlock
    BY <2>1 DEF Preps
  <2>4. UpdatePlanBlock(m) = [m EXCEPT !.plan.block[i].entry = speed,
                                       !.prep.flags = @ \cup {"RECALCULATE"}, !.prep.block = NoBlock]
    BY <1>2 DEF UpdatePlanBlock
  <2>5. UpdatePlanBlock(m) = g
    BY <2>4, Zenon
  <2>6. p \in Plans
    BY <2>2 DEF Replanned
  <2> HIDE DEF p, r
  <2>7. g \in Generators /\ g.plan = p /\ g.prep = r /\ g.ctl = m.ctl /\ g.over = m.over
        /\ g.queue = m.queue /\ g.blocks = m.blocks
    BY <2>3, <2>6 DEF Generators
  <2> HIDE DEF g
  <2> QED
    BY <1>2, <2>2, <2>3, <2>5, <2>7, Zenon DEF Interrupted, r
<1> QED
  BY <1>1, <1>2

LEMMA PlanReplanned ==
  ASSUME NEW m \in Generators, NEW p, Replanned(m.plan, p)
  PROVE  Interrupted(m, [m EXCEPT !.plan = p])
<1>1. p \in Plans
  BY DEF Replanned
<1> QED
  BY <1>1, PlanChanged DEF Interrupted

LEMMA RecalculateInterrupts ==
  ASSUME NEW m \in Generators
  PROVE  /\ Interrupted(m, Recalculate(m))
         /\ m.prep.block = NoBlock => Recalculate(m).prep = m.prep
<1> DEFINE u == IF m.plan.planned = m.plan.tail THEN UpdatePlanBlock(m) ELSE m
           p == ForwardPass(ReversePass(u.plan))
           g == [u EXCEPT !.plan = p]
<1>1. Interrupted(m, u)
  BY UpdateInterrupts, InterruptedSelf
<1> HIDE DEF u
<1>2. u \in Generators /\ u.plan \in Plans
  BY <1>1, FieldsOfGenerator DEF Interrupted
<1>3. Replanned(u.plan, ReversePass(u.plan)) /\ ReversePass(u.plan) \in Plans
  BY <1>2, ReversePassReplans DEF Replanned
<1>4. Replanned(u.plan, p)
  BY <1>3, ForwardPassReplans, ReplannedChain
<1> HIDE DEF p
<1>5. Interrupted(u, g)
  BY <1>2, <1>4, PlanReplanned
<1>6. g \in Generators
  BY <1>5 DEF Interrupted
<1>7. Interrupted(m, g)
  <2> HIDE DEF g
  <2> QED
    BY <1>1, <1>2, <1>5, <1>6, InterruptedChain
<1>8. Recalculate(m) = IF NothingToPlan(m.plan) THEN m ELSE g
  BY Zenon DEF Recalculate, u, p
<1>9. m.prep.block = NoBlock => u.prep = m.prep
  BY DEF UpdatePlanBlock, u
<1>10. g.prep = u.prep
  BY <1>2 DEF Generators
<1> QED
  BY <1>7, <1>8, <1>9, <1>10, InterruptedSelf

LEMMA ReinitializeInterrupts ==
  ASSUME NEW m \in Generators
  PROVE  Interrupted(m, Reinitialize(m)) /\ Reinitialize(m).prep.block = NoBlock
<1> DEFINE u == UpdatePlanBlock(m)
           p == [u.plan EXCEPT !.planned = u.plan.tail]
           g == [u EXCEPT !.plan = p]
<1>1. Interrupted(m, u) /\ u.prep.block = NoBlock
  BY UpdateInterrupts
<1> HIDE DEF u
<1>2. u \in Generators /\ u.plan \in Plans /\ u.plan.tail \in Slots
  BY <1>1, FieldsOfGenerator DEF Interrupted, Plans
<1>3. Replanned(u.plan, p)
  BY <1>2, PointerReplanned
<1> HIDE DEF p
<1>4. Interrupted(u, g) /\ g.prep = u.prep
  BY <1>2, <1>3, PlanReplanned DEF Generators
<1> HIDE DEF g
<1>5. g \in Generators
  BY <1>4 DEF Interrupted
<1>6. Interrupted(g, Recalculate(g)) /\ Recalculate(g).prep = g.prep
  BY <1>1, <1>4, <1>5, RecalculateInterrupts
<1>7. Interrupted(u, Recalculate(g))
  BY <1>2, <1>4, <1>5, <1>6, InterruptedChain
<1>8. Interrupted(m, Recalculate(g))
  BY <1>1, <1>2, <1>7, InterruptedChain
<1>9. Reinitialize(m) = Recalculate(g)
  BY Zenon DEF Reinitialize, g, p, u
<1> QED
  BY <1>1, <1>4, <1>6, <1>8, <1>9

-----------------------------------------------------------------------------
(* The ring of the planner.                                                 *)

\* What an appended line leaves of the plan.
Appended(p, q) ==
  /\ q \in Plans /\ q.tail = p.tail /\ q.head = NextBlock(p.head)
  /\ Untouched(q.block[p.head])
  /\ \A i \in Slots \ {p.head} : q.block[i] = p.block[i]

LEMMA LineAppends ==
  ASSUME NEW p \in Plans, NEW line \in ProgramLines, NEW over \in Overrides
  PROVE  Appended(p, AppendLine(p, line, over))
<1> DEFINE rate == IF line.kind = "rapid" THEN line.rapid ELSE line.rate
           junction == IF IsEmpty(p) THEN 0 ELSE line.junction
           b == Block(line.count, line.axes, TRUE, line.kind, rate, line.rapid, junction)
           nominal == NominalSpeed(b, over)
           c == ProfileParameters(b, nominal, p.prevNominal)
           h == p.head
           q == [p EXCEPT !.block = [@ EXCEPT ![h] = c], !.prevNominal = nominal,
                          !.head = NextBlock(@)]
<1>1. h \in Slots /\ NextBlock(h) \in Slots /\ p.prevNominal \in Nat /\ p.tail \in Slots
      /\ p.block \in [Slots -> PlanBlocks]
  BY SlotsAreNat DEF Plans
<1>2. line.count \in Nat \ {0} /\ line.axes \in SUBSET Axes /\ line.kind \in {"feed", "rapid", "system"}
      /\ line.rate \in Nat /\ line.rapid \in Nat /\ line.junction \in Nat
  BY DEF ProgramLines
<1>3. rate \in Nat /\ junction \in Nat /\ StepLength * line.count \in Nat
  BY <1>2, PlannerAssumption
<1>4. b \in PlanBlocks /\ Untouched(b)
  <2> HIDE DEF rate, junction
  <2> QED
    BY <1>2, <1>3 DEF Block, PlanBlocks, Untouched
<1> HIDE DEF b
<1>5. nominal \in Nat
  BY <1>4, NominalIsNat
<1> HIDE DEF nominal
<1>6. c \in PlanBlocks /\ SameBlock(b, c)
  BY <1>1, <1>4, <1>5, ProfiledIsBlock
<1>7. Untouched(c)
  BY <1>4, <1>6 DEF Untouched, SameBlock
<1>8. AppendLine(p, line, over)
        = [p EXCEPT !.block[h] = c, !.prevNominal = nominal, !.head = NextBlock(@)]
  BY Zenon DEF AppendLine, c, nominal, b
<1> HIDE DEF c
<1>9. AppendLine(p, line, over) = q
  BY <1>8, Zenon
<1>10. q \in Plans /\ q.tail = p.tail /\ q.head = NextBlock(h) /\ q.block = [p.block EXCEPT ![h] = c]
  BY <1>1, <1>5, <1>6 DEF Plans
<1> HIDE DEF q
<1> QED
  BY <1>1, <1>7, <1>9, <1>10 DEF Appended

LEMMA SystemMotionPlaced ==
  ASSUME NEW p \in Plans, NEW count \in Nat, NEW axes \in SUBSET Axes,
         NEW forward \in BOOLEAN, NEW rate \in Nat
  PROVE  LET q == PlaceSystemMotion(p, count, axes, forward, rate)
         IN /\ q \in Plans /\ q.tail = p.tail /\ q.head = p.head
            /\ q.block[p.head].count = count /\ q.block[p.head].mm = StepLength * count
            /\ q.block[p.head].forward = forward
<1> DEFINE b == Block(count, axes, forward, "system", rate, rate, 0)
           q == [p EXCEPT !.block = [@ EXCEPT ![p.head] = b]]
<1>1. StepLength * count \in Nat
  BY PlannerAssumption
<1>2. b \in PlanBlocks /\ b.count = count /\ b.mm = StepLength * count /\ b.forward = forward
  BY <1>1 DEF Block, PlanBlocks
<1>3. PlaceSystemMotion(p, count, axes, forward, rate) = [p EXCEPT !.block[p.head] = b]
  BY Zenon DEF PlaceSystemMotion
<1> HIDE DEF b
<1>4. PlaceSystemMotion(p, count, axes, forward, rate) = q
  BY <1>3, Zenon
<1>5. q \in Plans /\ q.tail = p.tail /\ q.head = p.head /\ q.block[p.head] = b
  BY <1>2 DEF Plans
<1> QED
  BY <1>2, <1>4, <1>5

LEMMA DiscardMoves ==
  ASSUME NEW p \in Plans, ~IsEmpty(p)
  PROVE  LET q == Discard(p)
         IN q \in Plans /\ q.tail = NextBlock(p.tail) /\ q.head = p.head /\ q.block = p.block
<1>1. NextBlock(p.tail) \in Slots
  BY SlotsAreNat DEF Plans
<1> QED
  BY <1>1 DEF Discard, Plans

LEMMA EmptyRing == \A p \in Plans, i \in Slots : IsEmpty(p) => ~InRing(p, i)
BY PlannerAssumption DEF IsEmpty, InRing, Slots, Plans

LEMMA TailInRing == \A p \in Plans : ~IsEmpty(p) => InRing(p, p.tail)
BY PlannerAssumption DEF IsEmpty, InRing, Slots, Plans

LEMMA RingGrows ==
  ASSUME NEW p \in Plans, NEW q \in Plans, ~IsFull(p), q.tail = p.tail, q.head = NextBlock(p.head),
         NEW i \in Slots, InRing(q, i)
  PROVE  i = p.head \/ InRing(p, i)
BY PlannerAssumption DEF IsFull, InRing, Slots, Plans, NextBlock

LEMMA RingGrown ==
  ASSUME NEW p \in Plans, NEW q \in Plans, ~IsFull(p), q.tail = p.tail, q.head = NextBlock(p.head)
  PROVE  ~IsEmpty(q) /\ (~IsEmpty(p) => p.tail # p.head)
BY PlannerAssumption DEF IsFull, IsEmpty, Slots, Plans, NextBlock

LEMMA RingShrinks ==
  ASSUME NEW p \in Plans, NEW q \in Plans, ~IsEmpty(p), q.tail = NextBlock(p.tail), q.head = p.head,
         NEW i \in Slots, InRing(q, i)
  PROVE  i # p.tail /\ InRing(p, i)
BY PlannerAssumption DEF IsEmpty, InRing, Slots, Plans, NextBlock

-----------------------------------------------------------------------------
(* Loading a block.                                                         *)

\* What the computation of a profile leaves of the generator's data. A profile ends
\* before the block does only in a hold.
Profiled(prep, r, mm, held) ==
  /\ r \in Preps /\ r.block = prep.block /\ r.index = prep.index /\ r.steps = prep.steps
  /\ "RECALCULATE" \in r.flags => "RECALCULATE" \in prep.flags
  /\ r.complete <= mm /\ (r.complete > 0 => held)
  /\ r.ramp = "decel_override" => r.complete < r.until

LEMMA HoldProfiles ==
  ASSUME NEW prep \in Preps, NEW b \in PlanBlocks
  PROVE  Profiled(prep, HoldProfile(prep, b), b.mm, TRUE)
<1> DEFINE complete == IF b.mm < b.entry THEN 0 ELSE b.mm - b.entry
           exit == IF b.mm < b.entry THEN b.entry - b.mm ELSE 0
           r == [prep EXCEPT !.ramp = "decel", !.complete = complete, !.exit = exit]
<1>1. b.mm \in Nat /\ b.entry \in Nat
  BY DEF PlanBlocks
<1>2. complete \in Nat /\ exit \in Nat /\ complete <= b.mm
  BY <1>1
<1>3. HoldProfile(prep, b) = r
  BY Zenon DEF HoldProfile
<1> HIDE DEF complete, exit
<1>4. r \in Preps
  BY <1>2 DEF Preps
<1>5. /\ r.block = prep.block /\ r.index = prep.index /\ r.steps = prep.steps
      /\ r.flags = prep.flags /\ r.complete = complete /\ r.ramp = "decel"
  BY DEF Preps
<1> HIDE DEF r
<1> QED
  BY <1>2, <1>3, <1>4, <1>5 DEF Profiled

\* A profile that ends with the block.
LEMMA FullLengthProfiled ==
  ASSUME NEW prep \in Preps, NEW r \in Preps, NEW mm \in Nat,
         r.block = prep.block, r.index = prep.index, r.steps = prep.steps, r.complete = 0,
         r.flags \subseteq prep.flags \cup {"DECEL_OVERRIDE"},
         r.ramp = "decel_override" => r.until > 0
  PROVE  Profiled(prep, r, mm, FALSE)
BY DEF Profiled

LEMMA NormalProfiles ==
  ASSUME NEW prep \in Preps, NEW b \in PlanBlocks, NEW exit \in Nat, NEW nominal \in Nat
  PROVE  Profiled(prep, NormalProfile(prep, b, exit, nominal), b.mm, FALSE)
<1> DEFINE mm == b.mm
           entry == b.entry
           intersect == (mm + entry - exit) \div 2
           p == [prep EXCEPT !.ramp = "accel", !.until = mm, !.exit = exit, !.complete = 0]
           r == NormalProfile(prep, b, exit, nominal)
           Kept(q) == /\ q \in Preps /\ q.block = prep.block /\ q.index = prep.index
                      /\ q.steps = prep.steps /\ q.complete = 0
                      /\ q.flags \subseteq prep.flags \cup {"DECEL_OVERRIDE"}
                      /\ q.ramp = "decel_override" => q.until > 0
<1>1. mm \in Nat /\ entry \in Nat
  BY DEF PlanBlocks
<1>2. intersect \in Int
  BY <1>1
<1>3. Kept(p) /\ p.ramp = "accel" /\ p.until = mm
  <2>1. p = [prep EXCEPT !.ramp = "accel", !.until = mm, !.exit = exit, !.complete = 0]
    OBVIOUS
  <2> HIDE DEF mm, p
  <2>2. p \in Preps
    BY <1>1, <2>1, mm \in Int DEF Preps
  <2>3. /\ p.block = prep.block /\ p.index = prep.index /\ p.steps = prep.steps
        /\ p.flags = prep.flags /\ p.complete = 0 /\ p.ramp = "accel" /\ p.until = mm
    BY <2>1 DEF Preps
  <2> QED
    BY <2>2, <2>3
<1>4. r = CASE entry > nominal /\ mm <= entry - nominal ->
                 [p EXCEPT !.ramp = "decel", !.until = mm - (entry - nominal),
                           !.exit = entry - mm, !.flags = @ \cup {"DECEL_OVERRIDE"}]
            [] entry > nominal /\ mm > entry - nominal ->
                 [p EXCEPT !.ramp = "decel_override", !.until = mm - (entry - nominal),
                           !.after = nominal - exit, !.max = nominal]
            [] entry <= nominal /\ intersect <= 0 -> [p EXCEPT !.until = 0, !.max = exit]
            [] entry <= nominal /\ intersect > 0 /\ intersect >= mm -> [p EXCEPT !.ramp = "decel"]
            [] OTHER ->
                 IF nominal - exit < intersect
                 THEN [p EXCEPT !.after = nominal - exit, !.max = nominal,
                                !.ramp = IF entry = nominal THEN "cruise" ELSE "accel",
                                !.until = IF entry = nominal THEN @ ELSE @ - (nominal - entry)]
                 ELSE [p EXCEPT !.until = intersect, !.after = intersect, !.max = intersect + exit]
  BY Zenon DEF NormalProfile
<1> HIDE DEF intersect, p, r, mm, entry
<1>5. ASSUME entry > nominal /\ mm <= entry - nominal
      PROVE  Kept(r)
  <2>1. r = [p EXCEPT !.ramp = "decel", !.until = mm - (entry - nominal),
                      !.exit = entry - mm, !.flags = @ \cup {"DECEL_OVERRIDE"}]
    BY <1>1, <1>2, <1>4, <1>5
  <2>2. mm - (entry - nominal) \in Int /\ entry - mm \in Nat
    BY <1>1, <1>2, <1>5
  <2>3. r \in Preps
    BY <1>3, <2>1, <2>2 DEF Preps
  <2>4. /\ r.block = p.block /\ r.index = p.index /\ r.steps = p.steps /\ r.complete = p.complete
        /\ r.flags = p.flags \cup {"DECEL_OVERRIDE"} /\ r.ramp = "decel"
    BY <1>3, <2>1 DEF Preps
  <2> QED
    BY <1>1, <1>3, <2>2, <2>3, <2>4
<1>6. ASSUME entry > nominal /\ mm > entry - nominal
      PROVE  Kept(r)
  <2>1. r = [p EXCEPT !.ramp = "decel_override", !.until = mm - (entry - nominal),
                      !.after = nominal - exit, !.max = nominal]
    BY <1>1, <1>2, <1>4, <1>6
  <2>2. mm - (entry - nominal) \in Int /\ mm - (entry - nominal) > 0 /\ nominal - exit \in Int
    BY <1>1, <1>2, <1>6
  <2>3. r \in Preps
    BY <1>3, <2>1, <2>2 DEF Preps
  <2>4. /\ r.block = p.block /\ r.index = p.index /\ r.steps = p.steps /\ r.complete = p.complete
        /\ r.flags = p.flags /\ r.until = mm - (entry - nominal)
    BY <1>3, <2>1 DEF Preps
  <2> QED
    BY <1>1, <1>3, <2>2, <2>3, <2>4
<1>7. ASSUME entry <= nominal /\ intersect <= 0
      PROVE  Kept(r)
  <2>1. r = [p EXCEPT !.until = 0, !.max = exit]
    BY <1>1, <1>2, <1>4, <1>7
  <2>2. exit \in Nat /\ 0 \in Int
    BY <1>1, <1>2, <1>7
  <2>3. r \in Preps
    BY <1>3, <2>1, <2>2 DEF Preps
  <2>4. /\ r.block = p.block /\ r.index = p.index /\ r.steps = p.steps /\ r.complete = p.complete
        /\ r.flags = p.flags /\ r.ramp = "accel"
    BY <1>3, <2>1 DEF Preps
  <2> QED
    BY <1>1, <1>3, <2>2, <2>3, <2>4
<1>8. ASSUME entry <= nominal /\ ~(intersect <= 0) /\ intersect >= mm
      PROVE  Kept(r)
  <2>1. r = [p EXCEPT !.ramp = "decel"]
    BY <1>1, <1>2, <1>4, <1>8
  <2>2. exit \in Nat
    BY <1>1, <1>2, <1>8
  <2>3. r \in Preps
    BY <1>3, <2>1, <2>2 DEF Preps
  <2>4. /\ r.block = p.block /\ r.index = p.index /\ r.steps = p.steps /\ r.complete = p.complete
        /\ r.flags = p.flags /\ r.ramp = "decel"
    BY <1>3, <2>1 DEF Preps
  <2> QED
    BY <1>1, <1>3, <2>2, <2>3, <2>4
<1>9. ASSUME entry <= nominal /\ ~(intersect <= 0) /\ ~(intersect >= mm)
          /\ nominal - exit < intersect /\ entry = nominal
      PROVE  Kept(r)
  <2>1. r = [p EXCEPT !.after = nominal - exit, !.max = nominal, !.ramp = "cruise",
                      !.until = @]
    BY <1>1, <1>2, <1>4, <1>9
  <2>2. nominal - exit \in Int
    BY <1>1, <1>2, <1>9
  <2>3. r \in Preps
    BY <1>3, <2>1, <2>2 DEF Preps
  <2>4. /\ r.block = p.block /\ r.index = p.index /\ r.steps = p.steps /\ r.complete = p.complete
        /\ r.flags = p.flags /\ r.ramp = "cruise"
    BY <1>3, <2>1 DEF Preps
  <2> QED
    BY <1>1, <1>3, <2>2, <2>3, <2>4
<1>10. ASSUME entry <= nominal /\ ~(intersect <= 0) /\ ~(intersect >= mm)
          /\ nominal - exit < intersect /\ entry # nominal
      PROVE  Kept(r)
  <2>1. r = [p EXCEPT !.after = nominal - exit, !.max = nominal, !.ramp = "accel",
                      !.until = @ - (nominal - entry)]
    BY <1>1, <1>2, <1>4, <1>10
  <2>2. nominal - exit \in Int /\ mm - (nominal - entry) \in Int
    BY <1>1, <1>2, <1>10
  <2>3. r \in Preps
    BY <1>3, <2>1, <2>2 DEF Preps
  <2>4. /\ r.block = p.block /\ r.index = p.index /\ r.steps = p.steps /\ r.complete = p.complete
        /\ r.flags = p.flags /\ r.ramp = "accel"
    BY <1>3, <2>1 DEF Preps
  <2> QED
    BY <1>1, <1>3, <2>2, <2>3, <2>4
<1>11. ASSUME entry <= nominal /\ ~(intersect <= 0) /\ ~(intersect >= mm)
          /\ ~(nominal - exit < intersect)
      PROVE  Kept(r)
  <2>1. r = [p EXCEPT !.until = intersect, !.after = intersect, !.max = intersect + exit]
    BY <1>1, <1>2, <1>4, <1>11
  <2>2. intersect \in Int /\ intersect + exit \in Nat
    BY <1>1, <1>2, <1>11
  <2>3. r \in Preps
    BY <1>3, <2>1, <2>2 DEF Preps
  <2>4. /\ r.block = p.block /\ r.index = p.index /\ r.steps = p.steps /\ r.complete = p.complete
        /\ r.flags = p.flags /\ r.ramp = "accel"
    BY <1>3, <2>1 DEF Preps
  <2> QED
    BY <1>1, <1>3, <2>2, <2>3, <2>4
<1>12. Kept(r)
  <2> HIDE DEF Kept
  <2> QED
    BY <1>1, <1>2, <1>5, <1>6, <1>7, <1>8, <1>9, <1>10, <1>11
<1>13. Profiled(prep, r, mm, FALSE)
  BY <1>1, <1>12, FullLengthProfiled
<1> QED
  BY <1>13 DEF r, mm

LEMMA NextIndexIsIndex ==
  \A i \in DataSlots : NextIndex(i) \in DataSlots /\ NextIndex(i) # i
BY SegmentAssumption DEF DataSlots, NextIndex

\* The step data of a block of the plan.
DataOf(b) == [count |-> b.count, axes |-> b.axes, forward |-> b.forward]

LEMMA LoadNewLoads ==
  ASSUME NEW m \in Generators, NEW slot \in Slots
  PROVE  LET g == LoadNew(m, slot)
             index == NextIndex(m.prep.index)
         IN /\ g \in Generators /\ Replanned(m.plan, g.plan)
            /\ g.blocks = [m.blocks EXCEPT ![index] = DataOf(m.plan.block[slot])]
            /\ g.prep.index = index /\ g.prep.steps = m.plan.block[slot].count
            /\ g.prep.block = m.prep.block /\ g.prep.flags \subseteq m.prep.flags
            /\ g.ctl = m.ctl /\ g.over = m.over /\ g.queue = m.queue
<1> DEFINE b == m.plan.block[slot]
           index == NextIndex(m.prep.index)
           forced == "HOLD" \in m.ctl \/ "DECEL_OVERRIDE" \in m.prep.flags
           entry == IF forced THEN m.prep.exit ELSE b.entry
           p == [m.plan EXCEPT !.block[slot].entry = entry]
           r == [m.prep EXCEPT !.index = index, !.steps = b.count, !.cur = entry,
                               !.flags = @ \ {"DECEL_OVERRIDE"}]
           blocks == [m.blocks EXCEPT ![index] = DataOf(b)]
           g == [m EXCEPT !.blocks = blocks, !.plan = p, !.prep = r]
<1>1. m.plan \in Plans /\ m.prep \in Preps /\ m.blocks \in [DataSlots -> StepData] /\ b \in PlanBlocks
  BY FieldsOfGenerator, BlockIsPlanBlock
<1>2. index \in DataSlots
  BY <1>1, NextIndexIsIndex DEF Preps
<1>3. entry \in Nat
  BY <1>1 DEF Preps, PlanBlocks
<1>4. DataOf(b) \in StepData /\ b.count \in Nat
  BY <1>1 DEF DataOf, StepData, PlanBlocks
<1>5. LoadNew(m, slot)
        = [m EXCEPT !.blocks[index] = DataOf(b), !.plan.block[slot].entry = entry,
                    !.prep.index = index, !.prep.steps = b.count, !.prep.cur = entry,
                    !.prep.flags = @ \ {"DECEL_OVERRIDE"}]
  BY Zenon DEF LoadNew, DataOf
<1>6. LoadNew(m, slot) = g
  <2> HIDE DEF index, entry, b
  <2> QED
    BY <1>5, Zenon
<1>7. Replanned(m.plan, p) /\ p \in Plans
  BY <1>1, <1>3, EntryReplanned DEF Replanned
<1>8. r = [m.prep EXCEPT !.index = index, !.steps = b.count, !.cur = entry,
                         !.flags = @ \ {"DECEL_OVERRIDE"}]
  OBVIOUS
<1> HIDE DEF index, entry, b, p, r
<1>9. r \in Preps
  BY <1>1, <1>2, <1>3, <1>4, <1>8 DEF Preps
<1>10. /\ r.index = index /\ r.steps = b.count /\ r.block = m.prep.block
       /\ r.flags \subseteq m.prep.flags
  BY <1>1, <1>8 DEF Preps
<1>11. blocks \in [DataSlots -> StepData]
  BY <1>1, <1>2, <1>4
<1> HIDE DEF blocks
<1>12. g \in Generators /\ g.plan = p /\ g.prep = r /\ g.ctl = m.ctl /\ g.over = m.over
       /\ g.queue = m.queue /\ g.blocks = blocks
  BY <1>7, <1>9, <1>11 DEF Generators
<1> HIDE DEF g
<1> QED
  BY <1>6, <1>7, <1>10, <1>12 DEF b, index, blocks

\* What a load does: it goes on with the block in hand, if the planner has changed it
\* underneath, or takes the step data of a new one.
Loads(m, g, slot) ==
  /\ g \in Generators /\ Replanned(m.plan, g.plan) /\ g.ctl = m.ctl /\ g.queue = m.queue
  /\ g.prep.block = slot /\ "RECALCULATE" \notin g.prep.flags
  /\ g.prep.complete <= g.plan.block[slot].mm
  /\ g.prep.complete > 0 => "HOLD" \in g.ctl
  /\ g.prep.ramp = "decel_override" => g.prep.complete < g.prep.until
  /\ IF "RECALCULATE" \in m.prep.flags
     THEN g.prep.index = m.prep.index /\ g.prep.steps = m.prep.steps /\ g.blocks = m.blocks
     ELSE /\ g.prep.index = NextIndex(m.prep.index)
          /\ g.prep.steps = m.plan.block[slot].count
          /\ g.blocks = [m.blocks EXCEPT ![NextIndex(m.prep.index)] = DataOf(m.plan.block[slot])]

LEMMA LoadLoads ==
  ASSUME NEW m \in Generators, NextPrepBlock(m) \in Slots
  PROVE  Loads(m, Load(m), NextPrepBlock(m))
<1> DEFINE slot == NextPrepBlock(m)
           again == "RECALCULATE" \in m.prep.flags
           n == IF again THEN [m EXCEPT !.prep.flags = {}] ELSE LoadNew(m, slot)
           b == n.plan.block[slot]
           exit == IF "SYS_MOTION" \in m.ctl THEN 0 ELSE ExitSpeed(n.plan)
           nominal == NominalSpeed(b, m.over)
           held == "HOLD" \in m.ctl
           profile == IF held THEN HoldProfile(n.prep, b) ELSE NormalProfile(n.prep, b, exit, nominal)
           r == [profile EXCEPT !.block = slot]
           g == [n EXCEPT !.prep = r]
<1>1. slot \in Slots
  OBVIOUS
<1>2. Load(m) = g
  BY Zenon DEF Load
<1> HIDE DEF slot
<1>3. /\ n \in Generators /\ Replanned(m.plan, n.plan) /\ n.ctl = m.ctl /\ n.queue = m.queue
      /\ n.over = m.over /\ "RECALCULATE" \notin n.prep.flags
      /\ IF again
         THEN n.prep.index = m.prep.index /\ n.prep.steps = m.prep.steps /\ n.blocks = m.blocks
         ELSE /\ n.prep.index = NextIndex(m.prep.index)
              /\ n.prep.steps = m.plan.block[slot].count
              /\ n.blocks = [m.blocks EXCEPT ![NextIndex(m.prep.index)] = DataOf(m.plan.block[slot])]
  <2>1. CASE again
    <3> DEFINE q == [m.prep EXCEPT !.flags = {}]
               h == [m EXCEPT !.prep = q]
    <3>1. n = h
      BY <2>1, Zenon
    <3>2. q \in Preps /\ q.index = m.prep.index /\ q.steps = m.prep.steps /\ q.flags = {}
      BY FieldsOfGenerator DEF Preps
    <3> HIDE DEF q
    <3>3. h \in Generators /\ h.prep = q /\ h.plan = m.plan /\ h.ctl = m.ctl /\ h.queue = m.queue
          /\ h.over = m.over /\ h.blocks = m.blocks
      BY <3>2 DEF Generators
    <3>4. Replanned(m.plan, m.plan)
      BY FieldsOfGenerator, ReplannedSelf
    <3> HIDE DEF h, n
    <3> QED
      BY <2>1, <3>1, <3>2, <3>3, <3>4
  <2>2. CASE ~again
    <3>1. n = LoadNew(m, slot)
      BY <2>2
    <3> HIDE DEF n
    <3> QED
      BY <1>1, <2>2, <3>1, LoadNewLoads
  <2> QED
    BY <2>1, <2>2
<1> HIDE DEF n
<1>4. n.plan \in Plans /\ n.prep \in Preps /\ b \in PlanBlocks /\ m.over \in Overrides
  BY <1>1, <1>3, FieldsOfGenerator, BlockIsPlanBlock
<1>5. exit \in Nat
  <2>1. NextBlock(n.plan.tail) \in Slots
    BY <1>4, SlotsAreNat DEF Plans
  <2>2. n.plan.block[NextBlock(n.plan.tail)] \in PlanBlocks
    BY <1>4, <2>1, BlockIsPlanBlock
  <2>3. ExitSpeed(n.plan) \in Nat
    BY <2>2 DEF ExitSpeed, PlanBlocks
  <2> QED
    BY <2>3
<1>6. nominal \in Nat
  BY <1>4, NominalIsNat
<1> HIDE DEF b, exit, nominal
<1>7. b.mm \in Nat
  BY <1>4 DEF PlanBlocks
<1>8. Profiled(n.prep, profile, b.mm, held)
  <2>1. CASE held
    BY <1>4, <2>1, HoldProfiles
  <2>2. CASE ~held
    <3>1. Profiled(n.prep, profile, b.mm, FALSE)
      BY <1>4, <1>5, <1>6, <2>2, NormalProfiles
    <3> HIDE DEF profile, held
    <3> QED
      BY <3>1 DEF Profiled
  <2> QED
    BY <2>1, <2>2
<1> HIDE DEF profile, held
<1>9. r \in Preps /\ r.block = slot /\ r.index = profile.index /\ r.steps = profile.steps
      /\ r.flags = profile.flags /\ r.complete = profile.complete /\ r.ramp = profile.ramp
      /\ r.until = profile.until
  BY <1>1, <1>8 DEF Profiled, Preps
<1> HIDE DEF r
<1>10. /\ g \in Generators /\ g.plan = n.plan /\ g.prep = r /\ g.ctl = m.ctl /\ g.queue = m.queue
       /\ g.blocks = n.blocks
  BY <1>3, <1>9 DEF Generators
<1> HIDE DEF g
<1>11. /\ r.complete <= b.mm /\ (r.complete > 0 => held)
       /\ r.ramp = "decel_override" => r.complete < r.until
       /\ "RECALCULATE" \notin r.flags /\ r.index = n.prep.index /\ r.steps = n.prep.steps
  BY <1>3, <1>8, <1>9 DEF Profiled
<1>12. Loads(m, g, slot)
  <2> HIDE DEF again
  <2> QED
    BY <1>3, <1>9, <1>10, <1>11 DEF Loads, b, held, again
<1> QED
  BY <1>2, <1>12 DEF slot

-----------------------------------------------------------------------------
(* One segment.                                                             *)

\* The block in hand, of which some steps are left.
InHand(m) ==
  /\ m \in Generators /\ m.prep.block \in Slots
  /\ m.prep.steps = Ceiling(m.plan.block[m.prep.block].mm) /\ m.prep.steps > 0
  /\ m.prep.complete <= m.plan.block[m.prep.block].mm
  /\ m.prep.complete > 0 => "HOLD" \in m.ctl
  /\ m.prep.ramp = "decel_override" => m.prep.complete < m.prep.until

LEMMA SegmentEndIsInBlock ==
  ASSUME NEW m, InHand(m), NEW x \in SegmentEnds(m)
  PROVE  LET b == m.plan.block[m.prep.block]
         IN /\ x \in Nat /\ m.prep.complete <= x /\ x <= b.mm
            /\ SpeedAt(m.prep, b.mm, x) \in Nat
            /\ RampAt(m.prep, x) \in {"accel", "decel", "decel_override", "cruise"}
            /\ RampAt(m.prep, x) = "decel_override" => m.prep.ramp = "decel_override"
            /\ Ceiling(x) \in Nat /\ m.prep.steps - Ceiling(x) \in Nat
            /\ m.prep.steps = Ceiling(x) => "HOLD" \in m.ctl
<1> DEFINE prep == m.prep
           c == prep.complete
           mm == m.plan.block[prep.block].mm
           ramp == RampAt(prep, x)
           speed == SpeedAt(prep, mm, x)
<1>1. prep \in Preps /\ m.plan.block[prep.block] \in PlanBlocks
  BY FieldsOfGenerator, BlockIsPlanBlock DEF InHand
<1>2. /\ mm \in Nat /\ c \in Nat /\ prep.until \in Int /\ prep.after \in Int /\ prep.max \in Nat
      /\ prep.exit \in Nat /\ prep.cur \in Nat /\ prep.steps \in Nat
      /\ prep.ramp \in {"accel", "decel", "decel_override", "cruise"}
  BY <1>1 DEF Preps, PlanBlocks
<1>3. c <= mm /\ (prep.ramp = "decel_override" => c < prep.until) /\ prep.steps = Ceiling(mm)
      /\ (c > 0 => "HOLD" \in m.ctl) /\ prep.steps > 0
  BY DEF InHand
<1>4. \/ x = c
      \/ x \in c + 1..mm /\ 4 * (mm - x) >= 5 * StepLength /\ speed > 0
  BY DEF SegmentEnds
<1> HIDE DEF prep, mm
<1>5. x \in Nat /\ c <= x /\ x <= mm
  BY <1>2, <1>3, <1>4
<1>6. /\ ramp \in {"accel", "decel", "decel_override", "cruise"}
      /\ ramp = "decel_override" => prep.ramp = "decel_override" /\ x >= prep.until
  BY <1>2, <1>5 DEF RampAt
<1>7. speed \in Int
  <2>1. CASE ramp = "accel"
    BY <1>2, <1>5, <2>1 DEF SpeedAt
  <2>2. CASE ramp = "cruise"
    BY <1>2, <2>2 DEF SpeedAt
  <2>3. CASE ramp = "decel_override"
    BY <1>2, <1>5, <2>3 DEF SpeedAt
  <2>4. CASE ramp = "decel"
    BY <1>2, <1>5, <2>4 DEF SpeedAt
  <2> QED
    BY <1>6, <2>1, <2>2, <2>3, <2>4
<1>8. x = c => speed \in Nat
  <2> SUFFICES ASSUME x = c PROVE speed \in Nat
    OBVIOUS
  <2>1. ramp # "decel_override"
    BY <1>2, <1>3, <1>5, <1>6
  <2>2. CASE ramp = "decel"
    BY <1>2, <2>2 DEF SpeedAt
  <2>3. CASE ramp = "accel"
    BY <1>2, <1>5, <2>3 DEF SpeedAt
  <2>4. CASE ramp = "cruise"
    BY <1>2, <2>4 DEF SpeedAt
  <2> QED
    BY <1>6, <2>1, <2>2, <2>3, <2>4
<1>9. speed \in Nat
  <2> HIDE DEF speed
  <2> QED
    BY <1>4, <1>7, <1>8
<1>10. Ceiling(x) \in Nat /\ Ceiling(x) <= Ceiling(mm) /\ Ceiling(mm) \in Nat
  BY <1>2, <1>5, CeilingIsNat, CeilingMonotone
<1>11. prep.steps = Ceiling(x) => "HOLD" \in m.ctl
  <2>1. CASE x = c
    BY <1>2, <1>3, <2>1, CeilingOfNothing
  <2>2. CASE x # c
    <3>1. 4 * (mm - x) >= 5 * StepLength
      BY <1>4, <2>2
    <3>2. Ceiling(x) < Ceiling(mm)
      BY <1>2, <1>5, <3>1, CeilingApart
    <3> QED
      BY <1>3, <1>10, <3>2
  <2> QED
    BY <2>1, <2>2
<1> HIDE DEF ramp, speed, c
<1>12. /\ x \in Nat /\ c <= x /\ x <= mm /\ speed \in Nat
       /\ ramp \in {"accel", "decel", "decel_override", "cruise"}
       /\ ramp = "decel_override" => prep.ramp = "decel_override"
       /\ Ceiling(x) \in Nat /\ prep.steps - Ceiling(x) \in Nat
       /\ prep.steps = Ceiling(x) => "HOLD" \in m.ctl
  BY <1>2, <1>3, <1>5, <1>6, <1>9, <1>10, <1>11
<1> QED
  BY <1>12 DEF prep, mm, c, ramp, speed

\* What a segment does: nothing, in a hold that has no step left to make, or a segment
\* is queued; the block is kept, or discarded when its last step is queued.
Prepares(m, g, x) ==
  LET slot == m.prep.block
      n == m.prep.steps - Ceiling(x)
      kept == g.prep.block = slot /\ g.plan.tail = m.plan.tail
  IN /\ g \in Generators /\ g.blocks = m.blocks /\ g.plan.head = m.plan.head
     /\ g.prep.index = m.prep.index /\ g.prep.flags = m.prep.flags
     /\ g.prep.complete = m.prep.complete /\ g.prep.until = m.prep.until
     /\ g.prep.ramp = "decel_override" => m.prep.ramp = "decel_override"
     /\ g.ctl \in {m.ctl, m.ctl \cup {"END_MOTION"}}
     /\ \A i \in Slots \ {slot} : g.plan.block[i] = m.plan.block[i]
     /\ IF n = 0
        THEN /\ g.queue = m.queue /\ g.prep.steps = m.prep.steps /\ kept
             /\ g.plan.block[slot] = m.plan.block[slot]
        ELSE /\ g.queue = Append(m.queue, [index |-> m.prep.index, n |-> n])
             /\ g.prep.steps = Ceiling(x)
             /\ g.plan.block[slot].mm = x /\ x >= m.prep.complete
             /\ \/ /\ kept
                   /\ x > 0 \/ ("SYS_MOTION" \in g.ctl /\ "END_MOTION" \in g.ctl)
                \/ /\ x = 0 /\ "SYS_MOTION" \notin m.ctl /\ g.prep.block = NoBlock
                   /\ ~IsEmpty(m.plan) => g.plan.tail = NextBlock(m.plan.tail)

LEMMA SegmentPrepares ==
  ASSUME NEW m, InHand(m), NEW x \in SegmentEnds(m)
  PROVE  Prepares(m, Segment(m, x), x)
<1> DEFINE slot == m.prep.block
           b == m.plan.block[slot]
           speed == SpeedAt(m.prep, b.mm, x)
           ramp == RampAt(m.prep, x)
           n == m.prep.steps - Ceiling(x)
           segment == [index |-> m.prep.index, n |-> n]
           end == m.ctl \cup {"END_MOTION"}
           moved == [m EXCEPT !.prep.cur = speed, !.prep.ramp = ramp]
           queued == [moved EXCEPT !.queue = Append(@, segment), !.plan.block[slot].mm = x,
                                   !.prep.steps = Ceiling(x)]
           ended == [queued EXCEPT !.ctl = @ \cup {"END_MOTION"}]
           discarded == [queued EXCEPT !.prep.block = NoBlock, !.plan = Discard(@)]
<1>1. /\ m \in Generators /\ slot \in Slots /\ m.prep \in Preps /\ m.plan \in Plans
      /\ b \in PlanBlocks /\ m.queue \in Seq(Segments)
  BY FieldsOfGenerator, BlockIsPlanBlock DEF InHand
<1>2. /\ x \in Nat /\ m.prep.complete <= x /\ x <= b.mm /\ speed \in Nat
      /\ ramp \in {"accel", "decel", "decel_override", "cruise"}
      /\ ramp = "decel_override" => m.prep.ramp = "decel_override"
      /\ Ceiling(x) \in Nat /\ n \in Nat /\ (n = 0 => "HOLD" \in m.ctl)
  <2>1. n = 0 => m.prep.steps = Ceiling(x)
    BY <1>1, SegmentEndIsInBlock DEF Preps
  <2> QED
    BY <2>1, SegmentEndIsInBlock
<1>3. Segment(m, x) = IF n = 0 /\ "HOLD" \in m.ctl THEN [moved EXCEPT !.ctl = @ \cup {"END_MOTION"}]
                      ELSE IF x > m.prep.complete THEN queued
                      ELSE IF x > 0 \/ "SYS_MOTION" \in m.ctl THEN ended
                      ELSE discarded
  BY Zenon DEF Segment
<1> HIDE DEF speed, ramp, n
<1>4. /\ moved \in Generators /\ moved.plan = m.plan /\ moved.queue = m.queue /\ moved.ctl = m.ctl
      /\ moved.blocks = m.blocks
      /\ moved.prep = [m.prep EXCEPT !.cur = speed, !.ramp = ramp]
  <2> DEFINE r == [m.prep EXCEPT !.cur = speed, !.ramp = ramp]
             g == [m EXCEPT !.prep = r]
  <2>1. r \in Preps
    BY <1>1, <1>2 DEF Preps
  <2>2. moved = g
    BY Zenon
  <2> HIDE DEF r
  <2>3. /\ g \in Generators /\ g.plan = m.plan /\ g.queue = m.queue /\ g.ctl = m.ctl
        /\ g.blocks = m.blocks /\ g.prep = r
    BY <1>1, <2>1 DEF Generators
  <2> HIDE DEF g, moved
  <2> QED
    BY <2>2, <2>3 DEF r
<1> HIDE DEF moved
<1>5. /\ moved.prep \in Preps /\ moved.prep.block = slot /\ moved.prep.index = m.prep.index
      /\ moved.prep.steps = m.prep.steps /\ moved.prep.flags = m.prep.flags
      /\ moved.prep.complete = m.prep.complete /\ moved.prep.until = m.prep.until
      /\ moved.prep.ramp = ramp
  BY <1>1, <1>2, <1>4 DEF Preps
<1>6. CASE n = 0
  <2> DEFINE g == [moved EXCEPT !.ctl = @ \cup {"END_MOTION"}]
  <2>1. Segment(m, x) = g
    BY <1>2, <1>3, <1>6
  <2>2. /\ g \in Generators /\ g.plan = m.plan /\ g.queue = m.queue /\ g.ctl = end
        /\ g.blocks = m.blocks /\ g.prep = moved.prep
    BY <1>4 DEF Generators
  <2> HIDE DEF g
  <2>3. Prepares(m, g, x)
    BY <1>2, <1>5, <1>6, <2>2 DEF Prepares, n
  <2> QED
    BY <2>1, <2>3
<1>7. CASE n # 0
  <2> DEFINE c == [b EXCEPT !.mm = x]
             p == [m.plan EXCEPT !.block = [@ EXCEPT ![slot] = c]]
             r == [moved.prep EXCEPT !.steps = Ceiling(x)]
             g == [moved EXCEPT !.queue = Append(@, segment), !.plan = p, !.prep = r]
             queue == Append(m.queue, segment)
  <2>1. c \in PlanBlocks /\ c.mm = x
    BY <1>1, <1>2 DEF PlanBlocks
  <2>2. [m.plan EXCEPT !.block[slot].mm = x] = p
    BY <1>1 DEF Plans
  <2> HIDE DEF c
  <2>3. /\ p \in Plans /\ p.tail = m.plan.tail /\ p.head = m.plan.head /\ p.block[slot] = c
        /\ \A i \in Slots \ {slot} : p.block[i] = m.plan.block[i]
    BY <1>1, <2>1 DEF Plans
  <2> HIDE DEF p
  <2>4. r = [moved.prep EXCEPT !.steps = Ceiling(x)]
    OBVIOUS
  <2> HIDE DEF r
  <2>5. r \in Preps
    BY <1>2, <1>5, <2>4 DEF Preps
  <2>6. /\ r.block = slot /\ r.index = m.prep.index /\ r.flags = m.prep.flags
        /\ r.complete = m.prep.complete /\ r.until = m.prep.until /\ r.ramp = ramp
        /\ r.steps = Ceiling(x)
    BY <1>5, <2>4 DEF Preps
  <2>7. segment \in Segments
    BY <1>1, <1>2, <1>7 DEF Segments, Preps
  <2>8. queue \in Seq(Segments)
    <3> HIDE DEF segment
    <3> QED
      BY <1>1, <2>7
  <2>9. queued = g
    <3>1. queued = [moved EXCEPT !.queue = Append(@, segment), !.plan.block[slot].mm = x,
                                 !.prep.steps = Ceiling(x)]
      OBVIOUS
    <3>2. [moved.plan EXCEPT !.block[slot].mm = x] = p
      BY <1>4, <2>2
    <3> HIDE DEF segment
    <3> QED
      BY <3>1, <3>2, Zenon DEF r
  <2> HIDE DEF queue, segment
  <2>10. /\ g \in Generators /\ g.plan = p /\ g.queue = queue /\ g.ctl = m.ctl
         /\ g.blocks = m.blocks /\ g.prep = r
    BY <1>4, <2>3, <2>5, <2>8 DEF Generators, queue
  <2> HIDE DEF g, queued
  <2>11. CASE x > m.prep.complete
    <3>1. Segment(m, x) = g
      BY <1>3, <1>7, <2>9, <2>11
    <3>2. x > 0
      BY <1>1, <1>2, <2>11 DEF Preps
    <3>3. Prepares(m, g, x)
      BY <1>2, <1>7, <2>1, <2>3, <2>6, <2>10, <3>2 DEF Prepares, n, queue, segment
    <3> QED
      BY <3>1, <3>3, Zenon
  <2>12. CASE ~(x > m.prep.complete) /\ (x > 0 \/ "SYS_MOTION" \in m.ctl)
    <3> DEFINE h == [g EXCEPT !.ctl = @ \cup {"END_MOTION"}]
    <3>1. Segment(m, x) = h
      BY <1>3, <1>7, <2>9, <2>12
    <3>2. /\ h \in Generators /\ h.plan = p /\ h.queue = queue /\ h.ctl = end
          /\ h.blocks = m.blocks /\ h.prep = r
      BY <2>10 DEF Generators
    <3> HIDE DEF h
    <3>3. Prepares(m, h, x)
      BY <1>2, <1>7, <2>1, <2>3, <2>6, <2>12, <3>2 DEF Prepares, n, queue, segment
    <3> QED
      BY <3>1, <3>3, Zenon
  <2>13. CASE ~(x > m.prep.complete) /\ ~(x > 0 \/ "SYS_MOTION" \in m.ctl)
    <3> DEFINE q == Discard(p)
               s == [r EXCEPT !.block = NoBlock]
               h == [g EXCEPT !.prep = s, !.plan = q]
    <3>1. Segment(m, x) = h
      <4>1. Segment(m, x) = discarded
        BY <1>3, <1>7, <2>13
      <4>2. discarded = [g EXCEPT !.prep.block = NoBlock, !.plan = Discard(@)]
        BY <2>9
      <4> QED
        BY <2>10, <4>1, <4>2
    <3>2. q \in Plans /\ q.head = p.head /\ q.block = p.block
          /\ (~IsEmpty(p) => q.tail = NextBlock(p.tail))
      BY <2>3, DiscardMoves DEF Discard
    <3>3. IsEmpty(p) <=> IsEmpty(m.plan)
      BY <2>3 DEF IsEmpty
    <3> HIDE DEF q
    <3>4. s \in Preps /\ s.block = NoBlock /\ s.index = r.index /\ s.flags = r.flags
          /\ s.complete = r.complete /\ s.until = r.until /\ s.ramp = r.ramp /\ s.steps = r.steps
      BY <2>5 DEF Preps
    <3> HIDE DEF s
    <3>5. /\ h \in Generators /\ h.plan = q /\ h.queue = queue /\ h.ctl = m.ctl
          /\ h.blocks = m.blocks /\ h.prep = s
      BY <2>10, <3>2, <3>4 DEF Generators
    <3> HIDE DEF h
    <3>6. Prepares(m, h, x)
      BY <1>2, <1>7, <2>1, <2>3, <2>6, <2>13, <3>2, <3>3, <3>4, <3>5
      DEF Prepares, n, queue, segment
    <3> QED
      BY <3>1, <3>6, Zenon
  <2> QED
    BY <2>11, <2>12, <2>13
<1> QED
  BY <1>6, <1>7

-----------------------------------------------------------------------------
(* The steps in a queue of segments.                                        *)

\* The steps of a block in the k-th segment.
StepsIn(i, q, k, left) == IF q[k].index = i THEN ToStep(q, k, left) ELSE 0

LEMMA StepsInAreNat ==
  ASSUME NEW q \in Seq(Segments), NEW left \in Nat, NEW i, NEW k \in 1..Len(q)
  PROVE  StepsIn(i, q, k, left) \in Nat /\ q[k] \in Segments /\ q[k].n \in Nat \ {0}
<1>1. q[k] \in Segments
  OBVIOUS
<1>2. q[k].n \in Nat \ {0}
  BY <1>1 DEF Segments
<1>3. ToStep(q, k, left) \in Nat
  BY <1>2 DEF ToStep
<1> QED
  BY <1>1, <1>2, <1>3 DEF StepsIn

LEMMA QueuedIsSum ==
  ASSUME NEW q \in Seq(Segments), NEW left \in Nat, NEW i
  PROVE  LET sum == QueuedOf(i, q, left)
         IN /\ \A k \in 0..Len(q) : sum[k] \in Nat
            /\ sum[0] = 0
            /\ \A k \in 1..Len(q) : sum[k] = sum[k - 1] + StepsIn(i, q, k, left)
<1> DEFINE N == Len(q)
           F == [x \in (1..N) \X Nat |-> x[2] + StepsIn(i, q, x[1], left)]
           Next1(sum, k) == IF k = 0 THEN 0 ELSE sum[k - 1] + StepsIn(i, q, k, left)
           Is(sum) == sum = [k \in 0..N |-> Next1(sum, k)]
           sum == CHOOSE r : Is(r)
<1>1. N \in Nat
  OBVIOUS
<1>2. F \in [(1..N) \X Nat -> Nat]
  <2> SUFFICES ASSUME NEW x \in (1..N) \X Nat PROVE x[2] + StepsIn(i, q, x[1], left) \in Nat
    OBVIOUS
  <2>1. StepsIn(i, q, x[1], left) \in Nat
    BY StepsInAreNat
  <2> QED
    BY <2>1
<1>3. \E r : Is(r)
  <2> HIDE DEF N, F, Next1, Is
  <2>1. PICK r \in [0..N -> Nat] : Recursive(r, N, 0, F)
    BY <1>1, <1>2, RecursionExists
  <2>2. ASSUME NEW k \in 0..N PROVE r[k] = Next1(r, k)
    <3>1. CASE k = 0
      BY <1>1, <2>1, <3>1 DEF Next1, Recursive
    <3>2. CASE k # 0
      <4>1. k \in 1..N /\ r[k - 1] \in Nat /\ r[k] = F[<<k, r[k - 1]>>]
        BY <1>1, <2>1, <3>2 DEF Recursive
      <4>2. F[<<k, r[k - 1]>>] = r[k - 1] + StepsIn(i, q, k, left)
        BY <4>1 DEF F
      <4> QED
        BY <3>2, <4>1, <4>2 DEF Next1
    <3> QED
      BY <3>1, <3>2
  <2>3. r = [k \in 0..N |-> Next1(r, k)]
    BY <2>2
  <2> QED
    BY <2>3 DEF Is
<1>4. Is(sum)
  BY <1>3, Zenon
<1>5. QueuedOf(i, q, left) = sum
  BY Zenon DEF QueuedOf, StepsIn
<1> HIDE DEF sum
<1>6. sum[0] = 0 /\ \A k \in 1..N : sum[k] = sum[k - 1] + StepsIn(i, q, k, left)
  BY <1>1, <1>4
<1>7. \A k \in 0..N : sum[k] \in Nat
  <2> DEFINE S == Nat
  <2>1. \A k \in 1..N : sum[k - 1] \in S => sum[k] \in S
    BY <1>6, StepsInAreNat
  <2>2. sum[0] \in S
    BY <1>6
  <2> HIDE DEF N, S
  <2>3. \A k \in 0..N : sum[k] \in S
    BY <1>1, <2>1, <2>2, IntervalInduction
  <2> QED
    BY <2>3 DEF S
<1> QED
  BY <1>5, <1>6, <1>7

\* All steps of a block in a queue.
AllOf(i, q, left) == QueuedOf(i, q, left)[Len(q)]

LEMMA AllIsNat ==
  ASSUME NEW q \in Seq(Segments), NEW left \in Nat, NEW i
  PROVE  AllOf(i, q, left) \in Nat
BY QueuedIsSum DEF AllOf

LEMMA NoneQueued ==
  ASSUME NEW q \in Seq(Segments), NEW left \in Nat, NEW i, \A k \in 1..Len(q) : q[k].index # i
  PROVE  AllOf(i, q, left) = 0
<1> DEFINE sum == QueuedOf(i, q, left)
           S == {0}
<1>1. sum[0] \in S /\ \A k \in 1..Len(q) : sum[k] = sum[k - 1] + 0
  BY QueuedIsSum DEF StepsIn
<1>2. \A k \in 1..Len(q) : sum[k - 1] \in S => sum[k] \in S
  BY <1>1
<1>3. Len(q) \in Nat
  OBVIOUS
<1> HIDE DEF sum, S
<1>4. \A k \in 0..Len(q) : sum[k] \in S
  BY <1>1, <1>2, <1>3, IntervalInduction
<1> QED
  BY <1>3, <1>4 DEF AllOf, sum, S

\* One more segment.
LEMMA AppendAdds ==
  ASSUME NEW q \in Seq(Segments), NEW s \in Segments, NEW left \in Nat, NEW i,
         left > 0 => q # <<>>
  PROVE  AllOf(i, Append(q, s), left) = AllOf(i, q, left) + (IF s.index = i THEN s.n ELSE 0)
<1> DEFINE r == Append(q, s)
           N == Len(q)
           a == QueuedOf(i, q, left)
           b == QueuedOf(i, r, left)
           S == {p \in Nat \X Nat : p[1] = p[2]}
           both == [k \in 0..N |-> <<a[k], b[k]>>]
<1>1. r \in Seq(Segments) /\ Len(r) = N + 1 /\ N \in Nat /\ r[N + 1] = s
      /\ \A k \in 1..N : r[k] = q[k]
  OBVIOUS
<1>2. /\ \A k \in 0..N : a[k] \in Nat
      /\ a[0] = 0 /\ \A k \in 1..N : a[k] = a[k - 1] + StepsIn(i, q, k, left)
  BY QueuedIsSum
<1>3. /\ \A k \in 0..N + 1 : b[k] \in Nat
      /\ b[0] = 0 /\ \A k \in 1..N + 1 : b[k] = b[k - 1] + StepsIn(i, r, k, left)
  <2> HIDE DEF r, N
  <2>1. Len(r) = N + 1
    BY <1>1
  <2> QED
    BY <1>1, <2>1, QueuedIsSum
<1> HIDE DEF a, b, r
<1>4. \A k \in 1..N : StepsIn(i, r, k, left) = StepsIn(i, q, k, left)
  BY <1>1 DEF StepsIn, ToStep
<1>5. \A k \in 0..N : both[k] = <<a[k], b[k]>> /\ a[k] \in Nat /\ b[k] \in Nat
  BY <1>1, <1>2, <1>3
<1>6. both[0] \in S
  BY <1>1, <1>2, <1>3, <1>5
<1>7. ASSUME NEW k \in 1..N, both[k - 1] \in S PROVE both[k] \in S
  <2>1. k - 1 \in 0..N /\ k \in 0..N /\ k \in 1..N + 1
    BY <1>1
  <2>2. a[k - 1] = b[k - 1]
    BY <1>5, <1>7, <2>1
  <2>3. a[k] = b[k]
    BY <1>2, <1>3, <1>4, <2>1, <2>2
  <2> QED
    BY <1>5, <2>1, <2>3
<1> HIDE DEF both, S
<1>8. \A k \in 0..N : both[k] \in S
  BY <1>1, <1>6, <1>7, IntervalInduction
<1>9. a[N] = b[N] /\ a[N] \in Nat
  BY <1>1, <1>5, <1>8 DEF S
<1>10. StepsIn(i, r, N + 1, left) = IF s.index = i THEN s.n ELSE 0
  <2>1. N = 0 => q = <<>>
    BY EmptySeq DEF N
  <2>2. N + 1 = 1 => ~(left > 0)
    BY <1>1, <2>1
  <2> HIDE DEF N
  <2> QED
    BY <1>1, <2>2 DEF StepsIn, ToStep
<1>11. b[N + 1] = b[N] + StepsIn(i, r, N + 1, left)
  <2>1. N + 1 \in 1..N + 1 /\ (N + 1) - 1 = N
    BY <1>1
  <2> HIDE DEF N
  <2> QED
    BY <1>3, <2>1
<1>12. AllOf(i, q, left) = a[N] /\ AllOf(i, r, left) = b[N + 1]
  BY <1>1 DEF AllOf, a, b
<1> HIDE DEF N
<1> QED
  BY <1>9, <1>10, <1>11, <1>12 DEF r

\* Two sums of the same numbers stay as far apart as they start.
LEMMA SumsApart ==
  ASSUME NEW n \in Nat, NEW d \in Nat,
         NEW a \in [0..n -> Nat], NEW b \in [0..n -> Nat], NEW f \in [1..n -> Nat],
         a[0] = b[0] + d,
         \A k \in 1..n : a[k] = a[k - 1] + f[k] /\ b[k] = b[k - 1] + f[k]
  PROVE  a[n] = b[n] + d
<1> DEFINE S == {p \in Nat \X Nat : p[1] = p[2] + d}
           both == [k \in 0..n |-> <<a[k], b[k]>>]
<1>1. \A k \in 0..n : both[k] = <<a[k], b[k]>>
  OBVIOUS
<1>2. both[0] \in S
  OBVIOUS
<1>3. ASSUME NEW k \in 1..n, both[k - 1] \in S PROVE both[k] \in S
  <2>1. k - 1 \in 0..n /\ k \in 0..n
    OBVIOUS
  <2>2. a[k - 1] = b[k - 1] + d
    BY <1>1, <1>3, <2>1
  <2>3. a[k] = b[k] + d
    BY <2>1, <2>2
  <2> QED
    BY <1>1, <2>1, <2>3
<1> HIDE DEF both, S
<1>4. \A k \in 0..n : both[k] \in S
  BY <1>2, <1>3, IntervalInduction
<1>5. <<a[n], b[n]>> \in S
  <2>1. n \in 0..n
    OBVIOUS
  <2> QED
    BY <1>1, <1>4, <2>1
<1> QED
  BY <1>5 DEF S

\* One step of the first segment, which is dropped after its last one.
LEMMA StepTakes ==
  ASSUME NEW q \in Seq(Segments), q # <<>>, NEW left \in Nat, NEW i, NEW now \in Nat \ {0},
         now = IF left = 0 THEN q[1].n ELSE left
  PROVE  AllOf(i, q, left) =
           AllOf(i, IF now = 1 THEN Tail(q) ELSE q, now - 1) + (IF q[1].index = i THEN 1 ELSE 0)
<1> DEFINE N == Len(q)
           a == QueuedOf(i, q, left)
           d == IF q[1].index = i THEN 1 ELSE 0
<1>1. N \in Nat /\ N > 0
  BY EmptySeq
<1>2. /\ \A k \in 0..N : a[k] \in Nat
      /\ a[0] = 0 /\ \A k \in 1..N : a[k] = a[k - 1] + StepsIn(i, q, k, left)
  BY QueuedIsSum
<1>3. StepsIn(i, q, 1, left) = IF q[1].index = i THEN now ELSE 0
  BY DEF StepsIn, ToStep
<1>4. a[1] = StepsIn(i, q, 1, left)
  <2>1. 1 \in 1..N /\ 1 - 1 = 0
    BY <1>1
  <2>2. StepsIn(i, q, 1, left) \in Nat
    BY <2>1, StepsInAreNat
  <2> HIDE DEF a, N
  <2> QED
    BY <1>2, <2>1, <2>2
<1> DEFINE n == N - 1
           f == [k \in 1..n |-> StepsIn(i, q, k + 1, left)]
           A == [k \in 0..n |-> a[k + 1]]
<1>5. n \in Nat
  BY <1>1
<1>6. \A k \in 1..n : k + 1 \in 1..N /\ (k + 1) - 1 = k /\ k \in 0..n /\ k - 1 \in 0..n
                      /\ (k - 1) + 1 = k /\ k \in 1..N
  <2> HIDE DEF N
  <2> QED
    BY <1>1
<1>7. \A k \in 1..n : f[k] \in Nat /\ f[k] = StepsIn(i, q, k + 1, left)
  BY <1>6, StepsInAreNat
<1>8. \A k \in 1..n : A[k] = A[k - 1] + f[k]
  <2> SUFFICES ASSUME NEW k \in 1..n PROVE A[k] = A[k - 1] + f[k]
    OBVIOUS
  <2>1. A[k] = a[k + 1] /\ A[k - 1] = a[k]
    BY <1>6
  <2>2. a[k + 1] = a[k] + StepsIn(i, q, k + 1, left)
    <3> HIDE DEF a, A, f, n, N
    <3> QED
      BY <1>2, <1>6
  <2> HIDE DEF A, f, a, n
  <2> QED
    BY <2>1, <2>2, <1>7
<1>9. \A k \in 0..n : A[k] \in Nat
  <2>1. \A k \in 0..n : k + 1 \in 0..N
    <3> HIDE DEF N
    <3> QED
      BY <1>1
  <2> QED
    BY <1>2, <2>1
<1>10. A[0] = a[1] /\ A[n] = a[N]
  <2>1. 0 \in 0..n /\ n \in 0..n /\ n + 1 = N
    <3> HIDE DEF N
    <3> QED
      BY <1>1
  <2> HIDE DEF a, n, N
  <2> QED
    BY <2>1
<1>11. A \in [0..n -> Nat]
  BY <1>9
<1>12. f \in [1..n -> Nat]
  BY <1>7
<1>13. CASE now = 1
  <2> DEFINE r == Tail(q)
             c == QueuedOf(i, r, 0)
             b == [k \in 0..n |-> c[k]]
  <2>1. r \in Seq(Segments) /\ Len(r) = n /\ \A k \in 1..n : r[k] = q[k + 1]
    BY <1>1
  <2>2. /\ b \in [0..n -> Nat]
        /\ b[0] = 0 /\ \A k \in 1..n : b[k] = b[k - 1] + StepsIn(i, r, k, 0)
    <3>1. /\ \A k \in 0..n : c[k] \in Nat
          /\ c[0] = 0 /\ \A k \in 1..n : c[k] = c[k - 1] + StepsIn(i, r, k, 0)
      <4> HIDE DEF r, n
      <4> QED
        BY <2>1, QueuedIsSum
    <3>2. \A k \in 0..n : b[k] = c[k]
      OBVIOUS
    <3> HIDE DEF c, n
    <3> QED
      BY <1>5, <1>6, <3>1, <3>2
  <2>3. \A k \in 1..n : StepsIn(i, r, k, 0) = f[k]
    <3> SUFFICES ASSUME NEW k \in 1..n PROVE StepsIn(i, r, k, 0) = f[k]
      OBVIOUS
    <3>1. ~(k + 1 = 1)
      BY <1>5
    <3> HIDE DEF r, f, n
    <3> QED
      BY <1>7, <2>1, <3>1 DEF StepsIn, ToStep
  <2>4. A[0] = b[0] + d /\ d \in Nat
    <3> HIDE DEF A, a, b
    <3> QED
      BY <1>3, <1>4, <1>10, <1>13, <2>2
  <2> HIDE DEF A, a, b, c, f, n, d, N, r
  <2>5. \A k \in 1..n : b[k] = b[k - 1] + f[k]
    BY <2>2, <2>3
  <2>6. A[n] = b[n] + d
    <3>1. \A k \in 1..n : A[k] = A[k - 1] + f[k] /\ b[k] = b[k - 1] + f[k]
      BY <1>5, <1>7, <1>8, <1>9, <2>2, <2>4, <2>5
    <3> QED
      BY <1>5, <1>11, <1>12, <2>2, <2>4, <3>1, SumsApart
  <2>7. AllOf(i, q, left) = A[n] /\ AllOf(i, r, 0) = b[n]
    BY <1>5, <1>10, <2>1 DEF AllOf, a, b, c, N
  <2> QED
    BY <1>13, <2>6, <2>7 DEF d, r
<1>14. CASE now # 1
  <2> DEFINE b == QueuedOf(i, q, now - 1)
             B == [k \in 0..n |-> b[k + 1]]
  <2>0. now - 1 \in Nat /\ now - 1 > 0
    BY <1>14
  <2>1. /\ \A k \in 0..N : b[k] \in Nat
        /\ b[0] = 0 /\ \A k \in 1..N : b[k] = b[k - 1] + StepsIn(i, q, k, now - 1)
    BY <2>0, QueuedIsSum
  <2>2. StepsIn(i, q, 1, now - 1) = IF q[1].index = i THEN now - 1 ELSE 0
    BY <2>0 DEF StepsIn, ToStep
  <2>3. b[1] = StepsIn(i, q, 1, now - 1)
    <3>1. 1 \in 1..N /\ 1 - 1 = 0
      BY <1>1
    <3>2. StepsIn(i, q, 1, now - 1) \in Nat
      BY <2>0, <2>2
    <3> HIDE DEF b, N
    <3> QED
      BY <2>1, <3>1, <3>2
  <2>4. \A k \in 1..n : B[k] = B[k - 1] + f[k]
    <3> SUFFICES ASSUME NEW k \in 1..n PROVE B[k] = B[k - 1] + f[k]
      OBVIOUS
    <3>1. B[k] = b[k + 1] /\ B[k - 1] = b[k]
      BY <1>6
    <3>2. b[k + 1] = b[k] + StepsIn(i, q, k + 1, now - 1)
      <4> HIDE DEF a, A, f, n, N, b, B
      <4> QED
        BY <2>1, <1>6
    <3>3. StepsIn(i, q, k + 1, now - 1) = f[k]
      <4>1. ~(k + 1 = 1)
        BY <1>5
      <4> HIDE DEF f, n
      <4> QED
        BY <1>7, <4>1 DEF StepsIn, ToStep
    <3> HIDE DEF B, f, b, n
    <3> QED
      BY <3>1, <3>2, <3>3
  <2>5. \A k \in 0..n : B[k] \in Nat
    <3>1. \A k \in 0..n : k + 1 \in 0..N
      <4> HIDE DEF N
      <4> QED
        BY <1>1
    <3> QED
      BY <2>1, <3>1
  <2>10. B \in [0..n -> Nat]
    BY <2>5
  <2>6. B[0] = b[1] /\ B[n] = b[N]
    <3>1. 0 \in 0..n /\ n \in 0..n /\ n + 1 = N
      <4> HIDE DEF N
      <4> QED
        BY <1>1
    <3> HIDE DEF b, n, N
    <3> QED
      BY <3>1
  <2>7. A[0] = B[0] + d /\ d \in Nat
    <3> HIDE DEF A, B, a, b
    <3> QED
      BY <1>3, <1>4, <1>10, <2>0, <2>2, <2>3, <2>6
  <2> HIDE DEF A, B, a, b, f, n, d, N
  <2>8. A[n] = B[n] + d
    <3>1. \A k \in 1..n : A[k] = A[k - 1] + f[k] /\ B[k] = B[k - 1] + f[k]
      BY <1>5, <1>7, <1>8, <1>9, <2>4, <2>5, <2>7
    <3> QED
      BY <1>5, <1>11, <1>12, <2>10, <2>7, <3>1, SumsApart
  <2>9. AllOf(i, q, left) = A[n] /\ AllOf(i, q, now - 1) = B[n]
    BY <1>10, <2>6 DEF AllOf, a, b, N
  <2> QED
    BY <1>14, <2>8, <2>9 DEF d
<1> QED
  BY <1>13, <1>14

-----------------------------------------------------------------------------
(* The blocks, whatever the generator does.                                 *)

\* What the executor and a line do to the generator, outside a homing cycle. A block
\* that a hold cuts short is not kept when the hold is over.
Kept(m, g) ==
  /\ g \in Generators /\ Replanned(m.plan, g.plan)
  /\ g.queue = m.queue /\ g.blocks = m.blocks /\ "SYS_MOTION" \notin g.ctl
  /\ \/ g.prep = m.prep /\ (m.prep.block # NoBlock /\ "HOLD" \in m.ctl => "HOLD" \in g.ctl)
     \/ /\ m.prep.block # NoBlock
        /\ g.prep = [m.prep EXCEPT !.flags = @ \cup {"RECALCULATE"}, !.block = NoBlock]

LEMMA RingReplanned ==
  ASSUME NEW p, NEW q, Replanned(p, q)
  PROVE  /\ \A i : InRing(q, i) <=> InRing(p, i)
         /\ IsEmpty(q) <=> IsEmpty(p)
         /\ IsFull(q) <=> IsFull(p)
         /\ \A i \in Slots : Untouched(q.block[i]) <=> Untouched(p.block[i])
BY DEF Replanned, InRing, IsEmpty, IsFull, SameBlock, Untouched

LEMMA KeptBlocksAreWhole ==
  ASSUME NEW m \in Generators, NEW g, Kept(m, g), BlocksAreWhole(m), "SYS_MOTION" \notin m.ctl
  PROVE  BlocksAreWhole(g)
<1>1. /\ m.plan \in Plans /\ m.prep \in Preps /\ m.plan.tail \in Slots
  BY FieldsOfGenerator DEF Plans
<1>2. /\ \A i : InRing(g.plan, i) <=> InRing(m.plan, i)
      /\ IsEmpty(g.plan) <=> IsEmpty(m.plan)
      /\ \A i \in Slots : Untouched(g.plan.block[i]) <=> Untouched(m.plan.block[i])
      /\ g.plan.tail = m.plan.tail /\ g.plan.head = m.plan.head
      /\ \A i \in Slots : g.plan.block[i].mm = m.plan.block[i].mm
  BY RingReplanned DEF Kept, Replanned, SameBlock
<1>3. m.prep.block # NoBlock => m.prep.block = m.plan.tail /\ ~IsEmpty(m.plan)
                                /\ "RECALCULATE" \notin m.prep.flags
  BY DEF BlocksAreWhole
<1>4. Loaded(m) => m.prep.steps = Ceiling(m.plan.block[m.plan.tail].mm) /\ m.prep.steps # 0
  BY <1>3 DEF BlocksAreWhole
<1>5. "SYS_MOTION" \notin g.ctl
  BY DEF Kept
<1>6. CASE g.prep = m.prep /\ (m.prep.block # NoBlock /\ "HOLD" \in m.ctl => "HOLD" \in g.ctl)
  <2>1. Loaded(g) <=> Loaded(m)
    BY <1>6 DEF Loaded
  <2>2. \A i \in Slots : InRing(g.plan, i) =>
          Untouched(g.plan.block[i]) \/ (Loaded(g) /\ i = g.plan.tail)
    BY <1>2, <1>3, <2>1 DEF BlocksAreWhole
  <2>3. m.prep.block # NoBlock =>
          /\ m.prep.complete <= g.plan.block[g.plan.tail].mm
          /\ m.prep.complete > 0 => "HOLD" \in g.ctl
          /\ m.prep.ramp = "decel_override" => m.prep.complete < m.prep.until
    BY <1>1, <1>2, <1>3, <1>6 DEF BlocksAreWhole
  <2>4. ~Loaded(m) => m.prep.steps = 0
    BY DEF BlocksAreWhole
  <2>5. "RECALCULATE" \in m.prep.flags => m.prep.block = NoBlock /\ ~IsEmpty(m.plan)
    BY DEF BlocksAreWhole
  <2> QED
    BY <1>1, <1>2, <1>3, <1>4, <1>5, <1>6, <2>1, <2>2, <2>3, <2>4, <2>5 DEF BlocksAreWhole
<1>7. CASE /\ m.prep.block # NoBlock
           /\ g.prep = [m.prep EXCEPT !.flags = @ \cup {"RECALCULATE"}, !.block = NoBlock]
  <2>1. /\ g.prep.block = NoBlock /\ g.prep.steps = m.prep.steps /\ "RECALCULATE" \in g.prep.flags
    BY <1>1, <1>7 DEF Preps
  <2>2. Loaded(g) /\ Loaded(m)
    BY <1>7, <2>1 DEF Loaded
  <2>3. \A i \in Slots : InRing(g.plan, i) =>
          Untouched(g.plan.block[i]) \/ (Loaded(g) /\ i = g.plan.tail)
    BY <1>2, <1>3, <2>2 DEF BlocksAreWhole
  <2>4. g.prep.steps = Ceiling(g.plan.block[g.plan.tail].mm) /\ g.prep.steps # 0
    BY <1>1, <1>2, <1>4, <2>1, <2>2
  <2> QED
    BY <1>2, <1>3, <1>7, <2>1, <2>2, <2>3, <2>4 DEF BlocksAreWhole
<1> QED
  BY <1>6, <1>7 DEF Kept

LEMMA AppendedBlocksAreWhole ==
  ASSUME NEW m \in Generators, NEW p, Appended(m.plan, p), ~IsFull(m.plan),
         BlocksAreWhole(m), "SYS_MOTION" \notin m.ctl
  PROVE  BlocksAreWhole([m EXCEPT !.plan = p])
<1> DEFINE g == [m EXCEPT !.plan = p]
<1>1. /\ m.plan \in Plans /\ m.prep \in Preps /\ m.plan.tail \in Slots /\ m.plan.head \in Slots
      /\ p \in Plans
  BY FieldsOfGenerator DEF Plans, Appended
<1>2. g.plan = p /\ g.prep = m.prep /\ g.ctl = m.ctl
  BY <1>1, PlanChanged
<1> HIDE DEF g
<1>3. Loaded(g) <=> Loaded(m)
  BY <1>2 DEF Loaded
<1>4. ~IsEmpty(p) /\ p.tail = m.plan.tail
  BY <1>1, RingGrown DEF Appended
<1>5. m.prep.block # NoBlock => m.prep.block = m.plan.tail /\ ~IsEmpty(m.plan)
  BY DEF BlocksAreWhole
<1>6. Loaded(m) => ~IsEmpty(m.plan) /\ p.block[m.plan.tail] = m.plan.block[m.plan.tail]
  <2>1. Loaded(m) => ~IsEmpty(m.plan)
    BY <1>5 DEF Loaded, BlocksAreWhole
  <2> QED
    BY <1>1, <2>1 DEF Appended, IsEmpty
<1>7. \A i \in Slots : InRing(p, i) => Untouched(p.block[i]) \/ (Loaded(g) /\ i = p.tail)
  <2> SUFFICES ASSUME NEW i \in Slots, InRing(p, i), i # m.plan.head
               PROVE  Untouched(p.block[i]) \/ (Loaded(g) /\ i = p.tail)
    BY DEF Appended
  <2>1. InRing(m.plan, i)
    BY <1>1, RingGrows DEF Appended
  <2>2. p.block[i] = m.plan.block[i]
    BY DEF Appended
  <2> QED
    BY <1>3, <1>4, <1>5, <2>1, <2>2 DEF BlocksAreWhole
<1>8. m.prep.block # NoBlock =>
        /\ m.prep.complete <= p.block[p.tail].mm
        /\ m.prep.complete > 0 => "HOLD" \in m.ctl
        /\ m.prep.ramp = "decel_override" => m.prep.complete < m.prep.until
  BY <1>4, <1>5, <1>6 DEF BlocksAreWhole, Loaded
<1>9. Loaded(m) => m.prep.steps = Ceiling(p.block[p.tail].mm) /\ m.prep.steps # 0
  BY <1>4, <1>5, <1>6 DEF BlocksAreWhole
<1>10. (~Loaded(m) => m.prep.steps = 0) /\ ("RECALCULATE" \in m.prep.flags => m.prep.block = NoBlock)
  BY DEF BlocksAreWhole
<1>11. BlocksAreWhole(g)
  BY <1>2, <1>3, <1>4, <1>5, <1>7, <1>8, <1>9, <1>10 DEF BlocksAreWhole
<1> QED
  BY <1>11 DEF g

\* The block that is loaded is the first of the ring, or an untouched system motion.
LEMMA LoadedBlocksAreWhole ==
  ASSUME NEW m \in Generators, NEW g, NEW slot \in Slots, slot = NextPrepBlock(m), Loads(m, g, slot),
         BlocksAreWhole(m), m.prep.block = NoBlock,
         "SYS_MOTION" \in m.ctl => IsEmpty(m.plan) /\ Untouched(m.plan.block[m.plan.head])
  PROVE  BlocksAreWhole(g)
<1> DEFINE b == m.plan.block[slot]
           again == "RECALCULATE" \in m.prep.flags
<1>1. /\ m.plan \in Plans /\ m.prep \in Preps /\ m.plan.tail \in Slots /\ m.plan.head \in Slots
      /\ b \in PlanBlocks /\ b.count \in Nat
  BY FieldsOfGenerator DEF Plans, PlanBlocks
<1>2. /\ \A i : InRing(g.plan, i) <=> InRing(m.plan, i)
      /\ IsEmpty(g.plan) <=> IsEmpty(m.plan)
      /\ \A i \in Slots : Untouched(g.plan.block[i]) <=> Untouched(m.plan.block[i])
      /\ g.plan.tail = m.plan.tail /\ g.plan.head = m.plan.head
      /\ \A i \in Slots : g.plan.block[i].mm = m.plan.block[i].mm
  <2>1. Replanned(m.plan, g.plan)
    BY DEF Loads
  <2> QED
    BY <2>1, RingReplanned DEF Replanned, SameBlock
<1>3. NoBlock \notin Slots
  BY SegmentAssumption
<1>4. slot = IF "SYS_MOTION" \in m.ctl THEN m.plan.head ELSE m.plan.tail
  BY <1>3 DEF NextPrepBlock
<1>5. "SYS_MOTION" \notin m.ctl => ~IsEmpty(m.plan)
  BY <1>3 DEF NextPrepBlock
<1>6. Loaded(g)
  BY <1>3 DEF Loads, Loaded
<1>7. \A i \in Slots : InRing(g.plan, i) => Untouched(g.plan.block[i]) \/ (Loaded(g) /\ i = slot)
  <2> SUFFICES ASSUME NEW i \in Slots, InRing(g.plan, i)
               PROVE  Untouched(g.plan.block[i]) \/ i = slot
    BY <1>6
  <2>1. InRing(m.plan, i) /\ "SYS_MOTION" \notin m.ctl
    BY <1>1, <1>2, EmptyRing
  <2>2. Untouched(m.plan.block[i]) \/ i = m.plan.tail
    BY <2>1 DEF BlocksAreWhole
  <2> QED
    BY <1>2, <1>4, <2>1, <2>2
<1>8. g.prep.steps = Ceiling(b.mm) /\ g.prep.steps # 0
  <2>1. CASE again
    <3>1. Loaded(m) /\ "SYS_MOTION" \notin m.ctl /\ slot = m.plan.tail
      BY <1>4, <2>1 DEF Loaded, BlocksAreWhole
    <3>2. m.prep.steps = Ceiling(m.plan.block[m.plan.tail].mm) /\ m.prep.steps # 0
      BY <3>1 DEF BlocksAreWhole
    <3> QED
      BY <2>1, <3>1, <3>2 DEF Loads
  <2>2. CASE ~again
    <3>1. g.prep.steps = b.count
      BY <2>2 DEF Loads
    <3>2. Untouched(b)
      <4>1. CASE "SYS_MOTION" \in m.ctl
        BY <1>4, <4>1
      <4>2. CASE "SYS_MOTION" \notin m.ctl
        <5>1. ~Loaded(m)
          BY <2>2 DEF Loaded
        <5>2. InRing(m.plan, m.plan.tail)
          BY <1>1, <1>5, <4>2, TailInRing
        <5> QED
          BY <1>1, <1>4, <4>2, <5>1, <5>2 DEF BlocksAreWhole
      <4> QED
        BY <4>1, <4>2
    <3> HIDE DEF b
    <3> QED
      BY <1>1, <3>1, <3>2, CeilingOfWhole DEF Untouched
  <2> QED
    BY <2>1, <2>2
<1>9. /\ g.prep.block = slot /\ "RECALCULATE" \notin g.prep.flags /\ g.ctl = m.ctl
      /\ g.prep.complete <= g.plan.block[slot].mm
      /\ g.prep.complete > 0 => "HOLD" \in g.ctl
      /\ g.prep.ramp = "decel_override" => g.prep.complete < g.prep.until
  BY DEF Loads
<1> QED
  BY <1>2, <1>3, <1>4, <1>5, <1>6, <1>7, <1>8, <1>9 DEF BlocksAreWhole

LEMMA SegmentBlocksAreWhole ==
  ASSUME NEW m, InHand(m), NEW x \in SegmentEnds(m), NEW g, Prepares(m, g, x), BlocksAreWhole(m),
         "SYS_MOTION" \in m.ctl => IsEmpty(m.plan)
  PROVE  BlocksAreWhole(g)
<1> DEFINE slot == m.prep.block
           n == m.prep.steps - Ceiling(x)
<1>1. /\ m \in Generators /\ slot \in Slots /\ m.plan \in Plans /\ m.prep \in Preps
      /\ m.plan.tail \in Slots /\ m.plan.head \in Slots /\ m.prep.steps \in Nat
      /\ m.prep.complete \in Nat
  BY FieldsOfGenerator DEF Plans, InHand, Preps
<1>2. NoBlock \notin Slots /\ slot # NoBlock /\ Loaded(m)
  BY <1>1, SegmentAssumption DEF Loaded
<1>3. /\ slot = IF "SYS_MOTION" \in m.ctl THEN m.plan.head ELSE m.plan.tail
      /\ "SYS_MOTION" \notin m.ctl => ~IsEmpty(m.plan)
      /\ "RECALCULATE" \notin m.prep.flags
      /\ m.prep.complete > 0 => "HOLD" \in m.ctl
      /\ m.prep.ramp = "decel_override" => m.prep.complete < m.prep.until
      /\ m.prep.steps = Ceiling(m.plan.block[slot].mm) /\ m.prep.steps > 0
      /\ m.prep.complete <= m.plan.block[slot].mm
  BY <1>2 DEF BlocksAreWhole, InHand
<1>4. /\ g \in Generators /\ g.plan.head = m.plan.head /\ g.prep.flags = m.prep.flags
      /\ g.prep.complete = m.prep.complete /\ g.prep.until = m.prep.until
      /\ g.prep.ramp = "decel_override" => m.prep.ramp = "decel_override"
      /\ "HOLD" \in m.ctl => "HOLD" \in g.ctl
      /\ "SYS_MOTION" \in g.ctl <=> "SYS_MOTION" \in m.ctl
      /\ \A i \in Slots \ {slot} : g.plan.block[i] = m.plan.block[i]
  BY DEF Prepares
<1>5. x \in Nat /\ Ceiling(x) \in Nat
  BY SegmentEndIsInBlock
<1>6. \A i \in Slots : InRing(m.plan, i) => Untouched(m.plan.block[i]) \/ i = slot
  BY <1>2 DEF BlocksAreWhole
<1>7. ASSUME g.prep.block = slot, g.plan.tail = m.plan.tail,
             g.prep.steps = Ceiling(g.plan.block[slot].mm),
             g.prep.steps = 0 => "SYS_MOTION" \in g.ctl /\ "END_MOTION" \in g.ctl,
             g.prep.complete <= g.plan.block[slot].mm
      PROVE  BlocksAreWhole(g)
  <2>1. (IsEmpty(g.plan) <=> IsEmpty(m.plan)) /\ \A i : InRing(g.plan, i) <=> InRing(m.plan, i)
    BY <1>4, <1>7 DEF IsEmpty, InRing
  <2>2. Loaded(g)
    BY <1>2, <1>7 DEF Loaded
  <2>3. \A i \in Slots : InRing(g.plan, i) => Untouched(g.plan.block[i]) \/ (Loaded(g) /\ i = slot)
    BY <1>4, <1>6, <2>1, <2>2
  <2> QED
    BY <1>2, <1>3, <1>4, <1>7, <2>1, <2>2, <2>3 DEF BlocksAreWhole
<1>8. CASE n = 0
  BY <1>3, <1>4, <1>7, <1>8 DEF Prepares
<1>9. CASE n # 0 /\ g.prep.block = slot
  <2>1. /\ g.plan.tail = m.plan.tail /\ g.plan.block[slot].mm = x /\ g.prep.steps = Ceiling(x)
        /\ x >= m.prep.complete /\ (x > 0 \/ ("SYS_MOTION" \in g.ctl /\ "END_MOTION" \in g.ctl))
    BY <1>2, <1>9 DEF Prepares
  <2>2. g.prep.steps = 0 => "SYS_MOTION" \in g.ctl /\ "END_MOTION" \in g.ctl
    <3>1. x # 0 => x > 0 /\ Ceiling(x) > 0
      BY <1>5, CeilingOfSome
    <3>2. x # 0 => Ceiling(x) # 0
      BY <1>5, <3>1
    <3> HIDE DEF slot
    <3> QED
      BY <1>5, <2>1, <3>2
  <2> QED
    BY <1>1, <1>4, <1>5, <1>7, <1>9, <2>1, <2>2
<1>10. CASE n # 0 /\ g.prep.block # slot
  <2>1. /\ x = 0 /\ "SYS_MOTION" \notin m.ctl /\ g.prep.block = NoBlock /\ g.prep.steps = Ceiling(x)
        /\ ~IsEmpty(m.plan) => g.plan.tail = NextBlock(m.plan.tail)
    BY <1>10 DEF Prepares
  <2>2. g.prep.steps = 0 /\ ~Loaded(g) /\ "RECALCULATE" \notin g.prep.flags
    BY <1>3, <1>4, <2>1, CeilingOfNothing DEF Loaded
  <2>3. \A i \in Slots : InRing(g.plan, i) => Untouched(g.plan.block[i])
    <3> SUFFICES ASSUME NEW i \in Slots, InRing(g.plan, i) PROVE Untouched(g.plan.block[i])
      OBVIOUS
    <3>1. g.plan \in Plans
      BY <1>4, FieldsOfGenerator
    <3>2. i # m.plan.tail /\ InRing(m.plan, i)
      BY <1>1, <1>3, <1>4, <2>1, <3>1, RingShrinks
    <3> QED
      BY <1>3, <1>4, <1>6, <2>1, <3>2
  <2> QED
    BY <2>1, <2>2, <2>3 DEF BlocksAreWhole
<1> QED
  BY <1>8, <1>9, <1>10

-----------------------------------------------------------------------------
(* The table of the step interrupt, and the steps of its blocks.            *)

\* The segments, the block that is prepared and the interrupt stay as they are.
Quiet ==
  /\ gen'.queue = gen.queue /\ gen'.blocks = gen.blocks
  /\ gen'.prep.index = gen.prep.index /\ gen'.prep.steps = gen.prep.steps
  /\ stepper'.index = stepper.index /\ stepper'.left = stepper.left /\ stepper'.done = stepper.done

LEMMA QuietStep ==
  ASSUME TableInvariant, StepsAreExact, Quiet
  PROVE  TableInvariant' /\ StepsAreExact'
<1>1. LastIndex' = LastIndex /\ \A i : Behind(i)' = Behind(i)
  BY DEF Quiet, LastIndex, Behind
<1>2. TableInvariant'
  BY <1>1 DEF Quiet, TableInvariant
<1>3. \A i : StepsOf(i)' = StepsOf(i)
  BY DEF Quiet, StepsOf
<1>4. StepsAreExact'
  BY <1>3 DEF Quiet, StepsAreExact
<1> QED
  BY <1>2, <1>4

\* No segment is left, and the interrupt starts anew.
LEMMA NothingQueuedStep ==
  ASSUME gen'.queue = <<>>, gen'.prep = NoPrep,
         stepper' = [on |-> FALSE, index |-> 0, left |-> 0, done |-> 0]
  PROVE  TableInvariant' /\ StepsAreExact'
<1>1. /\ gen'.prep.index = 0 /\ gen'.prep.steps = 0 /\ Len(gen'.queue) = 0
      /\ stepper'.index = 0 /\ stepper'.left = 0 /\ stepper'.done = 0
  BY DEF NoPrep
<1>2. LastIndex' = 0
  BY <1>1 DEF LastIndex
<1>3. TableInvariant'
  BY <1>1, <1>2, SegmentAssumption DEF TableInvariant
<1>4. StepsAreExact'
  BY <1>1 DEF StepsAreExact
<1> QED
  BY <1>3, <1>4

LEMMA SegmentsOf ==
  ASSUME NEW q \in Seq(Segments)
  PROVE  Len(q) \in Nat /\ \A k \in 1..Len(q) : q[k].index \in DataSlots /\ q[k].n \in Nat \ {0}
<1>1. \A k \in 1..Len(q) : q[k] \in Segments
  OBVIOUS
<1> QED
  BY <1>1 DEF Segments

LEMMA BehindNext ==
  ASSUME NEW p \in DataSlots, NEW i \in DataSlots
  PROVE  LET next == NextIndex(p)
             behind == IF i <= p THEN p - i ELSE p + (SegmentBufferSize - 1) - i
         IN /\ behind \in Nat
            /\ behind < SegmentBufferSize - 2 =>
                 /\ (IF i <= next THEN next - i ELSE next + (SegmentBufferSize - 1) - i) = behind + 1
                 /\ i # next
<1>1. /\ p \in Nat /\ p <= SegmentBufferSize - 2 /\ i \in Nat /\ i <= SegmentBufferSize - 2
      /\ SegmentBufferSize \in Nat /\ SegmentBufferSize > 2
  BY SegmentAssumption DEF DataSlots
<1>2. CASE p + 1 = SegmentBufferSize - 1
  BY <1>1, <1>2 DEF NextIndex
<1>3. CASE p + 1 # SegmentBufferSize - 1
  BY <1>1, <1>3 DEF NextIndex
<1> QED
  BY <1>2, <1>3

\* A new block takes a slot of the table that no queued segment uses.
LEMMA NewBlockStep ==
  ASSUME gen \in Generators, stepper \in Steppers, UNCHANGED stepper,
         TableInvariant, StepsAreExact,
         gen.prep.steps = 0, Len(gen.queue) < SegmentBufferSize - 1,
         gen'.queue = gen.queue, gen'.prep.index = NextIndex(gen.prep.index),
         NEW d \in StepData, d.count > 0, gen'.prep.steps = d.count,
         gen'.blocks = [gen.blocks EXCEPT ![NextIndex(gen.prep.index)] = d]
  PROVE  TableInvariant' /\ StepsAreExact'
<1> DEFINE q == gen.queue
           N == Len(q)
           p == gen.prep.index
           next == NextIndex(p)
<1>1. /\ q \in Seq(Segments) /\ p \in DataSlots /\ gen.blocks \in [DataSlots -> StepData]
      /\ SegmentBufferSize \in Nat /\ SegmentBufferSize > 2
  BY FieldsOfGenerator, SegmentAssumption DEF Preps
<1>2. next \in DataSlots /\ next # p
  BY <1>1, NextIndexIsIndex
<1>3. N \in Nat /\ \A k \in 1..N : q[k].index \in DataSlots
  BY <1>1, SegmentsOf
<1>4. LastIndex = p
  BY DEF TableInvariant
<1>5. \A k \in 1..N : Behind(q[k].index) <= N - k
  <2>1. \A k \in 1..N : Behind(q[k].index) <= N - k + 0
    BY <1>4 DEF TableInvariant
  <2>2. \A i \in DataSlots : Behind(i) \in Int
    BY <1>1 DEF Behind, DataSlots
  <2> HIDE DEF N, q
  <2> QED
    BY <1>3, <2>1, <2>2
<1> DEFINE behind(i) == IF i <= next THEN next - i ELSE next + (SegmentBufferSize - 1) - i
<1>6. \A i : Behind(i)' = behind(i)
  BY DEF Behind
<1>7. \A i \in DataSlots : /\ Behind(i) \in Nat
                           /\ Behind(i) < SegmentBufferSize - 2 => behind(i) = Behind(i) + 1 /\ i # next
  <2> SUFFICES ASSUME NEW i \in DataSlots
               PROVE  /\ Behind(i) \in Nat
                      /\ Behind(i) < SegmentBufferSize - 2 => behind(i) = Behind(i) + 1 /\ i # next
    OBVIOUS
  <2> QED
    BY <1>1, BehindNext DEF Behind
<1>8. \A k \in 1..N : behind(q[k].index) = Behind(q[k].index) + 1 /\ q[k].index # next
                      /\ Behind(q[k].index) \in Nat
  <2> SUFFICES ASSUME NEW k \in 1..N
               PROVE  behind(q[k].index) = Behind(q[k].index) + 1 /\ q[k].index # next
                      /\ Behind(q[k].index) \in Nat
    OBVIOUS
  <2>1. Behind(q[k].index) <= N - k /\ q[k].index \in DataSlots
    BY <1>3, <1>5
  <2>2. Behind(q[k].index) \in Nat
    BY <1>7, <2>1
  <2>3. N < SegmentBufferSize - 1
    OBVIOUS
  <2>4. Behind(q[k].index) < SegmentBufferSize - 2
    <3> HIDE DEF N, q
    <3> QED
      BY <1>1, <1>3, <2>1, <2>2, <2>3
  <2> HIDE DEF behind, N, next
  <2> QED
    BY <1>7, <2>1, <2>2, <2>4
<1>9. LastIndex' = p
  BY <1>4 DEF LastIndex
<1>10. /\ \A k \in 1..N : /\ behind(q[k].index) <= N - k + 1
                          /\ \A j \in 1..k : behind(q[k].index) <= behind(q[j].index)
  <2> SUFFICES ASSUME NEW k \in 1..N
               PROVE  /\ behind(q[k].index) <= N - k + 1
                      /\ \A j \in 1..k : behind(q[k].index) <= behind(q[j].index)
    OBVIOUS
  <2>1. \A j \in 1..k : Behind(q[k].index) <= Behind(q[j].index)
    BY DEF TableInvariant
  <2>2. \A j \in 1..k : j \in 1..N
    <3> HIDE DEF N
    <3> QED
      BY <1>3
  <2> HIDE DEF behind, N, q
  <2>3. behind(q[k].index) = Behind(q[k].index) + 1 /\ Behind(q[k].index) \in Nat
    BY <1>8
  <2>4. behind(q[k].index) <= N - k + 1
    BY <1>3, <1>5, <2>3
  <2>5. ASSUME NEW j \in 1..k PROVE behind(q[k].index) <= behind(q[j].index)
    <3>1. behind(q[j].index) = Behind(q[j].index) + 1 /\ Behind(q[j].index) \in Nat
      BY <1>8, <2>2
    <3>2. Behind(q[k].index) <= Behind(q[j].index)
      BY <2>1
    <3> QED
      BY <2>3, <3>1, <3>2
  <2> QED
    BY <2>4, <2>5
<1>11. TableInvariant'
  <2>1. /\ Len(q) < SegmentBufferSize
        /\ stepper.left > 0 => q # <<>> /\ q[1].index = stepper.index /\ stepper.left < q[1].n
    BY DEF TableInvariant
  <2>2. gen'.prep.steps > 0
    OBVIOUS
  <2>3. \A k \in 1..N :
          /\ Behind(q[k].index)' <= N - k + (IF LastIndex' = gen'.prep.index THEN 0 ELSE 1)
          /\ \A j \in 1..k : Behind(q[k].index)' <= Behind(q[j].index)'
    <3> HIDE DEF behind, N
    <3> QED
      BY <1>2, <1>6, <1>9, <1>10
  <2> HIDE DEF behind
  <2> QED
    BY <1>9, <2>1, <2>2, <2>3 DEF TableInvariant
<1>12. ASSUME NEW i, i # next
       PROVE  StepsOf(i)' = StepsOf(i)
  BY <1>2, <1>12 DEF StepsOf
<1>13. ASSUME NEW i, i = next PROVE StepsOf(i)' = d.count
  <2>1. stepper.left \in Nat
    BY DEF Steppers
  <2>2. AllOf(i, q, stepper.left) = 0
    <3>1. \A k \in 1..Len(q) : q[k].index # i
      BY <1>8, <1>13
    <3> HIDE DEF q, next
    <3> QED
      BY <1>1, <2>1, <3>1, NoneQueued
  <2>3. ~(next = stepper.index /\ (q = <<>> \/ q[1].index = next))
    <3>1. q = <<>> => stepper.index = p
      BY <1>4 DEF LastIndex
    <3>2. q # <<>> => 1 \in 1..N
      <4>1. q # <<>> => N # 0
        BY <1>1, EmptySeq
      <4> QED
        BY <1>3, <4>1
    <3> HIDE DEF behind
    <3> QED
      BY <1>2, <1>8, <3>1, <3>2
  <2>4. d.count \in Nat
    BY DEF StepData
  <2>5. StepsOf(i)' = AllOf(i, q, stepper.left) + 0 + d.count
    BY <1>13, <2>3 DEF StepsOf, AllOf
  <2> QED
    BY <2>2, <2>4, <2>5
<1>14. StepsAreExact'
  <2>1. gen'.blocks[next] = d /\ \A i : i # next /\ i \in DataSlots => gen'.blocks[i] = gen.blocks[i]
    BY <1>1, <1>2
  <2> SUFFICES ASSUME NEW i \in {q[k].index : k \in DOMAIN q} \cup {next}
               PROVE  StepsOf(i)' = gen'.blocks[i].count
    BY DEF StepsAreExact
  <2>2. CASE i = next
    BY <1>13, <2>1, <2>2
  <2>3. CASE i # next
    <3>1. i \in {q[k].index : k \in DOMAIN q} /\ i \in DataSlots
      BY <1>3, <2>3
    <3>2. StepsOf(i) = gen.blocks[i].count
      BY <3>1 DEF StepsAreExact
    <3> QED
      BY <1>12, <2>1, <2>3, <3>1, <3>2
  <2> QED
    BY <2>2, <2>3
<1> QED
  BY <1>11, <1>14
\* A segment goes behind the others.
LEMMA NewSegmentStep ==
  ASSUME gen \in Generators, stepper \in Steppers, UNCHANGED stepper,
         TableInvariant, StepsAreExact, Len(gen.queue) < SegmentBufferSize - 1,
         NEW n \in Nat \ {0}, gen.prep.steps - n \in Nat, gen'.prep.steps = gen.prep.steps - n,
         gen'.queue = Append(gen.queue, [index |-> gen.prep.index, n |-> n]),
         gen'.prep.index = gen.prep.index, gen'.blocks = gen.blocks
  PROVE  TableInvariant' /\ StepsAreExact'
<1> DEFINE q == gen.queue
           N == Len(q)
           p == gen.prep.index
           s == [index |-> p, n |-> n]
           r == Append(q, s)
<1>1. /\ q \in Seq(Segments) /\ p \in DataSlots /\ stepper.left \in Nat /\ gen.prep.steps \in Nat
      /\ SegmentBufferSize \in Nat /\ SegmentBufferSize > 2 /\ gen.prep.steps > 0
  BY FieldsOfGenerator, SegmentAssumption DEF Preps, Steppers
<1>2. N \in Nat /\ \A k \in 1..N : q[k].index \in DataSlots
  BY <1>1, SegmentsOf
<1>3. s \in Segments
  BY <1>1 DEF Segments
<1>4. /\ r \in Seq(Segments) /\ Len(r) = N + 1 /\ r # <<>> /\ r[N + 1] = s /\ s.index = p
      /\ \A k \in 1..N : r[k] = q[k]
  BY <1>1, <1>3
<1>5. \A i : Behind(i)' = Behind(i)
  BY DEF Behind
<1>6. \A i \in DataSlots : Behind(i) \in Nat
  BY <1>1 DEF Behind, DataSlots
<1>7. \A i : i = p => Behind(i) = 0
  BY <1>1 DEF Behind, DataSlots
<1>8. q # <<>> => N > 0
  BY <1>1, EmptySeq
<1>9. LastIndex' = p
  BY <1>4 DEF LastIndex
<1>10. \A k \in 1..N + 1 : /\ Behind(r[k].index) <= (N + 1) - k + 0
                           /\ \A j \in 1..k : Behind(r[k].index) <= Behind(r[j].index)
  <2> SUFFICES ASSUME NEW k \in 1..N + 1
               PROVE  /\ Behind(r[k].index) <= (N + 1) - k + 0
                      /\ \A j \in 1..k : Behind(r[k].index) <= Behind(r[j].index)
    OBVIOUS
  <2>1. \A j \in 1..k : r[j].index \in DataSlots
    <3> SUFFICES ASSUME NEW j \in 1..k PROVE r[j].index \in DataSlots
      OBVIOUS
    <3>1. j \in 1..N \/ j = N + 1
      <4> HIDE DEF N
      <4> QED
        BY <1>2
    <3> HIDE DEF r, s
    <3> QED
      BY <1>1, <1>2, <1>4, <3>1
  <2>2. \A j \in 1..k : Behind(r[j].index) \in Nat
    BY <1>6, <2>1
  <2>3. CASE k = N + 1
    <3>1. Behind(r[k].index) = 0
      BY <1>4, <1>7, <2>3
    <3> HIDE DEF r, N
    <3> QED
      BY <1>2, <2>2, <2>3, <3>1
  <2>4. CASE k # N + 1
    <3>1. k \in 1..N
      <4> HIDE DEF N
      <4> QED
        BY <1>2, <2>4
    <3>2. \A j \in 1..k : r[j] = q[j]
      <4>1. \A j \in 1..k : j \in 1..N
        <5> HIDE DEF N
        <5> QED
          BY <1>2, <3>1
      <4> QED
        BY <1>4, <4>1
    <3>3. /\ Behind(q[k].index) <= N - k + (IF LastIndex = p THEN 0 ELSE 1)
          /\ \A j \in 1..k : Behind(q[k].index) <= Behind(q[j].index)
      BY <3>1 DEF TableInvariant
    <3>4. \A j \in 1..k : Behind(r[j].index) = Behind(q[j].index)
      BY <3>2
    <3>5. k \in 1..k
      OBVIOUS
    <3> HIDE DEF r, N, q
    <3>6. Behind(r[k].index) <= (N + 1) - k + 0
      <4>1. Behind(r[k].index) \in Nat /\ Behind(r[k].index) <= N - k + (IF LastIndex = p THEN 0 ELSE 1)
        BY <2>2, <3>3, <3>4, <3>5
      <4> QED
        BY <1>2, <4>1
    <3> QED
      BY <3>3, <3>4, <3>5, <3>6
  <2> QED
    BY <2>3, <2>4
<1>11. TableInvariant'
  <2>1. N + 1 < SegmentBufferSize
    <3>1. N < SegmentBufferSize - 1
      OBVIOUS
    <3> HIDE DEF N
    <3> QED
      BY <1>1, <1>2, <3>1
  <2>2. stepper.left > 0 => r # <<>> /\ r[1].index = stepper.index /\ stepper.left < r[1].n
    <3>1. stepper.left > 0 => q # <<>> /\ q[1].index = stepper.index /\ stepper.left < q[1].n
      BY DEF TableInvariant
    <3>2. q # <<>> => 1 \in 1..N
      <4> HIDE DEF N
      <4> QED
        BY <1>2, <1>8
    <3>3. q # <<>> => r[1] = q[1]
      BY <1>4, <3>2
    <3> QED
      BY <1>4, <3>1, <3>3
  <2>3. PICK R : R = r
    OBVIOUS
  <2>4. \A k \in 1..N + 1 :
          /\ Behind(R[k].index) <= (N + 1) - k + 0
          /\ \A j \in 1..k : Behind(R[k].index) <= Behind(R[j].index)
    BY <1>10, <2>3
  <2>5. gen'.queue = R /\ Len(R) = N + 1
    BY <1>4, <2>3
  <2>6. LastIndex' = gen'.prep.index
    BY <1>9
  <2>7. stepper'.left > 0 => R # <<>> /\ R[1].index = stepper'.index /\ stepper'.left < R[1].n
    BY <2>2, <2>3
  <2> HIDE DEF r, N
  <2>8. gen'.prep.index = gen.prep.index
    OBVIOUS
  <2> QED
    <3>1. ASSUME NEW k \in 1..Len(gen'.queue)
          PROVE  /\ Behind(gen.queue[k].index)' <= Len(gen'.queue) - k
                    + (IF LastIndex' = gen'.prep.index THEN 0 ELSE 1)
                 /\ \A j \in 1..k : Behind(gen.queue[k].index)' <= Behind(gen.queue[j].index)'
      <4>1. /\ k \in 1..N + 1 /\ Len(gen'.queue) = N + 1
            /\ (IF LastIndex' = gen'.prep.index THEN 0 ELSE 1) = 0
        BY <2>5, <2>6
      <4>2. \A j : Behind(gen.queue[j].index)' = Behind(R[j].index)
        BY <2>5, <2>8 DEF Behind
      <4>3. /\ Behind(R[k].index) <= (N + 1) - k + 0
            /\ \A j \in 1..k : Behind(R[k].index) <= Behind(R[j].index)
        BY <2>4, <4>1
      <4>4. Behind(gen.queue[k].index)' <= Len(gen'.queue) - k
               + (IF LastIndex' = gen'.prep.index THEN 0 ELSE 1)
        <5> DEFINE length == Len(gen'.queue)
                   late == IF LastIndex' = gen'.prep.index THEN 0 ELSE 1
        <5>1. length = N + 1 /\ late = 0
          BY <4>1
        <5>2. Behind(gen.queue[k].index)' <= (N + 1) - k + 0
          BY <4>2, <4>3, Zenon
        <5> HIDE DEF length, late
        <5>3. Behind(gen.queue[k].index)' <= length - k + late
          BY <5>1, <5>2, Zenon
        <5> QED
          BY <5>3 DEF length, late
      <4> QED
        BY <4>2, <4>3, <4>4, Zenon
    <3> QED
      BY <2>1, <2>5, <2>6, <2>7, <3>1 DEF TableInvariant
<1>12. ASSUME NEW i, i = p \/ q # <<>> PROVE StepsOf(i)' = StepsOf(i)
  <2>1. AllOf(i, r, stepper.left) = AllOf(i, q, stepper.left) + (IF i = p THEN n ELSE 0)
    <3>1. stepper.left > 0 => q # <<>>
      BY DEF TableInvariant
    <3> HIDE DEF q
    <3> QED
      BY <1>1, <1>3, <1>4, <3>1, AppendAdds
  <2>2. AllOf(i, q, stepper.left) \in Nat
    BY <1>1, AllIsNat
  <2>3. (i = stepper.index /\ (r = <<>> \/ r[1].index = i))
          <=> (i = stepper.index /\ (q = <<>> \/ q[1].index = i))
    <3>1. CASE q = <<>>
      <4>1. r[1] = s
        BY <3>1
      <4> QED
        BY <1>4, <1>12, <3>1, <4>1
    <3>2. CASE q # <<>>
      <4>1. 1 \in 1..N
        <5> HIDE DEF N
        <5> QED
          BY <1>2, <1>8, <3>2
      <4> QED
        BY <1>4, <3>2, <4>1
    <3> QED
      BY <3>1, <3>2
  <2> DEFINE done == IF i = stepper.index /\ (q = <<>> \/ q[1].index = i) THEN stepper.done ELSE 0
             steps == gen.prep.steps
  <2>4. StepsOf(i) = AllOf(i, q, stepper.left) + done + (IF i = p THEN steps ELSE 0)
    BY DEF StepsOf, AllOf
  <2>5. StepsOf(i)' = AllOf(i, r, stepper.left) + done + (IF i = p THEN steps - n ELSE 0)
    <3> HIDE DEF r, s
    <3> QED
      BY <2>3 DEF StepsOf, AllOf, r, s
  <2>6. done \in Nat /\ steps \in Nat
    BY <1>1 DEF Steppers
  <2> HIDE DEF done, steps, q, r
  <2> QED
    BY <2>1, <2>2, <2>4, <2>5, <2>6
<1>13. StepsAreExact'
  <2>1. PICK R : R = r
    OBVIOUS
  <2>2. gen'.queue = R /\ R # <<>> /\ Len(R) = N + 1
    BY <1>4, <2>1
  <2>3. \A k \in DOMAIN R : R[k].index = p \/ \E j \in DOMAIN q : R[k].index = q[j].index
    <3> SUFFICES ASSUME NEW k \in 1..N + 1
                 PROVE  R[k].index = p \/ \E j \in 1..N : R[k].index = q[j].index
      BY <1>1, <1>4, <2>1
    <3>1. k \in 1..N \/ k = N + 1
      <4> HIDE DEF N
      <4> QED
        BY <1>2
    <3> HIDE DEF N, r, s, q
    <3> QED
      BY <1>4, <2>1, <3>1
  <2>4. DOMAIN R # {}
    <3>1. 1 \in DOMAIN R
      BY <1>1, <1>2, <1>4, <2>1
    <3> QED
      BY <3>1
  <2> DEFINE busy == {q[k].index : k \in DOMAIN q} \cup {p}
  <2>5. \A i \in busy : StepsOf(i) = gen.blocks[i].count
    BY <1>1 DEF StepsAreExact
  <2>6. ASSUME NEW i \in {R[k].index : k \in DOMAIN R} \cup {p}
        PROVE  StepsOf(i)' = gen.blocks[i].count
    <3>1. i = p \/ \E j \in DOMAIN q : i = q[j].index
      BY <2>3
    <3>2. i \in busy
      BY <3>1
    <3>3. i = p \/ q # <<>>
      BY <3>1
    <3> HIDE DEF q, busy, p
    <3> QED
      BY <1>12, <2>5, <3>2, <3>3
  <2> DEFINE busyR == {R[k].index : k \in DOMAIN R}
                     \cup (IF gen'.prep.steps > 0 THEN {gen'.prep.index} ELSE {})
  <2>7. busyR # {}
    BY <2>4
  <2>8. \A i \in busyR : StepsOf(i)' = gen'.blocks[i].count
    <3>1. \A i \in busyR : i \in {R[k].index : k \in DOMAIN R} \cup {p}
      OBVIOUS
    <3> HIDE DEF busyR
    <3> QED
      BY <2>6, <3>1
  <2> HIDE DEF r, busy
  <2>9. {gen'.queue[k].index : k \in DOMAIN gen'.queue} = {R[k].index : k \in DOMAIN R}
    BY <2>2, Zenon
  <2> QED
    BY ONLY <2>7, <2>8, <2>9, Zenon DEF StepsAreExact, busyR
<1> QED
  BY <1>11, <1>13

\* One step of the motors.
LEMMA StepperStep ==
  ASSUME gen \in Generators, stepper \in Steppers, TableInvariant, StepsAreExact, Step
  PROVE  TableInvariant' /\ StepsAreExact'
<1> DEFINE q == gen.queue
           N == Len(q)
           p == gen.prep.index
           first == q[1].index
           now == IF stepper.left = 0 THEN q[1].n ELSE stepper.left
           done == IF stepper.left = 0 /\ stepper.index # first THEN 0 ELSE stepper.done
           r == IF now = 1 THEN Tail(q) ELSE q
<1>1. /\ q \in Seq(Segments) /\ q # <<>> /\ p \in DataSlots /\ gen.prep.steps \in Nat
      /\ stepper.left \in Nat /\ stepper.done \in Nat /\ stepper.index \in DataSlots
      /\ SegmentBufferSize \in Nat /\ SegmentBufferSize > 2
  BY FieldsOfGenerator, SegmentAssumption DEF Preps, Steppers, Step
<1>2. N \in Nat /\ N > 0 /\ 1 \in 1..N /\ N \in 1..N
  BY <1>1, EmptySeq
<1>3. \A k \in 1..N : q[k].index \in DataSlots /\ q[k].n \in Nat \ {0}
  BY <1>1, SegmentsOf
<1>4. now \in Nat \ {0} /\ done \in Nat /\ first \in DataSlots
  BY <1>1, <1>2, <1>3
<1>5. /\ stepper' = [stepper EXCEPT !.index = first, !.left = now - 1, !.done = done + 1]
      /\ gen' = [gen EXCEPT !.queue = r]
  BY <1>1 DEF Step
<1>6. /\ gen'.queue = r /\ gen'.prep = gen.prep /\ gen'.blocks = gen.blocks
      /\ stepper'.index = first /\ stepper'.left = now - 1 /\ stepper'.done = done + 1
  BY <1>5 DEF Generators, Steppers
<1>7. stepper.left > 0 => first = stepper.index /\ stepper.left < q[1].n
  BY DEF TableInvariant
<1>8. now = 1 => /\ r \in Seq(Segments) /\ Len(r) = N - 1 /\ \A k \in 1..N - 1 : r[k] = q[k + 1]
  BY <1>1, <1>2
<1>9. now # 1 => r = q
  OBVIOUS
<1>10. \A i \in DataSlots : Behind(i) \in Nat /\ \A j \in DataSlots : Behind(i) = Behind(j) => i = j
  BY <1>1 DEF Behind, DataSlots
<1>11. Behind(p) = 0
  BY <1>1 DEF Behind, DataSlots
<1>12. \A i : Behind(i)' = Behind(i)
  BY <1>6 DEF Behind
<1> HIDE DEF r, now, done
<1>13. LastIndex' = LastIndex
  <2>1. CASE now = 1 /\ N = 1
    <3>1. r = <<>>
      BY <1>8, <2>1, EmptySeq
    <3> QED
      BY <1>1, <1>6, <2>1, <3>1 DEF LastIndex
  <2>2. CASE now = 1 /\ N # 1
    <3>1. N - 1 \in 1..N - 1 /\ (N - 1) + 1 = N /\ N - 1 # 0
      <4> HIDE DEF N
      <4> QED
        BY <1>2, <2>2
    <3>2. r # <<>> /\ r[Len(r)] = q[N]
      <4>1. r = <<>> => Len(r) = 0
        BY EmptySeq
      <4> QED
        BY <1>8, <2>2, <3>1, <4>1
    <3> QED
      BY <1>1, <1>6, <3>2 DEF LastIndex
  <2>3. CASE now # 1
    BY <1>1, <1>6, <1>9, <2>3 DEF LastIndex
  <2> QED
    BY <2>1, <2>2, <2>3
<1>14. \A k \in 1..Len(r) : \E j \in 1..N : r[k] = q[j]
  <2>1. CASE now = 1
    <3>1. \A k \in 1..N - 1 : k + 1 \in 1..N
      <4> HIDE DEF N
      <4> QED
        BY <1>2
    <3> QED
      BY <1>8, <2>1, <3>1
  <2>2. CASE now # 1
    BY <1>9, <2>2
  <2> QED
    BY <2>1, <2>2
<1>15. TableInvariant'
  <2> DEFINE late == IF LastIndex = p THEN 0 ELSE 1
  <2>1. \A k \in 1..N : /\ Behind(q[k].index) <= (N - k) + late
                        /\ \A j \in 1..k : Behind(q[k].index) <= Behind(q[j].index)
    BY DEF TableInvariant
  <2>2. \A k \in 1..Len(r) : /\ Behind(r[k].index) <= (Len(r) - k) + late
                             /\ \A j \in 1..k : Behind(r[k].index) <= Behind(r[j].index)
    <3>1. CASE now = 1
      <4> SUFFICES ASSUME NEW k \in 1..N - 1
                   PROVE  /\ Behind(r[k].index) <= ((N - 1) - k) + late
                          /\ \A j \in 1..k : Behind(r[k].index) <= Behind(r[j].index)
        BY <1>8, <3>1
      <4>1. /\ k + 1 \in 1..N /\ N - (k + 1) = (N - 1) - k
            /\ \A j \in 1..k : j + 1 \in 1..k + 1 /\ j \in 1..N - 1
        <5> HIDE DEF N
        <5> QED
          BY <1>2
      <4>2. /\ Behind(q[k + 1].index) <= (N - (k + 1)) + late
            /\ \A j \in 1..k + 1 : Behind(q[k + 1].index) <= Behind(q[j].index)
        BY <2>1, <4>1
      <4>3. r[k] = q[k + 1] /\ \A j \in 1..k : r[j] = q[j + 1]
        BY <1>8, <3>1, <4>1
      <4> HIDE DEF late, N
      <4>4. Behind(r[k].index) <= ((N - 1) - k) + late
        BY <4>1, <4>2, <4>3
      <4> QED
        BY <4>1, <4>2, <4>3, <4>4
    <3>2. CASE now # 1
      BY <1>9, <2>1, <3>2
    <3> QED
      BY <3>1, <3>2
  <2>3. Len(r) < SegmentBufferSize
    <3>1. N < SegmentBufferSize
      BY DEF TableInvariant
    <3>2. Len(r) = N \/ Len(r) = N - 1
      BY <1>8, <1>9
    <3> HIDE DEF N
    <3> QED
      BY <1>1, <1>2, <3>1, <3>2
  <2>4. now - 1 > 0 => r # <<>> /\ r[1].index = first /\ now - 1 < r[1].n
    <3> SUFFICES ASSUME now - 1 > 0 PROVE r = q /\ now - 1 < q[1].n
      BY <1>1
    <3>1. r = q
      BY <1>4, <1>9
    <3>2. q[1].n \in Nat /\ (now = q[1].n \/ now < q[1].n)
      <4>1. q[1].n \in Nat
        BY <1>2, <1>3
      <4>2. stepper.left = 0 => now = q[1].n
        BY DEF now
      <4>3. stepper.left # 0 => now = stepper.left /\ now < q[1].n
        BY <1>1, <1>7 DEF now
      <4> QED
        BY <4>1, <4>2, <4>3
    <3> QED
      BY <1>4, <3>1, <3>2
  <2>5. ASSUME NEW k \in 1..Len(r)
        PROVE  /\ Behind(gen.queue[k].index)' <= (Len(r) - k)
                  + (IF LastIndex' = gen'.prep.index THEN 0 ELSE 1)
               /\ \A j \in 1..k : Behind(gen.queue[k].index)' <= Behind(gen.queue[j].index)'
    <3>1. \A j : Behind(gen.queue[j].index)' = Behind(r[j].index)
      BY <1>6 DEF Behind
    <3>2. late = IF LastIndex' = gen'.prep.index THEN 0 ELSE 1
      BY <1>6, <1>13
    <3> HIDE DEF late
    <3> QED
      BY <2>2, <3>1, <3>2
  <2> QED
    BY <1>6, <1>13, <2>3, <2>4, <2>5 DEF TableInvariant
<1> DEFINE busy == {q[k].index : k \in DOMAIN q} \cup (IF gen.prep.steps > 0 THEN {p} ELSE {})
           busyR == {r[k].index : k \in DOMAIN r} \cup (IF gen.prep.steps > 0 THEN {p} ELSE {})
<1>16. DOMAIN r = 1..Len(r) /\ DOMAIN q = 1..N
  BY <1>1, <1>8, <1>9
<1>17. \A i \in busy : StepsOf(i) = gen.blocks[i].count
  BY <1>1 DEF StepsAreExact
<1>18. first \in busy /\ busyR \subseteq busy
  BY <1>2, <1>14, <1>16
\* The first segment's block is done with when the next segment is of another block.
<1>19. first \in busyR => r = <<>> \/ r[1].index = first
  <2> SUFFICES ASSUME first \in busyR, r # <<>>, now = 1
               PROVE  r[1].index = first
    BY <1>1, <1>9
  <2>1. 1 \in 1..N - 1 /\ 2 \in 1..N
    <3>1. N - 1 # 0
      BY <1>8, EmptySeq
    <3> HIDE DEF N
    <3> QED
      BY <1>2, <3>1
  <2>2. r[1] = q[2]
    BY <1>8, <2>1
  <2>3. Behind(q[2].index) <= Behind(first) /\ Behind(q[2].index) \in Nat /\ Behind(first) \in Nat
    <3>1. \A j \in 1..2 : Behind(q[2].index) <= Behind(q[j].index)
      BY <2>1 DEF TableInvariant
    <3>2. 1 \in 1..2
      OBVIOUS
    <3> QED
      BY <1>3, <1>4, <1>10, <2>1, <3>1, <3>2
  <2>4. Behind(first) <= Behind(q[2].index)
    <3>1. CASE first = p
      BY <1>11, <2>3, <3>1
    <3>2. CASE first # p
      <4>1. PICK k \in 1..N - 1 : first = r[k].index
        BY <1>8, <1>16, <3>2
      <4>2. k + 1 \in 1..N /\ 2 \in 1..k + 1
        <5> HIDE DEF N
        <5> QED
          BY <1>2
      <4>3. Behind(q[k + 1].index) <= Behind(q[2].index)
        BY <4>2 DEF TableInvariant
      <4> QED
        BY <1>8, <4>1, <4>3
    <3> QED
      BY <3>1, <3>2
  <2>5. Behind(first) = Behind(q[2].index)
    <3> HIDE DEF first, q
    <3> QED
      BY <2>3, <2>4
  <2> QED
    BY <1>3, <1>4, <1>10, <2>1, <2>2, <2>5
<1>20. ASSUME NEW i, i # first \/ r = <<>> \/ r[1].index = first
       PROVE  StepsOf(i)' = StepsOf(i)
  <2>1. AllOf(i, q, stepper.left) = AllOf(i, r, now - 1) + (IF first = i THEN 1 ELSE 0)
    BY <1>1, <1>4, StepTakes DEF now, r
  <2>2. AllOf(i, r, now - 1) \in Nat
    <3>1. r \in Seq(Segments) /\ now - 1 \in Nat
      BY <1>1, <1>4, <1>8, <1>9
    <3> QED
      BY <3>1, AllIsNat
  <2>3. StepsOf(i)' = AllOf(i, r, now - 1) + (IF i = first THEN done + 1 ELSE 0)
                       + (IF i = p THEN gen.prep.steps ELSE 0)
    <3>1. (i = first /\ (r = <<>> \/ r[1].index = i)) <=> i = first
      BY <1>20
    <3> QED
      BY <1>6, <3>1 DEF StepsOf, AllOf
  <2>4. StepsOf(i) = AllOf(i, q, stepper.left) + (IF i = first THEN done ELSE 0)
                      + (IF i = p THEN gen.prep.steps ELSE 0)
    <3>1. (IF i = stepper.index /\ (q = <<>> \/ first = i) THEN stepper.done ELSE 0)
            = IF i = first THEN done ELSE 0
      BY <1>1, <1>7 DEF done
    <3> QED
      BY <3>1 DEF StepsOf, AllOf
  <2> HIDE DEF q, first, p
  <2> QED
    BY <1>1, <1>4, <2>1, <2>2, <2>3, <2>4
<1>21. StepsAreExact'
  <2>1. ASSUME NEW i \in busyR \cup (IF busyR = {} /\ done + 1 > 0 THEN {first} ELSE {})
        PROVE  StepsOf(i)' = gen.blocks[i].count
    <3>1. i \in busy
      BY <1>18
    <3>2. i # first \/ r = <<>> \/ r[1].index = first
      <4>1. CASE i \in busyR
        BY <1>19, <4>1
      <4>2. CASE i \notin busyR
        <5>1. busyR = {}
          BY <4>2
        <5>2. DOMAIN r = {}
          BY <5>1
        <5>3. r = <<>>
          <6>1. 1 \notin 1..Len(r) /\ r \in Seq(Segments)
            BY <1>1, <1>8, <1>9, <1>16, <5>2
          <6> QED
            BY <6>1, EmptySeq
        <5> QED
          BY <5>3
      <4> QED
        BY <4>1, <4>2
    <3> HIDE DEF busy, busyR
    <3> QED
      BY <1>17, <1>20, <3>1, <3>2
  <2>2. {gen'.queue[k].index : k \in DOMAIN gen'.queue}
          \cup (IF gen'.prep.steps > 0 THEN {gen'.prep.index} ELSE {}) = busyR
    BY <1>6, Zenon
  <2> HIDE DEF busyR
  <2> QED
    BY <1>6, <2>1, <2>2, Zenon DEF StepsAreExact
<1> QED
  BY <1>15, <1>21

-----------------------------------------------------------------------------
(* The real-time executor.                                                  *)

Controllers == [gen : Generators, sys : SystemStates, started : BOOLEAN]

\* What a pass of the executor keeps of a generator m.
Controls(m, c) ==
  /\ c \in Controllers /\ Kept(m, c.gen)
  /\ "HOLD" \in c.gen.ctl => c.sys.state = "HOLD" /\ c.sys.suspend = {}
  /\ c.sys.suspend # {} => c.sys.state = "HOLD"

LEMMA KeptChain ==
  ASSUME NEW m \in Generators, NEW g, NEW h, Kept(m, g), Kept(g, h)
  PROVE  Kept(m, h)
<1>1. Replanned(m.plan, h.plan)
  BY ReplannedChain DEF Kept
<1>2. /\ h \in Generators /\ h.queue = m.queue /\ h.blocks = m.blocks /\ "SYS_MOTION" \notin h.ctl
      /\ m.prep \in Preps
  BY FieldsOfGenerator DEF Kept
<1> DEFINE told == [m.prep EXCEPT !.flags = @ \cup {"RECALCULATE"}, !.block = NoBlock]
<1>3. told.block = NoBlock
  BY <1>2 DEF Preps
<1>4. \/ g.prep = m.prep /\ (m.prep.block # NoBlock /\ "HOLD" \in m.ctl => "HOLD" \in g.ctl)
      \/ m.prep.block # NoBlock /\ g.prep = told
  BY DEF Kept
<1>5. \/ h.prep = g.prep /\ (g.prep.block # NoBlock /\ "HOLD" \in g.ctl => "HOLD" \in h.ctl)
      \/ /\ g.prep.block # NoBlock
         /\ h.prep = [g.prep EXCEPT !.flags = @ \cup {"RECALCULATE"}, !.block = NoBlock]
  BY DEF Kept
<1>6. \/ h.prep = m.prep /\ (m.prep.block # NoBlock /\ "HOLD" \in m.ctl => "HOLD" \in h.ctl)
      \/ m.prep.block # NoBlock /\ h.prep = told
  <2>1. CASE g.prep = m.prep /\ (m.prep.block # NoBlock /\ "HOLD" \in m.ctl => "HOLD" \in g.ctl)
    BY <1>5, <2>1
  <2>2. CASE m.prep.block # NoBlock /\ g.prep = told
    <3> HIDE DEF told
    <3>1. h.prep = g.prep
      BY <1>3, <1>5, <2>2
    <3> QED
      BY <2>2, <3>1
  <2> QED
    BY <1>4, <2>1, <2>2
<1> QED
  BY <1>1, <1>2, <1>6 DEF Kept

LEMMA InterruptedIsKept ==
  ASSUME NEW m \in Generators, NEW g, Interrupted(m, g), "SYS_MOTION" \notin m.ctl
  PROVE  Kept(m, g)
BY DEF Interrupted, Kept

\* Other flags of the step control, once the block is given back or no hold cuts it.
LEMMA ControlChanged ==
  ASSUME NEW m \in Generators, NEW ctl \in SUBSET {"HOLD", "END_MOTION"},
         m.prep.block = NoBlock \/ "HOLD" \notin m.ctl
  PROVE  LET g == [m EXCEPT !.ctl = ctl] IN Kept(m, g) /\ g.ctl = ctl
<1> DEFINE g == [m EXCEPT !.ctl = ctl]
<1>1. g \in Generators /\ g.ctl = ctl /\ g.plan = m.plan /\ g.prep = m.prep /\ g.queue = m.queue
      /\ g.blocks = m.blocks
  BY DEF Generators
<1>2. Replanned(m.plan, g.plan)
  BY <1>1, FieldsOfGenerator, ReplannedSelf
<1> HIDE DEF g
<1>3. Kept(m, g)
  BY <1>1, <1>2 DEF Kept
<1> QED
  BY <1>1, <1>3 DEF g

LEMMA ControllerOf ==
  ASSUME NEW m, NEW g \in Generators, NEW s \in SystemStates, NEW b \in BOOLEAN, Kept(m, g),
         "HOLD" \in g.ctl => s.state = "HOLD" /\ s.suspend = {},
         s.suspend # {} => s.state = "HOLD",
         NEW c, c = [gen |-> g, sys |-> s, started |-> b]
  PROVE  Controls(m, c)
BY DEF Controls, Controllers

LEMMA FieldsOfController ==
  ASSUME NEW c \in Controllers
  PROVE  /\ c.gen \in Generators /\ c.sys \in SystemStates /\ c.started \in BOOLEAN
         /\ c = [gen |-> c.gen, sys |-> c.sys, started |-> c.started]
BY DEF Controllers

LEMMA HeldControls ==
  ASSUME NEW m \in Generators, NEW c, Controls(m, c)
  PROVE  /\ Controls(m, Held(c)) /\ Held(c).started = c.started
         /\ c.sys.state = "HOMING" => /\ Held(c).gen = c.gen /\ Held(c).sys.state = "HOLD"
                                      /\ Held(c).sys.suspend = c.sys.suspend
<1> DEFINE flags == c.sys.flags \ {"HOLD"}
           h == [c EXCEPT !.sys.state = "HOLD", !.sys.flags = @ \ {"HOLD"}]
           s == [c.sys EXCEPT !.state = "HOLD", !.flags = flags]
<1>1. /\ c \in Controllers /\ c.gen \in Generators /\ c.sys \in SystemStates
      /\ c.started \in BOOLEAN /\ Kept(m, c.gen) /\ "SYS_MOTION" \notin c.gen.ctl
      /\ "HOLD" \in c.gen.ctl => c.sys.state = "HOLD" /\ c.sys.suspend = {}
      /\ c.sys.suspend # {} => c.sys.state = "HOLD"
  BY FieldsOfController DEF Controls, Kept
<1>2. s \in SystemStates /\ s.state = "HOLD" /\ s.suspend = c.sys.suspend
  BY <1>1 DEF SystemStates
<1>3. h = [gen |-> c.gen, sys |-> s, started |-> c.started]
  <2>1. h = [c EXCEPT !.sys = [[@ EXCEPT !.state = "HOLD"] EXCEPT !.flags = c.sys.flags \ {"HOLD"}]]
    BY <1>1 DEF Controllers, SystemStates
  <2>2. s = [[c.sys EXCEPT !.state = "HOLD"] EXCEPT !.flags = c.sys.flags \ {"HOLD"}]
    BY <1>1 DEF SystemStates
  <2>3. h = [c EXCEPT !.sys = s]
    <3> HIDE DEF h, s
    <3> QED
      BY <2>1, <2>2
  <2> HIDE DEF h, s
  <2> QED
    BY <1>1, <2>3 DEF Controllers
<1>4. CASE c.sys.state = "CYCLE"
  <2> DEFINE u == UpdatePlanBlock(c.gen)
             g == [u EXCEPT !.ctl = {"HOLD"}]
  <2>1. Kept(c.gen, u) /\ u.prep.block = NoBlock /\ u \in Generators
    BY <1>1, UpdateInterrupts, InterruptedIsKept DEF Kept
  <2>2. Kept(u, g) /\ g.ctl = {"HOLD"}
    <3> HIDE DEF u
    <3>1. {"HOLD"} \in SUBSET {"HOLD", "END_MOTION"}
      OBVIOUS
    <3> QED
      BY <2>1, <3>1, ControlChanged
  <2>3. Kept(m, g)
    BY <1>1, <2>1, <2>2, KeptChain
  <2>4. Held(c) = [h EXCEPT !.gen = [UpdatePlanBlock(@) EXCEPT !.ctl = {"HOLD"}]]
    BY <1>4 DEF Held
  <2>5. Held(c) = [gen |-> g, sys |-> s, started |-> c.started]
    <3> HIDE DEF h
    <3>1. h.gen = c.gen
      BY <1>3
    <3>2. [h EXCEPT !.gen = g] = [gen |-> g, sys |-> s, started |-> c.started]
      <4> HIDE DEF g, s
      <4> QED
        BY <1>3
    <3> QED
      BY <2>4, <3>1, <3>2
  <2>6. g \in Generators
    BY <2>3 DEF Kept
  <2> HIDE DEF g, s
  <2>7. Controls(m, Held(c))
    BY <1>1, <1>2, <1>4, <2>2, <2>3, <2>5, <2>6, ControllerOf
  <2> QED
    BY <1>4, <2>5, <2>7
<1>5. CASE c.sys.state = "IDLE"
  <2> DEFINE t == [s EXCEPT !.suspend = {"COMPLETE"}]
  <2>1. t \in SystemStates /\ t.state = "HOLD" /\ t.suspend = {"COMPLETE"}
    BY <1>2 DEF SystemStates
  <2>2. Held(c) = [h EXCEPT !.sys.suspend = {"COMPLETE"}]
    BY <1>5 DEF Held
  <2>3. Held(c) = [gen |-> c.gen, sys |-> t, started |-> c.started]
    <3> HIDE DEF h, s
    <3> QED
      BY <1>3, <2>2
  <2>4. "HOLD" \notin c.gen.ctl
    BY <1>1, <1>5
  <2> HIDE DEF t
  <2>5. Controls(m, Held(c))
    BY <1>1, <2>1, <2>3, <2>4, ControllerOf
  <2> QED
    BY <1>5, <2>3, <2>5
<1>6. CASE c.sys.state = "ALARM"
  <2> DEFINE t == [s EXCEPT !.state = "ALARM"]
  <2>1. t \in SystemStates /\ t.state = "ALARM" /\ t.suspend = c.sys.suspend
    BY <1>2 DEF SystemStates
  <2>2. Held(c) = [h EXCEPT !.sys.state = "ALARM"]
    BY <1>6 DEF Held
  <2>3. Held(c) = [gen |-> c.gen, sys |-> t, started |-> c.started]
    <3> HIDE DEF h, s
    <3> QED
      BY <1>3, <2>2
  <2>4. "HOLD" \notin c.gen.ctl /\ c.sys.suspend = {}
    BY <1>1, <1>6
  <2> HIDE DEF t
  <2>5. Controls(m, Held(c))
    BY <1>1, <2>1, <2>3, <2>4, ControllerOf
  <2> QED
    BY <1>6, <2>3, <2>5
<1>7. CASE c.sys.state \notin {"CYCLE", "IDLE", "ALARM"}
  <2>1. Held(c) = h
    BY <1>7 DEF Held
  <2> HIDE DEF s, h
  <2>2. Controls(m, Held(c))
    BY <1>1, <1>2, <1>3, <2>1, ControllerOf
  <2> QED
    BY <1>2, <1>3, <2>1, <2>2
<1> QED
  BY <1>4, <1>5, <1>6, <1>7

LEMMA FlagCleared ==
  ASSUME NEW c \in Controllers, NEW flag
  PROVE  LET d == [c EXCEPT !.sys.flags = @ \ {flag}]
             s == [c.sys EXCEPT !.flags = c.sys.flags \ {flag}]
         IN /\ d = [gen |-> c.gen, sys |-> s, started |-> c.started]
            /\ s \in SystemStates /\ s.state = c.sys.state /\ s.suspend = c.sys.suspend
<1> DEFINE d == [c EXCEPT !.sys.flags = @ \ {flag}]
           s == [c.sys EXCEPT !.flags = c.sys.flags \ {flag}]
<1>1. s \in SystemStates /\ s.state = c.sys.state /\ s.suspend = c.sys.suspend
  BY FieldsOfController DEF SystemStates
<1>2. d = [c EXCEPT !.sys = s]
  BY Zenon
<1> HIDE DEF s
<1>3. [c EXCEPT !.sys = s] = [gen |-> c.gen, sys |-> s, started |-> c.started]
  BY DEF Controllers
<1> QED
  BY <1>1, <1>2, <1>3 DEF s

LEMMA ControllerChanged ==
  ASSUME NEW d \in Controllers, NEW g, NEW s, NEW b
  PROVE  [d EXCEPT !.gen = g, !.sys = s, !.started = b] = [gen |-> g, sys |-> s, started |-> b]
<1>1. PICK e : e = [d EXCEPT !.gen = g, !.sys = s]
  OBVIOUS
<1>2. e = [gen |-> g, sys |-> s, started |-> d.started]
  BY <1>1 DEF Controllers
<1>3. [e EXCEPT !.started = b] = [gen |-> g, sys |-> s, started |-> b]
  BY <1>2
<1>4. [d EXCEPT !.gen = g, !.sys = s, !.started = b] = [e EXCEPT !.started = b]
  BY <1>1
<1> QED
  BY <1>3, <1>4

\* A motion starts only when no hold is in force.
LEMMA StartedControls ==
  ASSUME NEW m \in Generators, NEW c, Controls(m, c), NEW rt, c.started = FALSE
  PROVE  /\ Controls(m, Started(c, rt))
         /\ Started(c, rt).started => "HOLD" \notin rt /\ c.sys.state \in {"IDLE", "HOLD"}
                                       /\ (c.sys.state = "HOLD" => c.sys.suspend # {})
         /\ c.sys.state = "HOMING" \/ (c.sys.state = "HOLD" /\ c.sys.suspend = {}) =>
              /\ Started(c, rt).gen = c.gen /\ Started(c, rt).sys.state = c.sys.state
              /\ Started(c, rt).sys.suspend = c.sys.suspend
<1> DEFINE s == [c.sys EXCEPT !.flags = c.sys.flags \ {"START"}]
           d == [c EXCEPT !.sys.flags = @ \ {"START"}]
           guard == /\ "HOLD" \notin rt
                    /\ c.sys.state = "IDLE" \/ (c.sys.state = "HOLD" /\ "COMPLETE" \in c.sys.suspend)
           state == IF IsEmpty(c.gen.plan) THEN "IDLE" ELSE "CYCLE"
<1>1. /\ c \in Controllers /\ c.gen \in Generators /\ c.sys \in SystemStates
      /\ c.started \in BOOLEAN /\ Kept(m, c.gen) /\ "SYS_MOTION" \notin c.gen.ctl
      /\ "HOLD" \in c.gen.ctl => c.sys.state = "HOLD" /\ c.sys.suspend = {}
      /\ c.sys.suspend # {} => c.sys.state = "HOLD"
  BY FieldsOfController DEF Controls, Kept
<1>2. /\ s \in SystemStates /\ s.state = c.sys.state /\ s.suspend = c.sys.suspend
      /\ d = [gen |-> c.gen, sys |-> s, started |-> c.started]
  BY <1>1, FlagCleared
<1>3. CASE ~guard
  <2>1. Started(c, rt) = d
    BY <1>3 DEF Started
  <2> HIDE DEF s, d
  <2>2. Controls(m, d)
    BY <1>1, <1>2, ControllerOf
  <2> QED
    BY <1>2, <2>1, <2>2
<1>4. CASE guard
  <2> DEFINE g == [c.gen EXCEPT !.ctl = {}]
             u == [s EXCEPT !.suspend = {}, !.state = state]
             b == ~IsEmpty(c.gen.plan)
  <2>1. Started(c, rt) = [d EXCEPT !.gen.ctl = {}, !.sys.suspend = {}, !.sys.state = state,
                                   !.started = b]
    BY <1>4 DEF Started
  <2>2. u \in SystemStates /\ u.suspend = {} /\ u.state = state
    BY <1>2 DEF SystemStates
  <2>3. [d EXCEPT !.gen.ctl = {}, !.sys.suspend = {}, !.sys.state = state, !.started = b]
          = [gen |-> g, sys |-> u, started |-> b]
    <3>1. d.gen = c.gen /\ d.sys = s /\ d = [gen |-> d.gen, sys |-> d.sys, started |-> d.started]
      <4> HIDE DEF d, s
      <4> QED
        BY <1>2
    <3>2. [d EXCEPT !.gen.ctl = {}, !.sys.suspend = {}, !.sys.state = state, !.started = b]
            = [d EXCEPT !.gen = [d.gen EXCEPT !.ctl = {}],
                        !.sys = [d.sys EXCEPT !.suspend = {}, !.state = state], !.started = b]
      <4> HIDE DEF d, s, state, b
      <4> QED
        BY Zenon
    <3>3. [d.gen EXCEPT !.ctl = {}] = g /\ [d.sys EXCEPT !.suspend = {}, !.state = state] = u
      BY <3>1
    <3> HIDE DEF d, s, state, b, g, u
    <3>4. [d EXCEPT !.gen = g, !.sys = u, !.started = b] = [gen |-> g, sys |-> u, started |-> b]
      <4>1. d \in Controllers
        BY <1>1, <1>2 DEF Controllers
      <4> QED
        BY <4>1, ControllerChanged
    <3> QED
      BY <3>2, <3>3, <3>4
  <2>4. Kept(c.gen, g) /\ g.ctl = {} /\ g \in Generators
    <3>1. "HOLD" \notin c.gen.ctl /\ {} \in SUBSET {"HOLD", "END_MOTION"}
      BY <1>1, <1>4
    <3> QED
      BY <1>1, <3>1, ControlChanged DEF Kept
  <2>5. Kept(m, g)
    BY <1>1, <2>4, KeptChain
  <2> HIDE DEF g, u, b, d, s
  <2>6. Started(c, rt) = [gen |-> g, sys |-> u, started |-> b] /\ b \in BOOLEAN
    BY <2>1, <2>3 DEF b
  <2>7. Controls(m, Started(c, rt))
    BY <2>2, <2>4, <2>5, <2>6, ControllerOf
  <2>8. c.sys.state # "HOMING" /\ ~(c.sys.state = "HOLD" /\ c.sys.suspend = {})
    BY <1>4
  <2> QED
    BY <1>4, <2>7, <2>8
<1> QED
  BY <1>3, <1>4

LEMMA StoppedControls ==
  ASSUME NEW m \in Generators, NEW c, Controls(m, c)
  PROVE  /\ Controls(m, Stopped(c))
         /\ c.gen.ctl = {} /\ c.sys.suspend = {} =>
              Stopped(c).gen.ctl = {} /\ Stopped(c).sys.suspend = {}
<1> DEFINE s == [c.sys EXCEPT !.flags = c.sys.flags \ {"STOP"}]
           d == [c EXCEPT !.sys.flags = @ \ {"STOP"}]
<1>1. /\ c \in Controllers /\ c.gen \in Generators /\ c.sys \in SystemStates
      /\ c.started \in BOOLEAN /\ Kept(m, c.gen) /\ "SYS_MOTION" \notin c.gen.ctl
      /\ "HOLD" \in c.gen.ctl => c.sys.state = "HOLD" /\ c.sys.suspend = {}
      /\ c.sys.suspend # {} => c.sys.state = "HOLD"
  BY FieldsOfController DEF Controls, Kept
<1>2. /\ s \in SystemStates /\ s.state = c.sys.state /\ s.suspend = c.sys.suspend
      /\ d = [gen |-> c.gen, sys |-> s, started |-> c.started]
  BY <1>1, FlagCleared
<1>3. CASE c.sys.state = "HOLD"
  <2> DEFINE v == Reinitialize(c.gen)
             g == [v EXCEPT !.ctl = v.ctl \ {"HOLD", "SYS_MOTION"}]
             suspend == IF "HOLD" \in c.gen.ctl THEN s.suspend \cup {"COMPLETE"} ELSE s.suspend
             u == [s EXCEPT !.suspend = suspend]
  <2>1. Kept(c.gen, v) /\ v.prep.block = NoBlock /\ v \in Generators /\ v.ctl = c.gen.ctl
    BY <1>1, ReinitializeInterrupts, InterruptedIsKept DEF Interrupted
  <2>2. Kept(v, g) /\ g.ctl = v.ctl \ {"HOLD", "SYS_MOTION"} /\ g \in Generators
    <3>1. v.ctl \ {"HOLD", "SYS_MOTION"} \in SUBSET {"HOLD", "END_MOTION"}
      <4>1. v.ctl \in SUBSET {"HOLD", "END_MOTION", "SYS_MOTION"}
        BY <2>1, FieldsOfGenerator
      <4> HIDE DEF v
      <4> QED
        BY <4>1
    <3> HIDE DEF v
    <3> QED
      BY <2>1, <3>1, ControlChanged DEF Kept
  <2>3. Kept(m, g)
    <3> HIDE DEF v, g
    <3> QED
      BY <1>1, <2>1, <2>2, KeptChain
  <2>4. suspend \in SUBSET {"COMPLETE"} /\ u \in SystemStates /\ u.state = "HOLD" /\ u.suspend = suspend
    <3>1. s.suspend \in SUBSET {"COMPLETE"}
      BY <1>2 DEF SystemStates
    <3>2. suspend \in SUBSET {"COMPLETE"}
      <4> HIDE DEF s
      <4> QED
        BY <3>1
    <3> HIDE DEF s, suspend
    <3> QED
      BY <1>2, <1>3, <3>2 DEF SystemStates
  <2>5. Stopped(c) = [d EXCEPT !.gen = g,
                               !.sys.suspend = IF "HOLD" \in c.gen.ctl THEN @ \cup {"COMPLETE"} ELSE @]
    BY <1>3 DEF Stopped
  <2>6. Stopped(c) = [gen |-> g, sys |-> u, started |-> c.started]
    <3>1. d.gen = c.gen /\ d.sys = s
      <4> HIDE DEF d, s
      <4> QED
        BY <1>2
    <3>2. Stopped(c) = [d EXCEPT !.gen = g, !.sys = u]
      <4>1. Stopped(c) = [d EXCEPT !.gen = g,
                            !.sys = [d.sys EXCEPT !.suspend =
                                       IF "HOLD" \in c.gen.ctl THEN @ \cup {"COMPLETE"} ELSE @]]
        <5> HIDE DEF d, s, g
        <5> QED
          BY <2>5
      <4> HIDE DEF d, s, g
      <4> QED
        BY <3>1, <4>1
    <3> HIDE DEF d, s, g, u
    <3> QED
      BY <1>2, <3>2
  <2>7. "HOLD" \notin g.ctl
    BY <2>2
  <2> HIDE DEF g, u, v, suspend
  <2>8. Controls(m, Stopped(c))
    BY <1>1, <2>2, <2>3, <2>4, <2>6, <2>7, ControllerOf
  <2>9. c.gen.ctl = {} /\ c.sys.suspend = {} => g.ctl = {} /\ u.suspend = {}
    <3>1. c.gen.ctl = {} => g.ctl = {}
      BY <2>1, <2>2
    <3>2. c.gen.ctl = {} => suspend = c.sys.suspend
      BY <1>2 DEF suspend
    <3> QED
      BY <2>4, <3>1, <3>2
  <2> QED
    BY <2>6, <2>8, <2>9
<1>4. CASE c.sys.state # "HOLD"
  <2> DEFINE u == [s EXCEPT !.suspend = {}, !.state = "IDLE"]
  <2>1. u \in SystemStates /\ u.suspend = {} /\ u.state = "IDLE"
    BY <1>2 DEF SystemStates
  <2>2. Stopped(c) = [d EXCEPT !.sys.suspend = {}, !.sys.state = "IDLE"]
    BY <1>4 DEF Stopped
  <2>3. Stopped(c) = [gen |-> c.gen, sys |-> u, started |-> c.started]
    <3> HIDE DEF d, s
    <3> QED
      BY <1>2, <2>2
  <2>4. "HOLD" \notin c.gen.ctl
    BY <1>1, <1>4
  <2> HIDE DEF u
  <2>5. Controls(m, Stopped(c))
    BY <1>1, <2>1, <2>3, <2>4, ControllerOf
  <2> QED
    BY <2>1, <2>3, <2>5
<1> QED
  BY <1>3, <1>4

LEMMA OverriddenControls ==
  ASSUME NEW m \in Generators, NEW c, Controls(m, c)
  PROVE  /\ Controls(m, Overridden(c))
         /\ Overridden(c).gen.ctl = c.gen.ctl /\ Overridden(c).sys = c.sys
<1>1. /\ c \in Controllers /\ c.gen \in Generators /\ c.sys \in SystemStates
      /\ c.started \in BOOLEAN /\ Kept(m, c.gen) /\ "SYS_MOTION" \notin c.gen.ctl
      /\ "HOLD" \in c.gen.ctl => c.sys.state = "HOLD" /\ c.sys.suspend = {}
      /\ c.sys.suspend # {} => c.sys.state = "HOLD"
      /\ c = [gen |-> c.gen, sys |-> c.sys, started |-> c.started]
  BY FieldsOfController DEF Controls, Kept
<1>2. CASE c.sys.wanted = c.gen.over
  BY <1>2 DEF Overridden
<1>3. CASE c.sys.wanted # c.gen.over
  <2> DEFINE p == UpdateVelocityProfile(c.gen.plan, c.sys.wanted)
             u == [c.gen EXCEPT !.over = c.sys.wanted, !.plan = p]
             g == Reinitialize(u)
  <2>1. c.sys.wanted \in Overrides /\ c.gen.plan \in Plans
    BY <1>1, FieldsOfGenerator DEF SystemStates
  <2>2. Replanned(c.gen.plan, p) /\ p \in Plans
    BY <2>1, VelocitiesReplanned DEF Replanned
  <2>3. /\ u \in Generators /\ u.plan = p /\ u.prep = c.gen.prep /\ u.ctl = c.gen.ctl
        /\ u.queue = c.gen.queue /\ u.blocks = c.gen.blocks
    <3> HIDE DEF p
    <3> QED
      BY <1>1, <2>1, <2>2 DEF Generators
  <2>4. Kept(c.gen, u)
    <3> HIDE DEF u, p
    <3> QED
      BY <1>1, <2>2, <2>3 DEF Kept
  <2>5. Kept(u, g) /\ g.ctl = u.ctl /\ g \in Generators
    <3> HIDE DEF u
    <3> QED
      BY <1>1, <2>3, ReinitializeInterrupts, InterruptedIsKept DEF Interrupted
  <2>6. Kept(m, g)
    <3> HIDE DEF u, g
    <3> QED
      BY <1>1, <2>3, <2>4, <2>5, KeptChain
  <2>7. Overridden(c) = [gen |-> g, sys |-> c.sys, started |-> c.started]
    <3>1. Overridden(c) = [c EXCEPT !.gen = g]
      BY <1>3 DEF Overridden
    <3> HIDE DEF g
    <3> QED
      BY <1>1, <3>1
  <2> HIDE DEF g, u
  <2>8. Controls(m, Overridden(c))
    BY <1>1, <2>3, <2>5, <2>6, <2>7, ControllerOf
  <2> QED
    BY <2>3, <2>5, <2>7, <2>8
<1> QED
  BY <1>2, <1>3

\* The rest of a pass.
LEMMA RestControls ==
  ASSUME NEW m \in Generators, NEW c, Controls(m, c), NEW rt
  PROVE  /\ Controls(m, Rest(c, rt))
         /\ c.gen.ctl = {} /\ c.sys.suspend = {} =>
              Rest(c, rt).gen.ctl = {} /\ Rest(c, rt).sys.suspend = {}
<1> DEFINE d == IF "STOP" \in rt THEN Stopped(c) ELSE c
<1>1. /\ Controls(m, d)
      /\ c.gen.ctl = {} /\ c.sys.suspend = {} => d.gen.ctl = {} /\ d.sys.suspend = {}
  BY StoppedControls
<1>2. Rest(c, rt) = Overridden(d)
  BY DEF Rest
<1> HIDE DEF d
<1> QED
  BY <1>1, <1>2, OverriddenControls

-----------------------------------------------------------------------------
(* The invariant holds after every step.                                    *)

\* The steps of the executor are no steps of a homing cycle.
LEMMA KeptStep ==
  ASSUME TypeInvariant, HomingInvariant, BlockInvariant, TableInvariant, StepsAreExact,
         ~Homing, Kept(gen, gen'), ~Homing',
         stepper'.index = stepper.index, stepper'.left = stepper.left, stepper'.done = stepper.done
  PROVE  /\ BlockInvariant' /\ TableInvariant' /\ StepsAreExact' /\ SwitchInvariant'
         /\ "SYS_MOTION" \notin gen'.ctl /\ (IsEmpty(gen'.plan) <=> IsEmpty(gen.plan))
         /\ gen.prep.block = NoBlock => gen'.prep.block = NoBlock
<1>1. gen \in Generators /\ gen.prep \in Preps /\ "SYS_MOTION" \notin gen.ctl
  BY FieldsOfGenerator DEF TypeInvariant, HomingInvariant
<1>2. "SYS_MOTION" \notin gen'.ctl
  BY DEF Kept
<1>3. BlocksAreWhole(gen')
  BY <1>1, KeptBlocksAreWhole DEF BlockInvariant
<1>4. BlockInvariant'
  BY <1>2, <1>3 DEF BlockInvariant
<1>5. gen'.prep.index = gen.prep.index /\ gen'.prep.steps = gen.prep.steps
  BY <1>1 DEF Kept, Preps
<1>6. TableInvariant' /\ StepsAreExact'
  BY <1>5, QuietStep DEF Quiet, Kept
<1>7. IsEmpty(gen'.plan) <=> IsEmpty(gen.plan)
  BY RingReplanned DEF Kept
<1> QED
  BY <1>2, <1>4, <1>6, <1>7 DEF SwitchInvariant, Kept

\* A pass of the executor ends.
LEMMA SetControllerStep ==
  ASSUME Invariant, ~Homing, NEW c, Controls(gen, c), SetController(c),
         main.pc \in {"exec", "wake"}, UNCHANGED <<homing, place, host>>,
         stepper' \in Steppers,
         stepper'.index = stepper.index, stepper'.left = stepper.left, stepper'.done = stepper.done,
         main.then = "homed" => /\ c.gen.ctl = {} /\ c.sys.suspend = {}
                                /\ stepper'.on = stepper.on
  PROVE  Invariant'
<1> USE DEF Invariant
<1>1. /\ gen' = c.gen /\ sys' = c.sys /\ c.gen \in Generators /\ c.sys \in SystemStates
      /\ Kept(gen, c.gen)
      /\ "HOLD" \in c.gen.ctl => c.sys.state = "HOLD" /\ c.sys.suspend = {}
      /\ c.sys.suspend # {} => c.sys.state = "HOLD"
  BY FieldsOfController DEF SetController, Controls
<1> DEFINE pc == IF Active(c.sys.state) THEN "prep" ELSE Return(main.then, c.sys.suspend)
<1>2. /\ main \in MainStates /\ main.then \in {"loop", "line", "home", "homed"}
      /\ main.line \in ProgramLines \cup {NoLine}
  BY DEF TypeInvariant, MainStates, ControlInvariant
<1>3. /\ main' = [main EXCEPT !.rt = {}, !.pc = pc]
      /\ pc \in {"prep", "exec", main.then} /\ (pc = "home" => c.sys.suspend = {})
      /\ main.then = "homed" => pc # "exec"
  BY <1>2 DEF SetController, Return
<1> HIDE DEF pc
<1>4. /\ main' \in MainStates /\ main'.rt = {} /\ main'.pc = pc /\ main'.then = main.then
      /\ main'.line = main.line
  BY <1>2, <1>3 DEF MainStates, ControlPoints
<1>5. ~Homing'
  BY <1>2, <1>3, <1>4 DEF Homing
<1>6. /\ BlockInvariant' /\ TableInvariant' /\ StepsAreExact' /\ SwitchInvariant'
      /\ "SYS_MOTION" \notin gen'.ctl /\ (IsEmpty(gen'.plan) <=> IsEmpty(gen.plan))
      /\ gen.prep.block = NoBlock => gen'.prep.block = NoBlock
  BY <1>1, <1>5, KeptStep
<1>7. TypeInvariant'
  BY <1>1, <1>4 DEF TypeInvariant
<1>8. ControlInvariant'
  BY <1>2, <1>3, <1>4, <1>5 DEF ControlInvariant
<1>9. HoldInvariant'
  BY <1>1, <1>2, <1>3, <1>4 DEF HoldInvariant
<1>10. HomingInvariant'
  BY <1>1, <1>2, <1>3, <1>4, <1>5, <1>6 DEF HomingInvariant
<1> QED
  BY <1>6, <1>7, <1>8, <1>9, <1>10

LEMMA ControllerControls ==
  ASSUME TypeInvariant, HoldInvariant, "SYS_MOTION" \notin gen.ctl
  PROVE  Controls(gen, Controller) /\ Controller.started = FALSE
<1>1. gen \in Generators /\ sys \in SystemStates /\ Replanned(gen.plan, gen.plan)
  BY FieldsOfGenerator, ReplannedSelf DEF TypeInvariant
<1>2. Kept(gen, gen)
  BY <1>1 DEF Kept
<1> QED
  BY <1>1, <1>2 DEF Controls, Controllers, Controller, HoldInvariant

LEMMA ExecStep ==
  ASSUME Invariant, Exec
  PROVE  Invariant'
<1> USE DEF Invariant
<1> DEFINE rt == sys.flags
           held == IF "HOLD" \in rt THEN Held(Controller) ELSE Controller
           c == IF "START" \in rt THEN Started(held, rt) ELSE held
<1>1. main.pc = "exec" /\ UNCHANGED <<stepper, homing, place, host>>
  BY DEF Exec, At
<1>2. ~Homing /\ "SYS_MOTION" \notin gen.ctl
  BY <1>1 DEF ControlInvariant, Homing, HomingInvariant
<1>3. Controls(gen, Controller) /\ Controller.started = FALSE /\ gen \in Generators
  BY <1>2, ControllerControls DEF TypeInvariant
<1>4. Controls(gen, held) /\ held.started = FALSE
  BY <1>3, HeldControls
<1>5. Controls(gen, c)
  BY <1>3, <1>4, StartedControls
<1>6. main.then = "homed" => c.started = FALSE /\ c.gen.ctl = {} /\ c.sys.suspend = {}
  <2> SUFFICES ASSUME main.then = "homed"
               PROVE  c.started = FALSE /\ c.gen.ctl = {} /\ c.sys.suspend = {}
    OBVIOUS
  <2>1. sys.state = "HOMING" /\ gen.ctl = {} /\ sys.suspend = {}
    BY <1>1 DEF HomingInvariant
  <2>2. /\ held.gen = gen /\ held.sys.suspend = {}
        /\ held.sys.state = IF "HOLD" \in rt THEN "HOLD" ELSE "HOMING"
    BY <1>3, <2>1, HeldControls DEF Controller
  <2>3. CASE "START" \in rt
    <3> HIDE DEF held
    <3>1. c = Started(held, rt) /\ Started(held, rt).started \in BOOLEAN
      BY <1>5, <2>3 DEF Controls, Controllers
    <3>2. ~Started(held, rt).started
      BY <1>3, <1>4, <2>2, StartedControls
    <3>3. Started(held, rt).gen = gen /\ Started(held, rt).sys.suspend = {}
      <4>1. held.sys.state = "HOMING" \/ (held.sys.state = "HOLD" /\ held.sys.suspend = {})
        BY <2>2
      <4>2. /\ Started(held, rt).gen = held.gen
            /\ Started(held, rt).sys.suspend = held.sys.suspend
        <5> HIDE DEF rt
        <5> QED
          BY <1>3, <1>4, <4>1, StartedControls
      <4> QED
        BY <2>2, <4>2
    <3> QED
      BY <2>1, <3>1, <3>2, <3>3
  <2>4. CASE "START" \notin rt
    <3> HIDE DEF held
    <3> QED
      BY <1>4, <2>1, <2>2, <2>4
  <2> QED
    BY <2>3, <2>4
<1>7. \/ c.started /\ gen' = c.gen /\ sys' = c.sys
         /\ main' = [main EXCEPT !.pc = "prep", !.rt = rt \cup {"WAKE"}]
      \/ ~c.started /\ SetController(Rest(c, rt))
  BY DEF Exec
<1> HIDE DEF c, held
<1>8. CASE ~c.started /\ SetController(Rest(c, rt))
  <2>1. Controls(gen, Rest(c, rt))
        /\ (main.then = "homed" => Rest(c, rt).gen.ctl = {} /\ Rest(c, rt).sys.suspend = {})
    BY <1>3, <1>5, <1>6, RestControls
  <2>2. stepper' \in Steppers
    BY <1>1 DEF TypeInvariant
  <2> QED
    BY <1>1, <1>2, <1>8, <2>1, <2>2, SetControllerStep
<1>9. CASE c.started /\ gen' = c.gen /\ sys' = c.sys
           /\ main' = [main EXCEPT !.pc = "prep", !.rt = rt \cup {"WAKE"}]
  <2>1. /\ c.gen \in Generators /\ c.sys \in SystemStates /\ Kept(gen, c.gen)
        /\ "HOLD" \in c.gen.ctl => c.sys.state = "HOLD" /\ c.sys.suspend = {}
        /\ c.sys.suspend # {} => c.sys.state = "HOLD"
    BY <1>5, FieldsOfController DEF Controls
  <2>2. /\ main \in MainStates /\ main.then \in {"loop", "line", "home"}
        /\ main.line \in ProgramLines \cup {NoLine}
    BY <1>2, <1>6, <1>9 DEF TypeInvariant, MainStates, ControlInvariant
  <2>3. rt \in SUBSET {"HOLD", "START", "STOP"}
    BY DEF TypeInvariant, SystemStates
  <2>4. /\ main' \in MainStates /\ main'.rt # {} /\ "WAKE" \in main'.rt /\ main'.pc = "prep"
        /\ main'.then = main.then /\ main'.line = main.line
    <3> HIDE DEF rt
    <3> QED
      BY <1>9, <2>2, <2>3 DEF MainStates, ControlPoints
  <2>5. ~Homing'
    BY <2>2, <2>4 DEF Homing
  <2>6. /\ BlockInvariant' /\ TableInvariant' /\ StepsAreExact' /\ SwitchInvariant'
        /\ "SYS_MOTION" \notin gen'.ctl
    BY <1>1, <1>2, <1>9, <2>1, <2>5, KeptStep
  <2>7. TypeInvariant'
    BY <1>1, <1>9, <2>1, <2>4 DEF TypeInvariant
  <2>8. ControlInvariant'
    BY <2>2, <2>4, <2>5 DEF ControlInvariant
  <2>9. HoldInvariant'
    BY <1>9, <2>1, <2>4 DEF HoldInvariant
  <2>10. HomingInvariant'
    BY <2>2, <2>4, <2>5, <2>6 DEF HomingInvariant
  <2> QED
    BY <2>6, <2>7, <2>8, <2>9, <2>10
<1> QED
  BY <1>7, <1>8, <1>9

LEMMA WakeUpStep ==
  ASSUME Invariant, WakeUp
  PROVE  Invariant'
<1> USE DEF Invariant
<1>1. /\ main.pc = "wake" /\ UNCHANGED <<homing, place, host>>
      /\ stepper' = [stepper EXCEPT !.on = TRUE] /\ SetController(Rest(Controller, main.rt))
  BY DEF WakeUp, At
<1>2. ~Homing /\ "SYS_MOTION" \notin gen.ctl /\ main.then # "homed"
  BY <1>1 DEF ControlInvariant, Homing, HomingInvariant
<1>3. Controls(gen, Controller) /\ gen \in Generators
  BY <1>2, ControllerControls DEF TypeInvariant
<1>4. Controls(gen, Rest(Controller, main.rt))
  BY <1>3, RestControls
<1>5. /\ stepper' \in Steppers /\ stepper'.index = stepper.index /\ stepper'.left = stepper.left
      /\ stepper'.done = stepper.done
  BY <1>1 DEF TypeInvariant, Steppers
<1> QED
  BY <1>1, <1>2, <1>4, <1>5, SetControllerStep
\* Steps that leave the generator, the motors and the axes alone.
LEMMA IdleStep ==
  ASSUME Invariant, UNCHANGED <<gen, stepper, homing, place>>, TypeInvariant', ControlInvariant',
         HoldInvariant',
         Homing' => Homing /\ main'.pc # "seek" /\ main.pc # "seek" /\ sys'.state = sys.state
                    /\ sys'.suspend = sys.suspend,
         main'.pc = "reverse" => main.pc = "reverse",
         "SYS_MOTION" \in gen.ctl => Homing',
         main'.then = "homed" =>
           /\ main.then = "homed" /\ main'.rt = {} /\ sys'.suspend = {}
           /\ main'.pc \in {"exec", "prep", "homed"} /\ (main'.pc = "exec" => sys'.state = "HOMING")
  PROVE  Invariant'
<1> USE DEF Invariant
<1>1. TableInvariant' /\ StepsAreExact'
  BY QuietStep DEF Quiet
<1>2. HomingInvariant'
  BY DEF HomingInvariant
<1>3. BlockInvariant'
  <2>1. BlocksAreWhole(gen)'
    BY DEF BlockInvariant
  <2>2. "SYS_MOTION" \in gen.ctl => main.pc # "seek"
    OBVIOUS
  <2> QED
    BY <2>1, <2>2 DEF BlockInvariant
<1>4. SwitchInvariant'
  BY DEF SwitchInvariant
<1> QED
  BY <1>1, <1>2, <1>3, <1>4

LEMMA HostStep ==
  ASSUME Invariant, Hold \/ Resume \/ Override
  PROVE  Invariant'
<1> USE DEF Invariant
<1>1. /\ UNCHANGED <<gen, stepper, main, homing, place>> /\ sys \in SystemStates /\ host \in Hosts
      /\ sys.flags \in SUBSET {"HOLD", "START", "STOP"}
  BY DEF Hold, Resume, Override, TypeInvariant, SystemStates
<1>2. sys' \in SystemStates /\ sys'.state = sys.state /\ sys'.suspend = sys.suspend /\ host' \in Hosts
  <2>1. CASE Hold
    BY <1>1, <2>1 DEF Hold, SystemStates, Hosts
  <2>2. CASE Resume
    BY <1>1, <2>2 DEF Resume, SystemStates, Hosts
  <2>3. CASE Override
    <3>1. PICK over \in host.overs : sys' = [sys EXCEPT !.wanted = over]
      BY <2>3 DEF Override
    <3>2. over \in Overrides
      BY <1>1 DEF Hosts
    <3>3. sys' \in SystemStates /\ sys'.state = sys.state /\ sys'.suspend = sys.suspend
      BY <1>1, <3>1, <3>2 DEF SystemStates
    <3>4. host' \in Hosts
      BY <1>1, <2>3 DEF Override, Hosts
    <3> QED
      BY <3>3, <3>4
  <2> QED
    BY <2>1, <2>2, <2>3
<1>3. TypeInvariant'
  BY <1>1, <1>2 DEF TypeInvariant
<1>4. Homing' <=> Homing
  BY <1>1 DEF Homing
<1>5. ControlInvariant' /\ HoldInvariant'
  BY <1>1, <1>2, <1>4 DEF ControlInvariant, HoldInvariant
<1>6. HomingInvariant'
  BY <1>1, <1>2, <1>4 DEF HomingInvariant
<1>7. TableInvariant' /\ StepsAreExact'
  BY <1>1, QuietStep DEF Quiet
<1>8. BlockInvariant' /\ SwitchInvariant'
  <2>1. BlocksAreWhole(gen)'
    BY <1>1 DEF BlockInvariant
  <2> QED
    BY <1>1, <1>4, <2>1 DEF BlockInvariant, SwitchInvariant
<1> QED
  BY <1>3, <1>5, <1>6, <1>7, <1>8

LEMMA LoopStep ==
  ASSUME Invariant,
         NothingReceived \/ LineReceived \/ LineWaits \/ HomeReceived \/ HomeRefused
  PROVE  Invariant'
<1> USE DEF Invariant
<1>1. /\ UNCHANGED <<gen, stepper, homing, place>> /\ sys \in SystemStates /\ host \in Hosts
      /\ main \in MainStates /\ sys.flags \in SUBSET {"HOLD", "START", "STOP"}
      /\ main.pc \in {"loop", "line", "home"}
  BY DEF NothingReceived, LineReceived, LineWaits, HomeReceived, HomeRefused, Idle, At,
         TypeInvariant, SystemStates
<1>2. ~Homing /\ "SYS_MOTION" \notin gen.ctl
  BY <1>1 DEF ControlInvariant, Homing, HomingInvariant
<1>3. /\ main.then \in {"loop", "line", "home"} /\ main.rt = {}
  <2>1. main.then \in {"loop", "line", "home", "move", "check", "homed"}
    BY <1>1 DEF MainStates
  <2> QED
    BY <1>1, <1>2, <2>1 DEF ControlInvariant, HomingInvariant
<1>4. /\ sys' \in SystemStates /\ sys'.state = sys.state /\ sys'.suspend = sys.suspend
      /\ host' \in Hosts
  <2>1. AutoStart \in SUBSET {"START"}
    BY DEF AutoStart
  <2>2. CASE NothingReceived
    BY <1>1, <2>1, <2>2 DEF NothingReceived, SystemStates
  <2>3. CASE LineReceived
    <3>1. host.lines > 0 /\ host' = [host EXCEPT !.lines = @ - 1] /\ UNCHANGED sys
      BY <2>3 DEF LineReceived
    <3>2. host' \in Hosts
      BY <1>1, <3>1 DEF Hosts
    <3> QED
      BY <1>1, <3>1, <3>2
  <2>4. CASE LineWaits
    BY <1>1, <2>1, <2>4 DEF LineWaits, SystemStates
  <2>5. CASE HomeReceived
    BY <1>1, <2>5 DEF HomeReceived, Hosts
  <2>6. CASE HomeRefused
    BY <1>1, <2>6 DEF HomeRefused
  <2> QED
    BY <2>2, <2>3, <2>4, <2>5, <2>6
<1>5. /\ main' \in MainStates /\ main'.pc \in {"exec", "loop"}
      /\ main'.then \in {"loop", "line", "home"} /\ main'.rt = {}
      /\ main'.then = "line" => main'.line \in ProgramLines
  <2>1. main.then = "line" => main.line \in ProgramLines
    BY DEF ControlInvariant
  <2>2. CASE NothingReceived
    BY <1>1, <1>3, <2>2 DEF NothingReceived, MainStates, ControlPoints
  <2>3. CASE LineReceived
    <3>1. PICK line \in host.choice : main' = [main EXCEPT !.pc = "exec", !.then = "line", !.line = line]
      BY <2>3 DEF LineReceived
    <3>2. line \in ProgramLines
      BY <1>1 DEF Hosts
    <3> QED
      BY <1>1, <1>3, <3>1, <3>2 DEF MainStates, ControlPoints
  <2>4. CASE LineWaits
    BY <1>1, <1>3, <2>1, <2>4 DEF LineWaits, MainStates, ControlPoints
  <2>5. CASE HomeReceived
    BY <1>1, <1>3, <2>5 DEF HomeReceived, MainStates, ControlPoints
  <2>6. CASE HomeRefused
    BY <1>1, <1>3, <2>6 DEF HomeRefused, MainStates, ControlPoints
  <2> QED
    BY <2>2, <2>3, <2>4, <2>5, <2>6
<1>6. ~Homing'
  BY <1>5 DEF Homing
<1>7. TypeInvariant'
  BY <1>1, <1>4, <1>5 DEF TypeInvariant
<1>8. ControlInvariant' /\ HoldInvariant'
  BY <1>1, <1>4, <1>5, <1>6 DEF ControlInvariant, HoldInvariant
<1> QED
  BY <1>1, <1>2, <1>5, <1>6, <1>7, <1>8, IdleStep

LEMMA PrepDoneStep ==
  ASSUME Invariant, PrepDone
  PROVE  Invariant'
<1> USE DEF Invariant
<1>1. /\ UNCHANGED <<gen, sys, stepper, homing, place, host>> /\ main.pc = "prep"
      /\ main \in MainStates
  BY DEF PrepDone, At, TypeInvariant
<1> DEFINE pc == IF "WAKE" \in main.rt THEN "wake" ELSE Return(main.then, sys.suspend)
<1>2. main.then \in {"loop", "line", "home", "move", "check", "homed"} /\ main' = [main EXCEPT !.pc = pc]
  BY <1>1 DEF PrepDone, MainStates
<1>3. /\ pc \in {"wake", "exec", main.then}
      /\ pc = "wake" <=> main.rt # {}
      /\ main.then \in {"move", "check", "homed"} => pc = main.then
      /\ pc = "home" => sys.suspend = {}
  BY <1>1, <1>2 DEF Return, ControlInvariant
<1> HIDE DEF pc
<1>4. /\ main' \in MainStates /\ main'.pc = pc /\ main'.then = main.then /\ main'.rt = main.rt
      /\ main'.line = main.line
  BY <1>1, <1>2, <1>3 DEF MainStates, ControlPoints
<1>5. Homing' <=> Homing
  BY <1>1, <1>2, <1>3, <1>4 DEF Homing
<1>6. TypeInvariant'
  BY <1>1, <1>4 DEF TypeInvariant
<1>7. ControlInvariant'
  BY <1>1, <1>2, <1>3, <1>4, <1>5 DEF ControlInvariant
<1>8. HoldInvariant'
  BY <1>1, <1>3, <1>4 DEF HoldInvariant
<1>9. "SYS_MOTION" \in gen.ctl => Homing
  BY DEF HomingInvariant
<1>10. main.then = "homed" => main.rt = {} /\ sys.suspend = {}
  BY DEF HomingInvariant
<1> QED
  BY <1>1, <1>2, <1>3, <1>4, <1>5, <1>6, <1>7, <1>8, <1>9, <1>10, IdleStep

\* The motors have run out of segments.
LEMMA ShutDownStep ==
  ASSUME Invariant, ShutDown
  PROVE  Invariant'
<1> USE DEF Invariant
<1>1. /\ UNCHANGED <<gen, main, homing, place, host>> /\ sys \in SystemStates
      /\ stepper \in Steppers /\ stepper' = [stepper EXCEPT !.on = FALSE]
      /\ sys' = [sys EXCEPT !.flags = @ \cup {"STOP"}]
  BY DEF ShutDown, TypeInvariant
<1>2. sys' \in SystemStates /\ sys'.state = sys.state /\ sys'.suspend = sys.suspend
  BY <1>1 DEF SystemStates
<1>3. /\ stepper' \in Steppers /\ stepper'.index = stepper.index /\ stepper'.left = stepper.left
      /\ stepper'.done = stepper.done /\ stepper'.on = FALSE
  BY <1>1 DEF Steppers
<1>4. Homing' <=> Homing
  BY <1>1 DEF Homing
<1>5. TypeInvariant'
  BY <1>1, <1>2, <1>3 DEF TypeInvariant
<1>6. ControlInvariant' /\ HoldInvariant'
  BY <1>1, <1>2, <1>4 DEF ControlInvariant, HoldInvariant
<1>7. HomingInvariant'
  BY <1>1, <1>2, <1>3, <1>4 DEF HomingInvariant
<1>8. TableInvariant' /\ StepsAreExact'
  BY <1>1, <1>3, QuietStep DEF Quiet
<1>9. BlockInvariant' /\ SwitchInvariant'
  <2>1. BlocksAreWhole(gen)'
    BY <1>1 DEF BlockInvariant
  <2> QED
    BY <1>1, <1>3, <1>4, <2>1 DEF BlockInvariant, SwitchInvariant
<1> QED
  BY <1>5, <1>6, <1>7, <1>8, <1>9

LEMMA LineBufferedStep ==
  ASSUME Invariant, LineBuffered
  PROVE  Invariant'
<1> USE DEF Invariant
<1>1. /\ main.pc = "line" /\ ~IsFull(gen.plan) /\ gen' = BufferLine(gen, main.line)
      /\ main' = [main EXCEPT !.pc = "loop", !.then = "loop", !.line = NoLine]
      /\ UNCHANGED <<sys, stepper, homing, place, host>>
      /\ gen \in Generators /\ main \in MainStates
  BY DEF LineBuffered, At, TypeInvariant
<1>2. ~Homing /\ "SYS_MOTION" \notin gen.ctl /\ main.line \in ProgramLines /\ main.rt = {}
  BY <1>1 DEF ControlInvariant, Homing, HomingInvariant
<1> DEFINE p == AppendLine(gen.plan, main.line, gen.over)
           g == [gen EXCEPT !.plan = p]
<1>3. gen.plan \in Plans /\ gen.over \in Overrides /\ gen.prep \in Preps
  BY <1>1, FieldsOfGenerator
<1>4. Appended(gen.plan, p) /\ p \in Plans
  BY <1>2, <1>3, LineAppends DEF Appended
<1> HIDE DEF p
<1>5. /\ g \in Generators /\ g.prep = gen.prep /\ g.ctl = gen.ctl /\ g.queue = gen.queue
      /\ g.blocks = gen.blocks
  BY <1>1, <1>4, PlanChanged
<1>6. BlocksAreWhole(g)
  BY <1>1, <1>2, <1>4, AppendedBlocksAreWhole DEF BlockInvariant
<1>7. gen' = Recalculate(g)
  BY <1>1, Zenon DEF BufferLine, p
<1> HIDE DEF g
<1>8. Interrupted(g, gen') /\ Kept(g, gen')
  BY <1>2, <1>5, <1>7, RecalculateInterrupts, InterruptedIsKept
<1>9. /\ gen' \in Generators /\ gen'.ctl = gen.ctl /\ gen'.queue = gen.queue
      /\ gen'.blocks = gen.blocks
  BY <1>5, <1>8 DEF Interrupted
<1>10. gen'.prep.index = gen.prep.index /\ gen'.prep.steps = gen.prep.steps
  <2>1. g.prep \in Preps
    BY <1>3, <1>5
  <2>2. gen'.prep.index = g.prep.index /\ gen'.prep.steps = g.prep.steps
    BY <1>8, <2>1 DEF Interrupted, Preps
  <2> QED
    BY <1>5, <2>2
<1>11. BlocksAreWhole(gen')
  BY <1>2, <1>5, <1>6, <1>8, KeptBlocksAreWhole
<1>12. BlockInvariant'
  BY <1>2, <1>9, <1>11 DEF BlockInvariant
<1>13. TableInvariant' /\ StepsAreExact'
  BY <1>1, <1>9, <1>10, QuietStep DEF Quiet
<1>14. main' \in MainStates /\ main'.pc = "loop" /\ main'.then = "loop" /\ main'.rt = {}
  BY <1>1, <1>2 DEF MainStates, ControlPoints
<1>15. ~Homing'
  BY <1>14 DEF Homing
<1>16. TypeInvariant'
  BY <1>1, <1>9, <1>14 DEF TypeInvariant
<1>17. ControlInvariant' /\ HoldInvariant' /\ SwitchInvariant'
  BY <1>1, <1>9, <1>14, <1>15 DEF ControlInvariant, HoldInvariant, SwitchInvariant
<1>18. HomingInvariant'
  BY <1>2, <1>9, <1>14, <1>15 DEF HomingInvariant
<1> QED
  BY <1>12, <1>13, <1>16, <1>17, <1>18

-----------------------------------------------------------------------------
(* After a reset.                                                           *)

LEMMA EmptyPlanIsPlan ==
  ASSUME NEW p \in Plans
  PROVE  LET q == [EmptyPlan EXCEPT !.block = p.block]
         IN q \in Plans /\ IsEmpty(q)
BY PlannerAssumption DEF EmptyPlan, Plans, IsEmpty, Slots

LEMMA NothingPlanned == EmptyPlan \in Plans /\ IsEmpty(EmptyPlan)
<1>1. 0 \in Slots
  BY PlannerAssumption DEF Slots
<1>2. ZeroBlock \in PlanBlocks
  <2>1. StepLength * 0 \in Nat
    BY PlannerAssumption
  <2> QED
    BY <2>1 DEF ZeroBlock, Block, PlanBlocks
<1> QED
  BY <1>1, <1>2 DEF EmptyPlan, Plans, IsEmpty

LEMMA IndexZero == 0 \in DataSlots
BY SegmentAssumption DEF DataSlots

LEMMA NothingPrepared == NoPrep \in Preps
BY IndexZero DEF NoPrep, Preps

LEMMA NothingIsWhole ==
  ASSUME NEW m, m.plan \in Plans, IsEmpty(m.plan), m.prep = NoPrep
  PROVE  BlocksAreWhole(m)
<1>1. ~Loaded(m) /\ m.prep.block = NoBlock /\ m.prep.flags = {} /\ m.prep.steps = 0
  BY DEF Loaded, NoPrep
<1>2. \A i \in Slots : ~InRing(m.plan, i)
  BY EmptyRing
<1> QED
  BY <1>1, <1>2 DEF BlocksAreWhole

-----------------------------------------------------------------------------
(* The homing cycle.                                                        *)

LEMMA HomeBeginStep ==
  ASSUME Invariant, HomeBegin, IsEmpty(gen.plan)
  PROVE  Invariant'
<1> USE DEF Invariant
<1>1. /\ main.pc = "home" /\ sys.state \in {"IDLE", "ALARM"}
      /\ sys' = [sys EXCEPT !.state = "HOMING"] /\ main' = [main EXCEPT !.pc = "seek"]
      /\ UNCHANGED <<gen, stepper, place, host>>
      /\ sys \in SystemStates /\ main \in MainStates /\ homing \in Homings
  BY DEF HomeBegin, At, TypeInvariant
<1>2. PICK axes \in (SUBSET Axes) \ {{}} :
        homing' = [axes |-> axes, lock |-> {}, approach |-> TRUE, travel |-> SearchTravel,
                   rate |-> SeekRate, n |-> 2 * NLocateCycle + 1, homed |-> {}]
  BY DEF HomeBegin
<1>3. /\ homing' \in Homings /\ homing'.axes # {} /\ homing'.approach = TRUE /\ homing'.n = 3
      /\ homing'.travel > 0
  <2> DEFINE h == [axes |-> axes, lock |-> {}, approach |-> TRUE, travel |-> SearchTravel,
                   rate |-> SeekRate, n |-> 3, homed |-> {}]
  <2>1. homing' = h
    BY <1>2 DEF NLocateCycle
  <2>2. axes \in SUBSET Axes /\ {} \in SUBSET Axes /\ axes # {}
    OBVIOUS
  <2>3. SearchTravel \in Nat /\ SearchTravel > 0 /\ SeekRate \in Nat
    BY MotionAssumption
  <2>4. h \in Homings
    BY <2>2, <2>3 DEF Homings
  <2> QED
    BY <2>1, <2>2, <2>3, <2>4
<1>4. ~Homing /\ "SYS_MOTION" \notin gen.ctl /\ main.rt = {} /\ main.then # "homed"
  BY <1>1 DEF ControlInvariant, Homing, HomingInvariant
<1>5. sys.suspend = {} /\ "HOLD" \notin gen.ctl
  BY <1>1 DEF HoldInvariant
<1>6. sys' \in SystemStates /\ sys'.state = "HOMING" /\ sys'.suspend = {}
  BY <1>1, <1>5 DEF SystemStates
<1>7. /\ main' \in MainStates /\ main'.pc = "seek" /\ main'.then = main.then /\ main'.rt = {}
      /\ main'.line = main.line
  BY <1>1, <1>4 DEF MainStates, ControlPoints
<1>8. Homing'
  BY <1>7 DEF Homing
<1>9. gen.prep.block = NoBlock
  BY <1>4 DEF BlockInvariant, BlocksAreWhole
<1>10. TypeInvariant'
  BY <1>1, <1>3, <1>6, <1>7 DEF TypeInvariant
<1>11. ControlInvariant' /\ HoldInvariant'
  BY <1>1, <1>5, <1>6, <1>7, <1>8 DEF ControlInvariant, HoldInvariant
<1>12. HomingInvariant'
  BY <1>1, <1>3, <1>4, <1>6, <1>7, <1>8, <1>9 DEF HomingInvariant
<1>13. BlockInvariant'
  <2>1. BlocksAreWhole(gen)'
    BY <1>1 DEF BlockInvariant
  <2> QED
    BY <1>7, <2>1 DEF BlockInvariant
<1>14. TableInvariant' /\ StepsAreExact'
  BY <1>1, QuietStep DEF Quiet
<1>15. SwitchInvariant'
  BY <1>3, <1>7 DEF SwitchInvariant
<1> QED
  BY <1>10, <1>11, <1>12, <1>13, <1>14, <1>15

LEMMA HomeSeekStep ==
  ASSUME Invariant, HomeSeek
  PROVE  Invariant'
<1> USE DEF Invariant
<1> DEFINE rate == homing.rate * Cardinality(homing.axes)
           forward == ~homing.approach
           p == PlaceSystemMotion(gen.plan, homing.travel, homing.axes, forward, rate)
<1>1. /\ main.pc = "seek" /\ homing' = [homing EXCEPT !.lock = homing.axes]
      /\ main' = [main EXCEPT !.pc = "prep", !.then = "move"]
      /\ UNCHANGED <<sys, stepper, place, host>>
      /\ gen \in Generators /\ main \in MainStates /\ homing \in Homings
  BY DEF HomeSeek, At, TypeInvariant
<1>2. gen' = [gen EXCEPT !.ctl = {"SYS_MOTION"}, !.plan = p]
  BY DEF HomeSeek
<1>3. Homing /\ main.rt = {}
  BY <1>1 DEF Homing, ControlInvariant
<1>4. /\ sys.state = "HOMING" /\ sys.suspend = {} /\ IsEmpty(gen.plan) /\ homing.axes # {}
      /\ gen.prep.block = NoBlock /\ homing.n \in (IF homing.approach THEN {3, 1} ELSE {2, 0})
      /\ homing.travel > 0 /\ (~homing.approach => homing.travel = Pulloff)
  BY <1>1, <1>3 DEF HomingInvariant
<1>5. rate \in Nat /\ forward \in BOOLEAN /\ homing.travel \in Nat /\ homing.axes \in SUBSET Axes
  <2>1. IsFiniteSet(homing.axes) /\ homing.rate \in Nat /\ homing.travel \in Nat
        /\ homing.axes \in SUBSET Axes /\ forward \in BOOLEAN
    BY <1>1, MotionAssumption, FS_Subset DEF Homings
  <2>2. Cardinality(homing.axes) \in Nat
    BY <2>1, FS_CardinalityType
  <2> DEFINE card == Cardinality(homing.axes)
  <2>3. homing.rate * card \in Nat
    <3> HIDE DEF card
    <3>1. card \in Nat
      BY <2>2 DEF card
    <3> QED
      BY <2>1, <3>1
  <2> QED
    BY <2>1, <2>3
<1>6. gen.plan \in Plans /\ gen.plan.head \in Slots /\ gen.prep \in Preps
  BY <1>1, FieldsOfGenerator DEF Plans
<1> HIDE DEF rate, forward
<1>7. /\ p \in Plans /\ p.tail = gen.plan.tail /\ p.head = gen.plan.head
      /\ p.block[gen.plan.head].count = homing.travel
      /\ p.block[gen.plan.head].mm = StepLength * homing.travel
      /\ p.block[gen.plan.head].forward = ~homing.approach
  <2>1. /\ p \in Plans /\ p.tail = gen.plan.tail /\ p.head = gen.plan.head
        /\ p.block[gen.plan.head].count = homing.travel
        /\ p.block[gen.plan.head].mm = StepLength * homing.travel
        /\ p.block[gen.plan.head].forward = forward
    BY <1>5, <1>6, SystemMotionPlaced
  <2> QED
    BY <2>1 DEF forward
<1> HIDE DEF p
<1>8. /\ gen' \in Generators /\ gen'.plan = p /\ gen'.ctl = {"SYS_MOTION"} /\ gen'.prep = gen.prep
      /\ gen'.queue = gen.queue /\ gen'.blocks = gen.blocks
  BY <1>1, <1>2, <1>7 DEF Generators
<1>9. IsEmpty(gen'.plan)
  BY <1>4, <1>7, <1>8 DEF IsEmpty
<1>10. BlocksAreWhole(gen')
  <2>1. "RECALCULATE" \notin gen.prep.flags /\ gen.prep.steps = 0
    BY <1>4 DEF BlockInvariant, BlocksAreWhole, Loaded
  <2>2. ~Loaded(gen')
    BY <1>4, <1>8, <2>1 DEF Loaded
  <2>3. \A i \in Slots : ~InRing(gen'.plan, i)
    BY <1>7, <1>8, <1>9, EmptyRing
  <2> QED
    BY <1>4, <1>8, <2>1, <2>2, <2>3 DEF BlocksAreWhole
<1>11. /\ homing' \in Homings /\ homing'.axes = homing.axes /\ homing'.lock = homing.axes
       /\ homing'.approach = homing.approach /\ homing'.travel = homing.travel
       /\ homing'.n = homing.n
  BY <1>1 DEF Homings
<1>12. BlockInvariant'
  BY <1>4, <1>7, <1>8, <1>10, <1>11 DEF BlockInvariant, Untouched
<1>13. main' \in MainStates /\ main'.pc = "prep" /\ main'.then = "move" /\ main'.rt = {}
  BY <1>1, <1>3 DEF MainStates, ControlPoints
<1>14. Homing'
  BY <1>13 DEF Homing
<1>15. TypeInvariant'
  BY <1>1, <1>8, <1>11, <1>13 DEF TypeInvariant
<1>16. ControlInvariant' /\ HoldInvariant'
  BY <1>1, <1>4, <1>8, <1>13, <1>14 DEF ControlInvariant, HoldInvariant
<1>17. HomingInvariant'
  BY <1>1, <1>4, <1>8, <1>9, <1>11, <1>13, <1>14 DEF HomingInvariant
<1>18. TableInvariant' /\ StepsAreExact'
  BY <1>1, <1>8, QuietStep DEF Quiet
<1>19. SwitchInvariant'
  BY <1>1, <1>3, <1>4, <1>8, <1>11, <1>13 DEF SwitchInvariant
<1> QED
  BY <1>12, <1>15, <1>16, <1>17, <1>18, <1>19

LEMMA HomeMoveStep ==
  ASSUME Invariant, HomeMove
  PROVE  Invariant'
<1> USE DEF Invariant
<1>1. /\ main.pc = "move" /\ stepper' = [stepper EXCEPT !.on = TRUE]
      /\ main' = [main EXCEPT !.pc = "limits"] /\ UNCHANGED <<gen, sys, homing, place, host>>
      /\ stepper \in Steppers /\ main \in MainStates
  BY DEF HomeMove, At, TypeInvariant
<1>2. Homing /\ main.rt = {} /\ main.then # "homed"
  BY <1>1 DEF Homing, ControlInvariant, HomingInvariant
<1>3. /\ main' \in MainStates /\ main'.pc = "limits" /\ main'.then = main.then /\ main'.rt = {}
      /\ main'.line = main.line
  BY <1>1, <1>2 DEF MainStates, ControlPoints
<1>4. /\ stepper' \in Steppers /\ stepper'.index = stepper.index /\ stepper'.left = stepper.left
      /\ stepper'.done = stepper.done
  BY <1>1 DEF Steppers
<1>5. Homing'
  BY <1>3 DEF Homing
<1>6. TypeInvariant'
  BY <1>1, <1>3, <1>4 DEF TypeInvariant
<1>7. ControlInvariant' /\ HoldInvariant'
  BY <1>1, <1>3, <1>5 DEF ControlInvariant, HoldInvariant
<1>8. HomingInvariant'
  BY <1>1, <1>2, <1>3, <1>5 DEF HomingInvariant
<1>9. TableInvariant' /\ StepsAreExact'
  BY <1>1, <1>4, QuietStep DEF Quiet
<1>10. BlockInvariant' /\ SwitchInvariant'
  <2>1. BlocksAreWhole(gen)'
    BY <1>1 DEF BlockInvariant
  <2> QED
    BY <1>1, <1>2, <1>3, <1>4, <2>1 DEF BlockInvariant, SwitchInvariant
<1> QED
  BY <1>6, <1>7, <1>8, <1>9, <1>10

LEMMA HomeLimitsStep ==
  ASSUME Invariant, HomeLimits
  PROVE  Invariant'
<1> USE DEF Invariant
<1> DEFINE lock == IF homing.approach THEN homing.lock \ Engaged ELSE homing.lock
<1>1. /\ main.pc = "limits" /\ homing' = [homing EXCEPT !.lock = lock]
      /\ main' = [main EXCEPT !.pc = "prep", !.then = "check"]
      /\ UNCHANGED <<gen, sys, stepper, place, host>>
      /\ main \in MainStates /\ homing \in Homings
  BY DEF HomeLimits, At, TypeInvariant
<1>2. Homing /\ main.rt = {}
  BY <1>1 DEF Homing, ControlInvariant
<1>3. lock \in SUBSET Axes
  BY <1>1 DEF Homings
<1>4. homing.approach => \A a \in homing.axes \ lock : place[a] <= 0
  BY <1>1, <1>2 DEF SwitchInvariant, Engaged
<1>5. /\ homing' \in Homings /\ homing'.axes = homing.axes /\ homing'.lock = lock
      /\ homing'.approach = homing.approach /\ homing'.travel = homing.travel
      /\ homing'.n = homing.n
  <2> HIDE DEF lock
  <2> QED
    BY <1>1, <1>3 DEF Homings
<1>6. main' \in MainStates /\ main'.pc = "prep" /\ main'.then = "check" /\ main'.rt = {}
  BY <1>1, <1>2 DEF MainStates, ControlPoints
<1>7. Homing'
  BY <1>6 DEF Homing
<1>8. TypeInvariant'
  BY <1>1, <1>5, <1>6 DEF TypeInvariant
<1>9. ControlInvariant' /\ HoldInvariant'
  BY <1>1, <1>6, <1>7 DEF ControlInvariant, HoldInvariant
<1>10. HomingInvariant'
  BY <1>1, <1>2, <1>5, <1>6, <1>7 DEF HomingInvariant
<1>11. TableInvariant' /\ StepsAreExact'
  BY <1>1, QuietStep DEF Quiet
<1>12. BlockInvariant'
  <2>1. BlocksAreWhole(gen)'
    BY <1>1 DEF BlockInvariant
  <2> QED
    BY <1>1, <1>2, <1>5, <1>6, <2>1 DEF BlockInvariant
<1>13. SwitchInvariant'
  <2>1. ~homing.approach => lock = homing.lock
    OBVIOUS
  <2> HIDE DEF lock
  <2> QED
    BY <1>1, <1>2, <1>4, <1>5, <1>6, <2>1 DEF SwitchInvariant
<1> QED
  BY <1>8, <1>9, <1>10, <1>11, <1>12, <1>13

\* The polling goes on, or ends with all axes at their switches or clear of them.
LEMMA HomeCheckStep ==
  ASSUME Invariant, HomeOn \/ HomePulledOff
  PROVE  Invariant'
<1> USE DEF Invariant
<1>1. /\ main.pc = "check" /\ UNCHANGED <<gen, stepper, homing, place, host>>
      /\ main \in MainStates /\ sys \in SystemStates
  BY DEF HomeOn, HomePulledOff, At, TypeInvariant
<1>2. Homing /\ main.rt = {} /\ main.then # "homed" /\ homing.axes # {}
  BY <1>1 DEF Homing, ControlInvariant, HomingInvariant
<1>3. /\ main' \in MainStates /\ main'.pc \in {"limits", "reverse"} /\ main'.then = main.then
      /\ main'.rt = {} /\ main'.line = main.line
      /\ sys' \in SystemStates /\ sys'.state = sys.state /\ sys'.suspend = sys.suspend
  <2>1. CASE HomeOn
    BY <1>1, <1>2, <2>1 DEF HomeOn, MainStates, ControlPoints
  <2>2. CASE HomePulledOff
    BY <1>1, <1>2, <2>2 DEF HomePulledOff, MainStates, SystemStates, ControlPoints
  <2> QED
    BY <2>1, <2>2
<1>4. Homing'
  BY <1>3 DEF Homing
<1>5. ~homing.approach => homing.lock = homing.axes
  BY <1>1, <1>2 DEF SwitchInvariant
<1>6. main'.pc = "reverse" =>
        /\ homing.approach => homing.lock = {}
        /\ ~homing.approach => \A a \in homing.axes : place[a] > 0
  <2>1. place \in [Axes -> Int] /\ homing.axes \in SUBSET Axes
    BY DEF TypeInvariant, Homings
  <2>2. CASE HomeOn
    BY <1>1, <1>2, <1>5, <2>2 DEF HomeOn, MainStates
  <2>3. CASE HomePulledOff
    BY <2>1, <2>3 DEF HomePulledOff, Engaged
  <2> QED
    BY <2>2, <2>3
<1>7. TypeInvariant'
  BY <1>1, <1>3 DEF TypeInvariant
<1>8. ControlInvariant' /\ HoldInvariant'
  BY <1>1, <1>3, <1>4 DEF ControlInvariant, HoldInvariant
<1>9. HomingInvariant'
  BY <1>1, <1>2, <1>3, <1>4, <1>6 DEF HomingInvariant
<1>10. TableInvariant' /\ StepsAreExact'
  BY <1>1, QuietStep DEF Quiet
<1>11. BlockInvariant'
  <2>1. BlocksAreWhole(gen)'
    BY <1>1 DEF BlockInvariant
  <2> QED
    BY <1>1, <1>3, <2>1 DEF BlockInvariant
<1>12. SwitchInvariant'
  BY <1>1, <1>2, <1>3, <1>6 DEF SwitchInvariant
<1> QED
  BY <1>7, <1>8, <1>9, <1>10, <1>11, <1>12

\* A cycle that fails leaves the machine as after a reset.
LEMMA HomeFailStep ==
  ASSUME Invariant, HomeFail
  PROVE  Invariant'
<1> USE DEF Invariant
<1> DEFINE p == [EmptyPlan EXCEPT !.block = gen.plan.block]
           over == [f |-> 2, r |-> 2]
<1>1. /\ sys' = [state |-> "ALARM", suspend |-> {}, flags |-> {}, wanted |-> over]
      /\ stepper' = [on |-> FALSE, index |-> 0, left |-> 0, done |-> 0]
      /\ main' = [pc |-> "loop", then |-> "loop", rt |-> {}, line |-> NoLine]
      /\ homing' = NotHoming /\ UNCHANGED <<place, host>> /\ gen \in Generators
      /\ place \in [Axes -> Int] /\ host \in Hosts
  BY DEF HomeFail, TypeInvariant
<1>2. gen' = [gen EXCEPT !.plan = p, !.prep = NoPrep, !.ctl = {}, !.over = over, !.queue = <<>>]
  BY Zenon DEF HomeFail, p, over
<1>3. p \in Plans /\ IsEmpty(p)
  BY <1>1, FieldsOfGenerator, EmptyPlanIsPlan
<1>4. NoPrep \in Preps /\ over \in Overrides /\ <<>> \in Seq(Segments)
  BY NothingPrepared DEF Overrides
<1> HIDE DEF p, over
<1>5. /\ gen' \in Generators /\ gen'.plan = p /\ gen'.prep = NoPrep /\ gen'.ctl = {}
      /\ gen'.queue = <<>>
  BY <1>1, <1>2, <1>3, <1>4 DEF Generators
<1>6. BlocksAreWhole(gen')
  BY <1>3, <1>5, NothingIsWhole
<1>7. /\ sys' \in SystemStates /\ sys'.suspend = {}
  BY <1>1, <1>4 DEF SystemStates
<1>8. /\ main' \in MainStates /\ main'.pc = "loop" /\ main'.then = "loop" /\ main'.rt = {}
  BY <1>1 DEF MainStates, ControlPoints
<1>9. ~Homing'
  BY <1>8 DEF Homing
<1>10. homing' \in Homings
  BY <1>1 DEF NotHoming, Homings
<1>11. stepper' \in Steppers
  BY <1>1, IndexZero DEF Steppers
<1>12. TypeInvariant'
  BY <1>1, <1>5, <1>7, <1>8, <1>10, <1>11 DEF TypeInvariant
<1>13. ControlInvariant' /\ HoldInvariant' /\ HomingInvariant' /\ SwitchInvariant'
  BY <1>5, <1>7, <1>8, <1>9 DEF ControlInvariant, HoldInvariant, HomingInvariant, SwitchInvariant
<1>14. BlockInvariant'
  BY <1>5, <1>6 DEF BlockInvariant
<1>15. TableInvariant' /\ StepsAreExact'
  BY <1>1, <1>5, NothingQueuedStep
<1> QED
  BY <1>12, <1>13, <1>14, <1>15

\* The position is set, and the cycle ends.
LEMMA HomeEndStep ==
  ASSUME Invariant, HomeEnd
  PROVE  Invariant'
<1> USE DEF Invariant
<1>1. /\ main.pc = "homed" /\ sys' = [sys EXCEPT !.state = "IDLE"]
      /\ stepper' = [stepper EXCEPT !.on = FALSE]
      /\ main' = [main EXCEPT !.pc = "loop", !.then = "loop"]
      /\ UNCHANGED <<gen, homing, place, host>>
      /\ sys \in SystemStates /\ stepper \in Steppers /\ main \in MainStates
  BY DEF HomeEnd, At, TypeInvariant
<1>2. main.rt = {} /\ gen.ctl = {} /\ sys.suspend = {}
  BY <1>1 DEF ControlInvariant, HomingInvariant
<1>3. /\ sys' \in SystemStates /\ sys'.suspend = {} /\ stepper' \in Steppers
      /\ stepper'.index = stepper.index /\ stepper'.left = stepper.left
      /\ stepper'.done = stepper.done
  BY <1>1, <1>2 DEF SystemStates, Steppers
<1>4. main' \in MainStates /\ main'.pc = "loop" /\ main'.then = "loop" /\ main'.rt = {}
  BY <1>1, <1>2 DEF MainStates, ControlPoints
<1>5. ~Homing'
  BY <1>4 DEF Homing
<1>6. TypeInvariant'
  BY <1>1, <1>3, <1>4 DEF TypeInvariant
<1>7. ControlInvariant' /\ HoldInvariant' /\ HomingInvariant' /\ SwitchInvariant'
  BY <1>1, <1>2, <1>3, <1>4, <1>5
    DEF ControlInvariant, HoldInvariant, HomingInvariant, SwitchInvariant
<1>8. BlockInvariant'
  <2>1. BlocksAreWhole(gen)'
    BY <1>1 DEF BlockInvariant
  <2> QED
    BY <1>1, <1>2, <2>1 DEF BlockInvariant
<1>9. TableInvariant' /\ StepsAreExact'
  BY <1>1, <1>3, QuietStep DEF Quiet
<1> QED
  BY <1>6, <1>7, <1>8, <1>9

\* st_reset() leaves no segment and no block in hand.
LEMMA Reversed ==
  ASSUME Invariant, HomeReverse
  PROVE  /\ main.pc = "reverse" /\ Homing /\ main.rt = {} /\ main.then # "homed"
         /\ gen \in Generators /\ homing \in Homings /\ main \in MainStates /\ sys \in SystemStates
         /\ sys.state = "HOMING" /\ sys.suspend = {} /\ homing.axes # {}
         /\ homing.n \in (IF homing.approach THEN {3, 1} ELSE {2, 0})
         /\ stepper' \in Steppers /\ ~stepper'.on /\ stepper'.done = 0
         /\ gen' \in Generators /\ gen'.prep = NoPrep /\ gen'.queue = <<>> /\ IsEmpty(gen'.plan)
         /\ gen'.ctl \in {gen.ctl, {}} /\ (homing.n = 0 => gen'.ctl = {})
         /\ BlocksAreWhole(gen') /\ TableInvariant' /\ StepsAreExact'
         /\ UNCHANGED <<sys, place, host>>
<1> USE DEF Invariant
<1>1. /\ main.pc = "reverse" /\ stepper' = [on |-> FALSE, index |-> 0, left |-> 0, done |-> 0]
      /\ gen \in Generators /\ homing \in Homings /\ main \in MainStates /\ sys \in SystemStates
      /\ UNCHANGED <<sys, place, host>>
  BY DEF HomeReverse, At, TypeInvariant
<1>2. Homing /\ main.rt = {} /\ main.then # "homed"
  BY <1>1 DEF Homing, ControlInvariant, HomingInvariant
<1>3. /\ sys.state = "HOMING" /\ sys.suspend = {} /\ homing.axes # {} /\ IsEmpty(gen.plan)
      /\ homing.n \in (IF homing.approach THEN {3, 1} ELSE {2, 0})
  BY <1>1, <1>2 DEF HomingInvariant
<1>4. /\ gen' \in Generators /\ gen'.prep = NoPrep /\ gen'.queue = <<>> /\ gen'.plan = gen.plan
      /\ gen'.ctl \in {gen.ctl, {}} /\ (homing.n = 0 => gen'.ctl = {})
  <2>1. NoPrep \in Preps /\ <<>> \in Seq(Segments)
    BY NothingPrepared
  <2>2. CASE homing.n > 0 /\ gen' = [gen EXCEPT !.prep = NoPrep, !.queue = <<>>]
    <3>1. homing.n # 0
      BY <2>2
    <3> QED
      BY <1>1, <2>1, <2>2, <3>1 DEF Generators
  <2>3. CASE gen' = [gen EXCEPT !.prep = NoPrep, !.queue = <<>>, !.ctl = {}]
    BY <1>1, <2>1, <2>3 DEF Generators
  <2> QED
    BY <2>2, <2>3 DEF HomeReverse
<1>5. stepper' \in Steppers
  BY <1>1, IndexZero DEF Steppers
<1>6. BlocksAreWhole(gen')
  BY <1>1, <1>3, <1>4, FieldsOfGenerator, NothingIsWhole
<1>7. TableInvariant' /\ StepsAreExact'
  BY <1>1, <1>4, NothingQueuedStep
<1> QED
  BY <1>1, <1>2, <1>3, <1>4, <1>5, <1>6, <1>7

\* An approach is followed by a pull-off, and a pull-off by a closer approach.
LEMMA HomeTurnStep ==
  ASSUME Invariant, HomeReverse, homing.n > 0
  PROVE  Invariant'
<1> USE DEF Invariant
<1> DEFINE approach == ~homing.approach
           travel == IF approach THEN Pulloff * LocateScalar ELSE Pulloff
           rate == IF approach THEN LocateRate ELSE SeekRate
<1>1. /\ homing' = [homing EXCEPT !.approach = approach, !.n = @ - 1, !.lock = {},
                                  !.travel = travel, !.rate = rate]
      /\ main' = [main EXCEPT !.pc = "seek"]
  BY DEF HomeReverse
<1>2. travel \in Nat /\ travel > 0 /\ (~approach => travel = Pulloff) /\ rate \in Nat
  <2>1. /\ Pulloff \in Nat /\ Pulloff > 0 /\ LocateScalar \in Nat /\ LocateScalar > 0
        /\ SeekRate \in Nat /\ LocateRate \in Nat
    BY MotionAssumption
  <2>2. Pulloff * LocateScalar \in Nat /\ Pulloff * LocateScalar > 0
    BY <2>1
  <2> QED
    BY <2>1, <2>2
<1>3. /\ homing \in Homings /\ main \in MainStates /\ main.pc = "reverse" /\ Homing /\ main.rt = {}
      /\ main.then # "homed"
  BY Reversed
<1>4. homing.n \in 0..3 /\ homing.n \in (IF homing.approach THEN {3, 1} ELSE {2, 0})
  BY <1>3, Reversed DEF Homings
<1>5. /\ homing' \in Homings /\ homing'.axes = homing.axes /\ homing'.approach = approach
      /\ homing'.travel = travel /\ homing'.n = homing.n - 1
  <2>1. homing.n - 1 \in 0..3 /\ approach \in BOOLEAN
    BY <1>4
  <2> HIDE DEF approach, travel, rate
  <2> QED
    BY <1>1, <1>2, <1>3, <2>1 DEF Homings
<1>6. homing'.n \in (IF homing'.approach THEN {3, 1} ELSE {2, 0})
  <2>1. CASE homing.approach
    <3>1. homing.n \in {3, 1} /\ ~homing'.approach
      BY <1>4, <1>5, <2>1
    <3> QED
      BY <1>5, <3>1
  <2>2. CASE ~homing.approach
    <3>1. homing.n = 2
      BY <1>4, <2>2
    <3>2. homing'.approach
      BY <1>5, <2>2
    <3> QED
      BY <1>5, <3>1, <3>2
  <2> QED
    BY <2>1, <2>2
<1>7. homing.approach => \A a \in homing.axes : place[a] <= 0
  BY <1>3 DEF HomingInvariant, SwitchInvariant
<1>8. /\ main' \in MainStates /\ main'.pc = "seek" /\ main'.then = main.then /\ main'.rt = {}
      /\ main'.line = main.line
  BY <1>1, <1>3 DEF MainStates, ControlPoints
<1>9. Homing'
  BY <1>8 DEF Homing
<1>10. TypeInvariant'
  BY <1>5, <1>8, Reversed DEF TypeInvariant
<1>11. ControlInvariant'
  BY <1>3, <1>8, <1>9 DEF ControlInvariant
<1>12. HoldInvariant'
  BY <1>8, Reversed DEF HoldInvariant
<1>13. gen'.prep.block = NoBlock
  BY Reversed DEF NoPrep
<1> HIDE DEF travel, rate
<1>14. HomingInvariant'
  BY <1>2, <1>3, <1>5, <1>6, <1>8, <1>9, <1>13, Reversed DEF HomingInvariant
<1>15. BlockInvariant'
  BY <1>8, Reversed DEF BlockInvariant
<1>16. SwitchInvariant'
  BY <1>5, <1>7, <1>8, <1>13, Reversed DEF SwitchInvariant
<1> QED
  BY <1>10, <1>11, <1>12, <1>14, <1>15, <1>16, Reversed

\* In a pull-off no more steps are done than it has.
LEMMA PulledOffAtMost ==
  ASSUME gen \in Generators, stepper \in Steppers, StepsAreExact, SwitchInvariant, Homing,
         ~homing.approach
  PROVE  stepper.done <= Pulloff
<1> DEFINE q == gen.queue
           i == gen.prep.index
           all == AllOf(i, q, stepper.left)
           steps == gen.prep.steps
           busy == {q[k].index : k \in DOMAIN q} \cup (IF steps > 0 THEN {i} ELSE {})
<1>1. CASE stepper.done = 0
  BY <1>1, MotionAssumption
<1>2. CASE stepper.done # 0
  <2>1. stepper.done \in Nat \ {0} /\ stepper.left \in Nat /\ q \in Seq(Segments) /\ steps \in Nat
    BY <1>2, FieldsOfGenerator DEF Steppers, Preps
  <2>2. /\ gen.blocks[i].count = Pulloff /\ stepper.index = i
        /\ \A k \in 1..Len(q) : q[k].index = i
    BY <1>2, <2>1 DEF SwitchInvariant
  <2>3. q = <<>> \/ q[1].index = i
    BY <2>1, <2>2, EmptySeq
  <2>4. i \in busy \/ busy = {}
    BY <2>1, <2>2
  <2>5. StepsOf(i) = Pulloff
    BY <2>1, <2>2, <2>4 DEF StepsAreExact
  <2>6. StepsOf(i) = all + stepper.done + steps
    BY <2>2, <2>3 DEF StepsOf, AllOf
  <2>7. all \in Nat
    BY <2>1, AllIsNat
  <2> HIDE DEF all, steps
  <2> QED
    BY <2>1, <2>5, <2>6, <2>7
<1> QED
  BY <1>1, <1>2

\* The last pull-off has left all the axes between their switches and the distance.
LEMMA HomeLastStep ==
  ASSUME Invariant, HomeReverse, homing.n = 0
  PROVE  Invariant'
<1> USE DEF Invariant
<1>1. /\ homing' = [NotHoming EXCEPT !.homed = homing.axes]
      /\ main' = [main EXCEPT !.pc = "exec", !.then = "homed"]
      /\ stepper \in Steppers /\ gen \in Generators /\ place \in [Axes -> Int]
  BY DEF HomeReverse, TypeInvariant
<1>2. /\ homing \in Homings /\ main \in MainStates /\ main.pc = "reverse" /\ Homing /\ main.rt = {}
      /\ ~homing.approach
  BY Reversed
<1>3. homing.axes \in SUBSET Axes /\ stepper.done \in Nat /\ Pulloff \in Nat
  BY <1>1, <1>2, MotionAssumption DEF Homings, Steppers
<1>4. stepper.done <= Pulloff
  BY <1>1, <1>2, PulledOffAtMost
<1>5. \A a \in homing.axes : place[a] \in 1..Pulloff
  <2>1. \A a \in homing.axes : place[a] > 0 /\ place[a] <= stepper.done /\ place[a] \in Int
    BY <1>1, <1>2, <1>3 DEF SwitchInvariant
  <2> QED
    BY <1>3, <1>4, <2>1
<1>6. homing' \in Homings /\ homing'.homed = homing.axes
  <2> DEFINE h == [axes |-> {}, lock |-> {}, approach |-> TRUE, travel |-> 0, rate |-> 0, n |-> 0,
                   homed |-> homing.axes]
  <2>1. homing' = h
    BY <1>1 DEF NotHoming
  <2>2. h \in Homings
    BY <1>3 DEF Homings
  <2> QED
    BY <2>1, <2>2
<1>7. /\ main' \in MainStates /\ main'.pc = "exec" /\ main'.then = "homed" /\ main'.rt = {}
  BY <1>1, <1>2 DEF MainStates, ControlPoints
<1>8. ~Homing'
  BY <1>7 DEF Homing
<1>9. TypeInvariant'
  BY <1>6, <1>7, Reversed DEF TypeInvariant
<1>10. ControlInvariant'
  BY <1>7, <1>8 DEF ControlInvariant
<1>11. HoldInvariant' /\ BlockInvariant' /\ SwitchInvariant'
  BY <1>7, <1>8, Reversed DEF HoldInvariant, BlockInvariant, SwitchInvariant
<1>12. gen'.prep.block = NoBlock
  BY Reversed DEF NoPrep
<1>13. HomingInvariant'
  BY <1>5, <1>6, <1>7, <1>8, <1>12, Reversed DEF HomingInvariant
<1> QED
  BY <1>9, <1>10, <1>11, <1>13, Reversed

-----------------------------------------------------------------------------
(* The segment generator.                                                   *)

LEMMA PrepLoadStep ==
  ASSUME Invariant, PrepLoad
  PROVE  Invariant'
<1> USE DEF Invariant
<1> DEFINE slot == NextPrepBlock(gen)
           b == gen.plan.block[slot]
           again == "RECALCULATE" \in gen.prep.flags
           sys_motion == "SYS_MOTION" \in gen.ctl
<1>1. /\ main.pc = "prep" /\ Preparing(gen) /\ gen.prep.block = NoBlock /\ gen' = Load(gen)
      /\ UNCHANGED <<sys, stepper, main, homing, place, host>>
      /\ gen \in Generators /\ stepper \in Steppers
  BY DEF PrepLoad, At, TypeInvariant
<1>2. /\ gen.plan \in Plans /\ gen.prep \in Preps /\ gen.plan.tail \in Slots
      /\ gen.plan.head \in Slots /\ gen.blocks \in [DataSlots -> StepData]
      /\ gen.prep.index \in DataSlots
  BY <1>1, FieldsOfGenerator DEF Plans, Preps
<1>3. slot # NoBlock /\ Len(gen.queue) < SegmentBufferSize - 1
  BY <1>1 DEF Preparing
<1>4. /\ slot \in Slots
      /\ slot = IF sys_motion THEN gen.plan.head ELSE gen.plan.tail
      /\ ~sys_motion => ~IsEmpty(gen.plan)
  BY <1>2, <1>3 DEF NextPrepBlock
<1>5. sys_motion <=> Homing
  BY <1>1 DEF HomingInvariant
<1>6. sys_motion => /\ IsEmpty(gen.plan) /\ Untouched(b) /\ b.count = homing.travel
                    /\ b.forward = ~homing.approach
  BY <1>1, <1>4, <1>5 DEF HomingInvariant, BlockInvariant
<1>7. main.then # "homed"
  <2>1. main.then = "homed" => gen.ctl = {} /\ IsEmpty(gen.plan)
    BY DEF HomingInvariant
  <2> QED
    BY <1>4, <2>1
<1>8. Loads(gen, gen', slot)
  BY <1>1, <1>4, LoadLoads
<1>9. BlocksAreWhole(gen) /\ (again => ~IsEmpty(gen.plan))
  BY DEF BlockInvariant, BlocksAreWhole
<1>10. BlocksAreWhole(gen')
  BY <1>1, <1>4, <1>6, <1>8, <1>9, LoadedBlocksAreWhole
<1>11. /\ gen' \in Generators /\ gen'.ctl = gen.ctl /\ gen'.queue = gen.queue
       /\ gen'.prep.block = slot /\ (IsEmpty(gen'.plan) <=> IsEmpty(gen.plan))
  BY <1>8, RingReplanned DEF Loads
<1>12. /\ again => /\ gen'.prep.index = gen.prep.index /\ gen'.prep.steps = gen.prep.steps
                   /\ gen'.blocks = gen.blocks
       /\ ~again => /\ gen'.prep.index = NextIndex(gen.prep.index) /\ gen'.prep.steps = b.count
                    /\ gen'.blocks = [gen.blocks EXCEPT ![NextIndex(gen.prep.index)] = DataOf(b)]
  BY <1>8 DEF Loads
<1>13. TypeInvariant'
  BY <1>1, <1>11 DEF TypeInvariant
<1>14. Homing' <=> Homing
  BY <1>1 DEF Homing
<1>15. ControlInvariant' /\ HoldInvariant'
  BY <1>1, <1>11, <1>14 DEF ControlInvariant, HoldInvariant
<1>16. HomingInvariant'
  BY <1>1, <1>7, <1>11, <1>14 DEF HomingInvariant
<1>17. BlockInvariant'
  BY <1>3, <1>10, <1>11 DEF BlockInvariant
<1>18. TableInvariant' /\ StepsAreExact'
  <2>1. CASE again
    BY <1>1, <1>11, <1>12, <2>1, QuietStep DEF Quiet
  <2>2. CASE ~again
    <3>1. ~Loaded(gen) /\ gen.prep.steps = 0
      BY <1>1, <1>9, <2>2 DEF Loaded, BlocksAreWhole
    <3>2. Untouched(b)
      <4>1. CASE sys_motion
        BY <1>6, <4>1
      <4>2. CASE ~sys_motion
        <5>1. InRing(gen.plan, slot)
          BY <1>2, <1>4, <4>2, TailInRing
        <5> QED
          BY <1>4, <1>9, <3>1, <5>1 DEF BlocksAreWhole
      <4> QED
        BY <4>1, <4>2
    <3> DEFINE d == DataOf(b)
    <3>3. d \in StepData /\ d.count = b.count /\ d.count > 0
      <4>1. b \in PlanBlocks
        BY <1>2, <1>4, BlockIsPlanBlock
      <4> QED
        BY <3>2, <4>1 DEF Untouched, DataOf, StepData, PlanBlocks
    <3>4. /\ gen'.prep.steps = d.count /\ gen'.prep.index = NextIndex(gen.prep.index)
          /\ gen'.blocks = [gen.blocks EXCEPT ![NextIndex(gen.prep.index)] = d]
      BY <1>12, <2>2, <3>3
    <3> HIDE DEF d
    <3> QED
      BY <1>1, <1>3, <1>11, <3>1, <3>3, <3>4, NewBlockStep
  <2> QED
    BY <2>1, <2>2
<1>19. SwitchInvariant'
  <2>1. CASE ~Homing
    BY <1>14, <2>1 DEF SwitchInvariant
  <2>2. CASE Homing /\ homing.approach
    BY <1>1, <1>14, <2>2 DEF SwitchInvariant
  <2>3. CASE Homing /\ ~homing.approach
    <3>1. gen.queue = <<>> /\ stepper.done = 0
      BY <1>1, <2>3 DEF SwitchInvariant
    <3>2. homing.travel = Pulloff
      BY <2>3 DEF HomingInvariant
    <3>3. ~again
      BY <1>5, <1>6, <1>9, <2>3
    <3>4. gen'.blocks[gen'.prep.index].count = Pulloff /\ gen'.blocks[gen'.prep.index].forward
      <4>1. NextIndex(gen.prep.index) \in DataSlots
        BY <1>2, NextIndexIsIndex
      <4>2. gen'.blocks[gen'.prep.index] = DataOf(b)
        BY <1>2, <1>12, <3>3, <4>1
      <4>3. b.count = Pulloff /\ b.forward
        BY <1>5, <1>6, <2>3, <3>2
      <4> QED
        BY <4>2, <4>3 DEF DataOf
    <3>5. Len(gen'.queue) = 0 /\ stepper'.done = 0
      BY <1>1, <1>11, <3>1
    <3> QED
      BY <1>1, <2>3, <3>4, <3>5, <1>3, <1>11 DEF SwitchInvariant
  <2> QED
    BY <2>1, <2>2, <2>3
<1> QED
  BY <1>13, <1>15, <1>16, <1>17, <1>18, <1>19

LEMMA PrepSegmentStep ==
  ASSUME Invariant, PrepSegment
  PROVE  Invariant'
<1> USE DEF Invariant
<1> DEFINE sys_motion == "SYS_MOTION" \in gen.ctl
<1>1. /\ main.pc = "prep" /\ Preparing(gen) /\ gen.prep.block # NoBlock
      /\ UNCHANGED <<sys, stepper, main, homing, place, host>>
      /\ gen \in Generators /\ stepper \in Steppers
  BY DEF PrepSegment, At, TypeInvariant
<1>2. PICK x \in SegmentEnds(gen) : gen' = Segment(gen, x)
  BY DEF PrepSegment
<1> DEFINE slot == gen.prep.block
           n == gen.prep.steps - Ceiling(x)
           segment == [index |-> gen.prep.index, n |-> n]
<1>3. /\ gen.prep \in Preps /\ slot \in Slots /\ gen.prep.index \in DataSlots
      /\ gen.prep.steps \in Nat /\ gen.queue \in Seq(Segments)
  BY <1>1, FieldsOfGenerator DEF Preps
<1>4. Len(gen.queue) < SegmentBufferSize - 1 /\ "END_MOTION" \notin gen.ctl
  BY <1>1 DEF Preparing
<1>5. sys_motion <=> Homing
  BY <1>1 DEF HomingInvariant
<1>6. sys_motion => IsEmpty(gen.plan)
  BY <1>5 DEF HomingInvariant
<1>7. main.then # "homed"
  BY <1>1 DEF HomingInvariant
<1>8. BlocksAreWhole(gen)
  BY DEF BlockInvariant
<1>9. InHand(gen)
  <2>1. slot = IF sys_motion THEN gen.plan.head ELSE gen.plan.tail
    BY <1>1, <1>8 DEF BlocksAreWhole
  <2>2. Loaded(gen)
    BY <1>1 DEF Loaded
  <2>3. gen.prep.steps = Ceiling(gen.plan.block[slot].mm) /\ gen.prep.steps # 0
    BY <1>1, <1>4, <1>8, <2>2 DEF BlocksAreWhole
  <2>4. gen.prep.complete <= gen.plan.block[slot].mm
    BY <1>1, <1>8 DEF BlocksAreWhole
  <2>5. /\ gen.prep.complete > 0 => "HOLD" \in gen.ctl
        /\ gen.prep.ramp = "decel_override" => gen.prep.complete < gen.prep.until
    BY <1>1, <1>8 DEF BlocksAreWhole
  <2> QED
    BY <1>1, <1>3, <2>3, <2>4, <2>5 DEF InHand
<1>10. Prepares(gen, gen', x)
  BY <1>2, <1>9, SegmentPrepares
<1>11. n \in Nat /\ Ceiling(x) \in Nat
  BY <1>9, SegmentEndIsInBlock
<1>12. BlocksAreWhole(gen')
  BY <1>6, <1>8, <1>9, <1>10, SegmentBlocksAreWhole
<1>13. /\ gen' \in Generators /\ gen'.blocks = gen.blocks /\ gen'.prep.index = gen.prep.index
       /\ gen'.ctl \in {gen.ctl, gen.ctl \cup {"END_MOTION"}}
  BY <1>10 DEF Prepares
<1>14. IF n = 0 THEN gen'.queue = gen.queue /\ gen'.prep.steps = gen.prep.steps
       ELSE gen'.queue = Append(gen.queue, segment) /\ gen'.prep.steps = Ceiling(x)
  BY <1>10 DEF Prepares
<1>15. sys_motion => gen'.prep.block = slot /\ IsEmpty(gen'.plan)
  BY <1>6, <1>10 DEF Prepares, IsEmpty
<1>16. /\ ("SYS_MOTION" \in gen'.ctl) <=> sys_motion
       /\ ("HOLD" \in gen'.ctl) <=> ("HOLD" \in gen.ctl)
  BY <1>13
<1>17. TypeInvariant'
  BY <1>1, <1>13 DEF TypeInvariant
<1>18. Homing' <=> Homing
  BY <1>1 DEF Homing
<1>19. ControlInvariant' /\ HoldInvariant'
  BY <1>1, <1>16, <1>18 DEF ControlInvariant, HoldInvariant
<1>20. HomingInvariant'
  BY <1>1, <1>5, <1>7, <1>15, <1>16, <1>18 DEF HomingInvariant
<1>21. BlockInvariant'
  BY <1>1, <1>12, <1>15, <1>16 DEF BlockInvariant
<1>22. TableInvariant' /\ StepsAreExact'
  <2>1. CASE n = 0
    BY <1>1, <1>13, <1>14, <2>1, QuietStep DEF Quiet
  <2>2. CASE n # 0
    <3>1. n \in Nat \ {0} /\ gen.prep.steps - n \in Nat /\ gen'.prep.steps = gen.prep.steps - n
      BY <1>3, <1>11, <1>14, <2>2
    <3>2. gen'.queue = Append(gen.queue, [index |-> gen.prep.index, n |-> n])
      BY <1>14, <2>2
    <3> HIDE DEF n
    <3> QED
      BY <1>1, <1>4, <1>13, <3>1, <3>2, NewSegmentStep
  <2> QED
    BY <2>1, <2>2
<1>23. SwitchInvariant'
  <2>1. CASE ~Homing
    BY <1>18, <2>1 DEF SwitchInvariant
  <2>2. CASE Homing /\ homing.approach
    BY <1>1, <1>18, <2>2 DEF SwitchInvariant
  <2>3. CASE Homing /\ ~homing.approach
    <3>1. /\ gen.blocks[gen.prep.index].count = Pulloff /\ gen.blocks[gen.prep.index].forward
          /\ stepper.done > 0 => stepper.index = gen.prep.index
          /\ \A k \in 1..Len(gen.queue) : gen.queue[k].index = gen.prep.index
      BY <1>1, <2>3 DEF SwitchInvariant
    <3>2. \A k \in 1..Len(gen'.queue) : gen'.queue[k].index = gen.prep.index
      <4>1. CASE n = 0
        BY <1>14, <3>1, <4>1
      <4>2. CASE n # 0
        <5>1. gen'.queue = Append(gen.queue, segment) /\ segment.index = gen.prep.index
          BY <1>14, <4>2
        <5>2. segment \in Segments
          BY <1>3, <1>11, <4>2 DEF Segments
        <5> HIDE DEF segment
        <5>3. \A k \in 1..Len(gen'.queue) :
                gen'.queue[k] = IF k <= Len(gen.queue) THEN gen.queue[k] ELSE segment
          BY <1>3, <5>1, <5>2
        <5>4. \A k \in 1..Len(gen'.queue) : k <= Len(gen.queue) => k \in 1..Len(gen.queue)
          BY <1>3
        <5> QED
          BY <3>1, <5>1, <5>3, <5>4
      <4> QED
        BY <4>1, <4>2
    <3>3. gen'.prep.block # NoBlock
      BY <1>1, <1>5, <1>15, <2>3
    <3> QED
      BY <1>1, <1>13, <2>3, <3>1, <3>2, <3>3 DEF SwitchInvariant
  <2> QED
    BY <2>1, <2>2, <2>3
<1> QED
  BY <1>17, <1>19, <1>20, <1>21, <1>22, <1>23

-----------------------------------------------------------------------------
(* The step interrupt.                                                      *)

LEMMA StepStep ==
  ASSUME Invariant, Step
  PROVE  Invariant'
<1> USE DEF Invariant
<1> DEFINE q == gen.queue
           first == q[1].index
           now == IF stepper.left = 0 THEN q[1].n ELSE stepper.left
           done == IF stepper.left = 0 /\ stepper.index # first THEN 0 ELSE stepper.done
           r == IF now = 1 THEN Tail(q) ELSE q
<1>1. /\ gen \in Generators /\ stepper \in Steppers /\ place \in [Axes -> Int]
      /\ homing \in Homings /\ q \in Seq(Segments) /\ q # <<>> /\ stepper.on
      /\ UNCHANGED <<sys, main, homing, host>>
  BY FieldsOfGenerator DEF Step, TypeInvariant
<1>2. Head(q) = q[1] /\ 1 \in 1..Len(q) /\ Len(q) \in Nat
  BY <1>1, EmptySeq
<1>3. /\ gen' = [gen EXCEPT !.queue = r]
      /\ stepper' = [stepper EXCEPT !.index = first, !.left = now - 1, !.done = done + 1]
      /\ place' = [a \in Axes |-> Moved(gen.blocks[first], a)]
  <2>1. gen' = [gen EXCEPT !.queue = IF now = 1 THEN Tail(@) ELSE @]
    BY <1>2 DEF Step
  <2>2. gen' = [gen EXCEPT !.queue = r]
    BY <2>1, Zenon
  <2>3. stepper' = [stepper EXCEPT !.index = first, !.left = now - 1, !.done = done + 1]
    BY <1>2 DEF Step
  <2>4. place' = [a \in Axes |-> Moved(gen.blocks[first], a)]
    BY <1>2 DEF Step
  <2> QED
    BY <2>2, <2>3, <2>4
<1>4. /\ r \in Seq(Segments) /\ Len(r) \in Nat
      /\ \A k \in 1..Len(r) : \E j \in 1..Len(q) : r[k] = q[j]
  <2>1. CASE now = 1
    <3>1. r = Tail(q) /\ Len(r) = Len(q) - 1 /\ r \in Seq(Segments)
      BY <1>1, <2>1
    <3>2. \A k \in 1..Len(r) : r[k] = q[k + 1] /\ k + 1 \in 1..Len(q)
      BY <1>1, <1>2, <3>1
    <3> QED
      BY <1>2, <3>1, <3>2
  <2>2. CASE now # 1
    BY <1>1, <1>2, <2>2
  <2> QED
    BY <2>1, <2>2
<1>5. first \in DataSlots /\ q[1].n \in Nat \ {0}
  BY <1>1, <1>2, SegmentsOf
<1>6. /\ gen' \in Generators /\ gen'.plan = gen.plan /\ gen'.prep = gen.prep /\ gen'.ctl = gen.ctl
      /\ gen'.queue = r /\ gen'.blocks = gen.blocks
  <2> HIDE DEF r
  <2> QED
    BY <1>1, <1>3, <1>4 DEF Generators
<1>7. stepper' \in Steppers /\ stepper'.index = first /\ stepper'.done = done + 1
  <2>1. now - 1 \in Nat /\ done + 1 \in Nat
    BY <1>1, <1>5 DEF Steppers
  <2> HIDE DEF now, done, first
  <2> QED
    BY <1>1, <1>3, <1>5, <2>1 DEF Steppers
<1>8. gen.blocks[first] \in StepData
  BY <1>1, <1>5, FieldsOfGenerator
<1>9. place' \in [Axes -> Int] /\ \A a \in Axes : place'[a] = Moved(gen.blocks[first], a)
  <2>1. \A a \in Axes : Moved(gen.blocks[first], a) \in Int
    BY <1>1 DEF Moved
  <2> QED
    BY <1>3, <2>1
<1>10. TypeInvariant'
  BY <1>1, <1>6, <1>7, <1>9 DEF TypeInvariant
<1>11. Homing' <=> Homing
  BY <1>1 DEF Homing
<1>12. ControlInvariant' /\ HoldInvariant'
  BY <1>1, <1>6, <1>11 DEF ControlInvariant, HoldInvariant
<1>13. main.then # "homed"
  BY <1>1 DEF HomingInvariant
<1>14. HomingInvariant'
  BY <1>1, <1>6, <1>11, <1>13 DEF HomingInvariant
<1>15. BlockInvariant'
  <2>1. BlocksAreWhole(gen')
    BY <1>6 DEF BlockInvariant, BlocksAreWhole, Loaded
  <2> QED
    BY <1>1, <1>6, <2>1 DEF BlockInvariant
<1>16. TableInvariant' /\ StepsAreExact'
  BY <1>1, StepperStep
<1>17. SwitchInvariant'
  <2>1. CASE ~Homing
    BY <1>11, <2>1 DEF SwitchInvariant
  <2>2. CASE Homing
    <3>1. sys.state = "HOMING" /\ homing.axes \subseteq Axes
      BY <1>1, <2>2 DEF HomingInvariant, Homings
    <3>2. CASE homing.approach
      <4>1. ASSUME main.pc # "seek", NEW a \in homing.axes \ homing.lock
            PROVE  place'[a] <= 0
        <5>1. a \in Axes /\ place[a] <= 0
          BY <2>2, <3>1, <3>2, <4>1 DEF SwitchInvariant
        <5>2. place'[a] = place[a]
          BY <1>9, <3>1, <4>1, <5>1 DEF Moved
        <5> QED
          BY <5>1, <5>2
      <4> QED
        BY <1>1, <3>2, <4>1 DEF SwitchInvariant
    <3>3. CASE ~homing.approach
      <4>1. /\ gen.prep.block # NoBlock /\ gen.blocks[gen.prep.index].count = Pulloff
            /\ gen.blocks[gen.prep.index].forward
            /\ stepper.done > 0 => stepper.index = gen.prep.index
            /\ \A k \in 1..Len(q) : q[k].index = gen.prep.index
        BY <1>1, <2>2, <3>3 DEF SwitchInvariant
      <4>2. first = gen.prep.index /\ gen.blocks[first].forward
        BY <1>2, <4>1
      <4>3. stepper'.done = stepper.done + 1
        BY <1>1, <1>7, <4>1, <4>2 DEF Steppers
      <4>4. \A a \in homing.axes : place'[a] \in {place[a], place[a] + 1}
        BY <1>9, <3>1, <4>2 DEF Moved
      <4>5. \A a \in homing.axes : place[a] \in Int /\ place[a] <= stepper.done
        BY <1>1, <2>2, <3>1, <3>3 DEF SwitchInvariant
      <4>6. stepper.done \in Nat
        BY <1>1 DEF Steppers
      <4>7. \A a \in homing.axes : place'[a] <= stepper'.done
        BY <4>3, <4>4, <4>5, <4>6
      <4>8. main.pc = "reverse" => \A a \in homing.axes : place'[a] > 0
        BY <2>2, <3>3, <4>4, <4>5 DEF SwitchInvariant
      <4>9. \A k \in 1..Len(gen'.queue) : gen'.queue[k].index = gen.prep.index
        BY <1>4, <1>6, <4>1
      <4>10. main.pc # "seek" => homing.lock = homing.axes
        BY <2>2, <3>3 DEF SwitchInvariant
      <4> HIDE DEF first, done, r, now
      <4> QED
        BY <1>1, <1>6, <1>7, <3>3, <4>1, <4>2, <4>7, <4>8, <4>9, <4>10 DEF SwitchInvariant
    <3> QED
      BY <3>2, <3>3
  <2> QED
    BY <2>1, <2>2
<1> QED
  BY <1>10, <1>12, <1>14, <1>15, <1>16, <1>17

-----------------------------------------------------------------------------
(* The beginning, and all steps.                                            *)

LEMMA InitStep ==
  ASSUME Init
  PROVE  Invariant
<1> DEFINE data == [count |-> 0, axes |-> {}, forward |-> TRUE]
           over == [f |-> 2, r |-> 2]
           blocks == [i \in 0..SegmentBufferSize - 2 |-> data]
<1>1. /\ gen = [plan |-> EmptyPlan, prep |-> NoPrep, ctl |-> {}, over |-> over, queue |-> <<>>,
                blocks |-> blocks]
      /\ sys = [state |-> "IDLE", suspend |-> {}, flags |-> {}, wanted |-> over]
      /\ stepper = [on |-> FALSE, index |-> 0, left |-> 0, done |-> 0]
      /\ main = [pc |-> "loop", then |-> "loop", rt |-> {}, line |-> NoLine]
      /\ homing = NotHoming /\ host \in Scenarios /\ place \in [Axes -> host.starts]
  BY DEF Init
<1>2. EmptyPlan \in Plans /\ IsEmpty(EmptyPlan)
  BY NothingPlanned
<1>3. NoPrep \in Preps /\ over \in Overrides /\ <<>> \in Seq(Segments)
  BY NothingPrepared DEF Overrides
<1>4. blocks \in [DataSlots -> StepData]
  BY DEF DataSlots, StepData
<1> HIDE DEF over, blocks
<1>5. /\ gen \in Generators /\ gen.plan = EmptyPlan /\ gen.prep = NoPrep /\ gen.ctl = {}
      /\ gen.queue = <<>>
  BY <1>1, <1>2, <1>3, <1>4 DEF Generators
<1>6. sys \in SystemStates /\ sys.suspend = {}
  BY <1>1, <1>3 DEF SystemStates
<1>7. main \in MainStates /\ main.pc = "loop" /\ main.then = "loop" /\ main.rt = {}
  BY <1>1 DEF MainStates, ControlPoints
<1>8. homing \in Homings
  BY <1>1 DEF NotHoming, Homings
<1>9. stepper \in Steppers
  BY <1>1, IndexZero DEF Steppers
<1>10. host \in Hosts /\ place \in [Axes -> Int]
  <2>1. host \in Hosts
    BY <1>1, MotionAssumption
  <2>2. host.starts \subseteq -HardStop..SearchTravel
    BY <2>1 DEF Hosts
  <2>3. -HardStop..SearchTravel \subseteq Int
    BY MotionAssumption
  <2> QED
    BY <1>1, <2>1, <2>2, <2>3
<1>11. ~Homing
  BY <1>7 DEF Homing
<1>12. TypeInvariant
  BY <1>5, <1>6, <1>7, <1>8, <1>9, <1>10 DEF TypeInvariant
<1>13. ControlInvariant /\ HoldInvariant /\ HomingInvariant /\ SwitchInvariant
  BY <1>5, <1>6, <1>7, <1>11 DEF ControlInvariant, HoldInvariant, HomingInvariant, SwitchInvariant
<1>14. BlockInvariant
  BY <1>2, <1>5, NothingIsWhole DEF BlockInvariant
<1>15. /\ gen.prep.index = 0 /\ gen.prep.steps = 0 /\ Len(gen.queue) = 0
       /\ stepper.index = 0 /\ stepper.left = 0 /\ stepper.done = 0
  BY <1>1, <1>5 DEF NoPrep
<1>16. LastIndex = 0
  BY <1>1, <1>5 DEF LastIndex
<1>17. TableInvariant
  BY <1>15, <1>16, SegmentAssumption DEF TableInvariant
<1>18. StepsAreExact
  BY <1>15 DEF StepsAreExact
<1> QED
  BY <1>12, <1>13, <1>14, <1>17, <1>18 DEF Invariant

LEMMA Stutters ==
  ASSUME Invariant, UNCHANGED vars
  PROVE  Invariant'
<1> USE DEF Invariant
<1>1. UNCHANGED <<gen, sys, stepper, main, homing, place, host>>
  BY DEF vars
<1>2. Homing' <=> Homing
  BY <1>1 DEF Homing
<1>3. TypeInvariant' /\ ControlInvariant' /\ HoldInvariant' /\ HomingInvariant' /\ SwitchInvariant'
  BY <1>1, <1>2
    DEF TypeInvariant, ControlInvariant, HoldInvariant, HomingInvariant, SwitchInvariant
<1>4. BlocksAreWhole(gen)'
  BY <1>1 DEF BlockInvariant
<1>5. BlockInvariant'
  BY <1>1, <1>4 DEF BlockInvariant
<1>6. TableInvariant' /\ StepsAreExact'
  BY <1>1, QuietStep DEF Quiet
<1> QED
  BY <1>3, <1>5, <1>6

LEMMA NextStep ==
  ASSUME Invariant, [Next]_vars, HomeBegin => IsEmpty(gen.plan)
  PROVE  Invariant'
<1>1. CASE Exec
  BY <1>1, ExecStep
<1>2. CASE WakeUp
  BY <1>2, WakeUpStep
<1>3. CASE PrepLoad
  BY <1>3, PrepLoadStep
<1>4. CASE PrepSegment
  BY <1>4, PrepSegmentStep
<1>5. CASE PrepDone
  BY <1>5, PrepDoneStep
<1>6. CASE NothingReceived \/ LineReceived \/ LineWaits \/ HomeReceived \/ HomeRefused
  BY <1>6, LoopStep
<1>7. CASE LineBuffered
  BY <1>7, LineBufferedStep
<1>8. CASE HomeBegin
  BY <1>8, HomeBeginStep
<1>9. CASE HomeSeek
  BY <1>9, HomeSeekStep
<1>10. CASE HomeMove
  BY <1>10, HomeMoveStep
<1>11. CASE HomeLimits
  BY <1>11, HomeLimitsStep
<1>12. CASE HomeOn \/ HomePulledOff
  BY <1>12, HomeCheckStep
<1>13. CASE HomeFail
  BY <1>13, HomeFailStep
<1>14. CASE HomeReverse
  <2>1. CASE homing.n > 0
    BY <1>14, <2>1, HomeTurnStep
  <2>2. CASE homing.n = 0
    BY <1>14, <2>2, HomeLastStep
  <2> QED
    BY <1>14, <2>1, <2>2 DEF HomeReverse
<1>15. CASE HomeEnd
  BY <1>15, HomeEndStep
<1>16. CASE Step
  BY <1>16, StepStep
<1>17. CASE ShutDown
  BY <1>17, ShutDownStep
<1>18. CASE Hold \/ Resume \/ Override
  BY <1>18, HostStep
<1>19. CASE UNCHANGED vars
  BY <1>19, Stutters
<1> QED
  BY <1>1, <1>2, <1>3, <1>4, <1>5, <1>6, <1>7, <1>8, <1>9, <1>10, <1>11, <1>12, <1>13, <1>14,
     <1>15, <1>16, <1>17, <1>18, <1>19 DEF Next, MainProgram, Interrupt

\* The planner, the segment generator, the step interrupt and the homing cycle keep the
\* invariant, as long as each homing cycle begins with an empty planner.
THEOREM InvariantHolds == HomesWithNothingPlanned /\ Spec => []Invariant
<1>1. Init => Invariant
  BY InitStep
<1>2. Invariant /\ [Next]_vars /\ [HomeBegin => IsEmpty(gen.plan)]_vars => Invariant'
  <2>1. CASE UNCHANGED vars
    BY <2>1, Stutters
  <2>2. CASE HomeBegin => IsEmpty(gen.plan)
    BY <2>2, NextStep
  <2> QED
    BY <2>1, <2>2
<1> QED
  BY <1>1, <1>2, PTL DEF Spec, HomesWithNothingPlanned

\* No step of a block is lost or made twice, whatever holds, resumes and overrides
\* interrupt it.
THEOREM StepsAreExactAlways == HomesWithNothingPlanned /\ Spec => []StepsAreExact
<1>1. Invariant => StepsAreExact
  BY DEF Invariant
<1> QED
  BY <1>1, InvariantHolds, PTL

\* When the position is set at the end of a homing cycle, every axis of the cycle is off
\* its switch, and not by more than the pull-off.
THEOREM HomedAtSwitchAlways == HomesWithNothingPlanned /\ Spec => []HomedAtSwitch
<1>1. Invariant => HomedAtSwitch
  BY DEF Invariant, ControlInvariant, HomingInvariant, HomedAtSwitch, At
<1> QED
  BY <1>1, InvariantHolds, PTL

\* The types of the generator, the executor, the step interrupt and the homing cycle.
THEOREM MotionTypeAlways == HomesWithNothingPlanned /\ Spec => []MotionType
<1>1. Invariant => MotionType
  <2> SUFFICES ASSUME Invariant PROVE MotionType
    OBVIOUS
  <2>1. /\ gen \in Generators /\ sys \in SystemStates /\ stepper \in Steppers
        /\ place \in [Axes -> Int] /\ Len(gen.queue) < SegmentBufferSize
    BY DEF Invariant, TypeInvariant, TableInvariant
  <2>2. gen.plan.tail \in Slots /\ gen.plan.head \in Slots /\ gen.plan.planned \in Slots
    BY <2>1, FieldsOfGenerator DEF Plans
  <2>3. /\ gen.prep.block \in Slots \cup {NoBlock}
        /\ gen.prep.flags \subseteq {"RECALCULATE", "DECEL_OVERRIDE"}
        /\ gen.prep.cur \in Nat /\ gen.prep.exit \in Nat /\ gen.prep.steps \in Nat
    BY <2>1, FieldsOfGenerator DEF Preps
  <2>4. \A i \in DOMAIN gen.queue : gen.queue[i].n \in Nat \ {0}
    BY <2>1, FieldsOfGenerator, SegmentsOf
  <2>5. gen.ctl \subseteq {"HOLD", "END_MOTION", "SYS_MOTION"}
    BY <2>1, FieldsOfGenerator
  <2>6. /\ sys.state \in {"IDLE", "CYCLE", "HOLD", "HOMING", "ALARM"}
        /\ sys.suspend \subseteq {"COMPLETE"} /\ sys.flags \subseteq {"HOLD", "START", "STOP"}
    BY <2>1 DEF SystemStates
  <2>7. /\ stepper.index \in 0..SegmentBufferSize - 2 /\ stepper.left \in Nat
        /\ stepper.done \in Nat
    BY <2>1 DEF Steppers, DataSlots
  <2> QED
    BY <2>1, <2>2, <2>3, <2>4, <2>5, <2>6, <2>7 DEF MotionType
<1> QED
  BY <1>1, InvariantHolds, PTL
=============================================================================
