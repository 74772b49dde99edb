--------------------------- MODULE ProgramProofs ---------------------------
(***************************************************************************)
(* The machine stays in its travel and the blocks of the planner end where *)
(* the planner says, for every program, travel, arc, queue and number of   *)
(* resets and power failures.                                              *)
(***************************************************************************)
EXTENDS GcodeProofs

\* What the variables hold.
GcShape(g) == Tracked \subseteq DOMAIN g /\ GoodParser(g)
MachineShape(k) ==
  DOMAIN k = {"state", "pos", "moving", "mode"} /\ k.pos \in Vector /\ k.moving \in BOOLEAN
PlanShape(p) == p \in [queue : Seq(Vector), pos : Vector]
RtShape(r) == DOMAIN r = {"flags", "alarm"}
MainShape(w) ==
  /\ DOMAIN w = {"pc", "todo", "startup", "abort", "contact"}
  /\ w.startup \in Seq(StartupLines) /\ w.abort \in BOOLEAN /\ w.contact \in BOOLEAN
EepromShape ==
  eeprom \in [records : [Records -> [data : Vector, sum : Int]], startup : [StartupLines -> Lines]]
HistShape ==
  /\ DOMAIN hist = {"program", "resets", "fails", "programmed"}
  /\ hist.program \in Seq([kind : STRING, words : Lines])

-----------------------------------------------------------------------------
(* What is left to do.                                                      *)

Has(todo, K) == \E i \in 1..Len(todo) : todo[i].do \in K
InTravel(target) == SoftLimits => ~OutOfTravel(target)
HomingKinds == {"home", "homed"}

\* The main program waits in its first action.
WaitsInAction(w) ==
  /\ w.pc \in {"boot", "idle"} => w.todo = <<>> /\ w.startup = <<>>
  /\ w.pc \in {"line", "critical"} => w.todo # <<>> /\ w.todo[1].do = "line"
  /\ w.pc = "probing" => w.todo # <<>> /\ w.todo[1].do = "probe_run"
  /\ w.pc = "sync" => w.todo # <<>> /\ w.todo[1].do \in {"sync", "outputs"}
  /\ w.pc = "line" => InTravel(w.todo[1].target)

\* While the machine jogs, or is about to, only the jog is left to do, and it
\* ends in the travel.
JogsAlone(k, w) ==
  k.state = "JOG" \/ Has(w.todo, {"jog"}) =>
    /\ OfKinds(w.todo, JogKinds) /\ w.startup = <<>>
    /\ \A i \in 1..Len(w.todo) : w.todo[i].do = "line" => InTravel(w.todo[i].target)

\* Nothing is queued while the machine homes.
HomesAlone(p, w) == Has(w.todo, HomingKinds) => OfKinds(w.todo, HomingKinds) /\ p.queue = <<>>

\* The blocks of the queue end in the travel, the last where the planner says,
\* but for a homing cycle that has not told the planner, and never will if it is
\* aborted.
EndsInTravel(pos, queue) == \A i \in 0..Len(queue) : InTravel(Ends(pos, queue)[i])
EndOf(pos, queue) == Ends(pos, queue)[Len(queue)]

PlanAgrees(k, p, w) ==
  EndOf(k.pos, p.queue) = p.pos \/ (p.queue = <<>> /\ (w.abort \/ Has(w.todo, HomingKinds)))

\* What is left to do, and where the blocks end.
Work(k, p, w) ==
  Chain(w.todo) /\ WaitsInAction(w) /\ JogsAlone(k, w) /\ HomesAlone(p, w)

Blocks(k, p, w) == EndsInTravel(k.pos, p.queue) /\ PlanAgrees(k, p, w)

Shapes ==
  /\ GcShape(gc) /\ MachineShape(machine) /\ PlanShape(plan) /\ RtShape(rt) /\ MainShape(main)
  /\ EepromShape /\ HistShape

Inv == Shapes /\ Work(machine, plan, main) /\ Blocks(machine, plan, main)

-----------------------------------------------------------------------------
(* Where the blocks of a queue end.                                         *)

LEMMA EndsDefined ==
  ASSUME NEW pos \in Vector, NEW queue \in Seq(Vector)
  PROVE  /\ Ends(pos, queue) \in [0..Len(queue) -> Vector] /\ Ends(pos, queue)[0] = pos
         /\ \A i \in 1..Len(queue) : Ends(pos, queue)[i] = Plus(Ends(pos, queue)[i - 1], queue[i])
<1> DEFINE N == Len(queue)
           S == Vector
           F == [x \in (1..N) \X S |-> Plus(x[2], queue[x[1]])]
           Step(e, i) == IF i = 0 THEN pos ELSE Plus(e[i - 1], queue[i])
           Is(e) == e = [i \in 0..N |-> Step(e, i)]
           e == CHOOSE r : Is(r)
<1>1. N \in Nat /\ \A i \in 1..N : queue[i] \in Vector
  OBVIOUS
<1>2. \A u, v \in Vector : Plus(u, v) \in Vector
  BY DEF Plus, Vector
<1>3. F \in [(1..N) \X S -> S]
  BY <1>1, <1>2
<1> HIDE DEF S
<1>4. \E r : Is(r) /\ r \in [0..N -> S]
  <2>1. pos \in S
    BY DEF S
  <2> HIDE DEF N, F, Step, Is, e
  <2>2. PICK r \in [0..N -> S] : Recursive(r, N, pos, F)
    BY <1>1, <1>3, <2>1, RecursionExists
  <2>3. ASSUME NEW i \in 0..N PROVE r[i] = Step(r, i)
    <3>1. CASE i = 0
      BY <1>1, <2>2, <3>1 DEF Step, Recursive
    <3>2. CASE i # 0
      <4>1. i \in 1..N /\ r[i - 1] \in S /\ r[i] = F[<<i, r[i - 1]>>]
        BY <1>1, <2>2, <3>2 DEF Recursive
      <4>2. F[<<i, r[i - 1]>>] = Plus(r[i - 1], queue[i])
        BY <4>1 DEF F
      <4>3. QED
        BY <3>2, <4>1, <4>2 DEF Step
    <3>3. QED
      BY <3>1, <3>2
  <2>4. r = [i \in 0..N |-> Step(r, i)]
    BY <2>3
  <2>5. QED
    BY <2>2, <2>4 DEF Is
<1>5. Is(e)
  BY <1>4, Zenon
<1>6. Ends(pos, queue) = e
  BY Zenon DEF Ends
<1> HIDE DEF e
<1>7. /\ DOMAIN e = 0..N /\ e = [i \in 0..N |-> e[i]] /\ e[0] = pos
      /\ \A i \in 1..N : e[i] = Plus(e[i - 1], queue[i])
  <2>1. e = [i \in 0..N |-> Step(e, i)]
    BY <1>5
  <2> HIDE DEF Step
  <2>2. DOMAIN e = 0..N /\ (\A i \in 0..N : e[i] = Step(e, i)) /\ e = [i \in 0..N |-> e[i]]
    BY <2>1
  <2>3. QED
    BY <1>1, <2>2 DEF Step
<1>8. \A i \in 0..N : e[i] \in Vector
  <2> HIDE DEF N
  <2>1. \A i \in 1..N : e[i - 1] \in Vector => e[i] \in Vector
    BY <1>1, <1>2, <1>7
  <2>2. e[0] \in Vector
    BY <1>7
  <2>3. QED
    BY <1>1, <2>1, <2>2, IntervalInduction
<1>9. QED
  BY <1>6, <1>7, <1>8

\* Any other function that adds up the blocks.
LEMMA EndsUnique ==
  ASSUME NEW pos \in Vector, NEW queue \in Seq(Vector), NEW f, f[0] = pos,
         \A i \in 1..Len(queue) : f[i] = Plus(f[i - 1], queue[i])
  PROVE  \A i \in 0..Len(queue) : f[i] = Ends(pos, queue)[i]
<1> DEFINE N == Len(queue)
           e == Ends(pos, queue)
           r == [i \in 0..N |-> f[i] = e[i]]
           S == {TRUE}
<1>1. N \in Nat /\ e[0] = pos /\ \A i \in 1..N : e[i] = Plus(e[i - 1], queue[i])
  BY EndsDefined
<1> HIDE DEF N, e
<1>2. \A i \in 0..N : r[i] \in S <=> f[i] = e[i]
  OBVIOUS
<1>3. \A i \in 1..N : r[i - 1] \in S => r[i] \in S
  <2> HIDE DEF r, S
  <2>1. QED
    BY <1>1, <1>2 DEF N
<1>4. r[0] \in S
  <2> HIDE DEF r, S
  <2>1. QED
    BY <1>1, <1>2
<1> HIDE DEF r, S
<1>5. \A i \in 0..N : r[i] \in S
  BY <1>1, <1>3, <1>4, IntervalInduction, Zenon
<1>6. QED
  BY <1>2, <1>5 DEF N, e

LEMMA EmptyQueue ==
  ASSUME NEW pos \in Vector
  PROVE  /\ EndOf(pos, <<>>) = pos /\ (EndsInTravel(pos, <<>>) <=> InTravel(pos))
         /\ <<>> \in Seq(Vector)
<1>1. <<>> \in Seq(Vector) /\ Len(<<>>) = 0
  OBVIOUS
<1>2. Ends(pos, <<>>)[0] = pos
  BY <1>1, EndsDefined
<1>3. \A i \in 0..0 : i = 0
  OBVIOUS
<1>4. EndOf(pos, <<>>) = pos
  BY <1>1, <1>2 DEF EndOf
<1>5. EndsInTravel(pos, <<>>) <=> \A i \in 0..0 : InTravel(Ends(pos, <<>>)[i])
  BY <1>1 DEF EndsInTravel
<1>6. QED
  BY <1>1, <1>2, <1>3, <1>4, <1>5

LEMMA StartsInTravel ==
  ASSUME NEW pos \in Vector, NEW queue \in Seq(Vector), EndsInTravel(pos, queue)
  PROVE  InTravel(pos)
BY EndsDefined DEF EndsInTravel

LEMMA AppendedBlock ==
  ASSUME NEW pos \in Vector, NEW queue \in Seq(Vector), NEW v \in Vector
  PROVE  /\ EndOf(pos, Append(queue, v)) = Plus(EndOf(pos, queue), v)
         /\ EndsInTravel(pos, queue) /\ InTravel(Plus(EndOf(pos, queue), v))
              => EndsInTravel(pos, Append(queue, v))
<1> DEFINE q == Append(queue, v)
           N == Len(queue)
           e == Ends(pos, queue)
           d == Ends(pos, q)
<1>1. /\ N \in Nat /\ q \in Seq(Vector) /\ Len(q) = N + 1 /\ q[N + 1] = v
      /\ \A i \in 1..N : q[i] = queue[i]
  OBVIOUS
<1> HIDE DEF q
<1>2. d[0] = pos /\ \A i \in 1..Len(q) : d[i] = Plus(d[i - 1], q[i])
  BY <1>1, EndsDefined
<1> HIDE DEF d
<1>3. \A i \in 0..N : d[i] = e[i]
  <2>1. \A i \in 1..N : d[i] = Plus(d[i - 1], queue[i])
    BY <1>1, <1>2
  <2>2. QED
    BY <1>2, <2>1, EndsUnique
<1> HIDE DEF e, N
<1>4. d[N + 1] = Plus(e[N], v)
  BY <1>1, <1>2, <1>3
<1>5. EndOf(pos, q) = d[N + 1] /\ EndOf(pos, queue) = e[N]
  BY <1>1 DEF EndOf, d, e, N
<1>6. \A i \in 0..(N + 1) : i \in 0..N \/ i = N + 1
  BY <1>1
<1>7. /\ EndsInTravel(pos, queue) <=> \A i \in 0..N : InTravel(e[i])
      /\ EndsInTravel(pos, q) <=> \A i \in 0..(N + 1) : InTravel(d[i])
  BY <1>1 DEF EndsInTravel, d, e, N
<1>8. QED
  BY <1>3, <1>4, <1>5, <1>6, <1>7 DEF q

\* The first block done, and the rest of it.
LEMMA FinishedBlock ==
  ASSUME NEW pos \in Vector, NEW queue \in Seq(Vector), queue # <<>>
  PROVE  /\ EndOf(Plus(pos, Head(queue)), Tail(queue)) = EndOf(pos, queue)
         /\ EndsInTravel(pos, queue) => EndsInTravel(Plus(pos, Head(queue)), Tail(queue))
         /\ EndsInTravel(pos, queue) => InTravel(Plus(pos, Head(queue)))
<1> DEFINE q == Tail(queue)
           N == Len(queue)
           e == Ends(pos, queue)
           p == Plus(pos, Head(queue))
           d == Ends(p, q)
           f == [i \in 0..(N - 1) |-> e[i + 1]]
<1>1. /\ N \in Nat \ {0} /\ q \in Seq(Vector) /\ Len(q) = N - 1 /\ Head(queue) = queue[1]
      /\ \A i \in 1..(N - 1) : q[i] = queue[i + 1]
      /\ queue[1] \in Vector
  <2>1. N \in Nat \ {0}
    BY EmptySeq
  <2>2. q \in Seq(Vector) /\ Len(q) = N - 1 /\ Head(queue) = queue[1] /\ queue[1] \in Vector
    BY <2>1
  <2>3. \A i \in 1..(N - 1) : q[i] = queue[i + 1]
    BY <2>1
  <2>4. QED
    BY <2>1, <2>2, <2>3
<1> HIDE DEF q
<1>2. e[0] = pos /\ \A i \in 1..N : e[i] = Plus(e[i - 1], queue[i])
  BY EndsDefined
<1> HIDE DEF e
<1>3. p \in Vector /\ e[1] = p
  <2>1. p \in Vector
    BY <1>1, PointsAreVectors
  <2>2. e[1] = Plus(e[1 - 1], queue[1])
    BY <1>1, <1>2
  <2>3. QED
    BY <1>1, <1>2, <2>1, <2>2
<1> HIDE DEF p, N
<1>4. \A i \in 0..(N - 1) : f[i] = e[i + 1]
  OBVIOUS
<1> HIDE DEF f
<1>5. f[0] = p /\ \A i \in 1..(N - 1) : f[i] = Plus(f[i - 1], q[i])
  <2>1. f[0] = p
    BY <1>1, <1>3, <1>4
  <2>2. ASSUME NEW i \in 1..(N - 1) PROVE f[i] = Plus(f[i - 1], q[i])
    <3>1. i + 1 \in 1..N /\ (i + 1) - 1 = i /\ i - 1 \in 0..(N - 1) /\ (i - 1) + 1 = i /\ i \in 0..(N - 1)
      BY <1>1
    <3>2. QED
      BY <1>1, <1>2, <1>4, <3>1
  <2>3. QED
    BY <2>1, <2>2
<1>6. \A i \in 0..(N - 1) : f[i] = d[i]
  <2>1. \A i \in 1..Len(q) : f[i] = Plus(f[i - 1], q[i])
    BY <1>1, <1>5
  <2> HIDE DEF d
  <2>2. p \in Vector /\ q \in Seq(Vector) /\ f[0] = p
    BY <1>1, <1>3, <1>5
  <2>3. \A i \in 0..Len(q) : f[i] = Ends(p, q)[i]
    BY <2>1, <2>2, EndsUnique
  <2>4. QED
    BY <1>1, <2>3 DEF d
<1> HIDE DEF d
<1>7. EndOf(p, q) = d[N - 1] /\ EndOf(pos, queue) = e[N]
  BY <1>1 DEF EndOf, d, e, N
<1>8. /\ EndsInTravel(pos, queue) <=> \A i \in 0..N : InTravel(e[i])
      /\ EndsInTravel(p, q) <=> \A i \in 0..(N - 1) : InTravel(d[i])
  BY <1>1 DEF EndsInTravel, d, e, N
<1>9. /\ N - 1 \in 0..(N - 1) /\ (N - 1) + 1 = N /\ 1 \in 0..N
      /\ \A i \in 0..(N - 1) : i + 1 \in 0..N
  BY <1>1
<1>10. QED
  BY <1>3, <1>4, <1>6, <1>7, <1>8, <1>9 DEF p, q

Halved(steps) == [a \in Axes |-> steps[a] \div 2]

\* Half way between two points of the travel.
LEMMA HalfInTravel ==
  ASSUME NEW pos \in Vector, NEW steps \in Vector, InTravel(pos), InTravel(Plus(pos, steps))
  PROVE  InTravel(Plus(pos, Halved(steps)))
<1> SUFFICES ASSUME SoftLimits, NEW a \in Axes, MaxTravel[a] # 0
             PROVE  LET h == pos[a] + (steps[a] \div 2)
                        reach == IF a \in HomingDirMask THEN h ELSE -h
                    IN ~(reach < 0 \/ reach > MaxTravel[a])
  BY DEF InTravel, OutOfTravel, Plus, Halved
<1> DEFINE x == pos[a] s == steps[a] M == MaxTravel[a]
<1>1. x \in Int /\ s \in Int /\ M \in Nat
  BY TravelAssumption DEF Vector
<1>2. LET r1 == IF a \in HomingDirMask THEN x ELSE -x
          r2 == IF a \in HomingDirMask THEN x + s ELSE -(x + s)
      IN ~(r1 < 0 \/ r1 > M) /\ ~(r2 < 0 \/ r2 > M)
  BY DEF InTravel, OutOfTravel, Plus
<1> HIDE DEF x, s, M
<1>3. LET h == x + (s \div 2)
          reach == IF a \in HomingDirMask THEN h ELSE -h
      IN ~(reach < 0 \/ reach > M)
  BY <1>1, <1>2
<1>4. QED
  BY <1>3 DEF x, s, M

LEMMA HalfOfBlock ==
  ASSUME NEW steps \in Vector
  PROVE  /\ Halved(steps) \in Vector /\ Minus(steps, Halved(steps)) \in Vector
         /\ \A pos \in Vector :
              Plus(Plus(pos, Halved(steps)), Minus(steps, Halved(steps))) = Plus(pos, steps)
         /\ Minus(steps, Halved(steps)) = Origin => Halved(steps) = steps
<1>1. \A a \in Axes : steps[a] \in Int /\ steps[a] \div 2 \in Int
  BY DEF Vector
<1> DEFINE h == Halved(steps) r == Minus(steps, h)
<1>2. h = [a \in Axes |-> steps[a] \div 2] /\ r = [a \in Axes |-> steps[a] - h[a]]
  BY DEF Halved, Minus
<1> HIDE DEF h, r
<1>3. h \in Vector /\ r \in Vector
  BY <1>1, <1>2 DEF Vector
<1>4. \A a \in Axes : h[a] \in Int /\ r[a] \in Int /\ r[a] = steps[a] - h[a]
  BY <1>1, <1>2
<1>5. ASSUME NEW pos \in Vector PROVE Plus(Plus(pos, h), r) = Plus(pos, steps)
  <2>1. \A a \in Axes : pos[a] \in Int
    BY DEF Vector
  <2>2. \A a \in Axes : (pos[a] + h[a]) + r[a] = pos[a] + steps[a]
    BY <1>1, <1>4, <2>1
  <2>3. QED
    BY <2>2 DEF Plus
<1>6. ASSUME r = Origin PROVE h = steps
  <2>1. \A a \in Axes : h[a] = steps[a]
    BY <1>1, <1>4, <1>6 DEF Origin
  <2>2. QED
    BY <1>3, <2>1 DEF Vector
<1>7. QED
  BY <1>3, <1>5, <1>6 DEF h, r

LEMMA HalfBlock ==
  ASSUME NEW pos \in Vector, NEW queue \in Seq(Vector), queue # <<>>
  PROVE  LET half == Halved(Head(queue))
             rest == Minus(Head(queue), half)
             left == <<rest>> \o Tail(queue)
         IN /\ left \in Seq(Vector)
            /\ EndOf(Plus(pos, half), left) = EndOf(pos, queue)
            /\ EndsInTravel(pos, queue) => EndsInTravel(Plus(pos, half), left)
<1> DEFINE N == Len(queue)
           half == Halved(Head(queue))
           rest == Minus(Head(queue), half)
           q == <<rest>> \o Tail(queue)
           e == Ends(pos, queue)
           p == Plus(pos, half)
           d == Ends(p, q)
           f == [i \in 0..N |-> IF i = 0 THEN p ELSE e[i]]
<1>1. /\ N \in Nat \ {0} /\ Head(queue) = queue[1] /\ queue[1] \in Vector
      /\ Tail(queue) \in Seq(Vector) /\ Len(Tail(queue)) = N - 1
      /\ \A i \in 1..(N - 1) : Tail(queue)[i] = queue[i + 1]
  BY EmptySeq, HeadTailProperties
<1>2. half \in Vector /\ rest \in Vector /\ Plus(p, rest) = Plus(pos, queue[1])
  BY <1>1, HalfOfBlock
<1>3. p \in Vector
  BY <1>2, PointsAreVectors
<1> HIDE DEF half, rest
<1>4. q \in Seq(Vector) /\ Len(q) = N /\ q[1] = rest /\ \A i \in 2..N : q[i] = queue[i]
  <2>1. q \in Seq(Vector) /\ Len(q) = N /\ q[1] = rest
    BY <1>1, <1>2
  <2>2. ASSUME NEW i \in 2..N PROVE q[i] = queue[i]
    <3>1. i - 1 \in 1..(N - 1) /\ (i - 1) + 1 = i
      BY <1>1
    <3>2. q[i] = Tail(queue)[i - 1]
      BY <1>1, <1>2, <3>1
    <3>3. QED
      BY <1>1, <3>1, <3>2
  <2>3. QED
    BY <2>1, <2>2
<1> HIDE DEF q
<1>5. e[0] = pos /\ \A i \in 1..Len(queue) : e[i] = Plus(e[i - 1], queue[i])
  BY EndsDefined
<1> HIDE DEF e
<1>6. e[1] = Plus(pos, queue[1])
  <2>1. 1 \in 1..Len(queue) /\ 1 - 1 = 0
    BY <1>1
  <2>2. QED
    BY <1>5, <2>1
<1> HIDE DEF p
<1>7. f[0] = p /\ \A i \in 1..N : f[i] = e[i]
  BY <1>1
<1> HIDE DEF f
<1>8. \A i \in 1..Len(q) : f[i] = Plus(f[i - 1], q[i])
  <2> SUFFICES ASSUME NEW i \in 1..N PROVE f[i] = Plus(f[i - 1], q[i])
    BY <1>4
  <2>1. CASE i = 1
    <3>1. f[1] = e[1] /\ f[1 - 1] = p /\ q[1] = rest
      BY <1>1, <1>4, <1>7
    <3>2. e[1] = Plus(p, rest)
      BY <1>2, <1>6
    <3>3. QED
      BY <2>1, <3>1, <3>2
  <2>2. CASE i # 1
    <3>1. i \in 2..N /\ i - 1 \in 1..N
      BY <1>1, <2>2
    <3>2. f[i] = e[i] /\ f[i - 1] = e[i - 1] /\ q[i] = queue[i] /\ e[i] = Plus(e[i - 1], queue[i])
      BY <1>4, <1>5, <1>7, <3>1
    <3>3. QED
      BY <3>2
  <2>3. QED
    BY <2>1, <2>2
<1>9. \A i \in 0..N : f[i] = d[i]
  <2> HIDE DEF d
  <2>1. \A i \in 0..Len(q) : f[i] = Ends(p, q)[i]
    BY <1>3, <1>4, <1>7, <1>8, EndsUnique
  <2>2. QED
    BY <1>4, <2>1 DEF d
<1> HIDE DEF d
<1>10. EndOf(p, q) = d[N] /\ EndOf(pos, queue) = e[N]
  BY <1>4 DEF EndOf, d, e
<1>11. EndsInTravel(pos, queue) => EndsInTravel(p, q)
  <2> SUFFICES ASSUME EndsInTravel(pos, queue), NEW i \in 0..N PROVE InTravel(d[i])
    BY <1>4 DEF EndsInTravel, d
  <2>1. InTravel(e[0]) /\ InTravel(e[1]) /\ InTravel(e[i])
    BY <1>1 DEF EndsInTravel, e
  <2>2. CASE i = 0
    <3>1. InTravel(p)
      BY <1>1, <1>5, <1>6, <2>1, HalfInTravel DEF p, half
    <3>2. d[0] = p
      BY <1>1, <1>7, <1>9
    <3>3. QED
      BY <2>2, <3>1, <3>2
  <2>3. CASE i # 0
    BY <1>1, <1>7, <1>9, <2>1, <2>3
  <2>4. QED
    BY <2>2, <2>3
<1>12. EndOf(p, q) = EndOf(pos, queue)
  <2>1. N \in 1..N /\ N \in 0..N
    BY <1>1
  <2>2. QED
    BY <1>7, <1>9, <1>10, <2>1
<1>13. QED
  BY <1>4, <1>11, <1>12 DEF p, q, half, rest

-----------------------------------------------------------------------------
(* What is left to do, after an action.                                     *)

Plain(todo) == ~Has(todo, {"jog"} \cup HomingKinds)

LEMMA ChainLength ==
  ASSUME NEW s, Chain(s)
  PROVE  Len(s) \in Nat /\ (s = <<>> <=> Len(s) = 0) /\ (s # <<>> => 1 \in 1..Len(s) /\ Head(s) = s[1])
<1>1. s \in Seq({s[i] : i \in DOMAIN s})
  BY DEF Chain, IsSeq
<1>2. PICK S : s \in Seq(S)
  BY <1>1
<1>3. QED
  BY <1>2, EmptySeq

\* An action that is neither of a jog nor of homing stands among its like.
LEMMA PlainWork ==
  ASSUME NEW k, NEW p, NEW w, Work(k, p, w), w.todo # <<>>,
         w.todo[1].do \notin JogKinds \cup HomingKinds
  PROVE  Plain(w.todo) /\ k.state # "JOG"
<1>1. 1 \in 1..Len(w.todo)
  BY ChainLength DEF Work
<1>2. ~OfKinds(w.todo, JogKinds) /\ ~OfKinds(w.todo, HomingKinds)
  BY <1>1 DEF OfKinds
<1>3. QED
  BY <1>2 DEF Work, JogsAlone, HomesAlone, Plain, Has

LEMMA PlainIsWork ==
  ASSUME NEW k, NEW p, NEW w, k.state # "JOG", w.pc = "run", Chain(w.todo), Plain(w.todo)
  PROVE  Work(k, p, w) /\ ~Has(w.todo, HomingKinds)
BY DEF Work, WaitsInAction, JogsAlone, HomesAlone, Plain, Has

LEMMA FreshIsPlain ==
  ASSUME NEW todo, NEW K, Part(todo, K), K \cap ({"jog"} \cup HomingKinds) = {}
  PROVE  Chain(todo) /\ Plain(todo)
BY DEF Part, Fresh, OfKinds, Plain, Has

\* The first action is done.
LEMMA WorkDone ==
  ASSUME NEW k, NEW p, NEW w, Work(k, p, w), w.todo # <<>>,
         NEW l, l.state = "JOG" => k.state = "JOG" \/ w.todo[1].do = "jog",
         NEW q, q.queue = p.queue \/ q.queue = <<>>,
         NEW v, v.todo = Tail(w.todo), v.startup = w.startup, v.pc = "run"
  PROVE  /\ Work(l, q, v)
         /\ Has(w.todo, HomingKinds) /\ w.todo[1].do # "homed" => Has(v.todo, HomingKinds)
<1> DEFINE s == w.todo t == v.todo
<1>1. /\ Chain(t) /\ Len(t) = Len(s) - 1
      /\ \A i \in 1..Len(t) : t[i] = s[i + 1] /\ i + 1 \in 1..Len(s)
      /\ \A K : OfKinds(s, K) => OfKinds(t, K)
  BY TailIsChain DEF Work
<1>2. 1 \in 1..Len(s) /\ Len(s) \in Nat /\ Len(t) \in Nat
  BY <1>1, ChainLength DEF Work
<1> HIDE DEF s, t
<1>3. \A K : Has(t, K) => Has(s, K)
  BY <1>1 DEF Has
<1>4. WaitsInAction(v)
  BY DEF WaitsInAction
<1>5. JogsAlone(l, v)
  <2> SUFFICES ASSUME l.state = "JOG" \/ Has(t, {"jog"})
               PROVE  /\ OfKinds(t, JogKinds) /\ v.startup = <<>>
                      /\ \A i \in 1..Len(t) : t[i].do = "line" => InTravel(t[i].target)
    BY DEF JogsAlone, t
  <2>1. s[1].do = "jog" => Has(s, {"jog"})
    BY <1>2 DEF Has
  <2>2. k.state = "JOG" \/ Has(s, {"jog"})
    BY <1>3, <2>1 DEF s
  <2>3. /\ OfKinds(s, JogKinds) /\ w.startup = <<>>
        /\ \A i \in 1..Len(s) : s[i].do = "line" => InTravel(s[i].target)
    BY <2>2 DEF Work, JogsAlone, s
  <2>4. QED
    BY <1>1, <2>3
<1>6. HomesAlone(q, v)
  BY <1>1, <1>3 DEF HomesAlone, Work, s, t
<1>7. Has(s, HomingKinds) /\ s[1].do # "homed" => Has(t, HomingKinds)
  <2> SUFFICES ASSUME Has(s, HomingKinds), s[1].do # "homed" PROVE Has(t, HomingKinds)
    OBVIOUS
  <2>1. OfKinds(s, HomingKinds)
    BY DEF Work, HomesAlone, s
  <2>2. s[1].do = "home"
    BY <1>2, <2>1 DEF OfKinds, HomingKinds
  <2>3. 1 < Len(s)
    BY <1>2, <2>2 DEF Work, Chain, Awaiting, s, Unwritten
  <2>4. 1 \in 1..Len(t)
    BY <1>1, <1>2, <2>3
  <2>5. OfKinds(t, HomingKinds)
    BY <1>1, <2>1
  <2>6. QED
    BY <2>4, <2>5 DEF OfKinds, Has
<1>8. QED
  BY <1>1, <1>4, <1>5, <1>6, <1>7 DEF Work, s, t

\* The first action waits, or waits on: nothing is taken off.
LEMMA WorkWaits ==
  ASSUME NEW k, NEW p, NEW w, Work(k, p, w),
         NEW l, l.state = "JOG" => k.state = "JOG",
         NEW q, q.queue = p.queue \/ q.queue = <<>>,
         NEW v, v.todo = w.todo, v.startup = w.startup, WaitsInAction(v)
  PROVE  Work(l, q, v)
BY DEF Work, JogsAlone, HomesAlone

LEMMA WorkSame ==
  ASSUME NEW k, NEW p, NEW w, Work(k, p, w),
         NEW l, l.state = "JOG" => k.state = "JOG",
         NEW q, q.queue = p.queue \/ q.queue = <<>>,
         NEW v, v.todo = w.todo, v.startup = w.startup, v.pc = w.pc
  PROVE  Work(l, q, v)
<1>1. WaitsInAction(v)
  BY DEF Work, WaitsInAction
<1>2. QED
  BY <1>1, WorkWaits

-----------------------------------------------------------------------------
(* The real-time executor.                                                  *)

StateShape(s) ==
  /\ DOMAIN s = {"gc", "machine", "plan", "rt", "main"}
  /\ GcShape(s.gc) /\ MachineShape(s.machine) /\ PlanShape(s.plan) /\ RtShape(s.rt)
  /\ MainShape(s.main)

Good(s) ==
  StateShape(s) /\ Work(s.machine, s.plan, s.main) /\ Blocks(s.machine, s.plan, s.main)

\* What a check point leaves alone, whatever is pending.
Preserved(s, t) ==
  /\ t.machine.pos = s.machine.pos /\ (t.machine.state = "JOG" => s.machine.state = "JOG")
  /\ t.plan.queue = s.plan.queue \/ t.plan.queue = <<>>
  /\ t.main.todo = s.main.todo /\ t.main.pc = s.main.pc /\ t.main.startup = s.main.startup
  /\ (s.main.abort => t.main.abort)

LEMMA KeptChain == \A s, t, u : Preserved(s, t) /\ Preserved(t, u) => Preserved(s, u)
BY DEF Preserved

\* A state whose machine, flags or abort changed, but not its queue.
LEMMA KeptIsGood ==
  ASSUME NEW s, Good(s), NEW t, StateShape(t), Preserved(s, t), t.plan = s.plan
  PROVE  Good(t)
<1>1. Work(t.machine, t.plan, t.main)
  BY WorkSame DEF Good, Preserved
<1>2. EndsInTravel(t.machine.pos, t.plan.queue)
  BY DEF Good, Preserved, Blocks
<1>3. PlanAgrees(t.machine, t.plan, t.main)
  BY DEF Good, Preserved, Blocks, PlanAgrees
<1>4. QED
  BY <1>1, <1>2, <1>3 DEF Good, Blocks

\* One whose queue was given up: the planner is where the machine is.
LEMMA FlushedIsGood ==
  ASSUME NEW s, Good(s), NEW t, StateShape(t), Preserved(s, t), t.plan.queue = <<>>,
         t.plan.pos = s.machine.pos
  PROVE  Good(t)
<1>1. Work(t.machine, t.plan, t.main)
  BY WorkSame DEF Good, Preserved
<1>2. s.machine.pos \in Vector /\ s.plan.queue \in Seq(Vector)
  BY DEF Good, StateShape, MachineShape, PlanShape
<1>3. InTravel(s.machine.pos)
  BY <1>2, StartsInTravel DEF Good, Blocks
<1>4. EndsInTravel(s.machine.pos, <<>>) /\ EndOf(s.machine.pos, <<>>) = s.machine.pos
  BY <1>2, <1>3, EmptyQueue
<1>5. Blocks(t.machine, t.plan, t.main)
  BY <1>4 DEF Preserved, Blocks, PlanAgrees
<1>6. QED
  BY <1>1, <1>5 DEF Good

LEMMA CancelledIsGood ==
  ASSUME NEW s, Good(s)
  PROVE  Good(Cancelled(s)) /\ Preserved(s, Cancelled(s))
<1>1. StateShape(s)
  BY DEF Good
<1>2. Preserved(s, s)
  BY DEF Preserved
<1> DEFINE t == Flushed(s)
<1>3. /\ DOMAIN t = DOMAIN s /\ t.rt = s.rt /\ t.main = s.main
      /\ t.machine = [s.machine EXCEPT !.state = "IDLE", !.moving = FALSE]
      /\ t.plan = [queue |-> <<>>, pos |-> s.machine.pos]
      /\ t.gc = [s.gc EXCEPT !.position = s.machine.pos]
  BY <1>1 DEF Flushed, StateShape
<1> HIDE DEF t
<1>4. t.machine.pos = s.machine.pos /\ t.machine.state = "IDLE" /\ MachineShape(t.machine)
  BY <1>1, <1>3 DEF StateShape, MachineShape
<1>5. t.plan.queue = <<>> /\ t.plan.pos = s.machine.pos /\ PlanShape(t.plan)
  BY <1>1, <1>3, EmptyQueue DEF PlanShape, StateShape, MachineShape
<1>6. GcShape(t.gc)
  BY <1>1, <1>3 DEF StateShape, MachineShape, GcShape, GoodParser, Tracked
<1>7. StateShape(t)
  BY <1>1, <1>3, <1>4, <1>5, <1>6 DEF StateShape
<1>8. Preserved(s, t)
  BY <1>3, <1>4, <1>5 DEF Preserved
<1>9. Good(t)
  BY <1>5, <1>7, <1>8, FlushedIsGood
<1>10. QED
  BY <1>2, <1>8, <1>9 DEF Cancelled, t

LEMMA StartedIsGood ==
  ASSUME NEW s, Good(s)
  PROVE  /\ Good(Started(s)) /\ Preserved(s, Started(s)) /\ Good(Stopped(s)) /\ Preserved(s, Stopped(s))
<1>1. StateShape(s) /\ Preserved(s, s)
  BY DEF Good, Preserved
<1>2. ASSUME NEW k, MachineShape(k), k.pos = s.machine.pos, k.state # "JOG"
      PROVE  Good([s EXCEPT !.machine = k]) /\ Preserved(s, [s EXCEPT !.machine = k])
  <2> DEFINE t == [s EXCEPT !.machine = k]
  <2>1. /\ DOMAIN t = DOMAIN s /\ t.gc = s.gc /\ t.machine = k /\ t.plan = s.plan /\ t.rt = s.rt
        /\ t.main = s.main
    BY <1>1 DEF StateShape
  <2> HIDE DEF t
  <2>2. StateShape(t) /\ Preserved(s, t)
    BY <1>1, <1>2, <2>1 DEF StateShape, Preserved
  <2>3. QED
    BY <2>1, <2>2, KeptIsGood DEF t
<1> DEFINE cycle == [s.machine EXCEPT !.state = "CYCLE", !.moving = TRUE]
           idle == [s.machine EXCEPT !.state = "IDLE"]
<1>3. /\ MachineShape(cycle) /\ cycle.pos = s.machine.pos /\ cycle.state # "JOG"
      /\ MachineShape(idle) /\ idle.pos = s.machine.pos /\ idle.state # "JOG"
  BY <1>1 DEF StateShape, MachineShape
<1>4. /\ Started(s) = s \/ Started(s) = [s EXCEPT !.machine = cycle]
      /\ Stopped(s) = s \/ Stopped(s) = [s EXCEPT !.machine = idle]
  BY DEF Started, Stopped
<1> HIDE DEF cycle, idle
<1>5. QED
  BY <1>1, <1>2, <1>3, <1>4

\* A check point keeps what is left to do; a jog cancel gives the queue up.
LEMMA PolledIsGood ==
  ASSUME NEW s, Good(s)
  PROVE  Good(Polled(s)) /\ Preserved(s, Polled(s))
<1> DEFINE alarmed == IF s.rt.alarm = "NONE" THEN s
                      ELSE [s EXCEPT !.machine = [@ EXCEPT !.state = "ALARM"],
                                     !.rt = [@ EXCEPT !.alarm = "NONE"]]
           done == Stopped(Started(Cancelled(alarmed)))
           cleared == [done EXCEPT !.rt = [@ EXCEPT !.flags = {}]]
           aborted == [alarmed EXCEPT !.main = [@ EXCEPT !.abort = TRUE]]
<1>1. Polled(s) = IF "reset" \in s.rt.flags THEN aborted ELSE cleared
  BY Zenon DEF Polled
<1>2. Good(alarmed) /\ Preserved(s, alarmed)
  <2>1. StateShape(s) /\ Preserved(s, s)
    BY DEF Good, Preserved
  <2> DEFINE t == [s EXCEPT !.machine = [@ EXCEPT !.state = "ALARM"],
                            !.rt = [@ EXCEPT !.alarm = "NONE"]]
  <2>2. /\ DOMAIN t = DOMAIN s /\ t.gc = s.gc /\ t.plan = s.plan /\ t.main = s.main
        /\ t.machine = [s.machine EXCEPT !.state = "ALARM"]
        /\ t.rt = [s.rt EXCEPT !.alarm = "NONE"]
    BY <2>1 DEF StateShape
  <2>3. alarmed = s \/ alarmed = t
    OBVIOUS
  <2> HIDE DEF t, alarmed
  <2>4. /\ t.machine.pos = s.machine.pos /\ t.machine.state = "ALARM" /\ MachineShape(t.machine)
        /\ RtShape(t.rt)
    BY <2>1, <2>2 DEF StateShape, MachineShape, RtShape
  <2>5. StateShape(t) /\ Preserved(s, t)
    BY <2>1, <2>2, <2>4 DEF StateShape, Preserved
  <2>6. QED
    BY <2>1, <2>2, <2>3, <2>5, KeptIsGood
<1> HIDE DEF alarmed
<1>3. Good(done) /\ Preserved(alarmed, done)
  <2>1. Good(Cancelled(alarmed)) /\ Preserved(alarmed, Cancelled(alarmed))
    BY <1>2, CancelledIsGood
  <2>2. Good(Started(Cancelled(alarmed))) /\ Preserved(Cancelled(alarmed), Started(Cancelled(alarmed)))
    BY <2>1, StartedIsGood
  <2>3. Good(done) /\ Preserved(Started(Cancelled(alarmed)), done)
    BY <2>2, StartedIsGood
  <2> HIDE DEF done
  <2>4. QED
    BY <2>1, <2>2, <2>3, KeptChain
<1> HIDE DEF done
<1>4. Good(cleared) /\ Preserved(done, cleared)
  <2>1. StateShape(done)
    BY <1>3 DEF Good
  <2>2. /\ DOMAIN cleared = DOMAIN done /\ cleared.gc = done.gc /\ cleared.plan = done.plan
        /\ cleared.main = done.main /\ cleared.machine = done.machine
        /\ cleared.rt = [done.rt EXCEPT !.flags = {}]
    BY <2>1 DEF StateShape
  <2> HIDE DEF cleared
  <2>3. StateShape(cleared) /\ Preserved(done, cleared)
    BY <2>1, <2>2 DEF StateShape, RtShape, Preserved
  <2>4. QED
    BY <1>3, <2>2, <2>3, KeptIsGood
<1>5. Good(aborted) /\ Preserved(alarmed, aborted)
  <2>1. StateShape(alarmed)
    BY <1>2 DEF Good
  <2>2. /\ DOMAIN aborted = DOMAIN alarmed /\ aborted.gc = alarmed.gc
        /\ aborted.plan = alarmed.plan /\ aborted.machine = alarmed.machine
        /\ aborted.rt = alarmed.rt /\ aborted.main = [alarmed.main EXCEPT !.abort = TRUE]
    BY <2>1 DEF StateShape
  <2> HIDE DEF aborted
  <2>3. /\ aborted.main.todo = alarmed.main.todo /\ aborted.main.pc = alarmed.main.pc
        /\ aborted.main.startup = alarmed.main.startup /\ aborted.main.abort
        /\ MainShape(aborted.main)
    BY <2>1, <2>2 DEF StateShape, MainShape
  <2>4. StateShape(aborted) /\ Preserved(alarmed, aborted)
    BY <2>1, <2>2, <2>3 DEF StateShape, Preserved
  <2>5. QED
    BY <1>2, <2>2, <2>4, KeptIsGood
<1> HIDE DEF cleared, aborted
<1>6. QED
  BY <1>1, <1>2, <1>3, <1>4, <1>5, KeptChain

-----------------------------------------------------------------------------
(* From a step of the machine to its parts.                                 *)

LEMMA StateIsGood ==
  ASSUME Inv
  PROVE  /\ Good(State)
         /\ State.gc = gc /\ State.machine = machine /\ State.plan = plan /\ State.rt = rt
         /\ State.main = main
<1>1. /\ State.gc = gc /\ State.machine = machine /\ State.plan = plan /\ State.rt = rt
      /\ State.main = main /\ DOMAIN State = {"gc", "machine", "plan", "rt", "main"}
  BY DEF State
<1>2. QED
  BY <1>1 DEF Inv, Shapes, Good, StateShape

LEMMA BecomesInv ==
  ASSUME NEW t, Good(t), Become(t), EepromShape', HistShape'
  PROVE  Inv'
BY DEF Good, StateShape, Become, Inv, Shapes

\* The first action is done, and the blocks are where they were.
LEMMA Advanced ==
  ASSUME NEW k, NEW p, NEW w, Work(k, p, w), Blocks(k, p, w), w.todo # <<>>,
         NEW l, l.pos = k.pos, l.state = "JOG" => k.state = "JOG" \/ w.todo[1].do = "jog",
         NEW v, v.todo = Tail(w.todo), v.startup = w.startup, v.pc = "run",
         w.abort => v.abort, w.todo[1].do # "homed" \/ v.abort
  PROVE  Work(l, p, v) /\ Blocks(l, p, v)
<1>1. Work(l, p, v)
  BY WorkDone
<1>2. Has(w.todo, HomingKinds) /\ w.todo[1].do # "homed" => Has(v.todo, HomingKinds)
  BY WorkDone
<1>3. QED
  BY <1>1, <1>2 DEF Blocks, PlanAgrees

\* What the first action says.
LEMMA OpIsGood ==
  ASSUME Inv, NEW name, Op(name)
  PROVE  /\ main.todo # <<>> /\ 1 \in 1..Len(main.todo) /\ TheOp = main.todo[1]
         /\ TheOp.do = name /\ GoodOp(TheOp)
<1>1. Chain(main.todo) /\ main.todo # <<>> /\ TheOp.do = name
  BY DEF Inv, Work, Op, TheOp
<1>2. 1 \in 1..Len(main.todo) /\ TheOp = main.todo[1]
  BY <1>1, ChainLength DEF TheOp
<1>3. QED
  BY <1>1, <1>2 DEF Chain

LEMMA MainChanges ==
  ASSUME MainShape(main)
  PROVE  /\ MainShape(Done) /\ Done.todo = Tail(main.todo) /\ Done.pc = "run"
         /\ Done.startup = main.startup /\ Done.abort = main.abort /\ Done.contact = main.contact
         /\ \A pc : /\ MainShape(At(pc)) /\ At(pc).pc = pc /\ At(pc).todo = main.todo
                    /\ At(pc).startup = main.startup /\ At(pc).abort = main.abort
         /\ \A a \in BOOLEAN :
              LET v == [Done EXCEPT !.abort = a]
              IN /\ MainShape(v) /\ v.todo = Tail(main.todo) /\ v.pc = "run"
                 /\ v.startup = main.startup /\ v.abort = a
         /\ \A todo :
              LET v == [Done EXCEPT !.todo = todo]
              IN /\ MainShape(v) /\ v.todo = todo /\ v.pc = "run"
                 /\ v.startup = main.startup /\ v.abort = main.abort
BY DEF MainShape, Done, At

\* An action that is done at once.
LEMMA DoneKeeps ==
  ASSUME Inv, NEW name, Op(name), name # "homed", main' = Done, UNCHANGED <<machine, plan>>
  PROVE  MainShape(main') /\ Work(machine', plan', main') /\ Blocks(machine', plan', main')
<1>1. main.todo # <<>> /\ main.todo[1].do # "homed"
  BY OpIsGood
<1>2. /\ MainShape(main') /\ main'.todo = Tail(main.todo) /\ main'.startup = main.startup
      /\ main'.pc = "run" /\ main'.abort = main.abort
  BY MainChanges DEF Inv, Shapes
<1>3. Work(machine, plan, main) /\ Blocks(machine, plan, main)
  BY DEF Inv
<1>4. Work(machine, plan, main') /\ Blocks(machine, plan, main')
  BY <1>1, <1>2, <1>3, Advanced
<1>5. QED
  BY <1>2, <1>4

\* It waits: for the queue, for room, for the probe.
LEMMA WaitKeeps ==
  ASSUME Inv, NEW pc, main' = At(pc), WaitsInAction(main'),
         machine'.pos = machine.pos, machine'.state = "JOG" => machine.state = "JOG",
         UNCHANGED plan
  PROVE  MainShape(main') /\ Work(machine', plan', main') /\ Blocks(machine', plan', main')
<1>1. /\ MainShape(main') /\ main'.todo = main.todo /\ main'.startup = main.startup
      /\ main'.abort = main.abort
  BY MainChanges DEF Inv, Shapes
<1>2. Work(machine', plan, main')
  BY <1>1, WorkWaits DEF Inv
<1>3. Blocks(machine', plan, main')
  BY <1>1 DEF Inv, Blocks, PlanAgrees
<1>4. QED
  BY <1>1, <1>2, <1>3

\* The first action is replaced by others, none of a jog or of homing.
LEMMA PlainKeeps ==
  ASSUME Inv, NEW name, Op(name), name \notin JogKinds \cup HomingKinds,
         main'.pc = "run", main'.startup = main.startup, main'.abort = main.abort,
         Chain(main'.todo), Plain(main'.todo), UNCHANGED <<machine, plan>>
  PROVE  Work(machine', plan', main') /\ Blocks(machine', plan', main')
<1>1. main.todo # <<>> /\ main.todo[1].do = name
  BY OpIsGood
<1>2. Work(machine, plan, main)
  BY DEF Inv
<1>3. Plain(main.todo) /\ machine.state # "JOG"
  BY <1>1, <1>2, PlainWork
<1>4. Work(machine, plan, main')
  BY <1>3, PlainIsWork
<1>5. ~Has(main.todo, HomingKinds)
  BY <1>3 DEF Plain, Has
<1>6. Blocks(machine, plan, main')
  BY <1>5 DEF Inv, Blocks, PlanAgrees
<1>7. QED
  BY <1>4, <1>6

\* A check point, at which the first action is done.
LEMMA PolledDone ==
  ASSUME Inv, main.todo # <<>>, NEW s, Good(s), Preserved(State, s), NEW a \in BOOLEAN,
         s.main.abort => a, main.todo[1].do # "homed" \/ a
  PROVE  LET t == [s EXCEPT !.main = [Done EXCEPT !.abort = a]]
         IN /\ Good(t) /\ t.main.todo = Tail(main.todo) /\ t.main.pc = "run" /\ t.main.abort = a
            /\ t.gc = s.gc /\ t.machine = s.machine /\ t.plan = s.plan /\ t.rt = s.rt
<1> DEFINE v == [Done EXCEPT !.abort = a]
           t == [s EXCEPT !.main = v]
<1>1. /\ MainShape(v) /\ v.todo = Tail(main.todo) /\ v.pc = "run"
      /\ v.startup = main.startup /\ v.abort = a
  BY MainChanges DEF Inv, Shapes
<1> HIDE DEF v
<1>2. StateShape(s)
  BY DEF Good
<1>3. /\ DOMAIN t = DOMAIN s /\ t.main = v /\ t.gc = s.gc /\ t.machine = s.machine
      /\ t.plan = s.plan /\ t.rt = s.rt
  BY <1>2 DEF StateShape
<1> HIDE DEF t
<1>4. StateShape(t)
  BY <1>1, <1>2, <1>3 DEF StateShape
<1>5. s.main.todo = main.todo /\ s.main.startup = main.startup
  BY StateIsGood DEF Preserved
<1>6. Work(s.machine, s.plan, s.main) /\ Blocks(s.machine, s.plan, s.main)
  BY DEF Good
<1>7. Work(s.machine, s.plan, v) /\ Blocks(s.machine, s.plan, v)
  BY <1>1, <1>5, <1>6, Advanced
<1>8. Good(t)
  BY <1>3, <1>4, <1>7 DEF Good
<1>9. QED
  BY <1>1, <1>3, <1>8 DEF t, v

-----------------------------------------------------------------------------
(* The steps of a block keep the invariant.                                 *)

LEMMA UpdatedIsGood ==
  ASSUME NEW g, GcShape(g), NEW op, GoodOp(op), op.do \in {"set", "offset"}
  PROVE  GcShape(Updated(g, op.to))
<1> DEFINE d == op.to
           h == Updated(g, d)
<1>1. h = [x \in DOMAIN g \cup DOMAIN d |-> IF x \in DOMAIN d THEN d[x] ELSE g[x]]
  BY DEF Updated
<1> HIDE DEF h, d
<1>2. DOMAIN h = DOMAIN g \cup DOMAIN d
      /\ \A x \in DOMAIN g : h[x] = IF x \in DOMAIN d THEN d[x] ELSE g[x]
  BY <1>1
<1>3. CASE op.do = "set"
  <2>1. DOMAIN d \cap Tracked = {}
    BY <1>3 DEF GoodOp, d, Writes, LaterBytes
  <2>2. \A x \in Tracked : h[x] = g[x]
    BY <1>2, <2>1 DEF GcShape
  <2>3. GoodParser(h)
    BY <2>2 DEF GcShape, GoodParser, Tracked
  <2>4. QED
    BY <1>2, <2>3 DEF GcShape, h, d
<1>4. CASE op.do = "offset"
  <2>1. \A f \in DOMAIN d : GoodField(f, d[f])
    BY <1>4 DEF GoodOp, d, Writes, LaterBytes
  <2>2. \A x \in Tracked : h[x] = g[x] \/ (h[x] = d[x] /\ GoodField(x, d[x]))
    BY <1>2, <2>1 DEF GcShape
  <2>3. GoodParser(h)
    BY <2>2 DEF GcShape, GoodParser, Tracked, GoodField
  <2>4. QED
    BY <1>2, <2>3 DEF GcShape, h, d
<1>5. QED
  BY <1>3, <1>4

\* A parser position of the right type.
LEMMA PositionIsGood ==
  ASSUME NEW g, GcShape(g), NEW v \in Vector
  PROVE  GcShape([g EXCEPT !.position = v])
BY DEF GcShape, GoodParser, Tracked

LEMMA FlagsAreGood ==
  ASSUME NEW r, RtShape(r)
  PROVE  /\ \A flag : RtShape(Raise(r, flag))
         /\ RtShape(AutoStart(r)) /\ RtShape(AfterReset(r))
         /\ \A alarm : RtShape([r EXCEPT !.alarm = alarm])
         /\ \A flags, alarm : RtShape([flags |-> flags, alarm |-> alarm])
<1>1. \A flag : RtShape(Raise(r, flag))
  BY DEF RtShape, Raise
<1>2. \A q, alarm : RtShape(q) => RtShape([q EXCEPT !.alarm = alarm])
  BY DEF RtShape
<1>3. RtShape(AutoStart(r))
  BY <1>1 DEF AutoStart
<1>4. \A flags, alarm : RtShape([flags |-> flags, alarm |-> alarm])
  BY DEF RtShape
<1>5. RtShape(AfterReset(r))
  <2> DEFINE q == Raise(r, "reset")
  <2>1. RtShape(q)
    BY <1>1
  <2>2. AfterReset(r) = r \/ \E alarm : AfterReset(r) = [q EXCEPT !.alarm = alarm]
    BY Zenon DEF AfterReset
  <2> HIDE DEF q
  <2>3. QED
    BY <1>2, <2>1, <2>2
<1>6. QED
  BY <1>1, <1>2, <1>3, <1>4, <1>5

\* Actions that only write data: modes, offsets, positions, bytes of a record.
LEMMA WritesKeep ==
  ASSUME Inv,
         DoSet \/ DoPosition \/ DoNoOutputs \/ DoWco \/ DoPut \/ DoSum \/ DoPause \/ LineInCheckMode
           \/ ProbeInCheckMode \/ DoStore \/ HomeSkipped
  PROVE  Inv'
<1> USE DEF Shapes
<1>1. \E name \in {"set", "offset", "position", "outputs", "wco", "pause", "line", "probe",
                   "store", "home"} \cup Writes : Op(name)
  BY DEF DoSet, DoPosition, DoNoOutputs, DoWco, DoPut, DoSum, DoPause,
         LineInCheckMode, ProbeInCheckMode, DoStore, HomeSkipped, ByteOf, Writes, LaterBytes
<1>2. main' = Done /\ UNCHANGED <<machine, plan, rt, hist>>
  BY DEF DoSet, DoPosition, DoNoOutputs, DoWco, DoPut, DoSum, DoPause, LineInCheckMode,
         ProbeInCheckMode, DoStore, HomeSkipped
<1>3. MainShape(main') /\ Work(machine', plan', main') /\ Blocks(machine', plan', main')
  BY <1>1, <1>2, DoneKeeps DEF Writes, LaterBytes
<1>4. MachineShape(machine') /\ PlanShape(plan') /\ RtShape(rt') /\ HistShape'
  BY <1>2 DEF Inv, HistShape
<1>5. GcShape(gc') /\ EepromShape'
  <2>1. CASE DoSet
    <3>1. GcShape(Updated(gc, TheOp.to))
      BY <2>1, OpIsGood, UpdatedIsGood DEF Inv, DoSet
    <3>2. QED
      BY <2>1, <3>1 DEF DoSet, Inv, EepromShape
  <2>2. ASSUME Op("position") \/ Op("probe"), gc' = [gc EXCEPT !.position = TheOp.target],
               UNCHANGED eeprom
        PROVE  GcShape(gc') /\ EepromShape'
    <3>1. TheOp.target \in Vector
      BY <2>2, OpIsGood DEF GoodOp, Targeted, Writes, LaterBytes
    <3>2. QED
      BY <2>2, <3>1, PositionIsGood DEF Inv, EepromShape
  <2>3. CASE DoPut \/ DoSum
    <3>1. TheOp.do \in Writes
      BY <2>3 DEF DoPut, DoSum, ByteOf, Op, TheOp, Writes, LaterBytes
    <3>2. TheOp.record \in Records /\ TheOp.data \in Vector
      BY <1>1, <3>1, OpIsGood DEF GoodOp
    <3> DEFINE n == TheOp.record
    <3>3. UNCHANGED gc
      BY <2>3 DEF DoPut, DoSum
    <3>4. CASE DoPut
      <4>1. PICK name \in DOMAIN ByteOf :
              eeprom' = [eeprom EXCEPT !.records[n].data[ByteOf[name]] = TheOp.data[ByteOf[name]]]
        BY <3>4 DEF DoPut
      <4>2. ByteOf[name] \in Axes
        BY DEF ByteOf, Axes
      <4>3. QED
        BY <3>2, <3>3, <4>1, <4>2 DEF Inv, EepromShape, Vector
    <3>5. CASE DoSum
      <4>1. Sum(TheOp.data) \in Int
        BY <3>2, SumIsInt
      <4>2. QED
        BY <3>2, <3>3, <3>5, <4>1 DEF DoSum, Inv, EepromShape
    <3>6. QED
      BY <2>3, <3>4, <3>5
  <2>4. CASE DoStore
    <3>1. TheOp.words \in Lines
      BY <2>4, OpIsGood DEF GoodOp, DoStore, Writes, LaterBytes
    <3>2. eeprom' = [eeprom EXCEPT !.startup[0] = TheOp.words] /\ UNCHANGED gc
      BY <2>4 DEF DoStore
    <3>3. QED
      BY <3>1, <3>2 DEF Inv, EepromShape, StartupLines
  <2>5. CASE UNCHANGED <<gc, eeprom>>
    BY <2>5 DEF Inv, EepromShape
  <2>6. QED
    BY <2>1, <2>2, <2>3, <2>4, <2>5
       DEF DoPosition, DoNoOutputs, DoWco, DoPause, LineInCheckMode, ProbeInCheckMode, HomeSkipped
<1>6. QED
  BY <1>3, <1>4, <1>5 DEF Inv

\* Actions before others.
LEMMA PlainConcat ==
  ASSUME NEW s, NEW K, Part(s, K), K \cap ({"jog"} \cup HomingKinds) = {},
         NEW t, Fresh(t), Plain(t)
  PROVE  Fresh(s \o t) /\ Chain(s \o t) /\ Plain(s \o t)
<1> DEFINE L == K \cup {t[i].do : i \in 1..Len(t)}
<1>1. OfKinds(s, L) /\ OfKinds(t, L)
  BY DEF OfKinds, Part
<1>2. L \cap ({"jog"} \cup HomingKinds) = {}
  BY DEF Plain, Has
<1> HIDE DEF L
<1>3. Part(s, L) /\ Part(t, L)
  BY <1>1 DEF Part
<1>4. Part(s \o t, L)
  BY <1>3, ConcatIsFresh
<1>5. QED
  BY <1>2, <1>4, FreshIsPlain DEF Part

LEMMA PlainTail ==
  ASSUME Inv, NEW name, Op(name), name \notin JogKinds \cup HomingKinds
  PROVE  Fresh(Tail(main.todo)) /\ Plain(Tail(main.todo)) /\ machine.state # "JOG"
<1>1. /\ main.todo # <<>> /\ main.todo[1].do = name /\ Work(machine, plan, main)
      /\ Chain(main.todo)
  BY OpIsGood DEF Inv, Work
<1>2. Plain(main.todo) /\ machine.state # "JOG"
  BY <1>1, PlainWork
<1>3. name \notin {"line", "jog"} \cup Unwritten
  BY DEF JogKinds, Writes, LaterBytes, Unwritten
<1>4. /\ Fresh(Tail(main.todo))
      /\ \A i \in 1..Len(Tail(main.todo)) : /\ Tail(main.todo)[i] = main.todo[i + 1]
                                            /\ i + 1 \in 1..Len(main.todo)
  BY <1>1, <1>3, TailIsChain
<1>5. Plain(Tail(main.todo))
  BY <1>2, <1>4 DEF Plain, Has
<1>6. QED
  BY <1>2, <1>4, <1>5

LEMMA OriginInTravel == InTravel(Origin) /\ Origin \in Vector
BY TravelAssumption DEF InTravel, OutOfTravel, Origin, Vector

\* The end of a program.
LEMMA EndKeeps ==
  ASSUME Inv, DoEnd
  PROVE  Inv'
<1> DEFINE record == eeprom.records[0]
           reset(system) == [gc EXCEPT !.coord_select = 0, !.coord_system = system]
<1>1. Op("end") /\ UNCHANGED <<machine, plan, rt, eeprom, report, hist>>
  BY DEF DoEnd
<1>2. /\ MachineShape(machine') /\ PlanShape(plan') /\ RtShape(rt') /\ EepromShape' /\ HistShape'
  BY <1>1 DEF Inv, Shapes, EepromShape, HistShape
<1>3. \/ gc' = [gc EXCEPT !.coord_select = 0] /\ main' = Done
      \/ gc' = reset(record.data) /\ main' = [Done EXCEPT !.todo = OffsetChanged \o @]
      \/ gc' = reset(Origin) /\ main' = [Done EXCEPT !.todo = WriteRecord(0, Origin)]
  BY DEF DoEnd
<1>4. record.data \in Vector /\ Origin \in Vector /\ 0 \in Records
  BY OriginInTravel DEF Inv, Shapes, EepromShape, Records, IndexG30, NCoordinateSystem
<1>5. GcShape([gc EXCEPT !.coord_select = 0]) /\ \A v \in Vector : GcShape(reset(v))
  BY DEF Inv, Shapes, GcShape, GoodParser, Tracked
<1> HIDE DEF record, reset
<1>6. GcShape(gc')
  BY <1>3, <1>4, <1>5
<1>7. MainShape(main') /\ Work(machine', plan', main') /\ Blocks(machine', plan', main')
  <2>1. CASE main' = Done
    BY <1>1, <2>1, DoneKeeps
  <2>2. ASSUME NEW todo, main' = [Done EXCEPT !.todo = todo], Chain(todo), Plain(todo)
        PROVE  MainShape(main') /\ Work(machine', plan', main') /\ Blocks(machine', plan', main')
    <3>1. /\ MainShape(main') /\ main'.todo = todo /\ main'.pc = "run"
          /\ main'.startup = main.startup /\ main'.abort = main.abort
      BY <2>2, MainChanges DEF Inv, Shapes
    <3>2. "end" \notin JogKinds \cup HomingKinds /\ Chain(main'.todo) /\ Plain(main'.todo)
      BY <2>2, <3>1 DEF JogKinds, HomingKinds, Writes, LaterBytes
    <3>3. QED
      BY <1>1, <3>1, <3>2, PlainKeeps
  <2>3. Fresh(Tail(main.todo)) /\ Plain(Tail(main.todo))
    BY <1>1, PlainTail DEF JogKinds, HomingKinds, Writes, LaterBytes
  <2>4. Chain(OffsetChanged \o Tail(main.todo)) /\ Plain(OffsetChanged \o Tail(main.todo))
    <3>1. Part(OffsetChanged, {"sync", "wco"})
      BY OffsetChangedIsFresh
    <3>2. QED
      BY <2>3, <3>1, PlainConcat DEF HomingKinds
  <2>5. Chain(WriteRecord(0, Origin)) /\ Plain(WriteRecord(0, Origin))
    <3>1. Part(WriteRecord(0, Origin), {"sync"} \cup Writes)
      BY <1>4, WriteRecordIsFresh
    <3>2. QED
      BY <3>1, FreshIsPlain DEF HomingKinds, Writes, LaterBytes
  <2>6. [Done EXCEPT !.todo = OffsetChanged \o @] =
          [Done EXCEPT !.todo = OffsetChanged \o Tail(main.todo)]
    <3>1. Done.todo = Tail(main.todo)
      BY MainChanges DEF Inv, Shapes
    <3>2. QED
      BY <3>1
  <2>7. QED
    BY <1>3, <2>1, <2>2, <2>4, <2>5, <2>6
<1>8. QED
  BY <1>2, <1>6, <1>7 DEF Inv, Shapes

\* Waiting for the queue to drain, for the probe, and the first check of a line.
LEMMA WaitsKeep ==
  ASSUME Inv, DoSync \/ ProbeRun \/ DoLine
  PROVE  Inv'
<1>1. UNCHANGED <<gc, machine, plan, eeprom, hist>>
  BY DEF DoSync, ProbeRun, DoLine
<1>2. GcShape(gc') /\ MachineShape(machine') /\ PlanShape(plan') /\ EepromShape' /\ HistShape'
  BY <1>1 DEF Inv, Shapes, EepromShape, HistShape
<1>3. RtShape(rt')
  BY FlagsAreGood DEF DoSync, ProbeRun, DoLine, Inv, Shapes
<1>4. \E pc : main' = At(pc) /\ WaitsInAction(main')
  <2>1. \A pc : At(pc).pc = pc /\ At(pc).todo = main.todo
    BY MainChanges DEF Inv, Shapes
  <2>2. CASE DoSync
    <3>1. main' = At("sync") /\ (Op("sync") \/ Op("outputs"))
      BY <2>2 DEF DoSync
    <3>2. main.todo # <<>> /\ main.todo[1].do \in {"sync", "outputs"}
      BY <3>1, OpIsGood
    <3>3. QED
      BY <2>1, <3>1, <3>2 DEF WaitsInAction
  <2>3. CASE ProbeRun
    <3>1. main' = At("probing") /\ Op("probe_run")
      BY <2>3 DEF ProbeRun
    <3>2. main.todo # <<>> /\ main.todo[1].do = "probe_run"
      BY <3>1, OpIsGood
    <3>3. QED
      BY <2>1, <3>1, <3>2 DEF WaitsInAction
  <2>4. CASE DoLine
    <3>1. main' = At("line") /\ Op("line") /\ ~SoftLimited(TheOp.target)
      BY <2>4 DEF DoLine
    <3>2. main.todo # <<>> /\ main.todo[1].do = "line" /\ TheOp = main.todo[1]
          /\ 1 \in 1..Len(main.todo)
      BY <3>1, OpIsGood
    <3>3. InTravel(main.todo[1].target)
      <4>1. CASE machine.state = "JOG"
        BY <3>2, <4>1 DEF Inv, Work, JogsAlone
      <4>2. CASE machine.state # "JOG"
        BY <3>1, <3>2, <4>2 DEF SoftLimited, InTravel
      <4>3. QED
        BY <4>1, <4>2
    <3>4. QED
      BY <2>1, <3>1, <3>2, <3>3 DEF WaitsInAction
  <2>5. QED
    BY <2>2, <2>3, <2>4
<1>5. MainShape(main') /\ Work(machine', plan', main') /\ Blocks(machine', plan', main')
  BY <1>1, <1>4, WaitKeeps
<1>6. QED
  BY <1>2, <1>3, <1>5 DEF Inv, Shapes

LEMMA HistKept == HistShape => \A s : HistAfter(s).program = hist.program /\ DOMAIN HistAfter(s) = DOMAIN hist
BY DEF HistAfter, Unprogrammed, HistShape

LEMMA SyncWaitKeeps ==
  ASSUME Inv, SyncWait
  PROVE  Inv'
<1> DEFINE s == Polled(State)
           over == s.main.abort \/ (s.plan.queue = <<>> /\ s.machine.state # "CYCLE")
           t == [s EXCEPT !.main = [Done EXCEPT !.abort = s.main.abort]]
<1>1. /\ main.pc = "sync" /\ Become(IF over THEN t ELSE s) /\ hist' = HistAfter(s)
      /\ UNCHANGED eeprom
  BY Zenon DEF SyncWait
<1>2. Good(s) /\ Preserved(State, s)
  BY StateIsGood, PolledIsGood
<1> HIDE DEF s
<1>3. main.todo # <<>> /\ main.todo[1].do # "homed"
  BY <1>1 DEF Inv, Work, WaitsInAction
<1>4. s.main.abort \in BOOLEAN
  BY <1>2 DEF Good, StateShape, MainShape
<1>5. Good(t)
  BY <1>2, <1>3, <1>4, PolledDone
<1>6. EepromShape' /\ HistShape'
  BY <1>1, HistKept DEF Inv, Shapes, EepromShape, HistShape
<1> HIDE DEF t, over
<1>7. QED
  BY <1>1, <1>2, <1>5, <1>6, BecomesInv

LEMMA SoftLimitKeeps ==
  ASSUME Inv, SoftLimit
  PROVE  Inv'
<1> DEFINE s == Polled(State)
           t == [s EXCEPT !.main = [Done EXCEPT !.abort = TRUE]]
           stopped == [machine EXCEPT !.state = "ALARM", !.moving = @ /\ machine.state # "CYCLE"]
<1>1. Op("line") /\ UNCHANGED <<eeprom, hist>>
  BY DEF SoftLimit
<1>2. \/ Become(t)
      \/ /\ machine' = stopped /\ \E flags : rt' = [flags |-> flags, alarm |-> "NONE"]
         /\ main' = At("critical") /\ UNCHANGED <<gc, plan>>
  BY Zenon DEF SoftLimit
<1>3. EepromShape' /\ HistShape'
  BY <1>1 DEF Inv, Shapes, EepromShape, HistShape
<1>4. main.todo # <<>> /\ main.todo[1].do = "line"
  BY <1>1, OpIsGood
<1>5. Good(t)
  <2>1. Good(s) /\ Preserved(State, s)
    BY StateIsGood, PolledIsGood
  <2> HIDE DEF s
  <2>2. QED
    BY <1>4, <2>1, PolledDone
<1> HIDE DEF t
<1>6. CASE Become(t)
  BY <1>3, <1>5, <1>6, BecomesInv
<1>7. CASE /\ machine' = stopped /\ \E flags : rt' = [flags |-> flags, alarm |-> "NONE"]
           /\ main' = At("critical") /\ UNCHANGED <<gc, plan>>
  <2>1. MachineShape(machine') /\ machine'.pos = machine.pos /\ machine'.state = "ALARM"
    BY <1>7 DEF Inv, Shapes, MachineShape
  <2>2. At("critical").pc = "critical" /\ At("critical").todo = main.todo
    BY MainChanges DEF Inv, Shapes
  <2>3. WaitsInAction(main')
    BY <1>4, <1>7, <2>2 DEF WaitsInAction
  <2>4. MainShape(main') /\ Work(machine', plan', main') /\ Blocks(machine', plan', main')
    BY <1>7, <2>1, <2>3, WaitKeeps
  <2>5. RtShape(rt') /\ GcShape(gc') /\ PlanShape(plan')
    BY <1>7, FlagsAreGood DEF Inv, Shapes
  <2>6. QED
    BY <1>3, <2>1, <2>4, <2>5 DEF Inv, Shapes
<1>8. QED
  BY <1>2, <1>6, <1>7

LEMMA CriticalKeeps ==
  ASSUME Inv, Critical
  PROVE  Inv'
<1>1. /\ main.pc = "critical" /\ machine' = [machine EXCEPT !.state = "ALARM"]
      /\ rt' = [rt EXCEPT !.alarm = "NONE"] /\ main' = [Done EXCEPT !.abort = TRUE]
      /\ UNCHANGED <<gc, plan, eeprom, hist>>
  BY DEF Critical
<1>2. main.todo # <<>>
  BY <1>1 DEF Inv, Work, WaitsInAction
<1>3. MachineShape(machine') /\ machine'.pos = machine.pos /\ machine'.state = "ALARM"
  BY <1>1 DEF Inv, Shapes, MachineShape
<1>4. /\ MainShape(main') /\ main'.todo = Tail(main.todo) /\ main'.pc = "run"
      /\ main'.startup = main.startup /\ main'.abort
  BY <1>1, MainChanges DEF Inv, Shapes
<1>5. Work(machine, plan, main) /\ Blocks(machine, plan, main)
  BY DEF Inv
<1>6. Work(machine', plan, main') /\ Blocks(machine', plan, main')
  BY <1>2, <1>3, <1>4, <1>5, Advanced
<1>7. /\ GcShape(gc') /\ PlanShape(plan') /\ RtShape(rt') /\ EepromShape' /\ HistShape'
  BY <1>1, FlagsAreGood DEF Inv, Shapes, EepromShape, HistShape
<1>8. plan' = plan
  BY <1>1
<1>9. QED
  BY <1>3, <1>4, <1>6, <1>7, <1>8 DEF Inv, Shapes

\* A block to the target behind the others.
LEMMA BufferedIsGood ==
  ASSUME NEW p, PlanShape(p), NEW target \in Vector, InTravel(target), NEW pos \in Vector,
         EndsInTravel(pos, p.queue), EndOf(pos, p.queue) = p.pos
  PROVE  LET q == Buffered(p, target)
         IN PlanShape(q) /\ EndsInTravel(pos, q.queue) /\ EndOf(pos, q.queue) = q.pos
<1> DEFINE steps == Minus(target, p.pos)
           q == [queue |-> Append(p.queue, steps), pos |-> target]
<1>1. Buffered(p, target) = IF steps = Origin THEN p ELSE q
  BY DEF Buffered
<1>2. p.queue \in Seq(Vector) /\ p.pos \in Vector
  BY DEF PlanShape
<1>3. steps \in Vector
  BY <1>2, PointsAreVectors
<1>4. Plus(p.pos, steps) = target
  <2>1. \A a \in Axes : target[a] \in Int /\ p.pos[a] \in Int
    BY <1>2 DEF Vector
  <2>2. \A a \in Axes : p.pos[a] + (target[a] - p.pos[a]) = target[a]
    BY <2>1
  <2>3. Plus(p.pos, steps) = [a \in Axes |-> target[a]]
    BY <2>2 DEF Plus, Minus
  <2>4. QED
    BY <2>3 DEF Vector
<1>5. PlanShape(q) /\ q.queue = Append(p.queue, steps) /\ q.pos = target
  BY <1>2, <1>3 DEF PlanShape
<1> HIDE DEF steps, q
<1>6. EndsInTravel(pos, q.queue) /\ EndOf(pos, q.queue) = q.pos
  BY <1>2, <1>3, <1>4, <1>5, AppendedBlock
<1>7. QED
  BY <1>1, <1>5, <1>6

LEMMA TailHasNot ==
  ASSUME NEW s, Chain(s), s # <<>>, NEW K, ~Has(s, K)
  PROVE  ~Has(Tail(s), K)
BY TailIsChain DEF Has

LEMMA LineWaitKeeps ==
  ASSUME Inv, LineWait
  PROVE  Inv'
<1> DEFINE s == Polled(State)
           full == Len(s.plan.queue) >= QueueSize
           done == [s EXCEPT !.main = [Done EXCEPT !.abort = s.main.abort]]
           started == [s EXCEPT !.rt = Raise(@, "start")]
           buffered == [done EXCEPT !.plan = Buffered(@, TheOp.target)]
<1>1. /\ main.pc = "line" /\ hist' = HistAfter(s) /\ UNCHANGED eeprom
      /\ CASE s.main.abort -> Become(done)
           [] ~s.main.abort /\ full -> Become(started)
           [] OTHER -> Become(buffered)
  BY Zenon DEF LineWait
<1>2. Good(s) /\ Preserved(State, s) /\ State.main = main
  BY StateIsGood, PolledIsGood
<1> HIDE DEF s
<1>3. EepromShape' /\ HistShape'
  BY <1>1, HistKept DEF Inv, Shapes, EepromShape, HistShape
<1>4. /\ main.todo # <<>> /\ main.todo[1].do = "line" /\ TheOp = main.todo[1]
      /\ InTravel(TheOp.target) /\ TheOp.target \in Vector
  <2>1. main.todo # <<>> /\ main.todo[1].do = "line" /\ InTravel(main.todo[1].target) /\ Chain(main.todo)
    BY <1>1 DEF Inv, Work, WaitsInAction
  <2>2. 1 \in 1..Len(main.todo) /\ TheOp = main.todo[1]
    BY <2>1, ChainLength DEF TheOp
  <2>3. GoodOp(main.todo[1])
    BY <2>1, <2>2 DEF Chain
  <2>4. QED
    BY <2>1, <2>2, <2>3 DEF GoodOp, Targeted, Writes, LaterBytes
<1>5. s.main.abort \in BOOLEAN /\ StateShape(s)
  BY <1>2 DEF Good, StateShape, MainShape
<1>6. /\ Good(done) /\ done.main.todo = Tail(main.todo) /\ done.main.abort = s.main.abort
      /\ done.machine = s.machine /\ done.plan = s.plan
  BY <1>2, <1>4, <1>5, PolledDone
<1>7. Good(started)
  <2>1. /\ DOMAIN started = DOMAIN s /\ started.gc = s.gc /\ started.machine = s.machine
        /\ started.plan = s.plan /\ started.main = s.main /\ started.rt = Raise(s.rt, "start")
    BY <1>5 DEF StateShape
  <2> HIDE DEF started
  <2>2. StateShape(started) /\ Preserved(s, started)
    BY <1>5, <2>1, FlagsAreGood DEF StateShape, Preserved
  <2>3. QED
    BY <1>2, <2>1, <2>2, KeptIsGood
<1> HIDE DEF done
<1>8. ASSUME ~s.main.abort PROVE Good(buffered)
  <2> DEFINE p == Buffered(s.plan, TheOp.target)
  <2>1. ~Has(main.todo, HomingKinds) /\ Chain(main.todo)
    <3>1. 1 \in 1..Len(main.todo)
      BY <1>4, ChainLength DEF Inv, Work
    <3>2. ~OfKinds(main.todo, HomingKinds)
      BY <1>4, <3>1 DEF OfKinds, HomingKinds
    <3>3. QED
      BY <3>2 DEF Inv, Work, HomesAlone
  <2>2. ~Has(done.main.todo, HomingKinds)
    BY <1>4, <1>6, <2>1, TailHasNot
  <2>3. StateShape(done)
    BY <1>6 DEF Good
  <2>4. /\ PlanShape(s.plan) /\ s.machine.pos \in Vector
    BY <1>5 DEF StateShape, MachineShape
  <2>5. EndsInTravel(s.machine.pos, s.plan.queue) /\ EndOf(s.machine.pos, s.plan.queue) = s.plan.pos
    BY <1>6, <1>8, <2>2 DEF Good, Blocks, PlanAgrees
  <2>6. /\ PlanShape(p) /\ EndsInTravel(s.machine.pos, p.queue)
        /\ EndOf(s.machine.pos, p.queue) = p.pos
    BY <1>4, <2>4, <2>5, BufferedIsGood
  <2>7. /\ DOMAIN buffered = DOMAIN done /\ buffered.gc = done.gc /\ buffered.rt = done.rt
        /\ buffered.machine = done.machine /\ buffered.main = done.main /\ buffered.plan = p
    BY <1>6, <2>3 DEF StateShape
  <2> HIDE DEF p, buffered
  <2>8. StateShape(buffered)
    BY <2>3, <2>6, <2>7 DEF StateShape
  <2>9. Work(buffered.machine, buffered.plan, buffered.main)
    BY <1>6, <2>2, <2>7 DEF Good, Work, HomesAlone
  <2>10. Blocks(buffered.machine, buffered.plan, buffered.main)
    BY <1>6, <2>6, <2>7 DEF Blocks, PlanAgrees
  <2>11. QED
    BY <2>8, <2>9, <2>10 DEF Good
<1> HIDE DEF started, buffered, full
<1>9. QED
  BY <1>1, <1>3, <1>6, <1>7, <1>8, BecomesInv

\* The jog starts the motors.
LEMMA JogStarts ==
  ASSUME Inv, DoJog
  PROVE  Inv'
<1>1. /\ Op("jog") /\ main' = Done /\ UNCHANGED <<gc, plan, rt, eeprom, hist>>
      /\ machine' = machine \/ machine' = [machine EXCEPT !.state = "JOG", !.moving = TRUE]
  BY DEF DoJog
<1>2. main.todo # <<>> /\ main.todo[1].do = "jog"
  BY <1>1, OpIsGood
<1>3. MachineShape(machine') /\ machine'.pos = machine.pos
  BY <1>1 DEF Inv, Shapes, MachineShape
<1>4. /\ MainShape(main') /\ main'.todo = Tail(main.todo) /\ main'.pc = "run"
      /\ main'.startup = main.startup /\ main'.abort = main.abort
  BY <1>1, MainChanges DEF Inv, Shapes
<1>5. Work(machine, plan, main) /\ Blocks(machine, plan, main)
  BY DEF Inv
<1>6. Work(machine', plan, main') /\ Blocks(machine', plan, main')
  BY <1>2, <1>3, <1>4, <1>5, Advanced
<1>7. /\ GcShape(gc') /\ PlanShape(plan') /\ RtShape(rt') /\ EepromShape' /\ HistShape'
  BY <1>1 DEF Inv, Shapes, EepromShape, HistShape
<1>8. plan' = plan
  BY <1>1
<1>9. QED
  BY <1>3, <1>4, <1>6, <1>7, <1>8 DEF Inv, Shapes

\* An action that is replaced by others.
LEMMA ReplacedKeeps ==
  ASSUME Inv, NEW name, Op(name), name \notin JogKinds \cup HomingKinds,
         MainShape(main'), main'.pc = "run", main'.startup = main.startup,
         main'.abort = main.abort, Chain(main'.todo), Plain(main'.todo),
         UNCHANGED <<gc, machine, plan, rt, eeprom, hist>>
  PROVE  Inv'
<1>1. UNCHANGED <<machine, plan>>
  OBVIOUS
<1>2. Work(machine', plan', main') /\ Blocks(machine', plan', main')
  BY <1>1, PlainKeeps
<1>3. /\ GcShape(gc') /\ MachineShape(machine') /\ PlanShape(plan') /\ RtShape(rt')
      /\ EepromShape' /\ HistShape'
  BY DEF Inv, Shapes, EepromShape, HistShape
<1>4. QED
  BY <1>2, <1>3 DEF Inv, Shapes

LEMMA MainReplaced ==
  ASSUME MainShape(main)
  PROVE  \A todo : LET v == [main EXCEPT !.todo = todo]
                       u == [main EXCEPT !.contact = FALSE, !.todo = todo]
                   IN /\ MainShape(v) /\ v.todo = todo /\ v.pc = main.pc
                      /\ v.startup = main.startup /\ v.abort = main.abort
                      /\ MainShape(u) /\ u.todo = todo /\ u.pc = main.pc
                      /\ u.startup = main.startup /\ u.abort = main.abort
BY DEF MainShape

LEMMA ArcKeeps ==
  ASSUME Inv, DoArc
  PROVE  Inv' /\ Fresh(main'.todo)
<1> DEFINE t == Tail(main.todo)
<1>1. /\ Op("arc") /\ main.pc = "run" /\ UNCHANGED <<gc, machine, plan, rt, eeprom, hist>>
      /\ \E points \in {<<>>} \cup {MoveTo("line", p) : p \in ArcPoints} :
           main' = [main EXCEPT !.todo = points \o t]
  BY DEF DoArc, Op
<1>2. "arc" \notin JogKinds \cup HomingKinds
  BY DEF JogKinds, HomingKinds, Writes, LaterBytes
<1>3. Fresh(t) /\ Plain(t)
  BY <1>1, <1>2, PlainTail
<1>4. t # <<>> /\ t[1].do = "line"
  <2>1. Chain(main.todo) /\ main.todo # <<>> /\ main.todo[1].do = "arc" /\ 1 \in 1..Len(main.todo)
    BY <1>1, OpIsGood DEF Inv, Work
  <2>2. 1 < Len(main.todo) /\ Follows(main.todo[1], main.todo[1 + 1])
    BY <2>1 DEF Chain, Awaiting, Unwritten
  <2>3. Len(t) = Len(main.todo) - 1 /\ \A i \in 1..Len(t) : t[i] = main.todo[i + 1]
    BY <2>1, TailIsChain
  <2>4. Len(t) \in Nat /\ Len(main.todo) \in Nat /\ (t = <<>> <=> Len(t) = 0)
    BY <1>3, <2>1, ChainLength DEF Fresh
  <2>5. 1 \in 1..Len(t) /\ t # <<>>
    BY <2>2, <2>3, <2>4
  <2> HIDE DEF t
  <2>6. t[1] = main.todo[1 + 1]
    BY <2>3, <2>5
  <2>7. QED
    BY <2>1, <2>2, <2>5, <2>6 DEF Follows, AtTarget, LaterBytes, Unwritten
<1> DEFINE K == {"line"} \cup {t[i].do : i \in 1..Len(t)}
<1>5. "line" \in K /\ Part(t, K) /\ K \cap ({"jog"} \cup HomingKinds) = {}
  BY <1>3 DEF Part, OfKinds, Plain, Has, HomingKinds
<1> HIDE DEF K, t
<1>6. ASSUME NEW p \in ArcPoints
      PROVE  Fresh(MoveTo("line", p) \o t) /\ Plain(MoveTo("line", p) \o t)
  <2>1. p \in Vector
    BY ProgramAssumption
  <2>2. Part(MoveTo("line", p) \o t, K)
    BY <1>4, <1>5, <2>1, PrecededIsFresh
  <2>3. QED
    BY <1>5, <2>2, FreshIsPlain DEF Part
<1>7. <<>> \o t = t
  <2>1. t \in Seq({t[i] : i \in DOMAIN t})
    BY <1>3 DEF Fresh, Chain, IsSeq
  <2>2. QED
    BY <2>1
<1>8. PICK points \in {<<>>} \cup {MoveTo("line", p) : p \in ArcPoints} :
        main' = [main EXCEPT !.todo = points \o t]
  BY <1>1 DEF t
<1>9. Fresh(points \o t) /\ Chain(points \o t) /\ Plain(points \o t)
  BY <1>3, <1>6, <1>7 DEF Fresh
<1>10. /\ MainShape(main') /\ main'.todo = points \o t /\ main'.pc = "run"
       /\ main'.startup = main.startup /\ main'.abort = main.abort
  BY <1>1, <1>8, MainReplaced DEF Inv, Shapes
<1>11. QED
  BY <1>1, <1>2, <1>9, <1>10, ReplacedKeeps

-----------------------------------------------------------------------------
(* The steps of probing and of homing keep the invariant.                   *)

\* An alarm is raised as the first action ends.
LEMMA AlarmedIsGood ==
  ASSUME Inv, NEW name, Op(name), name # "homed", NEW r, RtShape(r)
  PROVE  Good([State EXCEPT !.rt = r, !.main = Done])
<1> DEFINE s == State
           t == [s EXCEPT !.rt = r, !.main = Done]
<1>1. Good(s) /\ s.main = main
  BY StateIsGood
<1>2. t = [State EXCEPT !.rt = r, !.main = Done]
  OBVIOUS
<1> HIDE DEF s
<1>3. StateShape(s)
  BY <1>1 DEF Good
<1>4. /\ DOMAIN t = DOMAIN s /\ t.gc = s.gc /\ t.machine = s.machine /\ t.plan = s.plan
      /\ t.rt = r /\ t.main = Done
  BY <1>3 DEF StateShape
<1> HIDE DEF t
<1>5. /\ MainShape(Done) /\ Done.todo = Tail(main.todo) /\ Done.pc = "run"
      /\ Done.startup = main.startup /\ Done.abort = main.abort
  BY MainChanges DEF Inv, Shapes
<1>6. main.todo # <<>> /\ main.todo[1].do # "homed"
  BY OpIsGood
<1>7. StateShape(t)
  BY <1>3, <1>4, <1>5 DEF StateShape
<1>8. Work(s.machine, s.plan, main) /\ Blocks(s.machine, s.plan, main)
  BY <1>1 DEF Good
<1>9. Work(s.machine, s.plan, Done) /\ Blocks(s.machine, s.plan, Done)
  BY <1>5, <1>6, <1>8, Advanced
<1>10. Good(t)
  BY <1>4, <1>7, <1>9 DEF Good
<1>11. QED
  BY <1>2, <1>10

LEMMA AlarmsKeep ==
  ASSUME Inv, ProbeClosed \/ HomeFailed
  PROVE  Inv'
<1> DEFINE r == [rt EXCEPT !.alarm = "PROBE_FAIL_INITIAL"]
           f == AfterReset([rt EXCEPT !.alarm = "HOMING_FAIL"])
<1>1. RtShape(r) /\ RtShape(f)
  BY FlagsAreGood DEF Inv, Shapes
<1>2. /\ \/ Op("probe_open") /\ Become(Polled([State EXCEPT !.rt = r, !.main = Done]))
         \/ Op("home") /\ Become(Polled([State EXCEPT !.rt = f, !.main = Done]))
      /\ UNCHANGED <<eeprom, hist>>
  <2>1. [State EXCEPT !.rt = [@ EXCEPT !.alarm = "PROBE_FAIL_INITIAL"], !.main = Done]
           = [State EXCEPT !.rt = r, !.main = Done]
    <3> DEFINE s == State
    <3>1. s.rt = rt
      BY StateIsGood
    <3> HIDE DEF s
    <3>2. [s EXCEPT !.rt = [@ EXCEPT !.alarm = "PROBE_FAIL_INITIAL"], !.main = Done]
             = [s EXCEPT !.rt = r, !.main = Done]
      BY <3>1
    <3>3. QED
      BY <3>2 DEF s
  <2>2. CASE ProbeClosed
    BY <2>1, <2>2, Zenon DEF ProbeClosed
  <2>3. CASE HomeFailed
    BY <2>3, Zenon DEF HomeFailed
  <2>4. QED
    BY <2>2, <2>3
<1> HIDE DEF r, f
<1>3. PICK s : Good(s) /\ Become(s)
  BY <1>1, <1>2, AlarmedIsGood, PolledIsGood
<1>4. EepromShape' /\ HistShape'
  BY <1>2 DEF Inv, Shapes, EepromShape, HistShape
<1>5. QED
  BY <1>3, <1>4, BecomesInv

\* The steps of a probe cycle that have to be done first.
LEMMA ProbingReplaced ==
  ASSUME Inv, DoProbe \/ ProbeOpen
  PROVE  Inv' /\ Fresh(main'.todo)
<1> DEFINE t == Tail(main.todo)
           v == TheOp.target
           open == Probing("probe_open")
           run == Probing("probe_run")
           opened == Do("sync") \o <<open>>
           moved == MoveTo("line", v) \o <<run>>
<1>1. /\ (Op("probe") \/ Op("probe_open")) /\ main.pc = "run"
      /\ UNCHANGED <<gc, machine, plan, rt, eeprom, hist>>
  BY DEF DoProbe, ProbeOpen, Op
<1>2. {"probe", "probe_open"} \cap (JogKinds \cup HomingKinds) = {}
  BY DEF JogKinds, HomingKinds, Writes, LaterBytes
<1>3. Fresh(t) /\ Plain(t) /\ v \in Vector
  BY <1>1, <1>2, PlainTail, OpIsGood DEF GoodOp, Targeted, Writes, LaterBytes
<1>4. /\ open.do = "probe_open" /\ open.target = v /\ run.do = "probe_run" /\ run.target = v
  BY DEF Probing
<1>5. Part(opened, {"sync", "probe_open"}) /\ IsSeq(<<open>>)
  <2>1. Part(Do("sync"), {"sync", "probe_open"})
    BY DoIsFresh
  <2>2. GoodOp(open) /\ open.do \notin Awaiting \cup Arriving \cup {"offset"}
    BY <1>3, <1>4 DEF GoodOp, Targeted, Awaiting, Arriving, AtTarget, LaterBytes, Unwritten, Writes
  <2> HIDE DEF open
  <2>3. Part(<<open>>, {"sync", "probe_open"})
    BY <1>4, <2>2, SingleIsFresh
  <2>4. QED
    BY <2>1, <2>3, ConcatIsFresh DEF Part, Fresh, Chain
<1>6. Part(moved, {"line", "probe_run"}) /\ IsSeq(<<run>>) /\ IsSeq(MoveTo("line", v))
  <2>1. GoodOp(run) /\ run.do \notin Awaiting \cup {"offset"}
    BY <1>3, <1>4 DEF GoodOp, Targeted, Awaiting, Unwritten, Writes, LaterBytes
  <2> HIDE DEF run, v
  <2>2. Part(moved, {"line", "probe_run"})
    BY <1>3, <1>4, <2>1, LineIsFresh
  <2>3. Chain(<<run>>)
    BY <1>4, <2>1, SingleIsFresh
  <2>4. MoveTo("line", v) \in Seq({[do |-> "line", target |-> v]})
    BY DEF MoveTo
  <2>5. QED
    BY <2>2, <2>3, <2>4, SequencesAreSeq DEF Chain
<1>7. Fresh(opened \o t) /\ Plain(opened \o t) /\ Fresh(moved \o t) /\ Plain(moved \o t)
  <2> HIDE DEF opened, moved, t
  <2>1. QED
    BY <1>3, <1>5, <1>6, PlainConcat DEF HomingKinds
<1>8. CASE ProbeOpen /\ main.abort
  <2>1. Op("probe_open") /\ main' = Done /\ UNCHANGED <<machine, plan>>
    BY <1>8 DEF ProbeOpen
  <2>2. MainShape(main') /\ Work(machine', plan', main') /\ Blocks(machine', plan', main')
    BY <2>1, DoneKeeps
  <2>3. Fresh(main'.todo)
    BY <1>3, <2>1, MainChanges DEF Inv, Shapes
  <2>4. QED
    BY <1>1, <2>2, <2>3 DEF Inv, Shapes, EepromShape, HistShape
<1>9. CASE ~(ProbeOpen /\ main.abort)
  <2> DEFINE first == Do("sync") \o <<open>> \o t
             then == MoveTo("line", v) \o <<run>> \o t
  <2>1. \/ Op("probe") /\ main' = [main EXCEPT !.contact = FALSE, !.todo = first]
        \/ Op("probe_open") /\ main' = [main EXCEPT !.todo = then]
    BY <1>9, Zenon DEF DoProbe, ProbeOpen
  <2>2. first = opened \o t
    OBVIOUS
  <2>3. then = moved \o t
    OBVIOUS
  <2> HIDE DEF first, then, opened, moved, t, open, run
  <2>4. PICK name, todo : /\ name \in {"probe", "probe_open"} /\ Op(name)
                          /\ Fresh(todo) /\ Plain(todo)
                          /\ main' \in {[main EXCEPT !.contact = FALSE, !.todo = todo],
                                        [main EXCEPT !.todo = todo]}
    BY <1>7, <2>1, <2>2, <2>3
  <2>5. /\ MainShape(main') /\ main'.todo = todo /\ main'.pc = "run"
        /\ main'.startup = main.startup /\ main'.abort = main.abort
    <3> DEFINE u == [main EXCEPT !.contact = FALSE, !.todo = todo]
               w == [main EXCEPT !.todo = todo]
    <3>1. /\ MainShape(w) /\ w.todo = todo /\ w.pc = main.pc
          /\ w.startup = main.startup /\ w.abort = main.abort
          /\ MainShape(u) /\ u.todo = todo /\ u.pc = main.pc
          /\ u.startup = main.startup /\ u.abort = main.abort
      BY MainReplaced, Zenon DEF Inv, Shapes
    <3>2. main' = u \/ main' = w
      BY <2>4
    <3> HIDE DEF u, w
    <3>3. QED
      BY <1>1, <3>1, <3>2
  <2>6. name \notin JogKinds \cup HomingKinds
    BY <1>2, <2>4
  <2>7. UNCHANGED <<gc, machine, plan, rt, eeprom, hist>>
    BY <1>1
  <2>8. Fresh(main'.todo) /\ Chain(main'.todo) /\ Plain(main'.todo)
    BY <2>4, <2>5 DEF Fresh
  <2>9. QED
    BY <2>4, <2>5, <2>6, <2>7, <2>8, ReplacedKeeps
<1>10. QED
  BY <1>8, <1>9

\* What interrupts do to flags and motors alone.
LEMMA MotorsKeep ==
  ASSUME Inv, UNCHANGED <<gc, plan, eeprom>>, HistShape', MachineShape(machine'), RtShape(rt'),
         MainShape(main'), machine'.pos = machine.pos,
         machine'.state = "JOG" => machine.state = "JOG",
         main'.todo = main.todo, main'.pc = main.pc, main'.startup = main.startup,
         main'.abort = main.abort
  PROVE  Inv'
<1>1. Work(machine', plan', main')
  BY WorkSame DEF Inv
<1>2. Blocks(machine', plan', main')
  BY DEF Inv, Blocks, PlanAgrees
<1>3. GcShape(gc') /\ PlanShape(plan') /\ EepromShape'
  BY DEF Inv, Shapes, EepromShape
<1>4. QED
  BY <1>1, <1>2, <1>3 DEF Inv, Shapes

LEMMA ContactKeeps ==
  ASSUME Inv, ProbeContact
  PROVE  Inv'
<1>1. /\ machine' = [machine EXCEPT !.moving = FALSE] /\ rt' = Raise(rt, "stop")
      /\ main' = [main EXCEPT !.contact = TRUE] /\ UNCHANGED <<gc, plan, eeprom, hist>>
  BY DEF ProbeContact
<1>2. MachineShape(machine') /\ machine'.pos = machine.pos /\ machine'.state = machine.state
  BY <1>1 DEF Inv, Shapes, MachineShape
<1>3. /\ MainShape(main') /\ main'.todo = main.todo /\ main'.pc = main.pc
      /\ main'.startup = main.startup /\ main'.abort = main.abort
  BY <1>1 DEF Inv, Shapes, MainShape
<1>4. RtShape(rt') /\ HistShape'
  BY <1>1, FlagsAreGood DEF Inv, Shapes, HistShape
<1>5. QED
  BY <1>1, <1>2, <1>3, <1>4, MotorsKeep

LEMMA ProbeWaitKeeps ==
  ASSUME Inv, ProbeWait
  PROVE  Inv'
<1> DEFINE s == Polled(State)
           aborted == [s EXCEPT !.main = [Done EXCEPT !.abort = TRUE]]
<1>1. /\ main.pc = "probing" /\ UNCHANGED <<eeprom, hist>>
      /\ \/ s.main.abort /\ Become(aborted)
         \/ Become(Probed(s))
         \/ Become(s)
  <2> DEFINE end == CASE s.main.abort -> aborted
                      [] ~s.main.abort /\ s.machine.state = "IDLE" -> Probed(s)
                      [] OTHER -> s
  <2>1. main.pc = "probing" /\ Become(end) /\ UNCHANGED <<eeprom, hist>>
    BY Zenon DEF ProbeWait
  <2> HIDE DEF s, aborted
  <2>2. (end = aborted /\ s.main.abort) \/ end = Probed(s) \/ end = s
    BY Zenon
  <2> HIDE DEF end
  <2>3. QED
    BY <2>1, <2>2
<1>2. Good(s) /\ Preserved(State, s) /\ State.main = main
  BY StateIsGood, PolledIsGood
<1> HIDE DEF s
<1>3. EepromShape' /\ HistShape'
  BY <1>1 DEF Inv, Shapes, EepromShape, HistShape
<1>4. main.todo # <<>> /\ main.todo[1].do = "probe_run" /\ TheOp = main.todo[1]
      /\ TheOp.target \in Vector
  <2>1. main.todo # <<>> /\ main.todo[1].do = "probe_run" /\ Chain(main.todo)
    BY <1>1 DEF Inv, Work, WaitsInAction
  <2>2. 1 \in 1..Len(main.todo) /\ TheOp = main.todo[1]
    BY <2>1, ChainLength DEF TheOp
  <2>3. GoodOp(main.todo[1])
    BY <2>1, <2>2 DEF Chain
  <2>4. QED
    BY <2>1, <2>2, <2>3 DEF GoodOp, Targeted, Writes, LaterBytes
<1>5. Good(aborted)
  BY <1>2, <1>4, PolledDone
<1>6. Good(Probed(s))
  <2> DEFINE alarmed == [s EXCEPT !.rt = [@ EXCEPT !.alarm = "PROBE_FAIL_CONTACT"]]
             polled == Polled(IF ~main.contact /\ ~TheOp.silent THEN alarmed ELSE s)
             u == [polled EXCEPT !.main = [Done EXCEPT !.abort = polled.main.abort]]
             point == IF main.contact THEN s.machine.pos ELSE TheOp.target
             t == [polled EXCEPT
                     !.machine = [@ EXCEPT !.moving = FALSE],
                     !.plan = [queue |-> <<>>, pos |-> s.machine.pos],
                     !.main = [Done EXCEPT !.abort = polled.main.abort],
                     !.gc = [@ EXCEPT !.position = point]]
  <2>1. Probed(s) = t
    BY Zenon DEF Probed
  <2>2. Good(alarmed) /\ Preserved(s, alarmed)
    <3>1. StateShape(s)
      BY <1>2 DEF Good
    <3>2. /\ DOMAIN alarmed = DOMAIN s /\ alarmed.gc = s.gc /\ alarmed.machine = s.machine
          /\ alarmed.plan = s.plan /\ alarmed.main = s.main
          /\ alarmed.rt = [s.rt EXCEPT !.alarm = "PROBE_FAIL_CONTACT"]
      BY <3>1 DEF StateShape
    <3> HIDE DEF alarmed
    <3>3. StateShape(alarmed) /\ Preserved(s, alarmed)
      BY <3>1, <3>2 DEF StateShape, RtShape, Preserved
    <3>4. QED
      BY <1>2, <3>2, <3>3, KeptIsGood
  <2>3. Preserved(s, s)
    BY DEF Preserved
  <2>4. Good(polled) /\ Preserved(State, polled) /\ polled.machine.pos = s.machine.pos
    <3> HIDE DEF alarmed
    <3>1. PICK r : Good(r) /\ Preserved(s, r) /\ polled = Polled(r)
      BY <1>2, <2>2, <2>3
    <3>2. Good(polled) /\ Preserved(r, polled)
      BY <3>1, PolledIsGood
    <3> HIDE DEF polled
    <3>3. QED
      BY <1>2, <3>1, <3>2, KeptChain DEF Preserved
  <2> HIDE DEF polled, alarmed
  <2>5. polled.main.abort \in BOOLEAN /\ StateShape(polled)
    BY <2>4 DEF Good, StateShape, MainShape
  <2>6. /\ Good(u) /\ u.machine = polled.machine /\ u.gc = polled.gc /\ u.rt = polled.rt
        /\ u.main = [Done EXCEPT !.abort = polled.main.abort]
    <3>1. /\ Good(u) /\ u.machine = polled.machine /\ u.gc = polled.gc /\ u.rt = polled.rt
      BY <1>4, <2>4, <2>5, PolledDone
    <3>2. QED
      BY <2>5, <3>1 DEF StateShape
  <2>7. /\ DOMAIN t = DOMAIN polled /\ t.machine = [polled.machine EXCEPT !.moving = FALSE]
        /\ t.plan = [queue |-> <<>>, pos |-> s.machine.pos]
        /\ t.main = [Done EXCEPT !.abort = polled.main.abort] /\ t.rt = polled.rt
        /\ t.gc = [polled.gc EXCEPT !.position = point]
    BY <2>5 DEF StateShape
  <2>8. s.machine.pos \in Vector /\ point \in Vector
    BY <1>2, <1>4 DEF Good, StateShape, MachineShape
  <2> HIDE DEF t, u, point
  <2>9. /\ t.machine.pos = s.machine.pos /\ t.machine.state = polled.machine.state
        /\ MachineShape(t.machine)
    BY <2>4, <2>5, <2>7 DEF StateShape, MachineShape
  <2>10. t.plan.queue = <<>> /\ t.plan.pos = s.machine.pos /\ PlanShape(t.plan)
    BY <2>7, <2>8, EmptyQueue DEF PlanShape
  <2>11. GcShape(t.gc)
    BY <2>5, <2>7, <2>8, PositionIsGood DEF StateShape
  <2>12. StateShape(t)
    BY <2>5, <2>6, <2>7, <2>9, <2>10, <2>11 DEF StateShape, Good
  <2>13. Preserved(u, t) /\ t.plan.pos = u.machine.pos
    BY <2>4, <2>6, <2>7, <2>9, <2>10 DEF Preserved
  <2>14. Good(t)
    BY <2>6, <2>10, <2>12, <2>13, FlushedIsGood
  <2>15. QED
    BY <2>1, <2>14
<1> HIDE DEF aborted
<1>7. QED
  BY <1>1, <1>2, <1>3, <1>5, <1>6, BecomesInv

LEMMA HomeFoundKeeps ==
  ASSUME Inv, HomeFound
  PROVE  Inv'
<1> DEFINE pos == [a \in Axes |-> IF a \in TheOp.axes THEN 0 ELSE machine.pos[a]]
<1>1. /\ Op("home") /\ machine' = [machine EXCEPT !.pos = pos]
      /\ main' = Done /\ UNCHANGED <<gc, plan, rt, eeprom, hist>>
  BY DEF HomeFound
<1>2. main.todo # <<>> /\ main.todo[1].do = "home" /\ 1 \in 1..Len(main.todo)
  BY <1>1, OpIsGood
<1>3. Has(main.todo, HomingKinds) /\ plan.queue = <<>>
  BY <1>2 DEF Inv, Work, HomesAlone, Has, HomingKinds
<1>4. pos \in Vector /\ InTravel(pos)
  <2>1. machine.pos \in Vector
    BY DEF Inv, Shapes, MachineShape
  <2>2. pos \in Vector
    BY <2>1 DEF Vector
  <2>3. InTravel(machine.pos)
    BY <2>1, <1>3, EmptyQueue DEF Inv, Blocks
  <2>4. InTravel(pos)
    BY <2>1, <2>3, TravelAssumption DEF InTravel, OutOfTravel, Vector
  <2>5. QED
    BY <2>2, <2>4
<1> HIDE DEF pos
<1>5. MachineShape(machine') /\ machine'.pos = pos /\ machine'.state = machine.state
  BY <1>1, <1>4 DEF Inv, Shapes, MachineShape
<1>6. /\ MainShape(main') /\ main'.todo = Tail(main.todo) /\ main'.pc = "run"
      /\ main'.startup = main.startup /\ main'.abort = main.abort
  BY <1>1, MainChanges DEF Inv, Shapes
<1>7. Work(machine', plan, main') /\ Has(main'.todo, HomingKinds)
  <2>1. Work(machine, plan, main)
    BY DEF Inv
  <2>2. /\ Work(machine', plan, main')
        /\ Has(main.todo, HomingKinds) /\ main.todo[1].do # "homed" => Has(main'.todo, HomingKinds)
    BY <1>2, <1>5, <1>6, <2>1, WorkDone
  <2>3. QED
    BY <1>2, <1>3, <2>2
<1>8. Blocks(machine', plan, main')
  BY <1>3, <1>4, <1>5, <1>7, EmptyQueue DEF Blocks, PlanAgrees
<1>9. plan' = plan /\ GcShape(gc') /\ PlanShape(plan') /\ RtShape(rt') /\ EepromShape' /\ HistShape'
  BY <1>1 DEF Inv, Shapes, EepromShape, HistShape
<1>10. QED
  BY <1>5, <1>6, <1>7, <1>8, <1>9 DEF Inv, Shapes

\* The planner and the parser are told where the machine is.
LEMMA HomedKeeps ==
  ASSUME Inv, Homed
  PROVE  Inv'
<1> DEFINE s == Polled(State)
           aborted == [s EXCEPT !.main = [Done EXCEPT !.abort = TRUE]]
           synced == [s EXCEPT !.machine = [@ EXCEPT !.state = "IDLE", !.moving = FALSE],
                               !.gc = [@ EXCEPT !.position = s.machine.pos],
                               !.plan = [@ EXCEPT !.pos = s.machine.pos],
                               !.main = [Done EXCEPT !.startup = TheOp.startup]]
<1>1. /\ Op("homed") /\ UNCHANGED <<eeprom, hist>>
      /\ Become(IF s.main.abort THEN aborted ELSE synced)
  BY Zenon DEF Homed
<1>2. Good(s) /\ Preserved(State, s) /\ State.main = main
  BY StateIsGood, PolledIsGood
<1> HIDE DEF s
<1>3. EepromShape' /\ HistShape'
  BY <1>1 DEF Inv, Shapes, EepromShape, HistShape
<1>4. /\ main.todo # <<>> /\ main.todo[1].do = "homed" /\ 1 \in 1..Len(main.todo)
      /\ TheOp.startup \in Seq(StartupLines)
  BY <1>1, OpIsGood DEF GoodOp, Writes, LaterBytes
<1>5. Good(aborted)
  BY <1>2, <1>4, PolledDone
<1>6. Good(synced)
  <2> DEFINE v == [Done EXCEPT !.startup = TheOp.startup]
             k == [s.machine EXCEPT !.state = "IDLE", !.moving = FALSE]
             p == [s.plan EXCEPT !.pos = s.machine.pos]
             g == [s.gc EXCEPT !.position = s.machine.pos]
  <2>1. StateShape(s) /\ s.main.todo = main.todo
    BY <1>2 DEF Good, Preserved
  <2>2. s.plan.queue = <<>>
    BY <1>2, <1>4, <2>1 DEF Good, Work, HomesAlone, Has, HomingKinds
  <2>3. s.machine.pos \in Vector /\ InTravel(s.machine.pos)
    <3>1. s.machine.pos \in Vector
      BY <2>1 DEF StateShape, MachineShape
    <3>2. QED
      BY <1>2, <2>2, <3>1, EmptyQueue DEF Good, Blocks
  <2>4. /\ MainShape(v) /\ v.todo = Tail(main.todo) /\ v.pc = "run"
    BY <1>4 DEF Inv, Shapes, MainShape, Done
  <2>5. k.pos = s.machine.pos /\ k.state = "IDLE" /\ MachineShape(k)
    BY <2>1 DEF StateShape, MachineShape
  <2>6. p.queue = <<>> /\ p.pos = s.machine.pos /\ PlanShape(p)
    BY <2>1, <2>2, <2>3 DEF StateShape, PlanShape
  <2>7. GcShape(g)
    BY <2>1, <2>3, PositionIsGood DEF StateShape
  <2>8. /\ DOMAIN synced = DOMAIN s /\ synced.gc = g /\ synced.machine = k /\ synced.plan = p
        /\ synced.main = v /\ synced.rt = s.rt
    BY <2>1 DEF StateShape
  <2> HIDE DEF synced, v, k, p, g
  <2>9. StateShape(synced)
    BY <2>1, <2>4, <2>5, <2>6, <2>7, <2>8 DEF StateShape
  <2>10. Work(k, p, v)
    <3>1. Chain(main.todo) /\ OfKinds(main.todo, HomingKinds)
      BY <1>4 DEF Inv, Work, HomesAlone, Has, HomingKinds
    <3>2. Chain(v.todo) /\ OfKinds(v.todo, HomingKinds)
      BY <1>4, <2>4, <3>1, TailIsChain
    <3>3. ~Has(v.todo, {"jog"})
      BY <3>2 DEF OfKinds, Has, HomingKinds
    <3>4. QED
      BY <2>4, <2>5, <2>6, <3>2, <3>3 DEF Work, WaitsInAction, JogsAlone, HomesAlone
  <2>11. Blocks(k, p, v)
    BY <2>3, <2>5, <2>6, EmptyQueue DEF Blocks, PlanAgrees
  <2>12. QED
    BY <2>8, <2>9, <2>10, <2>11 DEF Good
<1> HIDE DEF aborted, synced
<1>7. QED
  BY <1>1, <1>3, <1>5, <1>6, BecomesInv

\* mc_reset(), by the program or by the user.
LEMMA KilledIsGood ==
  ASSUME Inv
  PROVE  /\ MachineShape(Killed(rt)) /\ Killed(rt).pos = machine.pos
         /\ Killed(rt).state = machine.state /\ RtShape(AfterReset(rt))
BY FlagsAreGood DEF Inv, Shapes, MachineShape, Killed

LEMMA ResetsKeep ==
  ASSUME Inv, DoReset
  PROVE  Inv'
<1>1. /\ Op("reset") /\ machine' = Killed(rt) /\ rt' = AfterReset(rt) /\ main' = Done
      /\ UNCHANGED <<gc, plan, eeprom, hist>>
  BY DEF DoReset
<1>2. main.todo # <<>> /\ main.todo[1].do = "reset"
  BY <1>1, OpIsGood
<1>3. /\ MachineShape(machine') /\ machine'.pos = machine.pos /\ machine'.state = machine.state
      /\ RtShape(rt')
  BY <1>1, KilledIsGood
<1>4. /\ MainShape(main') /\ main'.todo = Tail(main.todo) /\ main'.pc = "run"
      /\ main'.startup = main.startup /\ main'.abort = main.abort
  BY <1>1, MainChanges DEF Inv, Shapes
<1>5. Work(machine, plan, main) /\ Blocks(machine, plan, main)
  BY DEF Inv
<1>6. Work(machine', plan, main') /\ Blocks(machine', plan, main')
  BY <1>2, <1>3, <1>4, <1>5, Advanced
<1>7. plan' = plan /\ GcShape(gc') /\ PlanShape(plan') /\ EepromShape' /\ HistShape'
  BY <1>1 DEF Inv, Shapes, EepromShape, HistShape
<1>8. QED
  BY <1>3, <1>4, <1>6, <1>7 DEF Inv, Shapes

\* One record is cleared, the next is to follow.
LEMMA ClearsKeep ==
  ASSUME Inv, DoClear
  PROVE  Inv' /\ Fresh(main'.todo)
<1> DEFINE n == TheOp.record
           op == [do |-> "clear", record |-> n + 1]
           others == IF n + 1 \in Records THEN <<op>> ELSE <<>>
           s == WriteRecord(n, Origin) \o others
           t == Tail(main.todo)
<1>1. /\ Op("clear") /\ UNCHANGED <<gc, machine, plan, rt, eeprom, hist>>
      /\ main' = [Done EXCEPT !.todo = s \o @]
  BY Zenon DEF DoClear
<1>2. "clear" \notin JogKinds \cup HomingKinds
  BY DEF JogKinds, HomingKinds, Writes, LaterBytes
<1>3. Fresh(t) /\ Plain(t) /\ n \in Records
  BY <1>1, <1>2, PlainTail, OpIsGood DEF GoodOp, Writes, LaterBytes
<1> DEFINE K == {"sync", "clear"} \cup Writes
<1>4. Part(WriteRecord(n, Origin), K)
  BY <1>3, OriginInTravel, WriteRecordIsFresh
<1>5. Part(others, K)
  <2>1. CASE n + 1 \in Records
    <3>1. op.do = "clear" /\ op.record = n + 1
      OBVIOUS
    <3> HIDE DEF op
    <3>2. GoodOp(op) /\ op.do \notin Awaiting \cup Arriving \cup {"offset"}
      BY <2>1, <3>1
         DEF GoodOp, Targeted, Awaiting, Arriving, AtTarget, LaterBytes, Unwritten, Writes
    <3>3. Part(<<op>>, K)
      BY <3>1, <3>2, SingleIsFresh
    <3>4. QED
      BY <2>1, <3>3
  <2>2. CASE n + 1 \notin Records
    BY <2>2, NothingIsFresh
  <2>3. QED
    BY <2>1, <2>2
<1>6. Part(s, K)
  <2> HIDE DEF others, K
  <2>1. QED
    BY <1>4, <1>5, ConcatIsFresh
<1>7. K \cap ({"jog"} \cup HomingKinds) = {}
  BY DEF HomingKinds, Writes, LaterBytes
<1> HIDE DEF s, K, t
<1>8. Fresh(s \o t) /\ Chain(s \o t) /\ Plain(s \o t)
  BY <1>3, <1>6, <1>7, PlainConcat
<1>9. main' = [Done EXCEPT !.todo = s \o t]
  <2>1. Done.todo = t
    BY MainChanges DEF Inv, Shapes, t
  <2>2. QED
    BY <1>1, <2>1
<1>10. /\ MainShape(main') /\ main'.todo = s \o t /\ main'.pc = "run"
       /\ main'.startup = main.startup /\ main'.abort = main.abort
  <2> DEFINE v == [Done EXCEPT !.todo = s \o t]
  <2>1. /\ MainShape(v) /\ v.todo = s \o t /\ v.pc = "run"
        /\ v.startup = main.startup /\ v.abort = main.abort
    BY MainChanges, Zenon DEF Inv, Shapes
  <2>2. main' = v
    BY <1>9
  <2> HIDE DEF v
  <2>3. QED
    BY <2>1, <2>2
<1>11. Fresh(main'.todo) /\ Chain(main'.todo) /\ Plain(main'.todo)
  BY <1>8, <1>10
<1>12. QED
  BY <1>1, <1>2, <1>10, <1>11, ReplacedKeeps

-----------------------------------------------------------------------------
(* The main loop keeps the invariant.                                       *)

\* A line begins when nothing is left of the last one.
LEMMA NewWork ==
  ASSUME Inv, main.todo = <<>>, machine'.pos = machine.pos, UNCHANGED plan,
         main'.abort = main.abort
  PROVE  /\ Blocks(machine', plan', main')
         /\ main'.pc = "run" /\ Chain(main'.todo) /\ Plain(main'.todo) /\ machine'.state # "JOG"
              => Work(machine', plan', main')
<1>1. Len(<<>>) = 0
  OBVIOUS
<1>2. ~Has(main.todo, HomingKinds)
  BY <1>1 DEF Has
<1>3. Blocks(machine', plan', main')
  BY <1>2 DEF Inv, Blocks, PlanAgrees
<1>4. QED
  BY <1>3, PlainIsWork

\* The words a line is made of are those of a program, or stored ones.
LEMMA WordsAreLines ==
  ASSUME Inv
  PROVE  /\ hist.program # <<>> => TheWords \in Lines /\ Tail(hist.program) \in
                                     Seq([kind : STRING, words : Lines])
         /\ \A n \in StartupLines : eeprom.startup[n] \in Lines
         /\ GoodRecords(eeprom.records)
<1>1. hist.program \in Seq([kind : STRING, words : Lines])
  BY DEF Inv, Shapes, HistShape
<1>2. ASSUME hist.program # <<>>
      PROVE  TheWords \in Lines /\ Tail(hist.program) \in Seq([kind : STRING, words : Lines])
  <2> DEFINE L == [kind : STRING, words : Lines]
  <2>1. Head(hist.program) \in L /\ Tail(hist.program) \in Seq(L)
    <3> HIDE DEF L
    <3>1. QED
      BY <1>1, <1>2, HeadTailProperties DEF L
  <2>2. QED
    BY <2>1 DEF TheWords
<1>3. QED
  BY <1>2 DEF Inv, Shapes, EepromShape, GoodRecords

LEMMA ExecuteKeeps ==
  ASSUME Inv, NEW words \in Lines, NEW jog \in BOOLEAN, NEW then, Fresh(then), Plain(then),
         NEW rest \in Seq(StartupLines), main.todo = <<>>, Execute(words, jog, then, rest),
         jog => then = <<>> /\ rest = <<>>, ~jog => machine.state # "JOG",
         main.pc = "idle" => hist.program # <<>>, UNCHANGED <<gc, plan, eeprom>>
  PROVE  Inv' /\ Fresh(main'.todo)
<1> DEFINE p == Parsed(gc, jog, words)
           b == Checked(p, gc, eeprom.records)
           changed == b.machine # "SAME"
           todo == IF b.status = "OK" THEN Steps(b, gc) \o then
                   ELSE IF b.repair # {} THEN WriteRecord(CHOOSE n \in b.repair : TRUE, Origin)
                   ELSE <<>>
<1>1. /\ main' = [main EXCEPT !.pc = "run", !.startup = rest, !.todo = todo]
      /\ machine' = [machine EXCEPT !.mode = IF changed THEN b.machine ELSE @]
      /\ rt' = [rt EXCEPT !.alarm = IF changed THEN "MACHINE_MODE_CHANGED" ELSE @]
      /\ hist' = [hist EXCEPT !.programmed = Programmed(b),
                              !.program = IF main.pc = "idle" THEN Tail(@) ELSE @]
  BY Zenon DEF Execute
<1> HIDE DEF changed
<1>2. MachineShape(machine') /\ machine'.pos = machine.pos /\ machine'.state = machine.state
  BY <1>1 DEF Inv, Shapes, MachineShape
<1>3. RtShape(rt')
  BY <1>1 DEF Inv, Shapes, RtShape
<1>4. HistShape'
  <2>1. hist.program # <<>> => Tail(hist.program) \in Seq([kind : STRING, words : Lines])
    BY WordsAreLines
  <2>2. QED
    BY <1>1, <2>1 DEF Inv, Shapes, HistShape
<1>5. GcShape(gc') /\ PlanShape(plan') /\ EepromShape'
  BY DEF Inv, Shapes, EepromShape
<1> HIDE DEF todo
<1>6. /\ MainShape(main') /\ main'.todo = todo /\ main'.pc = "run" /\ main'.startup = rest
      /\ main'.abort = main.abort
  BY <1>1 DEF Inv, Shapes, MainShape
<1>7. GoodParser(gc) /\ gc.coord_select \in 0..5 /\ GoodRecords(eeprom.records)
  BY WordsAreLines DEF Inv, Shapes, GcShape, GoodParser
<1>8. p \in WordBlocks(gc, jog)
  BY <1>7, ParsedIsBlock
<1> HIDE DEF p
<1>9. /\ b.repair \in SUBSET Records
      /\ b.status = "OK" =>
           GoodBlock(b) /\ b.jog = jog /\ (jog /\ SoftLimits => ~OutOfTravel(b.xyz))
  <2> HIDE DEF b
  <2>1. /\ b.repair \in SUBSET Records
        /\ b.status = "OK" =>
             GoodBlock(b) /\ b.jog = jog /\ (jog /\ SoftLimits => ~OutOfTravel(b.xyz))
    BY <1>7, <1>8, CheckedIsGood DEF b
  <2>2. QED
    BY <2>1
<1> HIDE DEF b
<1>10. ASSUME b.status # "OK" PROVE Part(todo, {"sync"} \cup Writes)
  <2>1. CASE b.repair # {}
    <3> DEFINE n == CHOOSE n \in b.repair : TRUE
    <3>1. n \in b.repair
      BY <2>1
    <3>2. todo = WriteRecord(n, Origin)
      BY <1>10, <2>1 DEF todo
    <3> HIDE DEF n
    <3>3. Part(WriteRecord(n, Origin), {"sync"} \cup Writes)
      BY <1>9, <3>1, OriginInTravel, WriteRecordIsFresh
    <3>4. QED
      BY <3>2, <3>3
  <2>2. CASE b.repair = {}
    BY <1>10, <2>2, NothingIsFresh DEF todo
  <2>3. QED
    BY <2>1, <2>2
<1>11. CASE ~jog
  <2>1. Fresh(todo) /\ Chain(todo) /\ Plain(todo)
    <3>1. CASE b.status # "OK"
      BY <1>10, <3>1, FreshIsPlain DEF Part, HomingKinds, Writes, LaterBytes
    <3>2. CASE b.status = "OK"
      <4>1. Part(Steps(b, gc), LineKinds)
        BY <1>7, <1>9, <1>11, <3>2, StepsAreFresh
      <4>2. LineKinds \cap ({"jog"} \cup HomingKinds) = {}
        BY DEF LineKinds, PlainKinds, HomingKinds, Writes, LaterBytes
      <4>3. QED
        BY <3>2, <4>1, <4>2, PlainConcat DEF todo
    <3>3. QED
      BY <3>1, <3>2
  <2>2. Work(machine', plan', main') /\ Blocks(machine', plan', main')
    BY <1>2, <1>6, <1>11, <2>1, NewWork
  <2>3. QED
    BY <1>2, <1>3, <1>4, <1>5, <1>6, <2>1, <2>2 DEF Inv, Shapes
<1>12. CASE jog
  <2>1. Part(todo, JogKinds) /\ \A i \in 1..Len(todo) : todo[i].do = "line" => InTravel(todo[i].target)
    <3>1. CASE b.status # "OK"
      <4>1. Part(todo, {"sync"} \cup Writes)
        BY <1>10, <3>1
      <4>2. QED
        BY <4>1 DEF Part, OfKinds, JogKinds, Writes, LaterBytes
    <3>2. CASE b.status = "OK"
      <4> DEFINE s == Steps(b, gc)
      <4>1. Part(s, JogKinds) /\ \A i \in 1..Len(s) : s[i].target = b.xyz
        BY <1>7, <1>9, <1>12, <3>2, StepsAreFresh
      <4>2. todo = s \o <<>>
        BY <1>12, <3>2 DEF todo
      <4> HIDE DEF s
      <4>3. s \in Seq({s[i] : i \in DOMAIN s})
        BY <4>1 DEF Part, Fresh, Chain, IsSeq
      <4>4. todo = s
        BY <4>2, <4>3
      <4>5. InTravel(b.xyz)
        BY <1>9, <1>12, <3>2 DEF InTravel
      <4>6. QED
        BY <4>1, <4>4, <4>5
    <3>3. QED
      BY <3>1, <3>2
  <2>2. Blocks(machine', plan', main')
    BY <1>2, <1>6, NewWork
  <2>3. JogsAlone(machine', main')
    BY <1>6, <1>12, <2>1 DEF JogsAlone, Part
  <2>4. ~Has(main'.todo, HomingKinds)
    BY <1>6, <2>1 DEF Part, OfKinds, Has, HomingKinds, JogKinds, Writes, LaterBytes
  <2>5. Work(machine', plan', main')
    BY <1>6, <2>1, <2>3, <2>4 DEF Work, WaitsInAction, HomesAlone, Part, Fresh
  <2>6. QED
    BY <1>2, <1>3, <1>4, <1>5, <1>6, <2>1, <2>2, <2>5 DEF Inv, Shapes, Part
<1>13. QED
  BY <1>11, <1>12

\* Between two lines nothing is left to do.
LEMMA ReadsAtRest ==
  ASSUME Inv, NEW kind, Reads(kind)
  PROVE  /\ main.pc = "idle" /\ main.todo = <<>> /\ main.startup = <<>> /\ ~main.abort
         /\ hist.program # <<>>
BY DEF Reads, Inv, Work, WaitsInAction

LEMMA GcodeKeeps ==
  ASSUME Inv, Gcode \/ Jog \/ StoreStartup
  PROVE  Inv' /\ Fresh(main'.todo)
<1> DEFINE store == [do |-> "store", words |-> TheWords]
           stored == Do("sync") \o <<store>>
<1>1. /\ UNCHANGED <<gc, plan, eeprom>>
      /\ \/ Takes("gcode") /\ Execute(TheWords, FALSE, <<>>, <<>>)
         \/ Takes("jog") /\ Execute(TheWords, TRUE, <<>>, <<>>)
         \/ Takes("store") /\ Execute(TheWords, FALSE, stored, <<>>)
  BY Zenon DEF Gcode, Jog, StoreStartup
<1>2. main.todo = <<>> /\ hist.program # <<>>
  BY <1>1, ReadsAtRest DEF Takes
<1>3. TheWords \in Lines
  BY <1>2, WordsAreLines
<1>4. Takes("gcode") \/ Takes("store") => machine.state # "JOG"
  BY DEF Takes, TakenIn
<1>5. Fresh(stored) /\ Plain(stored)
  <2> DEFINE K == {"sync", "store"}
  <2>1. store.do = "store" /\ store.words = TheWords
    OBVIOUS
  <2> HIDE DEF store
  <2>2. GoodOp(store) /\ store.do \notin Awaiting \cup Arriving \cup {"offset"}
    BY <1>3, <2>1 DEF GoodOp, Targeted, Awaiting, Arriving, AtTarget, LaterBytes, Unwritten, Writes
  <2>3. Part(<<store>>, K)
    BY <2>1, <2>2, SingleIsFresh
  <2>4. Part(stored, K)
    BY <2>3, DoIsFresh, ConcatIsFresh
  <2>5. QED
    BY <2>4, FreshIsPlain DEF HomingKinds, Part
<1>6. Fresh(<<>>) /\ Plain(<<>>) /\ <<>> \in Seq(StartupLines)
  <2>1. Part(<<>>, {})
    BY NothingIsFresh
  <2>2. QED
    BY <2>1, FreshIsPlain DEF Part
<1> HIDE DEF stored
<1>7. CASE Takes("gcode") /\ Execute(TheWords, FALSE, <<>>, <<>>)
  BY <1>1, <1>2, <1>3, <1>4, <1>6, <1>7, ExecuteKeeps
<1>8. CASE Takes("jog") /\ Execute(TheWords, TRUE, <<>>, <<>>)
  BY <1>1, <1>2, <1>3, <1>6, <1>8, ExecuteKeeps
<1>9. CASE Takes("store") /\ Execute(TheWords, FALSE, stored, <<>>)
  BY <1>1, <1>2, <1>3, <1>4, <1>5, <1>6, <1>9, ExecuteKeeps
<1>10. QED
  BY <1>1, <1>7, <1>8, <1>9

\* A startup line: no jog is left, or it would stand alone.
LEMMA StartupKeeps ==
  ASSUME Inv, Startup
  PROVE  Inv' /\ Fresh(main'.todo)
<1> DEFINE words == eeprom.startup[Head(main.startup)]
           rest == Tail(main.startup)
<1>1. /\ main.pc = "run" /\ main.todo = <<>> /\ main.startup # <<>>
      /\ Execute(words, FALSE, <<>>, rest) /\ UNCHANGED <<gc, plan, eeprom>>
  BY DEF Startup
<1>2. Head(main.startup) \in StartupLines /\ rest \in Seq(StartupLines)
  <2>1. main.startup \in Seq(StartupLines)
    BY DEF Inv, Shapes, MainShape
  <2>2. QED
    BY <1>1, <2>1
<1>3. words \in Lines
  BY <1>2, WordsAreLines
<1>4. machine.state # "JOG"
  BY <1>1 DEF Inv, Work, JogsAlone
<1>5. Fresh(<<>>) /\ Plain(<<>>)
  <2>1. Part(<<>>, {})
    BY NothingIsFresh
  <2>2. QED
    BY <2>1, FreshIsPlain DEF Part
<1> HIDE DEF words, rest
<1>6. QED
  BY <1>1, <1>2, <1>3, <1>4, <1>5, ExecuteKeeps

LEMMA EndOfLineKeeps ==
  ASSUME Inv, EndOfLine
  PROVE  Inv'
<1>1. /\ main.todo = <<>> /\ main.startup = <<>> /\ main' = At("idle")
      /\ UNCHANGED <<gc, machine, plan, rt, eeprom, hist>>
  BY DEF EndOfLine
<1>2. At("idle").pc = "idle" /\ At("idle").todo = main.todo /\ At("idle").startup = main.startup
  BY MainChanges DEF Inv, Shapes
<1>3. WaitsInAction(main')
  BY <1>1, <1>2 DEF WaitsInAction
<1>4. MainShape(main') /\ Work(machine', plan', main') /\ Blocks(machine', plan', main')
  BY <1>1, <1>3, WaitKeeps
<1>5. QED
  BY <1>1, <1>4 DEF Inv, Shapes, EepromShape, HistShape

LEMMA IdleKeeps ==
  ASSUME Inv, Idle
  PROVE  Inv'
<1> DEFINE start(r) == [State EXCEPT !.rt = r]
           s(r) == Polled(start(r))
           booting(r) == [s(r) EXCEPT !.main = [@ EXCEPT !.pc = "boot"]]
           next(r) == IF s(r).main.abort THEN booting(r) ELSE s(r)
<1>1. /\ main.pc = "idle" /\ UNCHANGED eeprom
      /\ \E r \in {rt, AutoStart(rt)} : Become(next(r)) /\ hist' = HistAfter(next(r))
  BY Zenon DEF Idle
<1>2. PICK r \in {rt, AutoStart(rt)} : Become(next(r)) /\ hist' = HistAfter(next(r))
  BY <1>1
<1>3. RtShape(r)
  BY FlagsAreGood DEF Inv, Shapes
<1>4. Good(start(r)) /\ start(r).main = main
  <2> DEFINE s0 == State
             t == [s0 EXCEPT !.rt = r]
  <2>1. Good(s0) /\ s0.main = main
    BY StateIsGood
  <2>2. start(r) = t
    OBVIOUS
  <2> HIDE DEF s0
  <2>3. StateShape(s0)
    BY <2>1 DEF Good
  <2>4. /\ DOMAIN t = DOMAIN s0 /\ t.gc = s0.gc /\ t.machine = s0.machine /\ t.plan = s0.plan
        /\ t.main = s0.main /\ t.rt = r
    BY <2>3 DEF StateShape
  <2> HIDE DEF t, start
  <2>5. StateShape(t) /\ Preserved(s0, t)
    BY <1>3, <2>3, <2>4 DEF StateShape, Preserved
  <2>6. QED
    BY <2>1, <2>2, <2>4, <2>5, KeptIsGood
<1> HIDE DEF start
<1> DEFINE u == s(r)
           v == [u EXCEPT !.main = [@ EXCEPT !.pc = "boot"]]
<1>5. Good(u) /\ Preserved(start(r), u)
  BY <1>4, PolledIsGood
<1>6. Become(IF u.main.abort THEN v ELSE u) /\ \E w : hist' = HistAfter(w)
  BY <1>2
<1> HIDE DEF u
<1>7. Good(v)
  <2>1. u.main.todo = <<>> /\ u.main.startup = <<>>
    BY <1>1, <1>4, <1>5 DEF Preserved, Inv, Work, WaitsInAction
  <2>2. StateShape(u)
    BY <1>5 DEF Good
  <2>3. /\ DOMAIN v = DOMAIN u /\ v.gc = u.gc /\ v.machine = u.machine /\ v.plan = u.plan
        /\ v.rt = u.rt /\ v.main = [u.main EXCEPT !.pc = "boot"]
    BY <2>2 DEF StateShape
  <2> HIDE DEF v
  <2>4. /\ MainShape(v.main) /\ v.main.pc = "boot" /\ v.main.todo = u.main.todo
        /\ v.main.startup = u.main.startup /\ v.main.abort = u.main.abort
    BY <2>2, <2>3 DEF StateShape, MainShape
  <2>5. WaitsInAction(v.main)
    BY <2>1, <2>4 DEF WaitsInAction
  <2>6. Work(v.machine, v.plan, v.main)
    <3>1. Work(u.machine, u.plan, u.main)
      BY <1>5 DEF Good
    <3>2. v.machine = u.machine /\ v.plan = u.plan
      BY <2>3
    <3>3. QED
      BY <2>4, <2>5, <3>1, <3>2, WorkWaits
  <2>7. Blocks(v.machine, v.plan, v.main)
    BY <1>5, <2>3, <2>4 DEF Good, Blocks, PlanAgrees
  <2>8. StateShape(v)
    BY <2>2, <2>3, <2>4 DEF StateShape
  <2>9. QED
    BY <2>6, <2>7, <2>8 DEF Good
<1> HIDE DEF v
<1>8. EepromShape' /\ HistShape'
  BY <1>1, <1>6, HistKept DEF Inv, Shapes, EepromShape, HistShape
<1>9. QED
  BY <1>5, <1>6, <1>7, <1>8, BecomesInv

\* A line that is done at once, or by a few actions.
LEMMA DirectlyKeeps ==
  ASSUME Inv, NEW kind, Reads(kind), NEW todo, Directly(todo), Fresh(todo), Plain(todo),
         MachineShape(machine'), machine'.pos = machine.pos,
         machine'.state # "JOG" \/ todo = <<>>, UNCHANGED <<gc, plan, rt, eeprom>>
  PROVE  Inv' /\ Fresh(main'.todo)
<1>1. /\ main.todo = <<>> /\ main.startup = <<>> /\ hist.program # <<>>
  BY ReadsAtRest
<1>2. /\ MainShape(main') /\ main'.todo = todo /\ main'.pc = "run"
      /\ main'.startup = main.startup /\ main'.abort = main.abort
  BY DEF Directly, Inv, Shapes, MainShape
<1>3. HistShape'
  <2>1. Tail(hist.program) \in Seq([kind : STRING, words : Lines])
    BY <1>1, WordsAreLines
  <2>2. hist' = [[hist EXCEPT !.programmed = NothingProgrammed] EXCEPT !.program = Tail(hist.program)]
    BY DEF Directly, Unprogrammed, Inv, Shapes, HistShape
  <2>3. QED
    BY <2>1, <2>2 DEF Inv, Shapes, HistShape
<1>4. Blocks(machine', plan', main')
  BY <1>1, <1>2, NewWork
<1>5. CASE machine'.state # "JOG"
  <2>1. Work(machine', plan', main')
    BY <1>2, <1>5, PlainIsWork DEF Fresh
  <2>2. QED
    BY <1>2, <1>3, <1>4, <2>1 DEF Inv, Shapes, EepromShape
<1>6. CASE todo = <<>>
  <2>1. Len(<<>>) = 0
    OBVIOUS
  <2>2. Work(machine', plan', main')
    BY <1>1, <1>2, <1>6, <2>1 DEF Fresh, Work, WaitsInAction, JogsAlone, HomesAlone, Has, OfKinds
  <2>3. QED
    BY <1>2, <1>3, <1>4, <2>2 DEF Inv, Shapes, EepromShape
<1>7. QED
  BY <1>2, <1>5, <1>6

\* One homing pass before another, or before the end.
LEMMA HomingIsChain ==
  ASSUME NEW axes, axes \subseteq Axes, NEW t, Chain(t), OfKinds(t, HomingKinds), t # <<>>
  PROVE  LET s == Before([do |-> "home", axes |-> axes], t)
         IN Chain(s) /\ OfKinds(s, HomingKinds) /\ s # <<>>
<1> DEFINE op == [do |-> "home", axes |-> axes]
           s == Before(op, t)
<1>1. op.do = "home" /\ op.axes = axes
  OBVIOUS
<1> HIDE DEF op
<1>2. GoodOp(op) /\ op.do \in HomingKinds /\ op.do # "offset"
  BY <1>1 DEF GoodOp, Targeted, HomingKinds, Writes, LaterBytes
<1>3. 1 \in 1..Len(t)
  BY ChainLength
<1>4. t[1].do \in HomingKinds
  BY <1>3 DEF OfKinds
<1>5. Follows(op, t[1])
  BY <1>1, <1>4 DEF Follows, Arriving, HomingKinds, AtTarget, LaterBytes, Unwritten
<1>6. Chain(s) /\ OfKinds(s, HomingKinds) /\ Len(s) = Len(t) + 1
  BY <1>2, <1>5, BeforeIsChain
<1>7. s # <<>>
  <2> HIDE DEF s
  <2>1. Len(t) \in Nat /\ Len(t) # 0 /\ (s = <<>> <=> Len(s) = 0)
    BY <1>6, ChainLength
  <2>2. QED
    BY <1>6, <2>1
<1>8. QED
  BY <1>6, <1>7 DEF op

LEMMA HomeKeeps ==
  ASSUME Inv, ~HomeQueued, Home
  PROVE  Inv' /\ Fresh(main'.todo) /\ OfKinds(main'.todo, HomingKinds)
<1> DEFINE homes(axes) == <<[do |-> "home", axes |-> axes]>>
           end(startup) == <<[do |-> "homed", startup |-> startup]>>
           all == homes({"Z"}) \o homes({"X", "Y"}) \o end(<<0, 1>>)
           one == homes({"X"}) \o end(<<>>)
<1>1. /\ plan.queue = <<>> /\ machine' = [machine EXCEPT !.state = "HOMING", !.moving = FALSE]
      /\ \/ Takes("home") /\ Directly(all)
         \/ Takes("home_x") /\ Directly(one)
      /\ UNCHANGED <<gc, plan, rt, eeprom>>
  BY Zenon DEF Home
<1>2. main.todo = <<>> /\ main.startup = <<>> /\ hist.program # <<>>
  BY <1>1, ReadsAtRest DEF Takes
<1>3. MachineShape(machine') /\ machine'.pos = machine.pos /\ machine'.state = "HOMING"
  BY <1>1 DEF Inv, Shapes, MachineShape
<1>4. /\ Chain(all) /\ OfKinds(all, HomingKinds)
      /\ Chain(one) /\ OfKinds(one, HomingKinds)
  <2>1. <<0, 1>> \in Seq(StartupLines) /\ <<>> \in Seq(StartupLines)
    BY DEF StartupLines
  <2>2. ASSUME NEW startup \in Seq(StartupLines)
        PROVE  Chain(end(startup)) /\ OfKinds(end(startup), HomingKinds) /\ end(startup) # <<>>
    <3> DEFINE op == [do |-> "homed", startup |-> startup]
    <3>1. op.do = "homed" /\ op.startup = startup
      OBVIOUS
    <3> HIDE DEF op
    <3>2. GoodOp(op) /\ op.do \in HomingKinds /\ op.do \notin Awaiting \cup {"offset"}
      BY <3>1 DEF GoodOp, Targeted, Awaiting, HomingKinds, Unwritten, Writes, LaterBytes
    <3>3. Chain(<<op>>) /\ OfKinds(<<op>>, HomingKinds)
      BY <3>2, SingleIsFresh
    <3>4. QED
      BY <3>3 DEF op
  <2>3. {"X"} \subseteq Axes /\ {"Z"} \subseteq Axes /\ {"X", "Y"} \subseteq Axes
    BY DEF Axes
  <2>4. Chain(one) /\ OfKinds(one, HomingKinds)
    <3> HIDE DEF end
    <3>1. one = Before([do |-> "home", axes |-> {"X"}], end(<<>>))
      BY DEF Before
    <3>2. QED
      BY <2>1, <2>2, <2>3, <3>1, HomingIsChain
  <2>5. Chain(all) /\ OfKinds(all, HomingKinds)
    <3> DEFINE z == [do |-> "home", axes |-> {"Z"}]
               xy == [do |-> "home", axes |-> {"X", "Y"}]
               last == [do |-> "homed", startup |-> <<0, 1>>]
               S == {z, xy, last}
               t == Before(xy, end(<<0, 1>>))
    <3>1. <<z>> \in Seq(S) /\ <<xy>> \in Seq(S) /\ end(<<0, 1>>) \in Seq(S)
      OBVIOUS
    <3>2. all = (<<z>> \o <<xy>>) \o end(<<0, 1>>)
      OBVIOUS
    <3> HIDE DEF end, all, S
    <3>3. Chain(t) /\ OfKinds(t, HomingKinds) /\ t # <<>>
      BY <2>1, <2>2, <2>3, HomingIsChain
    <3>4. all = Before(z, t)
      <4> HIDE DEF z, xy
      <4>1. QED
        BY <3>1, <3>2, ConcatAssociative DEF Before
    <3> HIDE DEF t
    <3>5. QED
      BY <2>3, <3>3, <3>4, HomingIsChain
  <2>6. QED
    BY <2>4, <2>5
<1> HIDE DEF all, one
<1>5. PICK todo : Directly(todo) /\ Chain(todo) /\ OfKinds(todo, HomingKinds)
  BY <1>1, <1>4
<1>6. /\ MainShape(main') /\ main'.todo = todo /\ main'.pc = "run"
      /\ main'.startup = main.startup /\ main'.abort = main.abort
  BY <1>5 DEF Directly, Inv, Shapes, MainShape
<1>7. HistShape'
  <2>1. Tail(hist.program) \in Seq([kind : STRING, words : Lines])
    BY <1>2, WordsAreLines
  <2>2. hist' = [[hist EXCEPT !.programmed = NothingProgrammed] EXCEPT !.program = Tail(hist.program)]
    BY <1>5 DEF Directly, Unprogrammed, Inv, Shapes, HistShape
  <2>3. QED
    BY <2>1, <2>2 DEF Inv, Shapes, HistShape
<1>8. Blocks(machine', plan', main')
  BY <1>1, <1>2, <1>3, <1>6, NewWork
<1>9. Work(machine', plan', main')
  <2>1. ~Has(todo, {"jog"})
    BY <1>5 DEF OfKinds, Has, HomingKinds
  <2>2. QED
    BY <1>1, <1>3, <1>5, <1>6, <2>1 DEF Work, WaitsInAction, JogsAlone, HomesAlone
<1>10. Fresh(main'.todo)
  <2>1. todo # <<>> => 1 \in 1..Len(todo)
    BY <1>5, ChainLength
  <2>2. QED
    BY <1>5, <1>6, <2>1 DEF Fresh, OfKinds, HomingKinds, Arriving, AtTarget, LaterBytes
<1>11. QED
  BY <1>1, <1>3, <1>5, <1>6, <1>7, <1>8, <1>9, <1>10 DEF Inv, Shapes, EepromShape

LEMMA CommandsKeep ==
  ASSUME Inv, Refused \/ CheckMode \/ Unlock \/ Clear
  PROVE  Inv' /\ Fresh(main'.todo) /\ OfKinds(main'.todo, {"clear", "reset"})
<1> DEFINE first == [do |-> "clear", record |-> 0]
           clearing == <<first>> \o Do("reset")
           moded(state) == [machine EXCEPT !.state = state]
<1>1. Part(<<>>, {}) /\ Part(Do("reset"), {"reset"}) /\ Part(clearing, {"clear", "reset"})
  <2>1. Part(<<>>, {}) /\ Part(Do("reset"), {"reset"}) /\ Part(Do("reset"), {"clear", "reset"})
    BY NothingIsFresh, DoIsFresh
  <2>2. first.do = "clear" /\ first.record \in Records
    BY DEF Records, IndexG30, NCoordinateSystem
  <2> HIDE DEF first
  <2>3. GoodOp(first) /\ first.do \notin Awaiting \cup Arriving \cup {"offset"}
    BY <2>2 DEF GoodOp, Targeted, Awaiting, Arriving, AtTarget, LaterBytes, Unwritten, Writes
  <2>4. Part(<<first>>, {"clear", "reset"})
    BY <2>2, <2>3, SingleIsFresh
  <2>5. QED
    BY <2>1, <2>4, ConcatIsFresh
<1>2. /\ Fresh(<<>>) /\ Plain(<<>>) /\ Fresh(Do("reset")) /\ Plain(Do("reset"))
      /\ Fresh(clearing) /\ Plain(clearing)
      /\ OfKinds(<<>>, {"clear", "reset"}) /\ OfKinds(Do("reset"), {"clear", "reset"})
      /\ OfKinds(clearing, {"clear", "reset"})
  <2>1. Part(<<>>, {"clear", "reset"}) /\ Part(Do("reset"), {"clear", "reset"})
    BY NothingIsFresh, DoIsFresh
  <2> HIDE DEF clearing
  <2>2. QED
    BY <1>1, <2>1, FreshIsPlain DEF Part, HomingKinds
<1>3. MachineShape(machine)
  BY DEF Inv, Shapes
<1>4. \A state : /\ MachineShape(moded(state)) /\ moded(state).pos = machine.pos
                 /\ moded(state).state = state
  BY <1>3 DEF MachineShape
<1> HIDE DEF clearing, moded
<1>5. PICK kind, todo :
        /\ Reads(kind) /\ Directly(todo) /\ Fresh(todo) /\ Plain(todo)
        /\ OfKinds(todo, {"clear", "reset"})
        /\ UNCHANGED <<gc, plan, rt, eeprom>>
        /\ \/ machine' = machine /\ (machine.state # "JOG" \/ todo = <<>>)
           \/ machine' = moded("CHECK")
           \/ machine' = moded("IDLE")
  <2>1. CASE Refused
    <3>1. /\ Directly(<<>>) /\ UNCHANGED <<gc, machine, plan, rt, eeprom>> /\ \E kind : Reads(kind)
      BY <2>1 DEF Refused
    <3>2. QED
      BY <1>2, <3>1
  <2>2. CASE CheckMode
    <3>1. /\ Reads("check") /\ machine' = moded("CHECK") /\ UNCHANGED <<gc, plan, rt, eeprom>>
          /\ Directly(Do("reset")) \/ Directly(<<>>)
      BY <2>2 DEF CheckMode, Takes, moded
    <3>2. QED
      BY <1>2, <3>1
  <2>3. CASE Unlock
    <3>1. /\ Reads("unlock") /\ machine' = moded("IDLE") /\ UNCHANGED <<gc, plan, rt, eeprom>>
          /\ Directly(<<>>)
      BY <2>3 DEF Unlock, Takes, moded
    <3>2. QED
      BY <1>2, <3>1
  <2>4. CASE Clear
    <3>1. /\ Reads("clear") /\ machine' = machine /\ UNCHANGED <<gc, plan, rt, eeprom>>
          /\ Directly(clearing) /\ machine.state # "JOG"
      BY <2>4 DEF Clear, Takes, TakenIn, clearing
    <3>2. QED
      BY <1>2, <3>1
  <2>5. QED
    BY <2>1, <2>2, <2>3, <2>4
<1>6. /\ MachineShape(machine') /\ machine'.pos = machine.pos
      /\ machine'.state # "JOG" \/ todo = <<>>
  BY <1>3, <1>4, <1>5
<1>7. main'.todo = todo
  BY <1>5 DEF Directly, Inv, Shapes, MainShape
<1>8. QED
  BY <1>5, <1>6, <1>7, DirectlyKeeps

-----------------------------------------------------------------------------
(* Power, motors and interrupts keep the invariant.                         *)

LEMMA GcInitIsGood ==
  ASSUME NEW system \in Vector, NEW position \in Vector
  PROVE  GcShape(GcInit(system, position))
<1> DEFINE g == GcInit(system, position)
<1>1. /\ Tracked \subseteq DOMAIN g /\ g.position = position /\ g.coord_system = system
      /\ g.coord_offset = Origin /\ g.tool_length_offset = 0 /\ g.coord_select = 0
  BY DEF GcInit, Tracked
<1> HIDE DEF g
<1>2. QED
  BY <1>1, OriginInTravel DEF GcShape, GoodParser, g

\* Nothing is left to do, nothing is queued.
LEMMA StandstillIsGood ==
  ASSUME NEW k, MachineShape(k), InTravel(k.pos), NEW p, p.queue = <<>>, p.pos = k.pos,
         NEW w, w.todo = <<>>, w.pc \in {"run", "boot"}, w.pc = "boot" => w.startup = <<>>,
         k.state # "JOG"
  PROVE  Work(k, p, w) /\ Blocks(k, p, w)
<1>1. Len(<<>>) = 0 /\ Part(<<>>, {})
  BY NothingIsFresh
<1>2. Work(k, p, w)
  BY <1>1 DEF Work, WaitsInAction, JogsAlone, HomesAlone, Has, Part, Fresh
<1>3. Blocks(k, p, w)
  BY EmptyQueue DEF MachineShape, Blocks, PlanAgrees
<1>4. QED
  BY <1>2, <1>3

LEMMA PowerUpIsGood == Good(PowerUp)
<1> DEFINE s == PowerUp
<1>1. /\ DOMAIN s = {"gc", "machine", "plan", "rt", "main"}
      /\ s.gc = GcInit(Origin, Origin)
      /\ s.machine = [state |-> "ALARM", pos |-> Origin, moving |-> FALSE, mode |-> "HOTWIRE"]
      /\ s.plan = [queue |-> <<>>, pos |-> Origin]
      /\ s.rt = [flags |-> {}, alarm |-> "NONE"]
      /\ s.main = [pc |-> "boot", todo |-> <<>>, startup |-> <<>>, abort |-> FALSE, contact |-> FALSE]
  BY DEF PowerUp
<1> HIDE DEF s
<1>2. GcShape(s.gc)
  BY <1>1, OriginInTravel, GcInitIsGood
<1>3. MachineShape(s.machine) /\ s.machine.pos = Origin /\ s.machine.state = "ALARM"
  BY <1>1, OriginInTravel DEF MachineShape
<1>4. PlanShape(s.plan) /\ s.plan.queue = <<>> /\ s.plan.pos = Origin
  BY <1>1, OriginInTravel, EmptyQueue DEF PlanShape
<1>5. RtShape(s.rt)
  BY <1>1 DEF RtShape
<1>6. /\ MainShape(s.main) /\ s.main.todo = <<>> /\ s.main.pc = "boot" /\ s.main.startup = <<>>
  BY <1>1 DEF MainShape
<1>7. Work(s.machine, s.plan, s.main) /\ Blocks(s.machine, s.plan, s.main)
  BY <1>3, <1>4, <1>6, OriginInTravel, StandstillIsGood
<1>8. QED
  BY <1>1, <1>2, <1>3, <1>4, <1>5, <1>6, <1>7 DEF Good, StateShape, s

LEMMA UnprogrammedKept ==
  ASSUME Inv
  PROVE  /\ DOMAIN Unprogrammed = DOMAIN hist /\ Unprogrammed.program = hist.program
         /\ \A n : LET h == [hist EXCEPT !.resets = n]
                   IN DOMAIN h = DOMAIN hist /\ h.program = hist.program
         /\ \A n : LET h == [Unprogrammed EXCEPT !.fails = n]
                   IN DOMAIN h = DOMAIN hist /\ h.program = hist.program
BY DEF Inv, Shapes, HistShape, Unprogrammed

LEMMA BootKeeps ==
  ASSUME Inv, Boot
  PROVE  Inv'
<1> DEFINE record == eeprom.records[0]
           system == IF Sound(record) THEN record.data ELSE Origin
           written == IF Sound(record) THEN record ELSE Record(Origin)
           locked == machine.state = "ALARM"
           k == [machine EXCEPT !.state = IF locked THEN @ ELSE "IDLE", !.moving = FALSE]
           w == [pc |-> "run", todo |-> <<>>, startup |-> IF locked THEN <<>> ELSE <<0, 1>>,
                 abort |-> FALSE, contact |-> FALSE]
           p == [queue |-> <<>>, pos |-> machine.pos]
           r == [flags |-> {}, alarm |-> "NONE"]
<1>1. /\ gc' = GcInit(system, machine.pos) /\ eeprom' = [eeprom EXCEPT !.records[0] = written]
      /\ machine' = k /\ main' = w /\ plan' = p /\ rt' = r /\ hist' = Unprogrammed
  BY DEF Boot
<1>2. /\ record \in [data : Vector, sum : Int] /\ 0 \in Records
      /\ machine.pos \in Vector /\ InTravel(machine.pos)
  <2>1. 0 \in Records
    BY DEF Records, IndexG30, NCoordinateSystem
  <2>2. machine.pos \in Vector /\ plan.queue \in Seq(Vector) /\ EndsInTravel(machine.pos, plan.queue)
    BY DEF Inv, Shapes, MachineShape, PlanShape, Blocks
  <2>3. QED
    BY <2>1, <2>2, StartsInTravel DEF Inv, Shapes, EepromShape
<1>3. system \in Vector /\ written \in [data : Vector, sum : Int]
  <2>1. Record(Origin) \in [data : Vector, sum : Int]
    BY OriginInTravel, SumIsInt DEF Record
  <2>2. QED
    BY <1>2, <2>1, OriginInTravel
<1> HIDE DEF system, written
<1>4. GcShape(gc')
  BY <1>1, <1>2, <1>3, GcInitIsGood
<1>5. EepromShape'
  BY <1>1, <1>2, <1>3 DEF Inv, Shapes, EepromShape
<1>6. MachineShape(k) /\ k.pos = machine.pos /\ k.state # "JOG"
  BY DEF Inv, Shapes, MachineShape
<1>7. MainShape(w) /\ w.todo = <<>> /\ w.pc = "run"
  <2> DEFINE startup == IF locked THEN <<>> ELSE <<0, 1>>
  <2>1. <<0, 1>> \in Seq(StartupLines) /\ <<>> \in Seq(StartupLines)
    BY DEF StartupLines
  <2>2. startup \in Seq(StartupLines)
    BY <2>1
  <2>3. /\ DOMAIN w = {"pc", "todo", "startup", "abort", "contact"} /\ w.startup = startup
        /\ w.abort = FALSE /\ w.contact = FALSE /\ w.todo = <<>> /\ w.pc = "run"
    OBVIOUS
  <2> HIDE DEF w, startup
  <2>4. QED
    BY <2>2, <2>3 DEF MainShape
<1>8. PlanShape(p) /\ p.queue = <<>> /\ p.pos = machine.pos
  BY <1>2, EmptyQueue DEF PlanShape
<1>9. RtShape(r)
  BY DEF RtShape
<1>10. HistShape'
  BY <1>1, UnprogrammedKept DEF Inv, Shapes, HistShape
<1> HIDE DEF k, w, p, r
<1>11. Work(k, p, w) /\ Blocks(k, p, w)
  BY <1>2, <1>6, <1>7, <1>8, StandstillIsGood
<1>12. QED
  BY <1>1, <1>4, <1>5, <1>6, <1>7, <1>8, <1>9, <1>10, <1>11 DEF Inv, Shapes

LEMMA MoveKeeps ==
  ASSUME Inv, Move
  PROVE  Inv'
<1> DEFINE steps == Head(plan.queue)
           half == Halved(steps)
           rest == Minus(steps, half)
           left == <<rest>> \o Tail(plan.queue)
           halved == IF rest = Origin THEN Tail(plan.queue) ELSE left
<1>1. /\ plan.queue # <<>> /\ UNCHANGED <<gc, rt, main, eeprom, hist>>
      /\ \/ /\ machine' = [machine EXCEPT !.pos = Plus(machine.pos, steps)]
            /\ plan' = [plan EXCEPT !.queue = Tail(plan.queue)]
         \/ /\ machine' = [machine EXCEPT !.pos = Plus(machine.pos, half)]
            /\ plan' = [plan EXCEPT !.queue = halved]
  <2>1. half = [a \in Axes |-> steps[a] \div 2]
    BY DEF Halved
  <2> HIDE DEF half
  <2>2. QED
    BY <2>1 DEF Move
<1>2. machine.pos \in Vector /\ plan.queue \in Seq(Vector) /\ plan.pos \in Vector
  BY DEF Inv, Shapes, MachineShape, PlanShape
<1>3. steps \in Vector /\ Tail(plan.queue) \in Seq(Vector)
  BY <1>1, <1>2, HeadTailProperties
<1>4. half \in Vector /\ (rest = Origin => half = steps)
  BY <1>3, HalfOfBlock
<1>5. /\ EndsInTravel(machine.pos, plan.queue) /\ EndOf(machine.pos, plan.queue) = plan.pos
      /\ ~Has(main.todo, HomingKinds)
  BY <1>1 DEF Inv, Work, HomesAlone, Blocks, PlanAgrees
<1>6. /\ Plus(machine.pos, steps) \in Vector
      /\ EndsInTravel(Plus(machine.pos, steps), Tail(plan.queue))
      /\ EndOf(Plus(machine.pos, steps), Tail(plan.queue)) = plan.pos
  <2>1. Plus(machine.pos, steps) \in Vector
    BY <1>2, <1>3, PointsAreVectors
  <2>2. /\ EndsInTravel(Plus(machine.pos, steps), Tail(plan.queue))
        /\ EndOf(Plus(machine.pos, steps), Tail(plan.queue)) = EndOf(machine.pos, plan.queue)
    BY <1>1, <1>2, <1>5, FinishedBlock
  <2>3. QED
    BY <1>5, <2>1, <2>2
<1>7. /\ Plus(machine.pos, half) \in Vector /\ left \in Seq(Vector)
      /\ EndsInTravel(Plus(machine.pos, half), left)
      /\ EndOf(Plus(machine.pos, half), left) = plan.pos
  <2>1. Plus(machine.pos, half) \in Vector
    BY <1>2, <1>4, PointsAreVectors
  <2>2. /\ left \in Seq(Vector) /\ EndsInTravel(Plus(machine.pos, half), left)
        /\ EndOf(Plus(machine.pos, half), left) = EndOf(machine.pos, plan.queue)
    BY <1>1, <1>2, <1>5, HalfBlock
  <2>3. QED
    BY <1>5, <2>1, <2>2
<1> HIDE DEF left, rest, half, steps
<1>8. PICK pos, queue :
        /\ pos \in Vector /\ queue \in Seq(Vector) /\ EndsInTravel(pos, queue)
        /\ EndOf(pos, queue) = plan.pos
        /\ machine' = [machine EXCEPT !.pos = pos] /\ plan' = [plan EXCEPT !.queue = queue]
  BY <1>1, <1>3, <1>4, <1>6, <1>7
<1>9. MachineShape(machine') /\ machine'.pos = pos /\ machine'.state = machine.state
  BY <1>8 DEF Inv, Shapes, MachineShape
<1>10. PlanShape(plan') /\ plan'.queue = queue /\ plan'.pos = plan.pos
  BY <1>2, <1>8 DEF Inv, Shapes, PlanShape
<1>11. main' = main
  BY <1>1
<1>12. Work(machine', plan', main')
  BY <1>5, <1>9, <1>11 DEF Inv, Work, JogsAlone, HomesAlone
<1>13. Blocks(machine', plan', main')
  BY <1>8, <1>9, <1>10 DEF Blocks, PlanAgrees
<1>14. QED
  BY <1>1, <1>9, <1>10, <1>12, <1>13 DEF Inv, Shapes, EepromShape, HistShape

LEMMA InterruptsKeep ==
  ASSUME Inv, MotionEnds \/ UserReset \/ JogCancel \/ StatusReport
  PROVE  Inv'
<1>1. /\ UNCHANGED <<gc, plan, main, eeprom>>
      /\ hist' = hist \/ \E n : hist' = [hist EXCEPT !.resets = n]
      /\ machine' \in {machine, Killed(rt), [machine EXCEPT !.moving = FALSE]}
      /\ rt' = rt \/ rt' = AfterReset(rt) \/ \E flag : rt' = Raise(rt, flag)
  BY Zenon DEF MotionEnds, UserReset, JogCancel, StatusReport
<1>2. /\ MachineShape(machine') /\ machine'.pos = machine.pos /\ machine'.state = machine.state
  <2>1. MachineShape(machine)
    BY DEF Inv, Shapes
  <2>2. LET k == [machine EXCEPT !.moving = FALSE]
        IN MachineShape(k) /\ k.pos = machine.pos /\ k.state = machine.state
    BY <2>1 DEF MachineShape
  <2>3. QED
    BY <1>1, <2>1, <2>2, KilledIsGood
<1>3. RtShape(rt')
  BY <1>1, FlagsAreGood DEF Inv, Shapes
<1>4. HistShape'
  BY <1>1, UnprogrammedKept DEF Inv, Shapes, HistShape
<1>5. MainShape(main') /\ main' = main
  BY <1>1 DEF Inv, Shapes
<1>6. QED
  BY <1>1, <1>2, <1>3, <1>4, <1>5, MotorsKeep

LEMMA PowerFailKeeps ==
  ASSUME Inv, PowerFail
  PROVE  Inv'
<1>1. Become(PowerUp) /\ UNCHANGED eeprom /\ \E n : hist' = [Unprogrammed EXCEPT !.fails = n]
  BY Zenon DEF PowerFail
<1>2. HistShape'
  BY <1>1, UnprogrammedKept DEF Inv, Shapes, HistShape
<1>3. EepromShape'
  BY <1>1 DEF Inv, Shapes, EepromShape
<1>4. QED
  BY <1>1, <1>2, <1>3, PowerUpIsGood, BecomesInv

-----------------------------------------------------------------------------
(* The invariant, and what it says.                                         *)

LEMMA InitInv == Init => Inv
<1> SUFFICES ASSUME Init PROVE Inv
  OBVIOUS
<1>1. /\ gc = PowerUp.gc /\ machine = PowerUp.machine /\ plan = PowerUp.plan
      /\ rt = PowerUp.rt /\ main = PowerUp.main
  BY DEF Init
<1>2. EepromShape
  <2>1. Record(Origin) \in [data : Vector, sum : Int]
    BY OriginInTravel, SumIsInt DEF Record
  <2>2. <<>> \in Lines
    BY DEF Lines
  <2>3. eeprom = [records |-> [n \in Records |-> Record(Origin)],
                  startup |-> [n \in StartupLines |-> <<>>]]
    BY DEF Init
  <2>4. QED
    BY <2>1, <2>2, <2>3 DEF EepromShape
<1>3. HistShape
  <2>1. PICK program \in Programs :
          hist = [program |-> program, resets |-> Resets, fails |-> PowerFails,
                  programmed |-> NothingProgrammed]
    BY DEF Init
  <2>2. program \in Seq([kind : STRING, words : Lines])
    BY ProgramAssumption
  <2>3. DOMAIN hist = {"program", "resets", "fails", "programmed"} /\ hist.program = program
    BY <2>1
  <2>4. QED
    BY <2>2, <2>3 DEF HistShape
<1>4. QED
  BY <1>1, <1>2, <1>3, PowerUpIsGood DEF Good, StateShape, Inv, Shapes

LEMMA NextInv ==
  ASSUME ~HomeQueued
  PROVE  Inv /\ [Next]_vars => Inv'
<1> SUFFICES ASSUME Inv, [Next]_vars PROVE Inv'
  OBVIOUS
<1>1. CASE UNCHANGED vars
  BY <1>1 DEF vars, Inv, Shapes, EepromShape, HistShape
<1>2. CASE \/ DoSet \/ DoPosition \/ DoNoOutputs \/ DoWco \/ DoPut \/ DoSum \/ DoPause \/ LineInCheckMode
           \/ ProbeInCheckMode \/ DoStore \/ HomeSkipped
  BY <1>2, WritesKeep
<1>3. CASE DoSync \/ ProbeRun \/ DoLine
  BY <1>3, WaitsKeep
<1>4. CASE SyncWait \/ DoEnd \/ SoftLimit \/ Critical \/ LineWait \/ DoJog \/ DoArc
  BY <1>4, SyncWaitKeeps, EndKeeps, SoftLimitKeeps, CriticalKeeps, LineWaitKeeps, JogStarts, ArcKeeps
<1>5. CASE DoProbe \/ ProbeOpen \/ ProbeClosed \/ HomeFailed \/ ProbeContact \/ ProbeWait
  BY <1>5, ProbingReplaced, AlarmsKeep, ContactKeeps, ProbeWaitKeeps
<1>6. CASE HomeFound \/ Homed \/ DoReset \/ DoClear
  BY <1>6, HomeFoundKeeps, HomedKeeps, ResetsKeep, ClearsKeep
<1>7. CASE Gcode \/ Jog \/ StoreStartup \/ Startup \/ EndOfLine \/ Idle \/ Boot
  BY <1>7, GcodeKeeps, StartupKeeps, EndOfLineKeeps, IdleKeeps, BootKeeps
<1>8. CASE Refused \/ CheckMode \/ Unlock \/ Clear \/ Home
  BY <1>8, CommandsKeep, HomeKeeps
<1>9. CASE Move \/ MotionEnds \/ UserReset \/ JogCancel \/ StatusReport \/ PowerFail
  BY <1>9, MoveKeeps, InterruptsKeep, PowerFailKeeps
<1>10. QED
  BY <1>1, <1>2, <1>3, <1>4, <1>5, <1>6, <1>7, <1>8, <1>9 DEF Next

\* Types, what is left to do and the ends of the queued blocks: gc_execute_line()
\* and everything that can interrupt it keep them, if no $H is sent with blocks
\* in the queue.
THEOREM InvariantHolds ==
  ASSUME ~HomeQueued
  PROVE  Spec => []Inv
<1>1. Inv /\ [Next]_vars => Inv'
  BY NextInv
<1>2. QED
  BY <1>1, InitInv, PTL DEF Spec

\* With soft limits no motion leaves the travel (mc_line(), limits_soft_check(),
\* jog_execute()): not those of a block, of an arc on its way, of a jog sent while
\* another one is cancelled, of a probe that finds nothing, for any travel and any
\* program.
THEOREM StaysInTravelAlways ==
  ASSUME ~HomeQueued
  PROVE  Spec => []StaysInTravel
<1>1. Inv => StaysInTravel
  BY StartsInTravel DEF Inv, Shapes, MachineShape, PlanShape, Blocks, StaysInTravel, InTravel
<1>2. QED
  BY <1>1, InvariantHolds, PTL

\* Between two lines the blocks of the planner end where the planner believes they
\* do (plan_sync_position(), motion_control.cpp:346), whatever was cancelled,
\* probed, aborted or homed before: if no $H is sent with blocks in the queue.
THEOREM BufferedPlanIsCorrectAlways ==
  ASSUME ~HomeQueued
  PROVE  Spec => []BufferedPlanIsCorrect
<1>1. Inv => BufferedPlanIsCorrect
  <2> SUFFICES ASSUME Inv, AtRest PROVE plan.pos = PlannedEnd
    BY DEF BufferedPlanIsCorrect
  <2>1. main.todo = <<>> /\ ~main.abort
    BY DEF AtRest, Inv, Work, WaitsInAction
  <2>2. Len(<<>>) = 0
    OBVIOUS
  <2>3. ~Has(main.todo, HomingKinds)
    BY <2>1, <2>2 DEF Has
  <2>4. QED
    BY <2>1, <2>3 DEF Inv, Blocks, PlanAgrees, PlannedEnd, EndOf
<1>2. QED
  BY <1>1, InvariantHolds, PTL
=============================================================================
