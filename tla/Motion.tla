-------------------------------- MODULE Motion ------------------------------
(***************************************************************************)
(* From a line of the program to the steps of the motors: mc_line() and    *)
(* the planner, the real-time executor with feed holds, resumes and        *)
(* overrides, the segment generator, the step interrupt, and the homing    *)
(* cycle of limits.cpp, which goes round the planner and the executor.     *)
(*                                                                         *)
(* The interrupts run between any two steps of the main program. A pass of *)
(* the executor is three steps: a hold or a start, with the copy of the    *)
(* flags; the rest, after the segments a start prepares; and the reload of *)
(* the segment buffer, one step for a block loaded and one for a segment.  *)
(***************************************************************************)
EXTENDS SegmentBuffer

CONSTANTS
  Scenarios,       \* what the host may send: lines, holds, resumes, overrides, homing;
                   \* and where the axes may stand, in steps from their switches
  Axes,            \* the axes that can be homed
  Pulloff,         \* settings.homing_pulloff, in steps
  LocateScalar,    \* HOMING_AXIS_LOCATE_SCALAR
  SearchTravel,    \* the homing search: the largest travel times HOMING_AXIS_SEARCH_SCALAR
  SeekRate,        \* settings.homing_seek_rate, squared
  LocateRate,      \* settings.homing_feed_rate, squared
  HardStop         \* steps from a switch to the end of its axis

\* A line has steps to make, or mc_line() never passes it on (planner.cpp:391).
ProgramLines ==
  [count : Nat \ {0}, axes : SUBSET Axes, kind : {"feed", "rapid"},
   rate : Nat, rapid : Nat, junction : Nat]

Overrides == [f : Nat, r : Nat]

Hosts ==
  [lines : Nat, choice : SUBSET ProgramLines, holds : Nat, resumes : Nat,
   overrides : Nat, overs : SUBSET Overrides, homes : Nat,
   starts : SUBSET (-HardStop..SearchTravel)]

ASSUME MotionAssumption ==
  /\ Pulloff \in Nat \ {0} /\ LocateScalar \in Nat /\ LocateScalar > 1
  /\ SearchTravel \in Nat \ {0} /\ SeekRate \in Nat /\ LocateRate \in Nat /\ HardStop \in Nat
  /\ Scenarios \subseteq Hosts
  /\ IsFiniteSet(Axes)

NLocateCycle == 1   \* N_HOMING_LOCATE_CYCLE

VARIABLES
  gen,      \* planner, segment generator and overrides: the m of SegmentBuffer
  sys,      \* state, suspend, the flags of sys_rt_exec_state, the override requested
  stepper,  \* the step interrupt: enabled, its block, steps left in its segment,
            \* steps done of its block
  main,     \* control point, where the reload returns to, the copied flags, the line
  homing,   \* locals of limits_go_home(): cycle, locks, approach, travel, rate, n_cycle
  place,    \* (no code) steps from each axis to its limit switch
  host      \* (no code) what the host may still send

vars == <<gen, sys, stepper, main, homing, place, host>>

NotHoming ==
  [axes |-> {}, lock |-> {}, approach |-> TRUE, travel |-> 0, rate |-> 0, n |-> 0, homed |-> {}]

NoLine == [count |-> 0]

Init ==
  /\ gen = [plan |-> EmptyPlan, prep |-> NoPrep, ctl |-> {}, over |-> [f |-> 2, r |-> 2],
            queue |-> <<>>,
            blocks |-> [i \in 0..SegmentBufferSize - 2 |-> [count |-> 0, axes |-> {}, forward |-> TRUE]]]
  /\ sys = [state |-> "IDLE", suspend |-> {}, flags |-> {}, wanted |-> [f |-> 2, r |-> 2]]
  /\ stepper = [on |-> FALSE, index |-> 0, left |-> 0, done |-> 0]
  /\ main = [pc |-> "loop", then |-> "loop", rt |-> {}, line |-> NoLine]
  /\ homing = NotHoming
  /\ host \in Scenarios
  /\ place \in [Axes -> host.starts]

-----------------------------------------------------------------------------
(* The host.                                                                *)

Hold ==
  /\ host.holds > 0
  /\ sys' = [sys EXCEPT !.flags = @ \cup {"HOLD"}]
  /\ host' = [host EXCEPT !.holds = @ - 1]
  /\ UNCHANGED <<gen, stepper, main, homing, place>>

\* A cycle start, which the host sends to end a hold.
Resume ==
  /\ host.resumes > 0 /\ "COMPLETE" \in sys.suspend
  /\ sys' = [sys EXCEPT !.flags = @ \cup {"START"}]
  /\ host' = [host EXCEPT !.resumes = @ - 1]
  /\ UNCHANGED <<gen, stepper, main, homing, place>>

Override ==
  /\ host.overrides > 0
  /\ \E over \in host.overs : sys' = [sys EXCEPT !.wanted = over]
  /\ host' = [host EXCEPT !.overrides = @ - 1]
  /\ UNCHANGED <<gen, stepper, main, homing, place>>

-----------------------------------------------------------------------------
(* The real-time executor, protocol_exec_rt_system().                       *)

Active(state) == state \in {"CYCLE", "HOLD", "HOMING"}

\* What the executor changes.
Controller == [gen |-> gen, sys |-> sys, started |-> FALSE]

\* A hold: the block being executed is decelerated at once; with no motion the hold
\* is complete.
Held(c) ==
  LET h == [c EXCEPT !.sys.state = "HOLD", !.sys.flags = @ \ {"HOLD"}]
  IN CASE c.sys.state = "CYCLE" -> [h EXCEPT !.gen = [UpdatePlanBlock(@) EXCEPT !.ctl = {"HOLD"}]]
       [] c.sys.state = "IDLE" -> [h EXCEPT !.sys.suspend = {"COMPLETE"}]
       [] c.sys.state = "ALARM" -> [h EXCEPT !.sys.state = "ALARM"]
       [] OTHER -> h

\* Seeded fault: a resume does not wake the motors.
StartedAsleep(c, rt) ==
  LET s == [c EXCEPT !.sys.flags = @ \ {"START"}]
  IN IF /\ "HOLD" \notin rt
        /\ c.sys.state = "IDLE" \/ (c.sys.state = "HOLD" /\ "COMPLETE" \in c.sys.suspend)
     THEN [s EXCEPT !.gen.ctl = {}, !.sys.suspend = {},
                    !.sys.state = IF IsEmpty(c.gen.plan) THEN "IDLE" ELSE "CYCLE"]
     ELSE s

\* A cycle start, from rest or from a complete hold.
Started(c, rt) ==
  LET s == [c EXCEPT !.sys.flags = @ \ {"START"}]
  IN IF /\ "HOLD" \notin rt
        /\ c.sys.state = "IDLE" \/ (c.sys.state = "HOLD" /\ "COMPLETE" \in c.sys.suspend)
     THEN [s EXCEPT !.gen.ctl = {}, !.sys.suspend = {},
                    !.sys.state = IF IsEmpty(c.gen.plan) THEN "IDLE" ELSE "CYCLE",
                    !.started = ~IsEmpty(c.gen.plan)]
     ELSE s

\* The motors have stopped: a hold is complete and the rest is planned anew from
\* rest, or the cycle is over.
Stopped(c) ==
  LET s == [c EXCEPT !.sys.flags = @ \ {"STOP"}]
      anew == Reinitialize(c.gen)
  IN IF c.sys.state = "HOLD"
     THEN [s EXCEPT !.gen = [anew EXCEPT !.ctl = @ \ {"HOLD", "SYS_MOTION"}],
                    !.sys.suspend = IF "HOLD" \in c.gen.ctl THEN @ \cup {"COMPLETE"} ELSE @]
     ELSE [s EXCEPT !.sys.suspend = {}, !.sys.state = "IDLE"]

\* A change of the overrides plans all blocks anew.
Overridden(c) ==
  LET over == c.sys.wanted
      scaled == [c.gen EXCEPT !.over = over, !.plan = UpdateVelocityProfile(@, over)]
  IN IF over = c.gen.over THEN c ELSE [c EXCEPT !.gen = Reinitialize(scaled)]

\* The second half of a pass; the caller goes on once nothing is suspended.
Rest(c, rt) == Overridden(IF "STOP" \in rt THEN Stopped(c) ELSE c)

At(pc) == main.pc = pc

Return(then, suspend) == IF suspend # {} /\ then \in {"loop", "line", "home"} THEN "exec" ELSE then

SetController(c) ==
  /\ gen' = c.gen /\ sys' = c.sys
  /\ main' = [main EXCEPT !.rt = {},
                          !.pc = IF Active(c.sys.state) THEN "prep"
                                 ELSE Return(main.then, c.sys.suspend)]

Exec ==
  LET rt == sys.flags
      held == IF "HOLD" \in rt THEN Held(Controller) ELSE Controller
      c == IF "START" \in rt THEN Started(held, rt) ELSE held
  IN /\ At("exec")
     /\ \/ /\ c.started
           /\ gen' = c.gen /\ sys' = c.sys
           /\ main' = [main EXCEPT !.pc = "prep", !.rt = rt \cup {"WAKE"}]
        \/ /\ ~c.started
           /\ SetController(Rest(c, rt))
     /\ UNCHANGED <<stepper, homing, place, host>>

\* st_wake_up(), and the rest of the pass that started the motors.
WakeUp ==
  /\ At("wake")
  /\ stepper' = [stepper EXCEPT !.on = TRUE]
  /\ SetController(Rest(Controller, main.rt))
  /\ UNCHANGED <<homing, place, host>>

-----------------------------------------------------------------------------
(* st_prep_buffer(), called by the executor and by the homing cycle.        *)

PrepLoad ==
  /\ At("prep") /\ Preparing(gen)
  /\ gen.prep.block = NoBlock
  /\ gen' = Load(gen)
  /\ UNCHANGED <<sys, stepper, main, homing, place, host>>

PrepSegment ==
  /\ At("prep") /\ Preparing(gen)
  /\ gen.prep.block # NoBlock
  /\ \E x \in SegmentEnds(gen) : gen' = Segment(gen, x)
  /\ UNCHANGED <<sys, stepper, main, homing, place, host>>

PrepDone ==
  /\ At("prep") /\ ~Preparing(gen)
  /\ main' = [main EXCEPT !.pc = IF "WAKE" \in main.rt THEN "wake"
                                 ELSE Return(main.then, sys.suspend)]
  /\ UNCHANGED <<gen, sys, stepper, homing, place, host>>

-----------------------------------------------------------------------------
(* The main loop and mc_line().                                             *)

Idle == At("loop") /\ sys.suspend = {}

\* protocol_auto_cycle_start()
AutoStart == IF IsEmpty(gen.plan) THEN {} ELSE {"START"}

NothingReceived ==
  /\ Idle
  /\ sys' = [sys EXCEPT !.flags = @ \cup AutoStart]
  /\ main' = [main EXCEPT !.pc = "exec", !.then = "loop"]
  /\ UNCHANGED <<gen, stepper, homing, place, host>>

LineReceived ==
  /\ Idle /\ host.lines > 0
  /\ sys.state # "ALARM"
  /\ \E line \in host.choice : main' = [main EXCEPT !.pc = "exec", !.then = "line", !.line = line]
  /\ host' = [host EXCEPT !.lines = @ - 1]
  /\ UNCHANGED <<gen, sys, stepper, homing, place>>

\* mc_line() waits for room; a full ring is started.
LineWaits ==
  /\ At("line") /\ IsFull(gen.plan)
  /\ sys' = [sys EXCEPT !.flags = @ \cup AutoStart]
  /\ main' = [main EXCEPT !.pc = "exec"]
  /\ UNCHANGED <<gen, stepper, homing, place, host>>

LineBuffered ==
  /\ At("line") /\ ~IsFull(gen.plan)
  /\ gen' = BufferLine(gen, main.line)
  /\ main' = [main EXCEPT !.pc = "loop", !.then = "loop", !.line = NoLine]
  /\ UNCHANGED <<sys, stepper, homing, place, host>>

-----------------------------------------------------------------------------
(* The homing cycle, limits_go_home().                                      *)

HomeReceived ==
  /\ Idle /\ host.homes > 0
  /\ main' = [main EXCEPT !.pc = "exec", !.then = "home"]
  /\ host' = [host EXCEPT !.homes = @ - 1]
  /\ UNCHANGED <<gen, sys, stepper, homing, place>>

HomeRefused ==
  /\ At("home") /\ sys.state \notin {"IDLE", "ALARM"}
  /\ main' = [main EXCEPT !.pc = "loop", !.then = "loop"]
  /\ UNCHANGED <<gen, sys, stepper, homing, place, host>>

HomeBegin ==
  /\ At("home") /\ sys.state \in {"IDLE", "ALARM"}
  /\ sys' = [sys EXCEPT !.state = "HOMING"]
  /\ \E axes \in (SUBSET Axes) \ {{}} :
       homing' = [axes |-> axes, lock |-> {}, approach |-> TRUE, travel |-> SearchTravel,
                  rate |-> SeekRate, n |-> 2 * NLocateCycle + 1, homed |-> {}]
  /\ main' = [main EXCEPT !.pc = "seek"]
  /\ UNCHANGED <<gen, stepper, place, host>>

\* One approach or pull-off is set up: all axes of the cycle free to move.
HomeSeek ==
  /\ At("seek")
  /\ homing' = [homing EXCEPT !.lock = homing.axes]
  /\ gen' = [gen EXCEPT !.ctl = {"SYS_MOTION"},
                        !.plan = PlaceSystemMotion(@, homing.travel, homing.axes, ~homing.approach,
                                                   homing.rate * Cardinality(homing.axes))]
  /\ main' = [main EXCEPT !.pc = "prep", !.then = "move"]
  /\ UNCHANGED <<sys, stepper, place, host>>

HomeMove ==
  /\ At("move")
  /\ stepper' = [stepper EXCEPT !.on = TRUE]
  /\ main' = [main EXCEPT !.pc = "limits"]
  /\ UNCHANGED <<gen, sys, homing, place, host>>

\* limits_get_state()
Engaged == {a \in homing.axes : place[a] <= 0}

\* Seeded fault: the first switch stops all the axes.
HomeLimitsAny ==
  /\ At("limits")
  /\ homing' = [homing EXCEPT !.lock = IF homing.approach /\ Engaged # {} THEN {} ELSE @]
  /\ main' = [main EXCEPT !.pc = "prep", !.then = "check"]
  /\ UNCHANGED <<gen, sys, stepper, place, host>>

\* In an approach, each axis is locked as its switch is found engaged.
HomeLimits ==
  /\ At("limits")
  /\ homing' = [homing EXCEPT !.lock = IF homing.approach THEN @ \ Engaged ELSE @]
  /\ main' = [main EXCEPT !.pc = "prep", !.then = "check"]
  /\ UNCHANGED <<gen, sys, stepper, place, host>>

HomeOn ==
  /\ At("check")
  /\ "STOP" \notin sys.flags
  /\ main' = [main EXCEPT !.pc = IF homing.lock = {} THEN "reverse" ELSE "limits"]
  /\ UNCHANGED <<gen, sys, stepper, homing, place, host>>

\* The pull-off has ended clear of the switches.
HomePulledOff ==
  /\ At("check")
  /\ "STOP" \in sys.flags /\ ~homing.approach /\ Engaged = {}
  /\ sys' = [sys EXCEPT !.flags = @ \ {"STOP"}]
  /\ main' = [main EXCEPT !.pc = "reverse"]
  /\ UNCHANGED <<gen, stepper, homing, place, host>>

\* A switch was not found, or not left: mc_reset(), and the initialisation after it,
\* in one step, as the motors are off.
HomeFail ==
  /\ At("check")
  /\ "STOP" \in sys.flags /\ (homing.approach \/ Engaged # {})
  /\ gen' = [gen EXCEPT !.plan = [EmptyPlan EXCEPT !.block = gen.plan.block], !.prep = NoPrep,
                        !.ctl = {}, !.over = [f |-> 2, r |-> 2], !.queue = <<>>]
  /\ sys' = [state |-> "ALARM", suspend |-> {}, flags |-> {}, wanted |-> [f |-> 2, r |-> 2]]
  /\ stepper' = [on |-> FALSE, index |-> 0, left |-> 0, done |-> 0]
  /\ main' = [pc |-> "loop", then |-> "loop", rt |-> {}, line |-> NoLine]
  /\ homing' = NotHoming
  /\ UNCHANGED <<place, host>>

\* st_reset(), and the next approach or pull-off, if any; after the last one the
\* position is set.
HomeReverse ==
  LET approach == ~homing.approach
  IN /\ At("reverse")
     /\ stepper' = [on |-> FALSE, index |-> 0, left |-> 0, done |-> 0]
     /\ \/ /\ homing.n > 0
           /\ gen' = [gen EXCEPT !.prep = NoPrep, !.queue = <<>>]
           /\ homing' = [homing EXCEPT !.approach = approach, !.n = @ - 1, !.lock = {},
                           !.travel = IF approach THEN Pulloff * LocateScalar ELSE Pulloff,
                           !.rate = IF approach THEN LocateRate ELSE SeekRate]
           /\ main' = [main EXCEPT !.pc = "seek"]
        \/ /\ homing.n = 0
           /\ gen' = [gen EXCEPT !.prep = NoPrep, !.queue = <<>>, !.ctl = {}]
           /\ homing' = [NotHoming EXCEPT !.homed = homing.axes]
           /\ main' = [main EXCEPT !.pc = "exec", !.then = "homed"]
     /\ UNCHANGED <<sys, place, host>>

\* mc_homing_cycle() has polled once more, and `$H` ends.
HomeEnd ==
  /\ At("homed")
  /\ sys' = [sys EXCEPT !.state = "IDLE"]
  /\ stepper' = [stepper EXCEPT !.on = FALSE]
  /\ main' = [main EXCEPT !.pc = "loop", !.then = "loop"]
  /\ UNCHANGED <<gen, homing, place, host>>

-----------------------------------------------------------------------------
(* The step interrupt, ISR(TIMER1_COMPA).                                   *)

Moved(b, a) ==
  LET masked == sys.state = "HOMING" /\ a \notin homing.lock
  IN IF a \notin b.axes \/ masked THEN place[a]
     ELSE IF b.forward THEN place[a] + 1
     ELSE IF place[a] > -HardStop THEN place[a] - 1 ELSE place[a]

\* One step event, of a segment at hand or the next one; a segment with other block
\* data starts the counters anew.
Step ==
  LET segment == Head(gen.queue)
      left == IF stepper.left = 0 THEN segment.n ELSE stepper.left
      done == IF stepper.left = 0 /\ stepper.index # segment.index THEN 0 ELSE stepper.done
  IN /\ stepper.on /\ gen.queue # <<>>
     /\ stepper' = [stepper EXCEPT !.index = segment.index, !.left = left - 1, !.done = done + 1]
     /\ gen' = [gen EXCEPT !.queue = IF left = 1 THEN Tail(@) ELSE @]
     /\ place' = [a \in Axes |-> Moved(gen.blocks[segment.index], a)]
     /\ UNCHANGED <<sys, main, homing, host>>

\* The main program refills the buffer before it runs dry ("no operation in the main
\* program takes longer"), except that it may be late with a block that starts from rest.
FromRest ==
  gen.prep.cur = 0 /\ (gen.prep.block = NoBlock => gen.plan.block[NextPrepBlock(gen)].entry = 0)

MainIsLate == Active(sys.state) /\ Preparing(gen) /\ ~FromRest

ShutDown ==
  /\ stepper.on /\ gen.queue = <<>>
  /\ ~MainIsLate
  /\ stepper' = [stepper EXCEPT !.on = FALSE]
  /\ sys' = [sys EXCEPT !.flags = @ \cup {"STOP"}]
  /\ UNCHANGED <<gen, main, homing, place, host>>

-----------------------------------------------------------------------------
MainProgram ==
  \/ Exec \/ WakeUp
  \/ PrepLoad \/ PrepSegment \/ PrepDone
  \/ NothingReceived \/ LineReceived \/ LineWaits \/ LineBuffered
  \/ HomeReceived \/ HomeRefused \/ HomeBegin \/ HomeSeek \/ HomeMove \/ HomeLimits
  \/ HomeOn \/ HomePulledOff \/ HomeFail \/ HomeReverse \/ HomeEnd

Interrupt == Step \/ ShutDown

Next == MainProgram \/ Interrupt \/ Hold \/ Resume \/ Override

Spec == Init /\ [][Next]_vars

\* The main program can always take a step, and does; the timer of the motors ticks
\* while it is on.
FairSpec == Spec /\ []<><<MainProgram>>_vars /\ WF_vars(Interrupt)
=============================================================================
