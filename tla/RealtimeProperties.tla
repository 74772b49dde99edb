------------------------- MODULE RealtimeProperties -------------------------
(***************************************************************************)
(* What the real-time core owes its user, stated about module Realtime.    *)
(***************************************************************************)
EXTENDS Realtime

\* Type invariant: every variable keeps the values the code can hold in it,
\* and the planner never holds more than its ring has room for.
TypeOK ==
  /\ pins \in SUBSET Buttons
  /\ exec \in SUBSET ExecFlags
  /\ alarm \in Alarms
  /\ accessory \in SUBSET AccessoryFlags
  /\ sys \in System
  /\ gc \in Condition
  /\ out \in Condition
  /\ motion \in Motion
  /\ Len(motion.queue) <= QueueSize
  /\ main \in Main
  /\ hist \in [killed : BOOLEAN, asked : BOOLEAN]

Completed == "HOLD_COMPLETE" \in sys.suspend

Stopping == sys.state \in {"HOLD", "SAFETY_DOOR"}

\* A reset is requested or under way.
Resetting == "RESET" \in exec \/ sys.abort \/ main.pc \in {"boot", "bootReset", "mainStart"}

-----------------------------------------------------------------------------
(* Holds and the safety door.                                               *)

\* A hold counts as complete only once the step interrupt is off, so nothing
\* is parked, restored or stopped while the machine still moves (the suspend
\* loop trusts SUSPEND_HOLD_COMPLETE for this, protocol.cpp:545-546).
HoldCompleteMeansStopped == Completed => ~motion.on

\* A machine parked at the door runs neither spindle nor coolant until the user
\* asks for the restore, whatever overrides, resets and door events came since
\* it was parked (protocol.cpp:553-621 and 637-684).
ParkedIsOff ==
  /\ sys.state = "SAFETY_DOOR"
  /\ "RETRACT_COMPLETE" \in sys.suspend
  /\ "INITIATE_RESTORE" \notin sys.suspend
  => out = AllOff

\* Accessories are restored only while the door has not been seen open again
\* since the restore began (protocol.cpp:309-322 against 346-357).
RestoreNeedsClosedDoor ==
  /\ sys.state = "SAFETY_DOOR"
  /\ "INITIATE_RESTORE" \in sys.suspend
  => "SAFETY_DOOR_AJAR" \notin sys.suspend

\* No step switches the spindle on while the executor knows the door is ajar:
\* neither the restore, nor the hold manager, nor a line waiting in a sync.
NoSpindleAtOpenDoor ==
  [][out'.spindle /\ ~out.spindle => "SAFETY_DOOR_AJAR" \notin sys.suspend]_vars

\* A hold or door stop is left for IDLE or CYCLE only if the user asked for a
\* cycle start after the stop began, never by an automatic one
\* (protocol.cpp:342-343).
NoUnaskedResume ==
  [][Stopping /\ sys'.state \in {"IDLE", "CYCLE"} /\ At("start") => hist.asked]_vars

\* A program is not running with the door open, unless the executor has yet to
\* be told (protocol.cpp:300-302: the door stops everything).
DoorHonoured ==
  sys.state = "CYCLE" /\ motion.on /\ DoorAjar => "SAFETY_DOOR" \in exec \/ Resetting

Resumes == Stopping /\ sys'.state = "CYCLE" /\ "RESET" \notin exec

\* A program resumed from a stop has the spindle the parser believes in: a
\* spindle stop override or the door switched it off, and it is back before the
\* first step (protocol.cpp:360-361, 665-676 and 720-744). Holds and doors together
\* can break it: see the README on spindle_lost.cfg.
SpindleRestored == [][Resumes => out.spindle = gc.spindle]_vars

\* The machine asleep is off and cannot be brought to move or to switch
\* anything on by any flag it still polls (protocol.cpp:626-633).
Asleep == At("sleep") \/ main.ret = "sleep"

SleepIsOff == Asleep => out = AllOff /\ ~motion.on

\* In check mode no line and no flag starts the motors or switches an output
\* on, though the lines run through the same synchronisations
\* (motion_control.cpp:42-43, spindle_control.cpp:214, coolant_control.cpp:110).
CheckModeIsInert ==
  [][sys.state = "CHECK_MODE" =>
       /\ motion'.on => motion.on
       /\ out'.spindle => out.spindle
       /\ out'.coolant \subseteq out.coolant]_vars

-----------------------------------------------------------------------------
(* Ends of motion, resets and alarms.                                       *)

Moving == sys.state \in {"CYCLE", "JOG"} \/ (Stopping /\ ~Completed)

\* The end of a motion is never lost: in every state that waits for it the
\* step interrupt is on, or is about to be started, or its EXEC_CYCLE_STOP is
\* still to be processed (stepper.cpp:525-540, protocol.cpp:380-412).
EndOfMotionSignalled ==
  Moving => \/ motion.on \/ main.pc \in {"wake", "jogWake"}
            \/ "CYCLE_STOP" \in exec \cup main.rt
            \/ Resetting

\* An alarm is left only by the user's `$X`, by a homing command, or for sleep:
\* not by a cycle start, the end of a motion, or a reset (main.cpp:417-419,
\* protocol.cpp:49-54).
AlarmLocked ==
  [][sys.state = "ALARM" /\ sys'.state # "ALARM" =>
       sys'.state = "SLEEP" \/ (At("eol") /\ main.line \in {"$X", "$HQ"})]_vars

\* A line beyond the soft limits never gets back to the main loop without an
\* abort, even if the motion it waits for is held, resumed or reset meanwhile
\* (limits.cpp:671-689).
SoftLimitAborts == sys.soft_limit /\ At("loop") => sys.abort

\* Liveness: a hold or door stop that was begun is completed, or left.
HoldCompletes == Stopping /\ ~Completed ~> Completed \/ ~Stopping

\* Liveness: a requested reset is performed (motion_control.h:62-63): wherever
\* the program waits, it gets back to main()'s initialisation.
ResetHonoured == "RESET" \in exec ~> At("boot")

-----------------------------------------------------------------------------
(* What comments of the code promise and the code does not keep: each is    *)
(* violated by a scenario of its own, whose configuration has its name in   *)
(* the README.                                                              *)

Synchronized == main.pc \in SyncReturns /\ ~sys.abort

\* "Block until all buffered steps are executed [...] waits for clean cycle
\* end" (protocol.cpp:177-178): after the synchronisation the machine is still.
SyncedMeansStopped == Synchronized => ~motion.on

\* The same comment: after the synchronisation no prepared step is left.
SyncedMeansExecuted == Synchronized => motion.segs = 0

\* "If system is queued, ensure cycle resumes" (protocol.cpp:181): with no hold
\* and no reset the synchronisation comes to an end.
SyncEnds == At("synced") ~> Synchronized \/ "RESET" \in exec

\* "If in motion state, kills all motion and sets system alarm"
\* (motion_control.h:62): after motors were killed on the move the machine stays
\* locked until the user has acknowledged it.
KilledMeansLocked ==
  At("loop") /\ hist.killed => sys.state \in {"ALARM", "SLEEP"} \/ "RESET" \in exec

\* "NOTE: State is STATE_CYCLE" (protocol.cpp:291): a motion cancel is only
\* ever flagged in a cycle, never on an idle machine.
CancelOnlyInMotion == "MOTION_CANCEL" \in sys.suspend => sys.state # "IDLE"

\* STATE_HOMING is "Performing homing cycle" (system.h:86): it does not outlast
\* the line that homes.
NotStuckHoming == At("loop") => sys.state # "HOMING"

\* "Kill spindle and coolant" (motion_control.cpp:529): both stay off from a
\* reset request until the system is initialised again.
ResetMeansOff == "RESET" \in exec => out = AllOff

\* "just come to a controlled stop so position is not lost"
\* (limits.cpp:675-677): the soft limit resets only a machine at rest.
SoftLimitStopsFirst == [][SoftReset /\ "RESET" \notin exec => ~motion.on]_vars

\* "Delayed Tasks: Restart spindle and coolant" (protocol.cpp:664): the program
\* resumes with the coolant the parser believes in.
CoolantRestored == [][Resumes => out.coolant = gc.coolant]_vars
=============================================================================
