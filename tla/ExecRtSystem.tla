---------------------------- MODULE ExecRtSystem ----------------------------
(***************************************************************************)
(* What the real-time executor does to the `sys` structure: the branches   *)
(* of protocol_exec_rt_system() and of the suspend loop, each written as a *)
(* function from the value of `sys` before the branch to its value after.  *)
(* Module Realtime turns them into steps of the main program and           *)
(* interleaves those with the interrupt handlers.                          *)
(*                                                                         *)
(* Bit fields of the code are sets of flag names here; `bit(n)` constants  *)
(* keep the name they have in system.h without their prefix.               *)
(***************************************************************************)
EXTENDS Naturals, Sequences

States ==
  {"IDLE", "ALARM", "CHECK_MODE", "HOMING", "CYCLE", "HOLD", "JOG",
   "SAFETY_DOOR", "SLEEP"}

HoldFlags == {"MOTION_CANCEL", "FEED_HOLD", "SAFETY_DOOR", "SLEEP"}

ExecFlags == HoldFlags \cup {"CYCLE_START", "CYCLE_STOP", "RESET"}

SuspendFlags ==
  {"HOLD_COMPLETE", "RESTART_RETRACT", "RETRACT_COMPLETE",
   "INITIATE_RESTORE", "RESTORE_COMPLETE", "SAFETY_DOOR_AJAR",
   "MOTION_CANCEL", "JOG_CANCEL"}

StepFlags == {"END_MOTION", "EXECUTE_HOLD", "UPDATE_SPINDLE_PWM"}

StopOvrFlags == {"ENABLED", "INITIATE", "RESTORE", "RESTORE_CYCLE"}

Alarms == {"NONE", "SOFT_LIMIT", "ABORT_CYCLE", "HOMING_FAIL_RESET"}

Coolants == {"FLOOD", "MIST"}

\* The accessory overrides. The speed overrides differ only in the value they
\* leave in sys.spindle_speed_ovr and are one flag; a coolant toggle carries
\* the name of its output.
AccessoryFlags == {"SPINDLE_SPEED", "SPINDLE_STOP"} \cup Coolants

\* The accessory part of a planner block's condition, of gc_state.modal and
\* of the output pins.
Condition == [spindle : BOOLEAN, coolant : SUBSET Coolants]

AllOff == [spindle |-> FALSE, coolant |-> {}]

System ==
  [state            : States,
   abort            : BOOLEAN,
   suspend          : SUBSET SuspendFlags,
   soft_limit       : BOOLEAN,
   step_control     : SUBSET StepFlags,
   spindle_stop_ovr : SUBSET StopOvrFlags]

\* The structure as main() leaves it after memset(): only the state survives.
Cleared(state) ==
  [state |-> state, abort |-> FALSE, suspend |-> {}, soft_limit |-> FALSE,
   step_control |-> {}, spindle_stop_ovr |-> {}]

-----------------------------------------------------------------------------
(* The hold group: motion cancel, feed hold, safety door and sleep.         *)

\* In CYCLE or JOG the step generator is told to decelerate, unless a cancel
\* already does so; a jog is cancelled by every hold but sleep.
InitiateHold(s, rt) ==
  IF s.state \in {"CYCLE", "JOG"} /\ s.suspend \cap {"MOTION_CANCEL", "JOG_CANCEL"} = {}
  THEN [s EXCEPT !.step_control = {"EXECUTE_HOLD"},
                 !.suspend = IF s.state = "JOG" /\ "SLEEP" \notin rt
                             THEN @ \cup {"JOG_CANCEL"} ELSE @]
  ELSE s

\* Seeded fault: a hold is taken as complete while the motors decelerate.
HoldAtRestInMotion(s) ==
  IF s.state \in {"IDLE", "CYCLE", "JOG"} THEN [s EXCEPT !.suspend = @ \cup {"HOLD_COMPLETE"}] ELSE s

\* An idle machine is at rest: its hold is complete at once.
HoldAtRest(s) ==
  IF s.state = "IDLE" THEN [s EXCEPT !.suspend = {"HOLD_COMPLETE"}] ELSE s

CancelMotion(s, rt) ==
  IF "MOTION_CANCEL" \in rt /\ s.state # "JOG"
  THEN [s EXCEPT !.suspend = @ \cup {"MOTION_CANCEL"}]
  ELSE s

FeedHold(s, rt) ==
  IF "FEED_HOLD" \in rt /\ s.state \notin {"SAFETY_DOOR", "JOG", "SLEEP"}
  THEN [s EXCEPT !.state = "HOLD"]
  ELSE s

\* Seeded fault: the reopened door does not ask for another retraction.
RestartKeepsRetracted(s) ==
  IF s.state = "SAFETY_DOOR"
  THEN [s EXCEPT !.suspend = @ \ {"INITIATE_RESTORE", "RESTORE_COMPLETE"}] ELSE s

\* Seeded fault: the restore goes on although the door reopened.
RestartKeepsRestore(s) == s

\* The door reopened while spindle and coolant were being restored: the
\* retraction has to be done again.
RestartRetract(s) ==
  IF s.state = "SAFETY_DOOR" /\ "INITIATE_RESTORE" \in s.suspend
  THEN [s EXCEPT !.suspend =
          (@ \ {"RETRACT_COMPLETE", "INITIATE_RESTORE", "RESTORE_COMPLETE"})
             \cup {"RESTART_RETRACT"}]
  ELSE s

EnterDoor(s) ==
  IF s.state = "SLEEP" THEN s ELSE [s EXCEPT !.state = "SAFETY_DOOR"]

\* During a jog cancel the door is only noted; it takes effect when the jog
\* has stopped.
DoorOpened(s, rt) ==
  IF "SAFETY_DOOR" \in rt
  THEN LET t == IF "JOG_CANCEL" \in s.suspend THEN s ELSE EnterDoor(RestartRetract(s))
       IN [t EXCEPT !.suspend = @ \cup {"SAFETY_DOOR_AJAR"}]
  ELSE s

FallAsleep(s, rt) ==
  IF "SLEEP" \in rt
  THEN [s EXCEPT !.state = "SLEEP",
                 !.suspend = IF s.state = "ALARM"
                             THEN @ \cup {"RETRACT_COMPLETE", "HOLD_COMPLETE"} ELSE @]
  ELSE s

\* The whole group, in the order of the code. ALARM and CHECK_MODE take no
\* part in holds; sleep does not ask.
HoldGroup(s, rt) ==
  LET held == DoorOpened(
                FeedHold(
                  CancelMotion(HoldAtRest(InitiateHold(s, rt)), rt), rt), rt)
  IN FallAsleep(IF s.state \in {"ALARM", "CHECK_MODE"} THEN s ELSE held, rt)

-----------------------------------------------------------------------------
(* Cycle start.                                                             *)

\* Seeded fault: a cycle start is honoured next to a hold.
NoStartBlockers == {}

StartBlockers == {"FEED_HOLD", "MOTION_CANCEL", "SAFETY_DOOR"}

\* Seeded fault: the door resumes without having been closed.
DoorResumeAjar(s) ==
  IF s.state = "SAFETY_DOOR" /\ "RETRACT_COMPLETE" \in s.suspend
  THEN IF "RESTORE_COMPLETE" \in s.suspend THEN [s EXCEPT !.state = "IDLE"]
       ELSE [s EXCEPT !.suspend = @ \cup {"INITIATE_RESTORE"}]
  ELSE s

\* A closed door either resumes (accessories restored) or begins to restore.
DoorResume(s) ==
  IF s.state = "SAFETY_DOOR" /\ "SAFETY_DOOR_AJAR" \notin s.suspend
  THEN IF "RESTORE_COMPLETE" \in s.suspend THEN [s EXCEPT !.state = "IDLE"]
       ELSE IF "RETRACT_COMPLETE" \in s.suspend
            THEN [s EXCEPT !.suspend = @ \cup {"INITIATE_RESTORE"}]
            ELSE s
  ELSE s

MayStart(s) ==
  \/ s.state = "IDLE"
  \/ s.state = "HOLD" /\ "HOLD_COMPLETE" \in s.suspend

\* `queued` says whether plan_get_current_block() returns a block. The result
\* is in state CYCLE exactly when the steppers are to be started.
ResumeCycle(s, queued) ==
  IF s.state = "HOLD" /\ s.spindle_stop_ovr # {}
  THEN [s EXCEPT !.spindle_stop_ovr = @ \cup {"RESTORE_CYCLE"}]
  ELSE [s EXCEPT !.step_control = {},
                 !.suspend = {},
                 !.state = IF queued /\ "MOTION_CANCEL" \notin s.suspend
                           THEN "CYCLE" ELSE "IDLE"]

CycleStart(s, rt, queued) ==
  IF rt \cap StartBlockers # {} THEN s
  ELSE LET t == DoorResume(s)
       IN IF MayStart(t) THEN ResumeCycle(t, queued) ELSE t

-----------------------------------------------------------------------------
(* Cycle stop: the step interrupt ran out of segments.                      *)

\* Seeded fault: the deceleration ends without completing the hold.
HoldReachedSilently(s) == [s EXCEPT !.step_control = @ \ {"EXECUTE_HOLD"}]

HoldReached(s) ==
  [s EXCEPT !.suspend = IF "EXECUTE_HOLD" \in s.step_control
                        THEN @ \cup {"HOLD_COMPLETE"} ELSE @,
            !.step_control = @ \ {"EXECUTE_HOLD"}]

MotionEnded(s) ==
  LET t == IF "JOG_CANCEL" \in s.suspend THEN [s EXCEPT !.step_control = {}] ELSE s
  IN IF "SAFETY_DOOR_AJAR" \in s.suspend
     THEN [t EXCEPT !.suspend = (@ \ {"JOG_CANCEL"}) \cup {"HOLD_COMPLETE"},
                    !.state = "SAFETY_DOOR"]
     ELSE [t EXCEPT !.suspend = {}, !.state = "IDLE"]

CycleStop(s) ==
  IF /\ s.state \in {"HOLD", "SAFETY_DOOR", "SLEEP"}
     /\ ~s.soft_limit
     /\ "JOG_CANCEL" \notin s.suspend
  THEN HoldReached(s)
  ELSE MotionEnded(s)

-----------------------------------------------------------------------------
(* Accessory overrides and the outputs they act on.                         *)

SpindleSpeedOverride(s, acc) ==
  IF "SPINDLE_SPEED" \in acc
  THEN [s EXCEPT !.step_control = @ \cup {"UPDATE_SPINDLE_PWM"}] ELSE s

SpindleStopOverride(s, acc) ==
  IF "SPINDLE_STOP" \in acc /\ s.state = "HOLD"
  THEN [s EXCEPT !.spindle_stop_ovr =
          IF @ = {} THEN {"INITIATE"}
          ELSE IF "ENABLED" \in @ THEN @ \cup {"RESTORE"} ELSE @]
  ELSE s

SpindleOverride(s, acc) == SpindleStopOverride(SpindleSpeedOverride(s, acc), acc)

\* Flood and mist flip between on and off in the parser state.
ToggleCoolant(coolant, acc) ==
  (coolant \ acc) \cup ((acc \cap Coolants) \ coolant)

\* Seeded fault: coolant may be toggled in any state.
ToggleAnytime(s, acc) == acc \cap Coolants # {}

ToggleAllowed(s, acc) ==
  acc \cap Coolants # {} /\ s.state \in {"IDLE", "CYCLE", "HOLD"}

\* coolant_set_state(): no effect during an abort; a mode other than "all off"
\* only switches outputs on.
CoolantSetState(s, pins, mode) ==
  IF s.abort THEN pins
  ELSE IF mode = {} THEN {} ELSE pins \cup mode

\* spindle_set_state(): no effect during an abort.
SpindleSetState(s, pin, mode) == IF s.abort THEN pin ELSE mode

-----------------------------------------------------------------------------
(* The suspend loop's branches.                                             *)

\* Safety door and sleep: everything is off, the machine is parked.
Retracted(s) ==
  [s EXCEPT !.spindle_stop_ovr = {},
            !.suspend = (@ \ {"RESTART_RETRACT"}) \cup {"RETRACT_COMPLETE"}]

\* The hold manager's effect on the spindle stop override and the PWM flag.
HoldManaged(s, modal) ==
  IF "INITIATE" \in s.spindle_stop_ovr
  THEN [s EXCEPT !.spindle_stop_ovr = IF modal.spindle THEN {"ENABLED"} ELSE {}]
  ELSE IF s.spindle_stop_ovr \cap {"RESTORE", "RESTORE_CYCLE"} # {}
       THEN [s EXCEPT !.spindle_stop_ovr = {}]
       ELSE IF s.spindle_stop_ovr = {}
            THEN [s EXCEPT !.step_control = @ \ {"UPDATE_SPINDLE_PWM"}]
            ELSE s

\* ... and on the spindle output.
HoldSpindle(s, modal, pin, restore) ==
  IF "INITIATE" \in s.spindle_stop_ovr
  THEN IF modal.spindle THEN SpindleSetState(s, pin, FALSE) ELSE pin
  ELSE IF s.spindle_stop_ovr \cap {"RESTORE", "RESTORE_CYCLE"} # {}
       THEN IF modal.spindle THEN SpindleSetState(s, pin, restore.spindle) ELSE pin
       ELSE IF s.spindle_stop_ovr = {} /\ "UPDATE_SPINDLE_PWM" \in s.step_control
            THEN SpindleSetState(s, pin, restore.spindle)
            ELSE pin
=============================================================================
