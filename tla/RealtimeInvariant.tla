-------------------------- MODULE RealtimeInvariant -------------------------
(***************************************************************************)
(* The inductive invariant behind the safety theorems of RealtimeProofs:   *)
(* where in the code each piece of shared state can have which value. Its  *)
(* conjuncts are the facts a reader of protocol.cpp has to keep in mind.   *)
(***************************************************************************)
EXTENDS RealtimeProperties

\* protocol_exec_rt_system() before and after its snapshot of the flags.
Snapshot == {"hold", "start", "wake", "stop", "finish"}
Executing == {"alarm", "critical", "copy"} \cup Snapshot

\* The restore sequence of the safety door, and all of the suspend loop.
RestorePCs == {"restoreSpindle", "spindleDelay", "restoreCoolant", "coolantDelay", "restoreDone"}
SuspendPCs == {"suspend", "sleep"} \cup RestorePCs

\* protocol_execute_realtime() as a whole, and main() before its first line.
Inside == {"exec"} \cup Executing \cup SuspendPCs
Starting == {"boot", "bootReset", "mainStart", "doorFlag"}

Restoring == main.pc \in RestorePCs \/ main.ret \in {"spindleDelay", "coolantDelay"}

ResetNext == At("copy") /\ "RESET" \in exec

\* Only inside of protocol_exec_rt_system() is its return pending.
ReturnTaken == main.pc \notin Executing => main.ret = "exec"

\* An abort is due to a reset that is still flagged; it is seen by nothing that
\* comes after the snapshot of the flags, nor by a line on its way out.
AbortPending ==
  sys.abort => /\ "RESET" \in exec
               /\ main.pc \notin Snapshot \cup (Starting \ {"boot"})
                                   \cup {"critical", "mcline", "softreset"}

\* Outside of the executor nothing is suspended, unless the system aborts.
ResumedOutside == main.pc \notin Inside => sys.suspend = {} \/ sys.abort

\* An alarm comes with its reset, and survives the door check of main().
AlarmReset ==
  alarm # "NONE" => /\ "RESET" \in exec \/ At("critical")
                    /\ At("doorFlag") => "RESET" \in main.rt

DoorFlagIdle ==
  main.pc \in Starting \ {"boot"} =>
    /\ sys.step_control = {}
    /\ At("doorFlag") => sys.state = "IDLE" /\ "SLEEP" \notin main.rt

\* A soft limit alarm is taken by the very next step of the main program.
SoftLimitAlarm ==
  alarm = "SOFT_LIMIT" => /\ ~sys.abort
                          /\ main.ret = "exec" /\ main.cont = "room"
                          /\ main.pc \in {"alarm", "critical"}

\* A soft limit is either still waiting for its hold, or on its way to an
\* abort.
SoftLimitLeads ==
  sys.soft_limit =>
    \/ sys.abort
    \/ main.pc \in {"softwait", "softreset"}
    \/ main.pc \in Inside /\ main.cont = "softwait"
    \/ At("alarm") /\ alarm = "SOFT_LIMIT"
    \/ At("critical")
    \/ ResetNext

\* A sleep command is taken by the next call of the executor, from rest.
AtRest == sys.state \in {"IDLE", "ALARM"} /\ sys.suspend = {} /\ ~sys.soft_limit

SleepFlagged ==
  "SLEEP" \in exec =>
    /\ AtRest
    /\ \/ At("loop")
       \/ /\ main.pc \in {"alarm", "copy", "hold"}
          /\ main.ret = "exec" /\ main.cont \in {"eol", "loopEnd"}
       \/ At("exec") /\ main.cont \in {"eol", "loopEnd"} /\ sys.abort
       \/ main.pc \in {"eol", "loopEnd", "boot"} /\ sys.abort

SleepTaken == At("hold") /\ "SLEEP" \in main.rt => AtRest

\* Sleep is a completed hold, and only a reset ends it.
SleepHeld ==
  sys.state = "SLEEP" =>
    main.pc \in Starting \/ ("HOLD_COMPLETE" \in sys.suspend /\ ~sys.soft_limit)

WakesCycle == At("wake") => sys.state = "CYCLE"

JogCancelled == "JOG_CANCEL" \in sys.suspend => sys.state \in {"JOG", "ALARM"}

\* Only a door stop or sleep is parked, and only what is parked is restored.
ParkedStates ==
  /\ "RETRACT_COMPLETE" \in sys.suspend => sys.state \in {"SAFETY_DOOR", "SLEEP", "ALARM"}
  /\ "INITIATE_RESTORE" \in sys.suspend => "RETRACT_COMPLETE" \in sys.suspend

\* A machine in alarm is not suspended: if it was, it is about to abort.
AlarmResumed ==
  sys.state = "ALARM" =>
    \/ sys.abort \/ At("critical") \/ ResetNext
    \/ sys.suspend = {} /\ main.pc \notin SuspendPCs /\ main.ret = "exec"

\* The restore sequence runs on request only.
RestoreAsked ==
  Restoring /\ sys.state = "SAFETY_DOOR" /\ "RETRACT_COMPLETE" \in sys.suspend =>
    "INITIATE_RESTORE" \in sys.suspend

\* Asleep, nothing but a reset changes the state.
AsleepState == Asleep => sys.state = "SLEEP" \/ sys.abort \/ ResetNext

Control ==
  /\ ReturnTaken /\ AbortPending /\ ResumedOutside /\ AlarmReset /\ DoorFlagIdle
  /\ SoftLimitAlarm /\ SoftLimitLeads
  /\ SleepFlagged /\ SleepTaken /\ SleepHeld /\ WakesCycle
  /\ JogCancelled /\ ParkedStates /\ AlarmResumed /\ RestoreAsked /\ AsleepState

Safe == Control /\ ParkedIsOff /\ RestoreNeedsClosedDoor /\ SleepIsOff

Inv == TypeOK /\ Safe

-----------------------------------------------------------------------------
(* Two more, each inductive with Inv.                                       *)

\* Where the open door is noted: never in a hold that the hold manager serves.
DoorNoted ==
  /\ "SAFETY_DOOR_AJAR" \in sys.suspend =>
        sys.state \in {"SAFETY_DOOR", "SLEEP", "JOG", "ALARM"}
  /\ sys.state = "JOG" /\ "HOLD_COMPLETE" \in sys.suspend => sys.abort
  /\ At("restoreSpindle") =>
        sys.state = "SAFETY_DOOR" /\ "INITIATE_RESTORE" \in sys.suspend

\* Check mode is never suspended, and no line is in the middle of switching an
\* output or starting the motors in it.
Inert ==
  /\ sys.state = "CHECK_MODE" =>
        sys.abort \/ (sys.suspend = {} /\ main.pc \notin SuspendPCs /\ main.ret = "exec")
  /\ At("jogWake") => sys.state = "JOG"
  /\ main.pc \in {"applySpindle", "applyCoolant"} => sys.state # "CHECK_MODE"
  /\ main.after # "applyFlow" =>
        /\ sys.state # "CHECK_MODE"
        /\ main.pc \in {"sync", "synced"} \/ (main.pc \in Inside /\ main.cont = "synced")

-----------------------------------------------------------------------------
(* Why no end of a motion is lost: a hold that waits for one has told the  *)
(* segment generator to decelerate. For lines without `$HQ`, which leaves  *)
(* the machine HOMING with nothing moving.                                 *)

NoHoming == "$HQ" \notin Lines /\ sys.state # "HOMING"

\* The local copy of the flags is empty outside of a pass of the executor.
RtLocal == main.pc \notin Snapshot \cup {"doorFlag"} => main.rt = {}

\* An uncompleted hold decelerates, and so does a cancelled motion.
HoldPrepared ==
  \/ Resetting
  \/ "EXECUTE_HOLD" \in sys.step_control
  \/ ~(Stopping /\ ~Completed) /\ ~(sys.state = "CYCLE" /\ "MOTION_CANCEL" \in sys.suspend)

\* A cancelled jog is marked as a jog, not as a motion.
JogUnmarked == sys.state = "JOG" => Resetting \/ "MOTION_CANCEL" \notin sys.suspend

\* Past the cycle stop, its flag in the local copy no longer counts.
StopTaken ==
  At("finish") /\ Moving => motion.on \/ "CYCLE_STOP" \in exec \/ Resetting

Signalled ==
  NoHoming /\ RtLocal /\ HoldPrepared /\ JogUnmarked /\ StopTaken /\ EndOfMotionSignalled

-----------------------------------------------------------------------------
(* Why a completed hold is at rest, for lines without `$HQ` and `$J`.      *)

\* On its way into or through main()'s initialisation.
Dying ==
  \/ sys.abort \/ main.pc \in {"boot", "bootReset", "mainStart", "critical"}
  \/ At("copy") /\ sys.state = "ALARM" /\ "RESET" \in exec

\* The step interrupt is on in motion only.
OnMeansMoving == motion.on => Moving \/ Dying

\* It is off when it has said so, and stays off until the next start.
StopMeansOff ==
  /\ "CYCLE_STOP" \in exec => ~motion.on
  /\ main.pc \in {"hold", "start", "wake", "stop"} /\ "CYCLE_STOP" \in main.rt =>
       "CYCLE_STOP" \in exec
  /\ At("stop") => "CYCLE_STOP" \in main.rt

\* An end of motion that outlives the initialisation is taken by the first pass of the
\* executor, before there is anything to start.
StaleStop ==
  "CYCLE_STOP" \in exec /\ ~Moving /\ ~Dying =>
    /\ motion.queue = <<>>
    /\ main.pc \in {"doorFlag", "loop", "alarm", "copy", "hold", "start", "stop"}
    /\ main.pc \in {"hold", "start"} => "CYCLE_STOP" \in main.rt

\* The motors start from rest, and the initialisation leaves them at rest.
StartsFromRest ==
  /\ At("wake") => ~motion.on /\ "CYCLE_STOP" \notin exec /\ sys.suspend = {}
  /\ main.pc \in {"mainStart", "doorFlag"} => motion = Still
  /\ At("critical") => sys.state = "ALARM"

\* No cycle runs with its hold complete; the door counts as closed in a completed stop
\* only.
HoldStates ==
  /\ sys.state = "CYCLE" => ~Completed
  /\ sys.state = "SAFETY_DOOR" => "SAFETY_DOOR_AJAR" \in sys.suspend \/ Completed \/ Dying

NoJog == "$J" \notin Lines /\ sys.state # "JOG" /\ main.pc # "jogWake"

Stopped ==
  /\ NoHoming /\ NoJog /\ OnMeansMoving /\ StopMeansOff /\ StaleStop /\ StartsFromRest
  /\ HoldStates /\ HoldCompleteMeansStopped
=============================================================================
