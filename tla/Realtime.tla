------------------------------ MODULE Realtime ------------------------------
(***************************************************************************)
(* The real-time core of the firmware: the main program (main(),           *)
(* protocol_main_loop(), the g-code and `$` lines it executes and the      *)
(* executor protocol_execute_realtime() they all poll) interleaved with    *)
(* the interrupt handlers that talk to it through volatile flags: control  *)
(* pins, serial receive and the step timer.                                *)
(*                                                                         *)
(* A main-program step runs from one access of the shared flags to the     *)
(* next, so an interrupt may fall between any two of them; an interrupt    *)
(* handler is one step.                                                    *)
(***************************************************************************)
EXTENDS ExecRtSystem, FiniteSets

CONSTANTS
  Lines,          \* the lines the host may send
  Commands,       \* the real-time characters the host may send
  Buttons,        \* the control pins that are wired
  QueueSize,      \* blocks the planner buffer holds: BLOCK_BUFFER_SIZE - 1
  SegmentSize     \* segments ahead of the step interrupt

GCodeLines == {"G1", "G1 far", "G1 M0", "M3", "M5", "M7", "M8", "M9"}
SystemLines == {"$J", "$X", "$C", "$SLP", "$HQ"}

CommandChars ==
  {"RESET", "FEED_HOLD", "CYCLE_START", "SAFETY_DOOR", "JOG_CANCEL"} \cup AccessoryFlags

AllButtons == {"reset", "start", "hold", "door"}

ASSUME LinesAssumption == Lines \subseteq GCodeLines \cup SystemLines
ASSUME CommandsAssumption == Commands \subseteq CommandChars
ASSUME ButtonsAssumption == Buttons \subseteq AllButtons
ASSUME SizesAssumption == QueueSize \in Nat \ {0} /\ SegmentSize \in Nat \ {0}

VARIABLES
  pins,        \* the control pins that are triggered
  exec,        \* sys_rt_exec_state
  alarm,       \* sys_rt_exec_alarm
  accessory,   \* sys_rt_exec_accessory_override
  sys,         \* the `sys` structure
  gc,          \* gc_state.modal: what the parser believes is running
  out,         \* the spindle and coolant output pins
  motion,      \* planner queue, segments ready, step interrupt enabled
  main,        \* control point and locals of the main program
  hist         \* what happened (no code): read by the properties only

vars == <<pins, exec, alarm, accessory, sys, gc, out, motion, main, hist>>

\* Where protocol_exec_rt_system() may have been called from.
SysReturns == {"exec", "suspend", "sleep", "spindleDelay", "coolantDelay"}

\* Where protocol_execute_realtime() may have been called from.
ExecReturns == {"loop", "eol", "loopEnd", "softwait", "room", "synced"}

\* What may follow protocol_buffer_synchronize().
SyncReturns == {"applySpindle", "applyCoolant", "applyFlow"}

PCs ==
  SysReturns \cup ExecReturns
    \cup {"boot", "bootReset", "mainStart", "doorFlag",
          "alarm", "critical", "copy", "hold", "start", "wake", "stop", "finish",
          "restoreSpindle", "restoreCoolant", "restoreDone",
          "mcline", "softreset", "moved", "jogWake", "gcSpindle", "gcCoolant", "sync"}
    \cup SyncReturns

Main ==
  [pc      : PCs,
   ret     : SysReturns,
   cont    : ExecReturns,
   after   : SyncReturns,
   line    : Lines \cup {"none"},
   block   : Condition,             \* gc_block.modal
   rt      : SUBSET ExecFlags,      \* the local copy rt_exec
   restore : Condition]             \* restore_condition

Motion == [queue : Seq(Condition), segs : 0..SegmentSize, on : BOOLEAN]

Still == [queue |-> <<>>, segs |-> 0, on |-> FALSE]

Init ==
  /\ pins \in SUBSET Buttons
  /\ exec = {}
  /\ alarm = "NONE"
  /\ accessory = {}
  /\ \E state \in {"IDLE", "ALARM"} : sys = Cleared(state)
  /\ gc = AllOff
  /\ out = AllOff
  /\ motion = Still
  /\ main = [pc |-> "boot", ret |-> "exec", cont |-> "loop", after |-> "applyFlow",
             line |-> "none", block |-> AllOff, rt |-> {}, restore |-> AllOff]
  /\ hist = [killed |-> FALSE, asked |-> FALSE]

-----------------------------------------------------------------------------
(* Shared helpers.                                                          *)

\* A pin reads as triggered unless every pin is: then the port reads zero and
\* system_control_get_state() reports none of them.
ControlState == IF pins = AllButtons THEN {} ELSE pins

DoorAjar == "door" \in ControlState

\* The effect of mc_reset() on what it touches; nothing if a reset is pending.
InMotion == sys.state \in {"CYCLE", "HOMING", "JOG"} \/ "EXECUTE_HOLD" \in sys.step_control

AbortAlarm ==
  IF sys.state # "HOMING" THEN "ABORT_CYCLE"
  ELSE IF alarm = "NONE" THEN "HOMING_FAIL_RESET" ELSE alarm

McReset ==
  IF "RESET" \in exec
  THEN UNCHANGED <<exec, alarm, out, motion, hist>>
  ELSE /\ exec' = exec \cup {"RESET"}
       /\ out' = AllOff
       /\ alarm' = IF InMotion THEN AbortAlarm ELSE alarm
       /\ motion' = [motion EXCEPT !.on = @ /\ ~InMotion]
       /\ hist' = [hist EXCEPT !.killed = @ \/ motion.on]

\* st_prep_buffer(). A segment of the model completes one block. In a hold the
\* deceleration ends within block n + 1, or outlasts the segments prepared now.
Loaded(m, n) ==
  [m EXCEPT !.queue = SubSeq(m.queue, n + 1, Len(m.queue)), !.segs = m.segs + n]

Loadable(m) ==
  LET room == SegmentSize - m.segs
  IN IF room < Len(m.queue) THEN room ELSE Len(m.queue)

PwmUpdated(s, m) ==
  IF Loadable(m) > 0
  THEN [s EXCEPT !.step_control = @ \ {"UPDATE_SPINDLE_PWM"}] ELSE s

StopsIn(m) == {n \in 0..Loadable(m) : n < Len(m.queue) /\ m.segs + n < SegmentSize}

Prep(s, m) ==
  IF "END_MOTION" \in s.step_control THEN {[sys |-> s, motion |-> m]}
  ELSE LET t == PwmUpdated(s, m)
       IN {[sys |-> t, motion |-> Loaded(m, Loadable(m))]}
            \cup {[sys |-> [t EXCEPT !.step_control = @ \cup {"END_MOTION"}],
                   motion |-> Loaded(m, n)] :
                    n \in IF "EXECUTE_HOLD" \in s.step_control THEN StopsIn(m) ELSE {}}

\* Calls of the executor, and returns from it.
Exec(cont) == [main EXCEPT !.pc = "alarm", !.ret = "exec", !.cont = cont]

SysPass(ret) == [main EXCEPT !.pc = "alarm", !.ret = ret]

GoTo(pc) == [main EXCEPT !.pc = pc]

\* protocol_buffer_synchronize(), and then on to `next`.
SyncThen(next) == [GoTo("sync") EXCEPT !.after = next]

Return == [main EXCEPT !.pc = main.cont, !.cont = "loop", !.restore = AllOff]

NextLine == [main EXCEPT !.pc = "loop", !.line = "none", !.block = AllOff]

-----------------------------------------------------------------------------
(* Interrupt handlers.                                                      *)

UserAsks == hist' = [hist EXCEPT !.asked = TRUE]

Raise(flag) ==
  exec' = exec \cup {flag} /\ UNCHANGED <<alarm, out, motion>>

\* A control pin changes; the handler acts on the first triggered pin in a
\* fixed priority, whichever pin changed.
ControlISR(button) ==
  /\ pins' = IF button \in pins THEN pins \ {button} ELSE pins \cup {button}
  /\ \/ "reset" \in ControlState' /\ McReset
     \/ /\ "reset" \notin ControlState' /\ "start" \in ControlState'
        /\ Raise("CYCLE_START")
        /\ UserAsks
     \/ /\ ControlState' \in {{"hold"}, {"hold", "door"}}
        /\ Raise("FEED_HOLD")
        /\ UNCHANGED hist
     \/ /\ ControlState' = {"door"}
        /\ Raise("SAFETY_DOOR")
        /\ UNCHANGED hist
     \/ ControlState' = {} /\ UNCHANGED <<exec, alarm, out, motion, hist>>
  /\ UNCHANGED <<accessory, sys, gc, main>>

\* Real-time characters are picked off the serial stream.
SerialRx(c) ==
  /\ \/ c = "RESET" /\ McReset /\ UNCHANGED accessory
     \/ c = "CYCLE_START" /\ Raise(c) /\ UserAsks /\ UNCHANGED accessory
     \/ c \in {"FEED_HOLD", "SAFETY_DOOR"} /\ Raise(c) /\ UNCHANGED <<accessory, hist>>
     \/ /\ c = "JOG_CANCEL" /\ sys.state = "JOG"
        /\ Raise("MOTION_CANCEL")
        /\ UNCHANGED <<accessory, hist>>
     \/ /\ c \in AccessoryFlags
        /\ accessory' = accessory \cup {c}
        /\ UNCHANGED <<exec, alarm, out, motion, hist>>
  /\ UNCHANGED <<pins, sys, gc, main>>

\* Seeded fault: the step interrupt shuts down without saying so.
StepperISRSilent ==
  /\ motion.on
  /\ motion' = IF motion.segs > 0 THEN [motion EXCEPT !.segs = @ - 1]
               ELSE [motion EXCEPT !.on = FALSE]
  /\ UNCHANGED <<pins, exec, alarm, accessory, sys, gc, out, main, hist>>

\* The step interrupt completes a segment, or finds none and shuts down.
StepperISR ==
  /\ motion.on
  /\ IF motion.segs > 0
     THEN motion' = [motion EXCEPT !.segs = @ - 1] /\ UNCHANGED exec
     ELSE motion' = [motion EXCEPT !.on = FALSE] /\ exec' = exec \cup {"CYCLE_STOP"}
  /\ UNCHANGED <<pins, alarm, accessory, sys, gc, out, main, hist>>

-----------------------------------------------------------------------------
(* protocol_exec_rt_system(): alarm, snapshot of the flags, hold group,     *)
(* cycle start, cycle stop, overrides and the reload of the step segments.  *)

At(pc) == main.pc = pc

AlarmCopy ==
  /\ At("alarm")
  /\ \/ alarm = "NONE" /\ main' = GoTo("copy") /\ UNCHANGED <<exec, alarm, sys>>
     \/ /\ alarm = "SOFT_LIMIT"
        /\ sys' = [sys EXCEPT !.state = "ALARM"]
        /\ exec' = exec \ {"RESET"}
        /\ main' = GoTo("critical")
        /\ UNCHANGED alarm
     \/ /\ alarm \notin {"NONE", "SOFT_LIMIT"}
        /\ sys' = [sys EXCEPT !.state = "ALARM"]
        /\ alarm' = "NONE"
        /\ main' = GoTo("copy")
        /\ UNCHANGED exec
  /\ UNCHANGED <<pins, accessory, gc, out, motion, hist>>

\* A critical alarm blocks everything until the user resets.
Critical ==
  /\ At("critical")
  /\ "RESET" \in exec
  /\ alarm' = "NONE"
  /\ main' = GoTo("copy")
  /\ UNCHANGED <<pins, exec, accessory, sys, gc, out, motion, hist>>

AfterStart(rt) == IF "CYCLE_STOP" \in rt THEN "stop" ELSE "finish"
AfterHold(rt) == IF "CYCLE_START" \in rt THEN "start" ELSE AfterStart(rt)
AfterCopy(rt) == IF rt \cap HoldFlags # {} THEN "hold" ELSE AfterHold(rt)

FlagCopy ==
  /\ At("copy")
  /\ \/ /\ "RESET" \in exec
        /\ sys' = [sys EXCEPT !.abort = TRUE]
        /\ main' = [main EXCEPT !.pc = main.ret, !.ret = "exec"]
     \/ /\ "RESET" \notin exec
        /\ main' = [main EXCEPT !.pc = AfterCopy(exec), !.rt = exec]
        /\ UNCHANGED sys
  /\ UNCHANGED <<pins, exec, alarm, accessory, gc, out, motion, hist>>

\* All four hold flags are cleared, those raised since the copy included.
NewHold == sys'.state = "HOLD" \/ "SAFETY_DOOR" \in main.rt

\* Seeded fault: the hold group clears the whole flag word.
ExecHoldClearsAll ==
  /\ At("hold")
  /\ sys' = HoldGroup(sys, main.rt)
  /\ exec' = {}
  /\ main' = GoTo(AfterHold(main.rt))
  /\ hist' = IF NewHold THEN [hist EXCEPT !.asked = FALSE] ELSE hist
  /\ UNCHANGED <<pins, alarm, accessory, gc, out, motion>>

ExecHold ==
  /\ At("hold")
  /\ sys' = HoldGroup(sys, main.rt)
  /\ exec' = exec \ HoldFlags
  /\ main' = GoTo(AfterHold(main.rt))
  /\ hist' = IF NewHold
             THEN [hist EXCEPT !.asked = "CYCLE_START" \in exec \ main.rt] ELSE hist
  /\ UNCHANGED <<pins, alarm, accessory, gc, out, motion>>

Started == sys.state # "CYCLE" /\ sys'.state = "CYCLE"

ExecStart ==
  /\ At("start")
  /\ sys' = CycleStart(sys, main.rt, motion.queue # <<>>)
  /\ \/ /\ Started
        /\ main' = GoTo("wake")
        /\ UNCHANGED exec
     \/ /\ ~Started
        /\ main' = GoTo(AfterStart(main.rt))
        /\ exec' = exec \ {"CYCLE_START"}
  /\ UNCHANGED <<pins, alarm, accessory, gc, out, motion, hist>>

\* st_prep_buffer(); st_wake_up();
PrepAndWake ==
  \E p \in Prep(sys, motion) : sys' = p.sys /\ motion' = [p.motion EXCEPT !.on = TRUE]

ExecWake ==
  /\ At("wake")
  /\ PrepAndWake
  /\ exec' = exec \ {"CYCLE_START"}
  /\ main' = GoTo(AfterStart(main.rt))
  /\ UNCHANGED <<pins, alarm, accessory, gc, out, hist>>

ExecStop ==
  /\ At("stop")
  /\ sys' = CycleStop(sys)
  /\ motion' = IF "JOG_CANCEL" \in sys.suspend THEN Still ELSE motion
  /\ exec' = exec \ {"CYCLE_STOP"}
  /\ main' = GoTo("finish")
  /\ UNCHANGED <<pins, alarm, accessory, gc, out, hist>>

\* The overrides received so far are taken and cleared. (One raised between
\* the copy and the clear is lost, as if it had never been sent.)
Overrides ==
  LET t == SpindleOverride(sys, accessory)
      coolant == ToggleCoolant(gc.coolant, accessory)
  IN IF ToggleAllowed(sys, accessory)
     THEN [sys |-> t, gc |-> [gc EXCEPT !.coolant = coolant],
           out |-> [out EXCEPT !.coolant = CoolantSetState(sys, @, coolant)]]
     ELSE [sys |-> t, gc |-> gc, out |-> out]

Reloads == {"CYCLE", "HOLD", "SAFETY_DOOR", "HOMING", "SLEEP", "JOG"}

ExecFinish ==
  /\ At("finish")
  /\ gc' = Overrides.gc
  /\ out' = Overrides.out
  /\ accessory' = {}
  /\ \E p \in IF sys.state \in Reloads THEN Prep(Overrides.sys, motion)
              ELSE {[sys |-> Overrides.sys, motion |-> motion]} :
       sys' = p.sys /\ motion' = p.motion
  /\ main' = [main EXCEPT !.pc = main.ret, !.ret = "exec", !.rt = {}]
  /\ UNCHANGED <<pins, exec, alarm, hist>>

RtSystem ==
  AlarmCopy \/ Critical \/ FlagCopy \/ ExecHold \/ ExecStart \/ ExecWake \/ ExecStop
    \/ ExecFinish

-----------------------------------------------------------------------------
(* protocol_execute_realtime() and the suspend loop.                        *)

\* On entry the accessory state to restore is taken from the block being
\* executed, or from the parser if the planner is empty.
ExecReturn ==
  /\ At("exec")
  /\ \/ (sys.suspend = {} \/ sys.abort) /\ main' = Return
     \/ /\ sys.suspend # {} /\ ~sys.abort
        /\ main' = [main EXCEPT !.pc = "suspend",
                                !.restore = IF motion.queue = <<>> THEN gc
                                            ELSE Head(motion.queue)]
  /\ UNCHANGED <<pins, exec, alarm, accessory, sys, gc, out, motion, hist>>

Held == At("suspend") /\ sys.suspend # {} /\ ~sys.abort

Parking == sys.state \in {"SAFETY_DOOR", "SLEEP"}

SuspendEnd ==
  /\ At("suspend")
  /\ sys.suspend = {} \/ sys.abort
  /\ main' = Return
  /\ UNCHANGED <<pins, exec, alarm, accessory, sys, gc, out, motion, hist>>

SuspendWait ==
  /\ Held
  /\ "HOLD_COMPLETE" \notin sys.suspend
  /\ main' = SysPass("suspend")
  /\ UNCHANGED <<pins, exec, alarm, accessory, sys, gc, out, motion, hist>>

\* Switching everything off.
Off ==
  [spindle |-> SpindleSetState(sys, out.spindle, FALSE),
   coolant |-> CoolantSetState(sys, out.coolant, {})]

Park ==
  /\ Held /\ "HOLD_COMPLETE" \in sys.suspend /\ Parking
  /\ "RETRACT_COMPLETE" \notin sys.suspend
  /\ out' = Off
  /\ sys' = Retracted(sys)
  /\ main' = SysPass("suspend")
  /\ UNCHANGED <<pins, exec, alarm, accessory, gc, motion, hist>>

\* Asleep until a reset: the steppers are disabled.
EnterSleep ==
  /\ Held /\ "HOLD_COMPLETE" \in sys.suspend
  /\ sys.state = "SLEEP" /\ "RETRACT_COMPLETE" \in sys.suspend
  /\ out' = Off
  /\ motion' = [motion EXCEPT !.on = FALSE]
  /\ hist' = [hist EXCEPT !.killed = @ \/ motion.on]
  /\ main' = SysPass("sleep")
  /\ UNCHANGED <<pins, exec, alarm, accessory, sys, gc>>

Sleep ==
  /\ At("sleep")
  /\ main' = IF sys.abort THEN Return ELSE SysPass("sleep")
  /\ UNCHANGED <<pins, exec, alarm, accessory, sys, gc, out, motion, hist>>

\* Parked at the open door: a closed door clears the ajar flag, and once the
\* restore is asked for it runs.
Parked ==
  /\ Held /\ "HOLD_COMPLETE" \in sys.suspend
  /\ sys.state = "SAFETY_DOOR" /\ "RETRACT_COMPLETE" \in sys.suspend
  /\ sys' = IF DoorAjar THEN sys ELSE [sys EXCEPT !.suspend = @ \ {"SAFETY_DOOR_AJAR"}]
  /\ main' = IF "INITIATE_RESTORE" \in sys.suspend THEN GoTo("restoreSpindle")
             ELSE SysPass("suspend")
  /\ UNCHANGED <<pins, exec, alarm, accessory, gc, out, motion, hist>>

Reopened == "RESTART_RETRACT" \in sys.suspend

RestoreSpindle ==
  /\ At("restoreSpindle")
  /\ \/ /\ gc.spindle /\ ~Reopened
        /\ out' = [out EXCEPT !.spindle = SpindleSetState(sys, @, main.restore.spindle)]
        /\ main' = SysPass("spindleDelay")
     \/ /\ ~gc.spindle \/ Reopened
        /\ main' = GoTo("restoreCoolant")
        /\ UNCHANGED out
  /\ UNCHANGED <<pins, exec, alarm, accessory, sys, gc, motion, hist>>

\* delay_sec(): the executor is polled for as long as the delay lasts, unless
\* the door reopens or the system aborts.
Delay(pc, next) ==
  /\ At(pc)
  /\ \/ ~sys.abort /\ ~Reopened /\ main' = SysPass(pc)
     \/ main' = GoTo(next)
  /\ UNCHANGED <<pins, exec, alarm, accessory, sys, gc, out, motion, hist>>

SpindleDelay == Delay("spindleDelay", "restoreCoolant")

\* Only flood is restored: the mask names it twice and mist never.
RestoredCoolant == main.restore.coolant \cap {"FLOOD"}

RestoreCoolant ==
  /\ At("restoreCoolant")
  /\ \/ /\ gc.coolant # {} /\ ~Reopened
        /\ out' = [out EXCEPT !.coolant = CoolantSetState(sys, @, RestoredCoolant)]
        /\ main' = IF sys.abort THEN GoTo("restoreDone") ELSE SysPass("coolantDelay")
     \/ /\ gc.coolant = {} \/ Reopened
        /\ main' = GoTo("restoreDone")
        /\ UNCHANGED out
  /\ UNCHANGED <<pins, exec, alarm, accessory, sys, gc, motion, hist>>

CoolantDelay == Delay("coolantDelay", "restoreDone")

\* Seeded fault: the end of the restore does not look at the door again.
RestoreDoneUnchecked ==
  /\ At("restoreDone")
  /\ sys' = [sys EXCEPT !.suspend = @ \cup {"RESTORE_COMPLETE"}]
  /\ exec' = exec \cup {"CYCLE_START"}
  /\ main' = SysPass("suspend")
  /\ UNCHANGED <<pins, alarm, accessory, gc, out, motion, hist>>

RestoreDone ==
  /\ At("restoreDone")
  /\ \/ Reopened /\ UNCHANGED <<exec, sys>>
     \/ /\ ~Reopened
        /\ sys' = [sys EXCEPT !.suspend = @ \cup {"RESTORE_COMPLETE"}]
        /\ exec' = exec \cup {"CYCLE_START"}
  /\ main' = SysPass("suspend")
  /\ UNCHANGED <<pins, alarm, accessory, gc, out, motion, hist>>

\* Seeded fault: the cycle resumes from a spindle stop before it is restored.
HoldManagerSkipsRestore ==
  /\ Held /\ "HOLD_COMPLETE" \in sys.suspend /\ ~Parking
  /\ sys' = HoldManaged(sys, gc)
  /\ out' = IF "INITIATE" \in sys.spindle_stop_ovr THEN [out EXCEPT !.spindle = FALSE] ELSE out
  /\ exec' = IF "RESTORE_CYCLE" \in sys.spindle_stop_ovr THEN exec \cup {"CYCLE_START"}
             ELSE exec
  /\ main' = SysPass("suspend")
  /\ UNCHANGED <<pins, alarm, accessory, gc, motion, hist>>

\* A completed hold that is not parking: the spindle stop override.
HoldManager ==
  /\ Held /\ "HOLD_COMPLETE" \in sys.suspend /\ ~Parking
  /\ sys' = HoldManaged(sys, gc)
  /\ out' = [out EXCEPT !.spindle = HoldSpindle(sys, gc, @, main.restore)]
  /\ exec' = IF "RESTORE_CYCLE" \in sys.spindle_stop_ovr /\ "INITIATE" \notin sys.spindle_stop_ovr
             THEN exec \cup {"CYCLE_START"} ELSE exec
  /\ main' = SysPass("suspend")
  /\ UNCHANGED <<pins, alarm, accessory, gc, motion, hist>>

RtSuspend ==
  \/ ExecReturn \/ SuspendEnd \/ SuspendWait \/ Park \/ EnterSleep \/ Sleep \/ Parked
  \/ RestoreSpindle \/ SpindleDelay \/ RestoreCoolant \/ CoolantDelay \/ RestoreDone
  \/ HoldManager

-----------------------------------------------------------------------------
(* main() and protocol_main_loop().                                         *)

\* Only the state survives a reset; all flags are dropped.
Boot ==
  /\ At("boot")
  /\ sys' = Cleared(sys.state)
  /\ exec' = {}
  /\ alarm' = "NONE"
  /\ accessory' = {}
  /\ main' = GoTo("bootReset")
  /\ UNCHANGED <<pins, gc, out, motion, hist>>

BootReset ==
  /\ At("bootReset")
  /\ gc' = AllOff
  /\ out' = AllOff
  /\ motion' = Still
  /\ hist' = [hist EXCEPT !.killed = @ \/ motion.on]
  /\ main' = GoTo("mainStart")
  /\ UNCHANGED <<pins, exec, alarm, accessory, sys>>

\* Seeded fault: initialisation forgets the alarm.
MainStartUnlocked ==
  /\ At("mainStart")
  /\ sys' = [sys EXCEPT !.state = "IDLE"]
  /\ main' = NextLine
  /\ UNCHANGED <<pins, exec, alarm, accessory, gc, out, motion, hist>>

\* An alarm survives, anything else becomes idle. With the door open the flag
\* word is read here and written back, door flag set, by DoorFlag.
MainStart ==
  /\ At("mainStart")
  /\ \/ /\ sys.state \in {"ALARM", "SLEEP"}
        /\ sys' = [sys EXCEPT !.state = "ALARM"]
        /\ main' = NextLine
     \/ /\ sys.state \notin {"ALARM", "SLEEP"}
        /\ sys' = [sys EXCEPT !.state = "IDLE"]
        /\ main' = IF DoorAjar THEN [main EXCEPT !.pc = "doorFlag", !.rt = exec]
                   ELSE NextLine
  /\ UNCHANGED <<pins, exec, alarm, accessory, gc, out, motion, hist>>

DoorFlag ==
  /\ At("doorFlag")
  /\ exec' = main.rt \cup {"SAFETY_DOOR"}
  /\ main' = [Exec("loop") EXCEPT !.rt = {}]
  /\ UNCHANGED <<pins, alarm, accessory, sys, gc, out, motion, hist>>

\* The end of a line has been read.
ReadLine(line) ==
  /\ At("loop")
  /\ main' = [Exec("eol") EXCEPT !.line = line]
  /\ UNCHANGED <<pins, exec, alarm, accessory, sys, gc, out, motion, hist>>

\* protocol_auto_cycle_start()
AutoCycleStart ==
  exec' = IF motion.queue = <<>> THEN exec ELSE exec \cup {"CYCLE_START"}

\* No more characters.
Idle ==
  /\ At("loop")
  /\ AutoCycleStart
  /\ main' = Exec("loopEnd")
  /\ UNCHANGED <<pins, alarm, accessory, sys, gc, out, motion, hist>>

\* Back in the loop, or out to main() after an abort.
LoopEnd ==
  /\ At("loopEnd") \/ (At("eol") /\ sys.abort)
  /\ main' = IF sys.abort THEN [GoTo("boot") EXCEPT !.line = "none"] ELSE NextLine
  /\ UNCHANGED <<pins, exec, alarm, accessory, sys, gc, out, motion, hist>>

-----------------------------------------------------------------------------
(* Lines.                                                                   *)

Dispatch == At("eol") /\ ~sys.abort

\* A line that is refused, or asks for nothing new.
Refused ==
  \/ main.line \in GCodeLines /\ sys.state \in {"ALARM", "JOG"}
  \/ main.line = "$J" /\ sys.state \notin {"IDLE", "JOG"}
  \/ main.line = "$X" /\ (sys.state # "ALARM" \/ DoorAjar)
  \/ main.line = "$C" /\ sys.state \notin {"IDLE", "CHECK_MODE"}
  \/ main.line \in {"$SLP", "$HQ"} /\ sys.state \notin {"IDLE", "ALARM"}
  \/ main.line = "$HQ" /\ DoorAjar

RefuseLine ==
  /\ Dispatch
  /\ Refused
  /\ main' = NextLine
  /\ UNCHANGED <<pins, exec, alarm, accessory, sys, gc, out, motion, hist>>

\* `$X` unlocks an alarm; `$HQ` marks the machine as homing before it finds
\* that there is no such axis.
StateCommand ==
  /\ Dispatch /\ ~Refused
  /\ \/ /\ main.line = "$X"
        /\ sys' = [sys EXCEPT !.state = "IDLE"]
        /\ hist' = [hist EXCEPT !.killed = FALSE]
     \/ main.line = "$HQ" /\ sys' = [sys EXCEPT !.state = "HOMING"] /\ UNCHANGED hist
     \/ /\ main.line = "$C" /\ sys.state = "IDLE"
        /\ sys' = [sys EXCEPT !.state = "CHECK_MODE"]
        /\ UNCHANGED hist
  /\ main' = NextLine
  /\ UNCHANGED <<pins, exec, alarm, accessory, gc, out, motion>>

\* Leaving check mode resets.
LeaveCheckMode ==
  /\ Dispatch
  /\ main.line = "$C" /\ sys.state = "CHECK_MODE"
  /\ McReset
  /\ main' = NextLine
  /\ UNCHANGED <<pins, accessory, sys, gc>>

SleepCommand ==
  /\ Dispatch /\ ~Refused
  /\ main.line = "$SLP"
  /\ exec' = exec \cup {"SLEEP"}
  /\ main' = NextLine
  /\ UNCHANGED <<pins, alarm, accessory, sys, gc, out, motion, hist>>

Moves == {"G1", "G1 far", "G1 M0", "$J"}

StartMove ==
  /\ Dispatch /\ ~Refused
  /\ main.line \in Moves
  /\ main' = GoTo("mcline")
  /\ UNCHANGED <<pins, exec, alarm, accessory, sys, gc, out, motion, hist>>

\* gc_block.modal: the parser state as the line asks for it. Only one coolant
\* word fits a line, and it replaces the copy of the current ones.
BlockModal ==
  CASE main.line = "M3" -> [gc EXCEPT !.spindle = TRUE]
    [] main.line = "M5" -> [gc EXCEPT !.spindle = FALSE]
    [] main.line = "M7" -> [gc EXCEPT !.coolant = {"MIST"}]
    [] main.line = "M8" -> [gc EXCEPT !.coolant = {"FLOOD"}]
    [] main.line = "M9" -> [gc EXCEPT !.coolant = {}]

StartAccessory ==
  /\ Dispatch /\ ~Refused
  /\ main.line \in GCodeLines \ Moves
  /\ main' = [GoTo("gcSpindle") EXCEPT !.block = BlockModal]
  /\ UNCHANGED <<pins, exec, alarm, accessory, sys, gc, out, motion, hist>>

LineStart ==
  \/ RefuseLine \/ StateCommand \/ LeaveCheckMode \/ SleepCommand \/ StartMove
  \/ StartAccessory

-----------------------------------------------------------------------------
(* mc_line(), limits_soft_check(), jog_execute().                           *)

\* Seeded fault: the full planner buffer takes one more block.
RoomForOneMore == Len(motion.queue) <= QueueSize

Room == Len(motion.queue) < QueueSize

McLine ==
  /\ At("mcline")
  /\ \/ /\ main.line = "G1 far"
        /\ sys' = [sys EXCEPT !.soft_limit = TRUE]
        /\ IF sys.state = "CYCLE"
           THEN exec' = exec \cup {"FEED_HOLD"} /\ main' = Exec("softwait")
           ELSE main' = GoTo("softreset") /\ UNCHANGED exec
     \/ /\ main.line # "G1 far"
        /\ main' = IF sys.state = "CHECK_MODE" THEN GoTo("moved") ELSE Exec("room")
        /\ UNCHANGED <<exec, sys>>
  /\ UNCHANGED <<pins, alarm, accessory, gc, out, motion, hist>>

\* Seeded fault: the held motion's end is not followed by the reset.
SoftWaitNoReset ==
  /\ At("softwait")
  /\ main' = IF ~sys.abort /\ sys.state # "IDLE" THEN Exec("softwait") ELSE GoTo("moved")
  /\ UNCHANGED <<pins, exec, alarm, accessory, sys, gc, out, motion, hist>>

\* The motion in progress is held, and its end awaited.
SoftWait ==
  /\ At("softwait")
  /\ main' = IF sys.abort THEN GoTo("moved")
             ELSE IF sys.state # "IDLE" THEN Exec("softwait") ELSE GoTo("softreset")
  /\ UNCHANGED <<pins, exec, alarm, accessory, sys, gc, out, motion, hist>>

SoftReset ==
  /\ At("softreset")
  /\ exec' = exec \cup {"RESET"}
  /\ alarm' = "SOFT_LIMIT"
  /\ IF "RESET" \in exec THEN UNCHANGED <<out, motion, hist>>
     ELSE /\ out' = AllOff
          /\ motion' = [motion EXCEPT !.on = @ /\ ~InMotion]
          /\ hist' = [hist EXCEPT !.killed = @ \/ motion.on]
  /\ main' = Exec("room")
  /\ UNCHANGED <<pins, accessory, sys, gc>>

\* Waiting for room in the planner buffer, then queueing the block.
WaitForRoom ==
  /\ At("room")
  /\ ~sys.abort /\ ~Room
  /\ AutoCycleStart
  /\ main' = Exec("room")
  /\ UNCHANGED <<pins, alarm, accessory, sys, gc, out, motion, hist>>

PlanBufferLine ==
  /\ At("room")
  /\ \/ sys.abort /\ UNCHANGED motion
     \/ ~sys.abort /\ Room /\ motion' = [motion EXCEPT !.queue = Append(@, gc)]
  /\ main' = GoTo("moved")
  /\ UNCHANGED <<pins, exec, alarm, accessory, sys, gc, out, hist>>

JogStarts == main.line = "$J" /\ sys.state = "IDLE" /\ motion.queue # <<>>

\* A jog starts the steppers itself; a program pause waits for the motion.
Moved ==
  /\ At("moved")
  /\ \/ /\ JogStarts
        /\ sys' = [sys EXCEPT !.state = "JOG"]
        /\ main' = GoTo("jogWake")
     \/ /\ ~JogStarts
        /\ main' = IF main.line = "G1 M0" THEN SyncThen("applyFlow") ELSE NextLine
        /\ UNCHANGED sys
  /\ UNCHANGED <<pins, exec, alarm, accessory, gc, out, motion, hist>>

JogWake ==
  /\ At("jogWake")
  /\ PrepAndWake
  /\ main' = NextLine
  /\ UNCHANGED <<pins, exec, alarm, accessory, gc, out, hist>>

-----------------------------------------------------------------------------
(* protocol_buffer_synchronize() and the parts of a line that call it.      *)

Sync ==
  /\ At("sync")
  /\ AutoCycleStart
  /\ main' = Exec("synced")
  /\ UNCHANGED <<pins, alarm, accessory, sys, gc, out, motion, hist>>

Synced ==
  /\ At("synced")
  /\ main' = IF ~sys.abort /\ (motion.queue # <<>> \/ sys.state = "CYCLE")
             THEN Exec("synced") ELSE [GoTo(main.after) EXCEPT !.after = "applyFlow"]
  /\ UNCHANGED <<pins, exec, alarm, accessory, sys, gc, out, motion, hist>>

\* spindle_sync() if the line changes the spindle; nothing is switched in
\* check mode, but the parser state follows.
SpindleChanges == gc.spindle # main.block.spindle

\* Seeded fault: check mode switches the spindle like any other mode.
GcSpindleUnchecked ==
  /\ At("gcSpindle")
  /\ main' = IF SpindleChanges THEN SyncThen("applySpindle") ELSE GoTo("gcCoolant")
  /\ UNCHANGED <<pins, exec, alarm, accessory, sys, gc, out, motion, hist>>

GcSpindle ==
  /\ At("gcSpindle")
  /\ main' = IF SpindleChanges /\ sys.state # "CHECK_MODE" THEN SyncThen("applySpindle")
             ELSE GoTo("gcCoolant")
  /\ gc' = IF sys.state = "CHECK_MODE" THEN [gc EXCEPT !.spindle = main.block.spindle]
           ELSE gc
  /\ UNCHANGED <<pins, exec, alarm, accessory, sys, out, motion, hist>>

ApplySpindle ==
  /\ At("applySpindle")
  /\ out' = [out EXCEPT !.spindle = SpindleSetState(sys, @, main.block.spindle)]
  /\ gc' = [gc EXCEPT !.spindle = main.block.spindle]
  /\ main' = GoTo("gcCoolant")
  /\ UNCHANGED <<pins, exec, alarm, accessory, sys, motion, hist>>

\* coolant_sync(), likewise. The line's coolant word was read before the
\* spindle was waited for.
CoolantChanges == gc.coolant # main.block.coolant

Coolant == IF main.block.coolant = {} THEN {} ELSE gc.coolant \cup main.block.coolant

GcCoolant ==
  /\ At("gcCoolant")
  /\ main' = IF CoolantChanges /\ sys.state # "CHECK_MODE" THEN SyncThen("applyCoolant")
             ELSE NextLine
  /\ gc' = IF CoolantChanges /\ sys.state = "CHECK_MODE"
           THEN [gc EXCEPT !.coolant = Coolant] ELSE gc
  /\ UNCHANGED <<pins, exec, alarm, accessory, sys, out, motion, hist>>

ApplyCoolant ==
  /\ At("applyCoolant")
  /\ out' = [out EXCEPT !.coolant = CoolantSetState(sys, @, main.block.coolant)]
  /\ gc' = [gc EXCEPT !.coolant = Coolant]
  /\ main' = NextLine
  /\ UNCHANGED <<pins, exec, alarm, accessory, sys, motion, hist>>

\* M0: a feed hold is used as program pause.
ApplyFlow ==
  /\ At("applyFlow")
  /\ IF sys.state = "CHECK_MODE" THEN main' = NextLine /\ UNCHANGED exec
     ELSE main' = [Exec("loop") EXCEPT !.line = "none"] /\ exec' = exec \cup {"FEED_HOLD"}
  /\ UNCHANGED <<pins, alarm, accessory, sys, gc, out, motion, hist>>

MainLoop ==
  \/ Boot \/ BootReset \/ MainStart \/ DoorFlag \/ Idle \/ LoopEnd \/ LineStart
  \/ McLine \/ SoftWait \/ SoftReset \/ WaitForRoom \/ PlanBufferLine \/ Moved \/ JogWake
  \/ Sync \/ Synced \/ GcSpindle \/ ApplySpindle \/ GcCoolant \/ ApplyCoolant \/ ApplyFlow
  \/ \E line \in Lines : ReadLine(line)

MainProgram == RtSystem \/ RtSuspend \/ MainLoop

Interrupts ==
  \/ \E button \in Buttons : ControlISR(button)
  \/ \E c \in Commands : SerialRx(c)
  \/ StepperISR

Next == MainProgram \/ Interrupts

Spec == Init /\ [][Next]_vars

\* The main program and the step timer keep running; the user and the host owe
\* nothing.
FairSpec == Spec /\ WF_vars(MainProgram) /\ WF_vars(StepperISR)

\* ... and a deceleration that keeps being prepared reaches standstill.
Standstill ==
  MainProgram /\ "END_MOTION" \notin sys.step_control /\ "END_MOTION" \in sys'.step_control

HoldSpec == FairSpec /\ SF_vars(Standstill)
=============================================================================
