------------------------ MODULE RealtimeMotionProofs ------------------------
(***************************************************************************)
(* Motion and its flags, for every instance: no end of a motion is lost    *)
(* (lines without `$HQ`), and a completed hold is at rest (nor with `$J`). *)
(***************************************************************************)
EXTENDS RealtimeProofs

-----------------------------------------------------------------------------
(* Facts shared by both.                                                    *)

\* Segment preparation neither starts nor ends a hold.
LEMMA PrepKeepsHold ==
  ASSUME NEW s \in System, NEW m \in Motion, NEW p \in Prep(s, m)
  PROVE  ("EXECUTE_HOLD" \in p.sys.step_control) <=> ("EXECUTE_HOLD" \in s.step_control)
BY DEF Prep, PwmUpdated, System

\* In lines, in the executor and in the suspend loop alike, what prepares segments
\* keeps everything else that is known about the motion.
LEMMA PrepStepKeeps ==
  ASSUME TypeOK, ExecWake \/ ExecFinish \/ JogWake
  PROVE  /\ sys'.state = sys.state /\ sys'.abort = sys.abort /\ sys'.suspend = sys.suspend
         /\ ("EXECUTE_HOLD" \in sys'.step_control) <=> ("EXECUTE_HOLD" \in sys.step_control)
         /\ ExecFinish => motion'.on = motion.on
         /\ ~ExecFinish => motion'.on
<1>1. sys \in System /\ motion \in Motion /\ accessory \in SUBSET AccessoryFlags
  BY DEF TypeOK
<1>2. CASE ExecWake \/ JogWake
  <2>1. PICK p \in Prep(sys, motion) :
          sys' = p.sys /\ motion' = [p.motion EXCEPT !.on = TRUE]
    BY <1>2 DEF ExecWake, JogWake, PrepAndWake
  <2>2. p.motion \in Motion
    BY <1>1, PrepType
  <2>3. motion'.on
    BY <2>1, <2>2 DEF Motion
  <2>4. ~ExecFinish
    BY <1>2 DEF ExecWake, JogWake, ExecFinish, At
  <2> QED
    BY <1>1, <2>1, <2>3, <2>4, PrepStepEffect, PrepKeepsHold
<1>3. CASE ExecFinish
  <2> DEFINE s == Overrides.sys
  <2>1. /\ s \in System
        /\ ("EXECUTE_HOLD" \in s.step_control) <=> ("EXECUTE_HOLD" \in sys.step_control)
    BY <1>1, OverrideType
    DEF Overrides, SpindleOverride, SpindleSpeedOverride, SpindleStopOverride, System
  <2>2. CASE sys.state \in Reloads
    <3>1. PICK p \in Prep(s, motion) : sys' = p.sys
      BY <1>3, <2>2 DEF ExecFinish
    <3> HIDE DEF s
    <3> QED
      BY <1>1, <1>3, <2>1, <3>1, PrepStepEffect, PrepKeepsHold
  <2>3. CASE sys.state \notin Reloads
    <3>1. sys' = s
      BY <1>3, <2>3 DEF ExecFinish
    <3> QED
      BY <1>3, <2>1, <3>1, PrepStepEffect
  <2> QED
    BY <2>2, <2>3
<1> QED
  BY <1>2, <1>3

-----------------------------------------------------------------------------
(* Ends of motion: the executor's branches.                                 *)

MovingIn(s) ==
  s.state \in {"CYCLE", "JOG"}
    \/ (s.state \in {"HOLD", "SAFETY_DOOR"} /\ "HOLD_COMPLETE" \notin s.suspend)

PreparedIn(s) ==
  /\ \/ "EXECUTE_HOLD" \in s.step_control
     \/ /\ ~(s.state \in {"HOLD", "SAFETY_DOOR"} /\ "HOLD_COMPLETE" \notin s.suspend)
        /\ ~(s.state = "CYCLE" /\ "MOTION_CANCEL" \in s.suspend)
  /\ s.state = "JOG" => "MOTION_CANCEL" \notin s.suspend

\* The hold group stops only what moves, and tells the segment generator.
LEMMA HoldGroupPrepares ==
  ASSUME NEW s \in System, NEW rt \in SUBSET ExecFlags, Sound(s), PreparedIn(s),
         s.state # "HOMING",
         "SLEEP" \in rt => s.state \in {"IDLE", "ALARM"} /\ s.suspend = {}
  PROVE  LET t == HoldGroup(s, rt)
         IN PreparedIn(t) /\ t.state # "HOMING" /\ (MovingIn(t) => MovingIn(s))
<1> DEFINE a == InitiateHold(s, rt)
           b == HoldAtRest(a)
           c == CancelMotion(b, rt)
           d == FeedHold(c, rt)
           e == DoorOpened(d, rt)
<1> USE DEF System
<1>1. CASE s.state \in {"ALARM", "CHECK_MODE"}
  <2>1. HoldGroup(s, rt) = FallAsleep(s, rt)
    BY <1>1 DEF HoldGroup
  <2> QED
    BY <1>1, <2>1 DEF FallAsleep, PreparedIn, MovingIn
<1>2. CASE s.state \notin {"ALARM", "CHECK_MODE"}
  <2>1. /\ a \in System /\ a.state = s.state
        /\ s.state \in {"CYCLE", "JOG"} => "EXECUTE_HOLD" \in a.step_control \/ "JOG_CANCEL" \in a.suspend
        /\ s.state \notin {"CYCLE", "JOG"} => a = s
        /\ a.suspend \in {s.suspend, s.suspend \cup {"JOG_CANCEL"}}
        /\ s.state = "JOG" => "JOG_CANCEL" \in a.suspend
        /\ s.state = "CYCLE" => "JOG_CANCEL" \notin a.suspend
    <3>1. a \in System
      BY InitiateHoldType
    <3> QED
      BY <3>1 DEF InitiateHold, PreparedIn, Sound
  <2>2. /\ b \in System /\ b.state = s.state /\ b.step_control = a.step_control
        /\ s.state = "IDLE" => b.suspend = {"HOLD_COMPLETE"}
        /\ s.state # "IDLE" => b.suspend = a.suspend
    <3>1. b \in System
      BY <2>1, HoldStepsType
    <3> HIDE DEF a
    <3> QED
      BY <2>1, <3>1 DEF HoldAtRest
  <2>3. /\ c \in System /\ c.state = s.state /\ c.step_control = a.step_control
        /\ s.state = "JOG" => c.suspend = b.suspend
        /\ c.suspend \in {b.suspend, b.suspend \cup {"MOTION_CANCEL"}}
    <3>1. c \in System
      BY <2>2, HoldStepsType
    <3> HIDE DEF b
    <3> QED
      BY <2>2, <3>1 DEF CancelMotion
  <2>4. /\ d \in System /\ d.state \in {s.state, "HOLD"} /\ d.step_control = a.step_control
        /\ d.suspend = c.suspend
        /\ s.state \in {"SAFETY_DOOR", "JOG", "SLEEP"} => d.state = s.state
    <3>1. d \in System
      BY <2>3, HoldStepsType
    <3> HIDE DEF c
    <3> QED
      BY <2>3, <3>1 DEF FeedHold
  <2>5. /\ e \in System /\ e.state \in {d.state, "SAFETY_DOOR"} /\ e.step_control = a.step_control
        /\ "HOLD_COMPLETE" \in d.suspend => "HOLD_COMPLETE" \in e.suspend
        /\ "MOTION_CANCEL" \in e.suspend => "MOTION_CANCEL" \in d.suspend
        /\ d.state = "SLEEP" => e.state = "SLEEP"
        /\ "JOG_CANCEL" \in d.suspend => e.state = d.state
    <3>1. e \in System
      BY <2>4, DoorOpenedType
    <3> HIDE DEF d
    <3> QED
      BY <2>4, <3>1 DEF DoorOpened, RestartRetract, EnterDoor
  <2>6. HoldGroup(s, rt) = FallAsleep(e, rt)
    BY <1>2 DEF HoldGroup
  <2> HIDE DEF a, b, c, d, e
  <2>7. CASE "SLEEP" \in rt
    BY <2>5, <2>6, <2>7 DEF FallAsleep, PreparedIn, MovingIn
  <2>8. CASE "SLEEP" \notin rt
    <3>1. HoldGroup(s, rt) = e
      BY <2>6, <2>8 DEF FallAsleep
    <3>2. CASE s.state = "IDLE"
      <4>1. "HOLD_COMPLETE" \in e.suspend /\ e.state \in {"IDLE", "HOLD", "SAFETY_DOOR"}
        BY <2>2, <2>3, <2>4, <2>5, <3>2
      <4> QED
        BY <3>1, <4>1 DEF PreparedIn, MovingIn
    <3>3. CASE s.state = "SLEEP"
      BY <2>4, <2>5, <3>1, <3>3 DEF PreparedIn, MovingIn
    <3>4. CASE s.state = "JOG"
      <4>1. d.suspend = a.suspend /\ e.state = "JOG" /\ "MOTION_CANCEL" \notin e.suspend
        BY <2>1, <2>2, <2>3, <2>4, <2>5, <3>4 DEF PreparedIn
      <4> QED
        BY <3>1, <3>4, <4>1 DEF PreparedIn, MovingIn
    <3>5. CASE s.state = "CYCLE"
      <4>1. "EXECUTE_HOLD" \in e.step_control /\ e.state \in {"CYCLE", "HOLD", "SAFETY_DOOR"}
        BY <2>1, <2>4, <2>5, <3>5
      <4> QED
        BY <3>1, <3>5, <4>1 DEF PreparedIn, MovingIn
    <3>6. CASE s.state \in {"HOLD", "SAFETY_DOOR"}
      <4>1. /\ e.state \in {"HOLD", "SAFETY_DOOR"} /\ e.step_control = s.step_control
            /\ "HOLD_COMPLETE" \in s.suspend => "HOLD_COMPLETE" \in e.suspend
        BY <2>1, <2>2, <2>3, <2>4, <2>5, <3>6
      <4> QED
        BY <3>1, <3>6, <4>1 DEF PreparedIn, MovingIn
    <3> QED
      BY <1>2, <3>2, <3>3, <3>4, <3>5, <3>6 DEF States
  <2> QED
    BY <2>7, <2>8
<1> QED
  BY <1>1, <1>2

LEMMA HoldGroupHomes ==
  ASSUME NEW s \in System, NEW rt \in SUBSET ExecFlags, s.state # "HOMING"
  PROVE  HoldGroup(s, rt).state # "HOMING"
<1> USE DEF System
<1>1. InitiateHold(s, rt) \in System /\ InitiateHold(s, rt).state = s.state
  BY InitiateHoldType DEF InitiateHold
<1>2. \A t \in System : HoldAtRest(t) \in System /\ HoldAtRest(t).state = t.state
  BY HoldStepsType DEF HoldAtRest
<1>3. \A t \in System : CancelMotion(t, rt) \in System /\ CancelMotion(t, rt).state = t.state
  BY HoldStepsType DEF CancelMotion
<1>4. \A t \in System : t.state # "HOMING" =>
        FeedHold(t, rt) \in System /\ FeedHold(t, rt).state # "HOMING"
  BY HoldStepsType DEF FeedHold
<1>5. \A t \in System : t.state # "HOMING" =>
        DoorOpened(t, rt) \in System /\ DoorOpened(t, rt).state # "HOMING"
  BY DoorOpenedType, ZenonT(40) DEF DoorOpened, RestartRetract, EnterDoor
<1>6. \A t \in System : t.state # "HOMING" => FallAsleep(t, rt).state # "HOMING"
  BY DEF FallAsleep
<1> QED
  BY <1>1, <1>2, <1>3, <1>4, <1>5, <1>6 DEF HoldGroup

\* A start leaves a hold in progress alone.
LEMMA CycleStartPrepared ==
  ASSUME NEW s \in System, NEW rt \in SUBSET ExecFlags, NEW queued \in BOOLEAN,
         PreparedIn(s), s.state # "HOMING"
  PROVE  LET t == CycleStart(s, rt, queued)
         IN /\ PreparedIn(t) /\ t.state # "HOMING"
            /\ MovingIn(t) => MovingIn(s) \/ (s.state # "CYCLE" /\ t.state = "CYCLE")
BY DEF CycleStart, DoorResume, MayStart, ResumeCycle, PreparedIn, MovingIn, System

\* The cycle stop leaves nothing moving.
LEMMA CycleStopEnds ==
  ASSUME NEW s \in System, PreparedIn(s), s.state # "HOMING"
  PROVE  LET t == CycleStop(s)
         IN PreparedIn(t) /\ t.state # "HOMING" /\ ~MovingIn(t)
BY DEF CycleStop, HoldReached, MotionEnded, PreparedIn, MovingIn, System
-----------------------------------------------------------------------------
(* Ends of motion: every step of the system.                                *)

\* The group in terms of the structure alone.
LEMMA SignalledForm ==
  /\ Moving <=> MovingIn(sys)
  /\ HoldPrepared /\ JogUnmarked <=> Resetting \/ PreparedIn(sys)
BY DEF Moving, MovingIn, Stopping, Completed, HoldPrepared, JogUnmarked, PreparedIn

\* An idle or locked machine waits for no end of motion.
LEMMA RestingSignalled ==
  ASSUME "$HQ" \notin Lines, RtLocal, sys.state \in {"IDLE", "ALARM"}
  PROVE  Signalled
BY DEF Signalled, NoHoming, HoldPrepared, JogUnmarked, StopTaken, EndOfMotionSignalled, Moving,
       Stopping

LEMMA InterruptsSignalled ==
  ASSUME Inv, Signalled, Interrupts
  PROVE  Signalled'
<1>1. /\ sys' = sys /\ main' = main /\ exec \subseteq exec'
  BY InterruptEffect DEF Inv
<1>2. motion'.on = motion.on \/ "CYCLE_STOP" \in exec' \/ "RESET" \in exec'
  <2>1. TypeOK
    BY DEF Inv
  <2>2. McReset => motion' = motion \/ "RESET" \in exec'
    BY DEF McReset
  <2>3. ASSUME NEW button \in Buttons, ControlISR(button)
        PROVE  McReset \/ motion' = motion
    BY <2>3 DEF ControlISR, Raise
  <2>4. ASSUME NEW c \in Commands, SerialRx(c) PROVE McReset \/ motion' = motion
    BY <2>4 DEF SerialRx, Raise
  <2>5. StepperISR => motion'.on = motion.on \/ "CYCLE_STOP" \in exec'
    BY <2>1 DEF StepperISR, TypeOK, Motion
  <2> QED
    BY <2>2, <2>3, <2>4, <2>5 DEF Interrupts
<1> QED
  BY <1>1, <1>2
  DEF Signalled, NoHoming, RtLocal, HoldPrepared, JogUnmarked, StopTaken,
      EndOfMotionSignalled, Moving, Stopping, Completed, Resetting, At

LEMMA RtSystemSignalled ==
  ASSUME Inv, Signalled, RtSystem
  PROVE  Signalled'
<1> USE DEF Signalled, NoHoming, RtLocal, StopTaken, EndOfMotionSignalled, Snapshot, At, GoTo
<1>1. TypeOK /\ sys \in System /\ main \in Main /\ "$HQ" \notin Lines
  BY DEF Inv, TypeOK
<1>2. CASE AlarmCopy
  <2>1. RtLocal'
    BY <1>1, <1>2 DEF AlarmCopy, Main
  <2>2. CASE alarm = "NONE"
    BY <1>1, <1>2, <2>1, <2>2
    DEF AlarmCopy, Main, HoldPrepared, JogUnmarked, Resetting, Moving, Stopping, Completed
  <2>3. CASE alarm # "NONE"
    <3>1. sys'.state = "ALARM"
      BY <1>1, <1>2, <2>3 DEF AlarmCopy, System
    <3> QED
      BY <1>1, <2>1, <3>1
      DEF HoldPrepared, JogUnmarked, Moving, Stopping
  <2> QED
    BY <2>2, <2>3
<1>3. CASE Critical
  BY <1>1, <1>3
  DEF Critical, Main, HoldPrepared, JogUnmarked, Resetting, Moving, Stopping, Completed
<1>4. CASE FlagCopy
  <2>1. CASE "RESET" \in exec
    <3>1. RtLocal' /\ Resetting' /\ sys'.state = sys.state
      BY <1>1, <1>4, <2>1 DEF FlagCopy, Main, System, Resetting
    <3> QED
      BY <1>1, <3>1 DEF HoldPrepared, JogUnmarked
  <2>2. CASE "RESET" \notin exec
    <3>1. /\ UNCHANGED <<exec, sys, motion>> /\ main'.rt = exec
          /\ main'.pc \in {"hold", "start", "stop", "finish"}
          /\ main'.pc = "finish" => "CYCLE_STOP" \notin exec
      BY <1>1, <1>4, <2>2 DEF FlagCopy, Main, AfterCopy, AfterHold, AfterStart
    <3>2. /\ main.rt = {} /\ Resetting = Resetting' /\ Moving = Moving'
      BY <1>4, <2>2, <3>1 DEF FlagCopy, Resetting, Moving, Stopping, Completed
    <3> QED
      BY <1>1, <1>4, <2>2, <3>1, <3>2
      DEF FlagCopy, HoldPrepared, JogUnmarked, Stopping, Completed
  <2> QED
    BY <2>1, <2>2
<1>5. ASSUME ExecHold \/ ExecStart \/ ExecStop
      PROVE  /\ Sound(sys) /\ ~sys.abort /\ sys'.abort = sys.abort
             /\ Resetting' = Resetting /\ (~Resetting => PreparedIn(sys))
             /\ main.rt \in SUBSET ExecFlags
  <2>1. main.pc \in Snapshot
    BY <1>5 DEF ExecHold, ExecStart, ExecStop
  <2>2. Sound(sys) /\ ~sys.abort
    BY <2>1, SnapshotSound
  <2>3. main.rt \in SUBSET ExecFlags
    BY <1>1 DEF Main
  <2>4. sys'.abort = sys.abort
    <3>1. CASE ExecHold
      BY <1>1, <2>2, <2>3, <3>1, HoldGroupSound
      DEF ExecHold, Keeps, Inv, Safe, Control, SleepTaken, AtRest
    <3>2. CASE ExecStart
      <4>1. (motion.queue # <<>>) \in BOOLEAN
        OBVIOUS
      <4> QED
        BY <1>1, <2>2, <2>3, <3>2, <4>1, CycleStartSound DEF ExecStart, Keeps
    <3>3. CASE ExecStop
      BY <1>1, <2>2, <3>3, CycleStopSound DEF ExecStop, Keeps
    <3> QED
      BY <1>5, <3>1, <3>2, <3>3
  <2>5. /\ main'.pc \in {"start", "wake", "stop", "finish"}
        /\ ("RESET" \in exec') <=> ("RESET" \in exec)
    BY <1>1, <1>5
    DEF ExecHold, ExecStart, ExecStop, Main, AfterHold, AfterStart, HoldFlags
  <2> QED
    BY <2>1, <2>2, <2>3, <2>4, <2>5, SignalledForm DEF Resetting
<1>6. CASE ExecHold
  <2>1. /\ sys' = HoldGroup(sys, main.rt) /\ motion' = motion /\ main'.rt = main.rt
        /\ main'.pc \in {"start", "stop", "finish"}
        /\ main'.pc = "finish" => "CYCLE_STOP" \notin main.rt
        /\ ("CYCLE_STOP" \in exec') <=> ("CYCLE_STOP" \in exec)
    BY <1>1, <1>6 DEF ExecHold, Main, AfterHold, AfterStart, HoldFlags
  <2>2. "SLEEP" \in main.rt => sys.state \in {"IDLE", "ALARM"} /\ sys.suspend = {}
    BY <1>6 DEF ExecHold, Inv, Safe, Control, SleepTaken, AtRest
  <2>3. sys'.state # "HOMING"
    <3>1. sys.state # "HOMING"
      OBVIOUS
    <3> QED
      BY <1>1, <1>5, <1>6, <2>1, <2>2, <3>1, HoldGroupHomes
  <2>4. CASE Resetting
    BY <1>1, <1>5, <1>6, <2>1, <2>3, <2>4 DEF HoldPrepared, JogUnmarked
  <2>5. CASE ~Resetting
    <3>1. PreparedIn(sys') /\ (MovingIn(sys') => MovingIn(sys))
      BY <1>1, <1>5, <1>6, <2>1, <2>2, <2>5, HoldGroupPrepares
    <3>2. (HoldPrepared /\ JogUnmarked)' /\ (Moving' => Moving)
      BY <3>1
      DEF HoldPrepared, JogUnmarked, Moving, MovingIn, PreparedIn, Stopping, Completed
    <3> QED
      BY <1>1, <1>5, <1>6, <2>1, <2>3, <2>5, <3>2 DEF ExecHold
  <2> QED
    BY <2>4, <2>5
<1>7. CASE ExecStart
  <2>1. /\ sys' = CycleStart(sys, main.rt, motion.queue # <<>>)
        /\ motion' = motion /\ main'.rt = main.rt
        /\ main'.pc \in {"wake", "stop", "finish"}
        /\ sys.state # "CYCLE" /\ sys'.state = "CYCLE" => main'.pc = "wake"
        /\ main'.pc = "finish" => "CYCLE_STOP" \notin main.rt
        /\ ("CYCLE_STOP" \in exec') <=> ("CYCLE_STOP" \in exec)
    BY <1>1, <1>7 DEF ExecStart, Main, AfterStart, Started
  <2>2. sys'.state # "HOMING"
    BY <1>1, <2>1 DEF CycleStart, DoorResume, MayStart, ResumeCycle, System
  <2>3. CASE Resetting
    BY <1>1, <1>5, <1>7, <2>1, <2>2, <2>3 DEF HoldPrepared, JogUnmarked
  <2>4. CASE ~Resetting
    <3>1. /\ PreparedIn(sys')
          /\ MovingIn(sys') => MovingIn(sys) \/ (sys.state # "CYCLE" /\ sys'.state = "CYCLE")
      BY <1>1, <1>5, <1>7, <2>1, <2>4, CycleStartPrepared
    <3>2. /\ (HoldPrepared /\ JogUnmarked)'
          /\ Moving' => Moving \/ (sys.state # "CYCLE" /\ sys'.state = "CYCLE")
      BY <3>1
      DEF HoldPrepared, JogUnmarked, Moving, MovingIn, PreparedIn, Stopping, Completed
    <3> QED
      BY <1>1, <1>5, <1>7, <2>1, <2>2, <2>4, <3>2 DEF ExecStart
  <2> QED
    BY <2>3, <2>4
<1>8. CASE ExecWake
  <2>1. /\ main'.pc \in {"stop", "finish"} /\ main'.rt = main.rt
        /\ ("RESET" \in exec') <=> ("RESET" \in exec)
    BY <1>1, <1>8 DEF ExecWake, Main, AfterStart
  <2> QED
    BY <1>1, <1>8, <2>1, PrepStepKeeps
    DEF ExecWake, ExecFinish, HoldPrepared, JogUnmarked, Resetting, Moving, Stopping, Completed
<1>9. CASE ExecStop
  <2>1. sys' = CycleStop(sys) /\ main'.pc = "finish" /\ main'.rt = main.rt
    BY <1>1, <1>9 DEF ExecStop, Main
  <2>2. sys'.state # "HOMING"
    BY <1>1, <2>1 DEF CycleStop, HoldReached, MotionEnded, System
  <2>3. CASE Resetting
    BY <1>1, <1>5, <1>9, <2>1, <2>2, <2>3 DEF HoldPrepared, JogUnmarked
  <2>4. CASE ~Resetting
    <3>1. PreparedIn(sys') /\ ~MovingIn(sys')
      BY <1>1, <1>5, <1>9, <2>1, <2>4, CycleStopEnds
    <3>2. (HoldPrepared /\ JogUnmarked)' /\ ~Moving'
      BY <3>1
      DEF HoldPrepared, JogUnmarked, Moving, MovingIn, PreparedIn, Stopping, Completed
    <3> QED
      BY <1>1, <2>1, <2>2, <3>2
  <2> QED
    BY <2>3, <2>4
<1>10. CASE ExecFinish
  <2>1. main'.rt = {} /\ exec' = exec /\ main'.pc \in SysReturns
    BY <1>1, <1>10 DEF ExecFinish, Main
  <2> QED
    BY <1>1, <1>10, <2>1, PrepStepKeeps
    DEF ExecFinish, HoldPrepared, JogUnmarked, Resetting, Moving, Stopping, Completed,
        SysReturns
<1> QED
  BY <1>2, <1>3, <1>4, <1>6, <1>7, <1>8, <1>9, <1>10 DEF RtSystem

\* A step outside of the executor's pass that leaves the motion and its holds alone,
\* whatever it does to outputs and flags other than the cycle stop.
LEMMA QuietStep ==
  ASSUME Signalled, main.pc \notin Snapshot \cup {"doorFlag", "jogWake"},
         main'.pc \notin Snapshot \cup {"doorFlag"}, main'.rt = main.rt,
         sys'.state = sys.state,
         "HOLD_COMPLETE" \in sys'.suspend <=> "HOLD_COMPLETE" \in sys.suspend,
         ("MOTION_CANCEL" \in sys'.suspend) => "MOTION_CANCEL" \in sys.suspend,
         "EXECUTE_HOLD" \in sys.step_control => "EXECUTE_HOLD" \in sys'.step_control,
         "CYCLE_STOP" \in exec => "CYCLE_STOP" \in exec', motion'.on = motion.on,
         Resetting => Resetting'
  PROVE  Signalled'
<1>1. Moving' <=> Moving
  BY DEF Moving, Stopping, Completed
<1>2. (HoldPrepared /\ JogUnmarked)'
  BY DEF Signalled, HoldPrepared, JogUnmarked, Stopping, Completed
<1> QED
  BY <1>1, <1>2 DEF Signalled, NoHoming, RtLocal, StopTaken, EndOfMotionSignalled, Snapshot, At

LEMMA RtSuspendSignalled ==
  ASSUME Inv, Signalled, RtSuspend
  PROVE  Signalled'
<1> DEFINE Quiet ==
             /\ main.pc \notin Snapshot \cup {"doorFlag", "jogWake"}
             /\ main'.pc \notin Snapshot \cup {"doorFlag"} /\ main'.rt = main.rt
             /\ sys'.state = sys.state
             /\ "HOLD_COMPLETE" \in sys'.suspend <=> "HOLD_COMPLETE" \in sys.suspend
             /\ ("MOTION_CANCEL" \in sys'.suspend) => "MOTION_CANCEL" \in sys.suspend
             /\ "EXECUTE_HOLD" \in sys.step_control => "EXECUTE_HOLD" \in sys'.step_control
             /\ "CYCLE_STOP" \in exec => "CYCLE_STOP" \in exec'
             /\ motion'.on = motion.on
             /\ Resetting => Resetting'
<1>1. TypeOK /\ sys \in System /\ main \in Main /\ motion \in Motion
      /\ main.cont \in ExecReturns
  BY DEF Inv, TypeOK, Main
<1>2. Quiet => Signalled'
  BY QuietStep
<1> USE DEF At, GoTo, SysPass, Return, Snapshot, Resetting, Held
<1>3. CASE ExecReturn
  <2>1. main'.pc \in ExecReturns \cup {"suspend"} /\ main'.rt = main.rt
    BY <1>1, <1>3 DEF ExecReturn, Main
  <2>2. Quiet
    BY <1>3, <2>1 DEF ExecReturn, ExecReturns
  <2> QED
    BY <1>2, <2>2
<1>4. CASE SuspendEnd \/ Sleep
  <2>1. main'.pc \in ExecReturns \cup {"alarm"} /\ main'.rt = main.rt
    BY <1>1, <1>4 DEF SuspendEnd, Sleep, Main
  <2>2. Quiet
    BY <1>4, <2>1 DEF SuspendEnd, Sleep, ExecReturns
  <2> QED
    BY <1>2, <2>2
<1>5. CASE SuspendWait
  <2>1. Quiet
    BY <1>1, <1>5 DEF SuspendWait, Main
  <2> QED
    BY <1>2, <2>1
<1>6. CASE Park
  <2>1. Quiet
    BY <1>1, <1>6 DEF Park, Retracted, System, Main
  <2> QED
    BY <1>2, <2>1
<1>7. CASE EnterSleep
  BY <1>1, <1>7
  DEF EnterSleep, Main, Signalled, NoHoming, RtLocal, HoldPrepared, JogUnmarked, StopTaken,
      EndOfMotionSignalled, Moving, Stopping, Completed
<1>8. CASE Parked
  <2>1. Quiet
    BY <1>1, <1>8 DEF Parked, System, Main
  <2> QED
    BY <1>2, <2>1
<1>9. CASE RestoreSpindle
  <2>1. Quiet
    BY <1>1, <1>9 DEF RestoreSpindle, Main
  <2> QED
    BY <1>2, <2>1
<1>10. CASE SpindleDelay \/ CoolantDelay
  <2>1. Quiet
    BY <1>1, <1>10 DEF SpindleDelay, CoolantDelay, Delay, Main
  <2> QED
    BY <1>2, <2>1
<1>11. CASE RestoreCoolant
  <2>1. Quiet
    BY <1>1, <1>11 DEF RestoreCoolant, Main
  <2> QED
    BY <1>2, <2>1
<1>12. CASE RestoreDone
  <2>1. CASE Reopened
    <3>1. Quiet
      BY <1>1, <1>12, <2>1 DEF RestoreDone, Main
    <3> QED
      BY <1>2, <3>1
  <2>2. CASE ~Reopened
    <3>1. /\ sys'.state = sys.state /\ sys'.abort = sys.abort
          /\ sys'.step_control = sys.step_control /\ exec \subseteq exec' /\ motion' = motion
          /\ sys'.suspend = sys.suspend \cup {"RESTORE_COMPLETE"}
          /\ main.pc = "restoreDone" /\ main'.pc = "alarm" /\ main'.rt = main.rt
      BY <1>1, <1>12, <2>2 DEF RestoreDone, System, Main
    <3> QED
      BY <3>1
      DEF Signalled, NoHoming, RtLocal, HoldPrepared, JogUnmarked, StopTaken,
          EndOfMotionSignalled, Moving, Stopping, Completed
  <2> QED
    BY <2>1, <2>2
<1>13. CASE HoldManager
  <2>1. Quiet
    BY <1>1, <1>13 DEF HoldManager, HoldManaged, System, Main
  <2> QED
    BY <1>2, <2>1
<1> QED
  BY <1>3, <1>4, <1>5, <1>6, <1>7, <1>8, <1>9, <1>10, <1>11, <1>12, <1>13 DEF RtSuspend

LEMMA MainLoopSignalled ==
  ASSUME Inv, Signalled, MainLoop
  PROVE  Signalled'
<1> DEFINE Quiet ==
             /\ main.pc \notin Snapshot \cup {"doorFlag", "jogWake"}
             /\ main'.pc \notin Snapshot \cup {"doorFlag"} /\ main'.rt = main.rt
             /\ sys'.state = sys.state /\ sys'.suspend = sys.suspend
             /\ sys'.step_control = sys.step_control
             /\ "CYCLE_STOP" \in exec => "CYCLE_STOP" \in exec'
             /\ motion'.on = motion.on
             /\ Resetting => Resetting'
<1>1. /\ TypeOK /\ sys \in System /\ main \in Main /\ motion \in Motion
      /\ main.cont \in ExecReturns /\ main.after \in SyncReturns /\ "$HQ" \notin Lines
  BY DEF Inv, TypeOK, Main, Signalled, NoHoming
<1>2. Quiet => Signalled'
  BY QuietStep
<1> USE DEF At, GoTo, Exec, NextLine, SyncThen, Snapshot, Resetting, SyncReturns
<1>3. CASE Boot
  BY <1>1, <1>3
  DEF Boot, Cleared, Main, Signalled, NoHoming, RtLocal, HoldPrepared, JogUnmarked, StopTaken,
      EndOfMotionSignalled
<1>4. CASE BootReset
  BY <1>1, <1>4
  DEF BootReset, Main, Signalled, NoHoming, RtLocal, HoldPrepared, JogUnmarked, StopTaken,
      EndOfMotionSignalled
<1>5. CASE MainStart
  <2>1. sys'.state \in {"IDLE", "ALARM"}
    BY <1>1, <1>5, MainStartEffect
  <2>2. RtLocal'
    BY <1>1, <1>5 DEF MainStart, Main, Signalled, RtLocal
  <2> QED
    BY <1>1, <2>1, <2>2
    DEF Signalled, NoHoming, HoldPrepared, JogUnmarked, StopTaken, EndOfMotionSignalled, Moving,
        Stopping
<1>6. CASE DoorFlag
  <2>1. sys' = sys /\ sys.state = "IDLE" /\ main'.rt = {}
    BY <1>1, <1>6 DEF DoorFlag, Inv, Safe, Control, DoorFlagIdle, Starting, Main
  <2> QED
    BY <1>1, <2>1
    DEF Signalled, NoHoming, RtLocal, HoldPrepared, JogUnmarked, StopTaken,
        EndOfMotionSignalled, Moving, Stopping
<1>7. ASSUME NEW line \in Lines, ReadLine(line) PROVE Quiet
  BY <1>1, <1>7 DEF ReadLine, Main
<1>8. ASSUME Idle PROVE Quiet
  BY <1>1, <1>8 DEF Idle, AutoCycleStart, Main
<1>9. ASSUME LoopEnd PROVE Quiet
  BY <1>1, <1>9 DEF LoopEnd, Main
<1>10. CASE LineStart
  <2>1. CASE RefuseLine \/ StartMove \/ StartAccessory \/ SleepCommand
    <3>1. Quiet
      BY <1>1, <2>1
      DEF RefuseLine, StartMove, StartAccessory, SleepCommand, Dispatch, Main
    <3> QED
      BY <1>2, <3>1
  <2>2. CASE StateCommand
    <3>1. sys'.state \in {"IDLE", "CHECK_MODE"} /\ main'.pc = "loop" /\ main'.rt = main.rt
      BY <1>1, <2>2
      DEF StateCommand, Refused, Dispatch, System, Main, Inv, Safe, TypeOK
    <3> QED
      BY <1>1, <2>2, <3>1
      DEF StateCommand, Dispatch, Signalled, NoHoming, RtLocal, HoldPrepared, JogUnmarked,
          StopTaken, EndOfMotionSignalled, Moving, Stopping
  <2>3. CASE LeaveCheckMode
    <3>1. sys' = sys /\ sys.state = "CHECK_MODE" /\ main'.pc = "loop" /\ main'.rt = main.rt
          /\ main.pc = "eol"
      BY <1>1, <2>3 DEF LeaveCheckMode, Dispatch, Main
    <3> QED
      BY <1>1, <3>1
      DEF Signalled, NoHoming, RtLocal, HoldPrepared, JogUnmarked, StopTaken,
          EndOfMotionSignalled, Moving, Stopping
  <2> QED
    BY <1>10, <2>1, <2>2, <2>3 DEF LineStart
<1>11. ASSUME McLine PROVE Quiet
  BY <1>1, <1>11, ZenonT(40) DEF McLine, System, Main
<1>12. ASSUME SoftWait PROVE Quiet
  BY <1>1, <1>12 DEF SoftWait, Main
<1>13. CASE SoftReset
  <2>1. /\ sys' = sys /\ "RESET" \in exec' /\ exec \subseteq exec' /\ main'.pc = "alarm"
        /\ main.pc = "softreset" /\ main'.rt = main.rt
    BY <1>1, <1>13 DEF SoftReset, Main
  <2> QED
    BY <1>1, <2>1
    DEF Signalled, NoHoming, RtLocal, HoldPrepared, JogUnmarked, StopTaken, EndOfMotionSignalled
<1>14. ASSUME WaitForRoom \/ Sync PROVE Quiet
  BY <1>1, <1>14 DEF WaitForRoom, Sync, AutoCycleStart, Main
<1>15. ASSUME PlanBufferLine PROVE Quiet
  BY <1>1, <1>15 DEF PlanBufferLine, Motion, Main
<1>16. CASE Moved
  <2>1. CASE JogStarts
    <3>1. /\ sys'.state = "JOG" /\ sys'.abort = sys.abort /\ sys'.suspend = sys.suspend
          /\ exec' = exec /\ main'.pc = "jogWake" /\ main'.rt = main.rt /\ main.pc = "moved"
      BY <1>1, <1>16, <2>1 DEF Moved, System, Main, JogStarts
    <3>2. sys.suspend = {} \/ sys.abort
      BY <3>1
      DEF Inv, Safe, Control, ResumedOutside, Inside, Executing, SuspendPCs, RestorePCs
    <3> QED
      BY <1>1, <3>1, <3>2
      DEF Signalled, NoHoming, RtLocal, HoldPrepared, JogUnmarked, StopTaken,
          EndOfMotionSignalled, Stopping
  <2>2. CASE ~JogStarts
    <3>1. Quiet
      BY <1>1, <1>16, <2>2 DEF Moved, Main
    <3> QED
      BY <1>2, <3>1
  <2> QED
    BY <2>1, <2>2
<1>17. CASE JogWake
  <2>1. /\ main.pc = "jogWake" /\ main'.pc = "loop" /\ main'.rt = main.rt /\ exec' = exec
        /\ ~ExecFinish
    BY <1>1, <1>17 DEF JogWake, ExecFinish, Main
  <2> QED
    BY <1>1, <1>17, <2>1, PrepStepKeeps
    DEF Signalled, NoHoming, RtLocal, HoldPrepared, JogUnmarked, StopTaken,
        EndOfMotionSignalled, Moving, Stopping, Completed
<1>18. ASSUME Synced PROVE Quiet
  BY <1>1, <1>18 DEF Synced, Main
<1>19. ASSUME GcSpindle \/ ApplySpindle PROVE Quiet
  BY <1>1, <1>19 DEF GcSpindle, ApplySpindle, Main
<1>20. ASSUME GcCoolant \/ ApplyCoolant PROVE Quiet
  BY <1>1, <1>20 DEF GcCoolant, ApplyCoolant, Main
<1>21. ASSUME ApplyFlow PROVE Quiet
  BY <1>1, <1>21 DEF ApplyFlow, Main
<1> QED
  BY <1>2, <1>3, <1>4, <1>5, <1>6, <1>7, <1>8, <1>9, <1>10, <1>11, <1>12, <1>13, <1>14, <1>15,
     <1>16, <1>17, <1>18, <1>19, <1>20, <1>21 DEF MainLoop

\* Unless a homing command with an unknown axis has left the machine waiting for
\* nothing, every end of a motion is signalled (stepper.cpp:525-540,
\* protocol.cpp:380-412), whatever holds, doors and resets come meanwhile.
THEOREM EndSignalled == "$HQ" \notin Lines => (Spec => []EndOfMotionSignalled)
<1> SUFFICES ASSUME "$HQ" \notin Lines PROVE Spec => []EndOfMotionSignalled
  OBVIOUS
<1>1. Init => Signalled
  BY DEF Init, Cleared, Signalled, NoHoming, RtLocal, HoldPrepared, JogUnmarked, StopTaken,
         EndOfMotionSignalled, Moving, Stopping, At
<1>2. Inv /\ Signalled /\ [Next]_vars => Signalled'
  <2> SUFFICES ASSUME Inv, Signalled, [Next]_vars PROVE Signalled'
    OBVIOUS
  <2>1. CASE MainProgram
    BY <2>1, RtSystemSignalled, RtSuspendSignalled, MainLoopSignalled DEF MainProgram
  <2>2. CASE Interrupts
    BY <2>2, InterruptsSignalled
  <2>3. CASE UNCHANGED vars
    BY <2>3
    DEF vars, Signalled, NoHoming, RtLocal, HoldPrepared, JogUnmarked, StopTaken,
        EndOfMotionSignalled, Moving, Stopping, Completed, Resetting, At
  <2> QED
    BY <2>1, <2>2, <2>3 DEF Next
<1>3. Signalled => EndOfMotionSignalled
  BY DEF Signalled
<1> QED
  BY <1>1, <1>2, <1>3, Invariance, PTL DEF Spec

-----------------------------------------------------------------------------
(* Completed holds: the executor's branches.                                *)

\* The group's facts about the structure alone.
Staid(s) ==
  /\ s.state \notin {"HOMING", "JOG"}
  /\ s.state = "CYCLE" => "HOLD_COMPLETE" \notin s.suspend
  /\ s.state = "SAFETY_DOOR" =>
        "SAFETY_DOOR_AJAR" \in s.suspend \/ "HOLD_COMPLETE" \in s.suspend

\* The hold group completes a hold at rest only, and stops counting nothing that moves.
LEMMA HoldGroupStaid ==
  ASSUME NEW s \in System, NEW rt \in SUBSET ExecFlags, Staid(s),
         "SLEEP" \in rt => s.state \in {"IDLE", "ALARM"} /\ s.suspend = {}
  PROVE  LET t == HoldGroup(s, rt)
         IN /\ Staid(t) /\ (MovingIn(s) => MovingIn(t))
            /\ "HOLD_COMPLETE" \in t.suspend =>
                  "HOLD_COMPLETE" \in s.suspend \/ s.state \in {"IDLE", "ALARM"}
<1> DEFINE a == InitiateHold(s, rt)
           b == HoldAtRest(a)
           c == CancelMotion(b, rt)
           d == FeedHold(c, rt)
           e == DoorOpened(d, rt)
<1> USE DEF System
<1>1. CASE s.state \in {"ALARM", "CHECK_MODE"}
  <2>1. HoldGroup(s, rt) = FallAsleep(s, rt)
    BY <1>1 DEF HoldGroup
  <2> QED
    BY <1>1, <2>1 DEF FallAsleep, Staid, MovingIn
<1>2. CASE s.state \notin {"ALARM", "CHECK_MODE"}
  <2>1. /\ a \in System /\ a.state = s.state /\ a.suspend = s.suspend
    <3>1. a \in System
      BY InitiateHoldType
    <3> QED
      BY <3>1 DEF InitiateHold, Staid
  <2>2. /\ b \in System /\ b.state = s.state
        /\ s.state = "IDLE" => b.suspend = {"HOLD_COMPLETE"}
        /\ s.state # "IDLE" => b.suspend = s.suspend
    <3>1. b \in System
      BY <2>1, HoldStepsType
    <3> HIDE DEF a
    <3> QED
      BY <2>1, <3>1 DEF HoldAtRest
  <2>3. /\ c \in System /\ c.state = s.state
        /\ c.suspend \in {b.suspend, b.suspend \cup {"MOTION_CANCEL"}}
    <3>1. c \in System
      BY <2>2, HoldStepsType
    <3> HIDE DEF b
    <3> QED
      BY <2>2, <3>1 DEF CancelMotion
  <2>4. /\ d \in System /\ d.suspend = c.suspend
        /\ d.state \in {s.state, "HOLD"}
        /\ s.state \in {"SAFETY_DOOR", "SLEEP"} => d.state = s.state
    <3>1. d \in System
      BY <2>3, HoldStepsType
    <3> HIDE DEF c
    <3> QED
      BY <2>3, <3>1 DEF FeedHold
  <2>5. /\ e \in System
        /\ "HOLD_COMPLETE" \in e.suspend <=> "HOLD_COMPLETE" \in d.suspend
        /\ "SAFETY_DOOR_AJAR" \in d.suspend => "SAFETY_DOOR_AJAR" \in e.suspend
        /\ e.state = d.state \/ (e.state = "SAFETY_DOOR" /\ "SAFETY_DOOR_AJAR" \in e.suspend)
        /\ d.state = "SLEEP" => e.state = "SLEEP"
    <3>1. e \in System
      BY <2>4, DoorOpenedType
    <3> HIDE DEF d
    <3> QED
      BY <2>4, <3>1 DEF DoorOpened, RestartRetract, EnterDoor
  <2>6. HoldGroup(s, rt) = FallAsleep(e, rt)
    BY <1>2 DEF HoldGroup
  <2>7. /\ "HOLD_COMPLETE" \in e.suspend =>
              "HOLD_COMPLETE" \in s.suspend \/ s.state = "IDLE"
        /\ "HOLD_COMPLETE" \in s.suspend => "HOLD_COMPLETE" \in e.suspend
        /\ e.state \in {s.state, "HOLD", "SAFETY_DOOR"}
        /\ s.state = "SLEEP" => e.state = "SLEEP"
        /\ s.state = "SAFETY_DOOR" => e.state = "SAFETY_DOOR"
        /\ e.state = "SAFETY_DOOR" =>
              s.state = "SAFETY_DOOR" \/ "SAFETY_DOOR_AJAR" \in e.suspend
        /\ s.state = "SAFETY_DOOR" =>
              ("SAFETY_DOOR_AJAR" \in s.suspend => "SAFETY_DOOR_AJAR" \in e.suspend)
    <3> HIDE DEF a, b, c, d, e
    <3> QED
      BY <2>2, <2>3, <2>4, <2>5
  <2> HIDE DEF a, b, c, d, e
  <2>8. CASE "SLEEP" \in rt
    BY <1>2, <2>5, <2>6, <2>7, <2>8 DEF FallAsleep, Staid, MovingIn
  <2>9. CASE "SLEEP" \notin rt
    <3>1. HoldGroup(s, rt) = e
      BY <2>6, <2>9 DEF FallAsleep
    <3> QED
      BY <1>2, <2>7, <3>1 DEF Staid, MovingIn
  <2> QED
    BY <2>8, <2>9
<1> QED
  BY <1>1, <1>2

\* A cycle is started from rest, and nothing else that moves is touched.
LEMMA CycleStartStaid ==
  ASSUME NEW s \in System, NEW rt \in SUBSET ExecFlags, NEW queued \in BOOLEAN, Staid(s)
  PROVE  LET t == CycleStart(s, rt, queued)
         IN /\ Staid(t)
            /\ MovingIn(s) => t = s
            /\ t.state = "CYCLE" /\ s.state # "CYCLE" => ~MovingIn(s) /\ t.suspend = {} /\ queued
            /\ t.state = "CYCLE" \/ (MovingIn(t) <=> MovingIn(s))
            /\ "HOLD_COMPLETE" \in t.suspend => "HOLD_COMPLETE" \in s.suspend
BY DEF CycleStart, DoorResume, MayStart, ResumeCycle, Staid, MovingIn, System

LEMMA CycleStopStaid ==
  ASSUME NEW s \in System, Staid(s)
  PROVE  Staid(CycleStop(s))
BY DEF CycleStop, HoldReached, MotionEnded, Staid, System

-----------------------------------------------------------------------------
(* Completed holds: every step of the system.                               *)

LEMMA InterruptsStopped ==
  ASSUME Inv, Stopped, Interrupts
  PROVE  Stopped'
<1>1. /\ sys' = sys /\ main' = main /\ exec \subseteq exec' /\ (motion'.on => motion.on)
  BY InterruptEffect DEF Inv
<1>2. /\ motion'.queue = motion.queue
      /\ "CYCLE_STOP" \in exec' => "CYCLE_STOP" \in exec \/ (motion.on /\ ~motion'.on)
      /\ motion = Still => motion' = Still
  <2>1. TypeOK
    BY DEF Inv
  <2> DEFINE Fact ==
               /\ motion'.queue = motion.queue
               /\ "CYCLE_STOP" \in exec' => "CYCLE_STOP" \in exec \/ (motion.on /\ ~motion'.on)
               /\ motion = Still => motion' = Still
  <2>2. McReset => Fact
    BY <2>1 DEF McReset, TypeOK, Motion, Still
  <2>3. ASSUME NEW button \in Buttons, ControlISR(button) PROVE Fact
    BY <2>2, <2>3 DEF ControlISR, Raise
  <2>4. ASSUME NEW c \in Commands, SerialRx(c) PROVE Fact
    BY <2>2, <2>4 DEF SerialRx, Raise
  <2>5. StepperISR => Fact
    BY <2>1 DEF StepperISR, TypeOK, Motion, Still
  <2> QED
    BY <2>3, <2>4, <2>5 DEF Interrupts
<1>3. Dying => Dying'
  BY <1>1 DEF Dying, At
<1>4. Moving' <=> Moving
  BY <1>1 DEF Moving, Stopping, Completed
<1> QED
  BY <1>1, <1>2, <1>3, <1>4
  DEF Stopped, NoHoming, NoJog, OnMeansMoving, StopMeansOff, StaleStop, StartsFromRest,
      HoldStates, HoldCompleteMeansStopped, Completed, At

\* A step that leaves the structure, the end of motion and what is queued alone, on or
\* off any of the places that a leftover end of motion may be at.
LEMMA StillStep ==
  ASSUME Stopped, sys'.state = sys.state,
         "HOLD_COMPLETE" \in sys'.suspend <=> "HOLD_COMPLETE" \in sys.suspend,
         \/ "SAFETY_DOOR_AJAR" \in sys.suspend => "SAFETY_DOOR_AJAR" \in sys'.suspend
         \/ "HOLD_COMPLETE" \in sys.suspend,
         "CYCLE_STOP" \in exec' => "CYCLE_STOP" \in exec, motion'.on => motion.on,
         Dying => Dying', Dying' => Dying,
         main.pc \notin {"doorFlag", "loop", "alarm", "copy", "hold", "start", "stop", "bootReset"},
         main'.pc \notin {"hold", "start", "wake", "stop", "mainStart", "doorFlag", "critical",
                         "jogWake"}
  PROVE  Stopped'
<1>1. Moving' <=> Moving
  BY DEF Moving, Stopping, Completed
<1> QED
  BY <1>1
  DEF Stopped, NoHoming, NoJog, OnMeansMoving, StopMeansOff, StaleStop, StartsFromRest,
      HoldStates, HoldCompleteMeansStopped, Completed, At

LEMMA StaidForm ==
  ASSUME Stopped, ~Dying
  PROVE  Staid(sys) /\ (Moving <=> MovingIn(sys))
BY DEF Stopped, NoHoming, NoJog, HoldStates, Staid, Completed, Moving, MovingIn, Stopping

LEMMA RtSystemStopped ==
  ASSUME Inv, Stopped, RtSystem
  PROVE  Stopped'
<1>1. TypeOK /\ sys \in System /\ main \in Main /\ motion \in Motion /\ exec \in SUBSET ExecFlags
  BY DEF Inv, TypeOK
<1> DEFINE Parts == NoHoming /\ NoJog /\ OnMeansMoving /\ StopMeansOff /\ StaleStop
                       /\ StartsFromRest /\ HoldStates /\ HoldCompleteMeansStopped
<1>2. Parts
  BY DEF Stopped
<1> USE DEF At, GoTo
<1>3. CASE AlarmCopy
  <2>1. CASE alarm = "NONE"
    <3>1. /\ UNCHANGED <<exec, sys, motion>> /\ main.pc = "alarm" /\ main'.pc = "copy"
      BY <1>1, <1>3, <2>1 DEF AlarmCopy, Main
    <3>2. (Moving' <=> Moving) /\ (Dying => Dying')
      BY <3>1 DEF Moving, Stopping, Completed, Dying
    <3> QED
      BY <1>2, <3>1, <3>2
      DEF Stopped, NoHoming, NoJog, OnMeansMoving, StopMeansOff, StaleStop, StartsFromRest,
          HoldStates, HoldCompleteMeansStopped, Completed
  <2>2. CASE alarm # "NONE"
    <3>1. /\ sys'.state = "ALARM" /\ sys'.suspend = sys.suspend /\ motion' = motion
          /\ main.pc = "alarm" /\ main'.pc \in {"copy", "critical"}
          /\ "CYCLE_STOP" \in exec' => "CYCLE_STOP" \in exec
          /\ main'.pc = "copy" => exec' = exec
      BY <1>1, <1>3, <2>2 DEF AlarmCopy, Main, System
    <3>2. "RESET" \in exec
      BY <2>2, <3>1 DEF Inv, Safe, Control, AlarmReset
    <3>3. Dying'
      BY <3>1, <3>2 DEF Dying
    <3> QED
      BY <1>2, <3>1, <3>3
      DEF Stopped, NoHoming, NoJog, OnMeansMoving, StopMeansOff, StaleStop, StartsFromRest,
          HoldStates, HoldCompleteMeansStopped, Completed
  <2> QED
    BY <2>1, <2>2
<1>4. CASE Critical
  <2>1. /\ UNCHANGED <<exec, sys, motion>> /\ main'.pc = "copy" /\ "RESET" \in exec
        /\ sys.state = "ALARM"
    BY <1>1, <1>2, <1>4 DEF Critical, Main, StartsFromRest
  <2>2. Dying'
    BY <2>1 DEF Dying
  <2> QED
    BY <1>2, <2>1, <2>2
    DEF Stopped, NoHoming, NoJog, OnMeansMoving, StopMeansOff, StaleStop, StartsFromRest,
        HoldStates, HoldCompleteMeansStopped, Completed
<1>5. CASE FlagCopy
  <2>1. CASE "RESET" \in exec
    <3>1. /\ sys'.abort /\ sys'.state = sys.state /\ sys'.suspend = sys.suspend
          /\ UNCHANGED <<exec, motion>> /\ main'.pc \in SysReturns
      BY <1>1, <1>5, <2>1 DEF FlagCopy, Main, System
    <3>2. Dying'
      BY <3>1 DEF Dying
    <3> QED
      BY <1>2, <3>1, <3>2
      DEF Stopped, NoHoming, NoJog, OnMeansMoving, StopMeansOff, StaleStop, StartsFromRest,
          HoldStates, HoldCompleteMeansStopped, Completed, SysReturns
  <2>2. CASE "RESET" \notin exec
    <3>1. /\ UNCHANGED <<exec, sys, motion>> /\ main'.rt = exec /\ main.pc = "copy"
          /\ main'.pc \in {"hold", "start", "stop", "finish"}
          /\ main'.pc = "finish" => "CYCLE_STOP" \notin exec
          /\ main'.pc = "stop" => "CYCLE_STOP" \in exec
      BY <1>1, <1>5, <2>2 DEF FlagCopy, Main, AfterCopy, AfterHold, AfterStart
    <3>2. (Moving' <=> Moving) /\ (Dying <=> Dying')
      BY <2>2, <3>1 DEF Moving, Stopping, Completed, Dying
    <3> QED
      BY <1>2, <3>1, <3>2
      DEF Stopped, NoHoming, NoJog, OnMeansMoving, StopMeansOff, StaleStop, StartsFromRest,
          HoldStates, HoldCompleteMeansStopped, Completed
  <2> QED
    BY <2>1, <2>2
<1>6. ASSUME ExecHold \/ ExecStart \/ ExecStop
      PROVE  /\ ~sys.abort /\ ~Dying /\ Staid(sys) /\ (Moving <=> MovingIn(sys))
             /\ main.rt \in SUBSET ExecFlags
  <2>1. main.pc \in {"hold", "start", "stop"}
    BY <1>6 DEF ExecHold, ExecStart, ExecStop
  <2>2. ~sys.abort
    BY <2>1, SnapshotSound DEF Snapshot
  <2>3. ~Dying
    BY <2>1, <2>2 DEF Dying
  <2> QED
    BY <1>1, <2>2, <2>3, StaidForm DEF Main
<1>7. ASSUME Staid(sys'), ExecHold \/ ExecStart \/ ExecStop
      PROVE  /\ (NoHoming /\ NoJog /\ HoldStates)' /\ (Moving' <=> MovingIn(sys'))
  <2>1. main'.pc \in {"start", "wake", "stop", "finish"}
    BY <1>1, <1>7 DEF ExecHold, ExecStart, ExecStop, Main, AfterHold, AfterStart
  <2> QED
    BY <1>2, <1>7, <2>1
    DEF Staid, NoHoming, NoJog, HoldStates, Completed, Moving, MovingIn, Stopping
<1>8. CASE ExecHold
  <2>1. /\ sys' = HoldGroup(sys, main.rt) /\ motion' = motion /\ main'.rt = main.rt
        /\ main.pc = "hold" /\ main'.pc \in {"start", "stop", "finish"}
        /\ main'.pc = "finish" => "CYCLE_STOP" \notin main.rt
        /\ main'.pc = "stop" => "CYCLE_STOP" \in main.rt
        /\ ("CYCLE_STOP" \in exec') <=> ("CYCLE_STOP" \in exec)
    BY <1>1, <1>8 DEF ExecHold, Main, AfterHold, AfterStart, HoldFlags
  <2>2. "SLEEP" \in main.rt => sys.state \in {"IDLE", "ALARM"} /\ sys.suspend = {}
    BY <1>8 DEF ExecHold, Inv, Safe, Control, SleepTaken, AtRest
  <2>3. /\ Staid(sys') /\ (MovingIn(sys) => MovingIn(sys'))
        /\ "HOLD_COMPLETE" \in sys'.suspend =>
              "HOLD_COMPLETE" \in sys.suspend \/ sys.state \in {"IDLE", "ALARM"}
    BY <1>1, <1>6, <1>8, <2>1, <2>2, HoldGroupStaid
  <2>4. /\ (NoHoming /\ NoJog /\ HoldStates)' /\ (Moving => Moving')
    BY <1>6, <1>7, <1>8, <2>3
  <2>5. motion.on => Moving
    BY <1>2, <1>6, <1>8 DEF OnMeansMoving
  <2>6. HoldCompleteMeansStopped' /\ OnMeansMoving'
    BY <1>2, <2>1, <2>3, <2>4, <2>5
    DEF HoldCompleteMeansStopped, OnMeansMoving, Completed, Moving, Stopping
  <2>7. ~Dying
    BY <1>6, <1>8
  <2> QED
    BY <1>2, <2>1, <2>4, <2>6, <2>7 DEF Stopped, StopMeansOff, StaleStop, StartsFromRest
<1>9. CASE ExecStart
  <2>1. /\ sys' = CycleStart(sys, main.rt, motion.queue # <<>>)
        /\ motion' = motion /\ main'.rt = main.rt /\ main.pc = "start"
        /\ \/ main'.pc = "wake" /\ sys.state # "CYCLE" /\ sys'.state = "CYCLE"
           \/ /\ ~(sys.state # "CYCLE" /\ sys'.state = "CYCLE")
              /\ main'.pc \in {"stop", "finish"}
              /\ main'.pc = "stop" <=> "CYCLE_STOP" \in main.rt
        /\ ("CYCLE_STOP" \in exec') <=> ("CYCLE_STOP" \in exec)
    BY <1>1, <1>9 DEF ExecStart, Main, AfterStart, Started
  <2>2. (motion.queue # <<>>) \in BOOLEAN
    OBVIOUS
  <2>3. /\ Staid(sys') /\ (MovingIn(sys) => sys' = sys)
        /\ sys'.state = "CYCLE" /\ sys.state # "CYCLE" =>
              ~MovingIn(sys) /\ sys'.suspend = {} /\ motion.queue # <<>>
        /\ sys'.state = "CYCLE" \/ (MovingIn(sys') <=> MovingIn(sys))
        /\ "HOLD_COMPLETE" \in sys'.suspend => "HOLD_COMPLETE" \in sys.suspend
    BY <1>1, <1>6, <1>9, <2>1, <2>2, CycleStartStaid
  <2>4. /\ (NoHoming /\ NoJog /\ HoldStates)' /\ (Moving => Moving')
        /\ Moving <=> MovingIn(sys)
    BY <1>6, <1>7, <1>9, <2>3
  <2>5. ~Dying
    BY <1>6, <1>9
  <2>6. motion.on => Moving
    BY <1>2, <2>5 DEF OnMeansMoving
  <2>7. HoldCompleteMeansStopped' /\ OnMeansMoving'
    BY <1>2, <2>1, <2>3, <2>4, <2>6
    DEF HoldCompleteMeansStopped, OnMeansMoving, Completed
  <2>8. CASE main'.pc = "wake"
    <3>1. ~Moving /\ motion.queue # <<>> /\ sys'.suspend = {}
      BY <2>1, <2>3, <2>4, <2>8
    <3>2. ~motion.on /\ "CYCLE_STOP" \notin exec
      BY <1>2, <2>5, <2>6, <3>1 DEF StaleStop
    <3> QED
      BY <1>2, <2>1, <2>4, <2>7, <2>8, <3>1, <3>2
      DEF Stopped, StopMeansOff, StaleStop, StartsFromRest
  <2>9. CASE main'.pc # "wake"
    BY <1>2, <2>1, <2>4, <2>5, <2>7, <2>9 DEF Stopped, StopMeansOff, StaleStop, StartsFromRest
  <2> QED
    BY <2>8, <2>9
<1>10. CASE ExecWake
  <2>1. /\ main.pc = "wake" /\ main'.rt = main.rt /\ main'.pc \in {"stop", "finish"}
        /\ main'.pc = "stop" <=> "CYCLE_STOP" \in main.rt
        /\ ("CYCLE_STOP" \in exec') <=> ("CYCLE_STOP" \in exec)
        /\ ~ExecFinish
    BY <1>1, <1>10 DEF ExecWake, ExecFinish, Main, AfterStart
  <2>2. sys'.state = sys.state /\ sys'.suspend = sys.suspend
    BY <1>1, <1>10, PrepStepKeeps
  <2>3. sys.state = "CYCLE" /\ sys.suspend = {} /\ "CYCLE_STOP" \notin exec
    BY <1>2, <2>1 DEF Inv, Safe, Control, WakesCycle, StartsFromRest
  <2> QED
    BY <1>2, <2>1, <2>2, <2>3
    DEF Stopped, NoHoming, NoJog, OnMeansMoving, StopMeansOff, StaleStop, StartsFromRest,
        HoldStates, HoldCompleteMeansStopped, Completed, Moving
<1>11. CASE ExecStop
  <2>1. /\ sys' = CycleStop(sys) /\ main.pc = "stop" /\ main'.pc = "finish"
        /\ main'.rt = main.rt /\ "CYCLE_STOP" \notin exec' /\ (motion'.on => motion.on)
    BY <1>1, <1>11 DEF ExecStop, Main, Still
  <2>2. ~motion.on
    BY <1>2, <2>1 DEF StopMeansOff
  <2>3. Staid(sys')
    BY <1>1, <1>6, <1>11, <2>1, CycleStopStaid
  <2> QED
    BY <1>2, <1>7, <1>11, <2>1, <2>2, <2>3
    DEF Stopped, OnMeansMoving, StopMeansOff, StaleStop, StartsFromRest,
        HoldCompleteMeansStopped
<1>12. CASE ExecFinish
  <2>1. /\ sys'.state = sys.state /\ sys'.suspend = sys.suspend /\ sys'.abort = sys.abort
        /\ motion'.on = motion.on
    BY <1>1, <1>12, PrepStepKeeps
  <2>2. exec' = exec /\ main.pc = "finish" /\ main'.pc \in SysReturns
    BY <1>1, <1>12 DEF ExecFinish, Main
  <2>3. Dying' <=> Dying
    BY <2>1, <2>2 DEF Dying, SysReturns
  <2> QED
    BY <2>1, <2>2, <2>3, StillStep DEF SysReturns
<1> QED
  BY <1>3, <1>4, <1>5, <1>8, <1>9, <1>10, <1>11, <1>12 DEF RtSystem

LEMMA RtSuspendStopped ==
  ASSUME Inv, Stopped, RtSuspend
  PROVE  Stopped'
<1> DEFINE Quiet ==
             /\ sys'.state = sys.state
             /\ "HOLD_COMPLETE" \in sys'.suspend <=> "HOLD_COMPLETE" \in sys.suspend
             /\ \/ "SAFETY_DOOR_AJAR" \in sys.suspend => "SAFETY_DOOR_AJAR" \in sys'.suspend
                \/ "HOLD_COMPLETE" \in sys.suspend
             /\ "CYCLE_STOP" \in exec' => "CYCLE_STOP" \in exec
             /\ motion'.on => motion.on
             /\ sys'.abort = sys.abort
             /\ main.pc \in {"exec"} \cup SuspendPCs \cup SysReturns
             /\ main'.pc \in {"alarm"} \cup SuspendPCs \cup ExecReturns
<1>1. TypeOK /\ sys \in System /\ main \in Main /\ motion \in Motion
      /\ main.cont \in ExecReturns
  BY DEF Inv, TypeOK, Main
<1>2. Quiet => Stopped'
  <2> SUFFICES ASSUME Quiet PROVE Stopped'
    OBVIOUS
  <2>1. Dying <=> Dying'
    BY DEF Dying, At, SuspendPCs, RestorePCs, SysReturns, ExecReturns
  <2> QED
    BY <2>1, StillStep DEF SuspendPCs, RestorePCs, SysReturns, ExecReturns
<1> USE DEF At, GoTo, SysPass, Return, Held, SuspendPCs, RestorePCs, SysReturns
<1>3. ASSUME ExecReturn PROVE Quiet
  BY <1>1, <1>3 DEF ExecReturn, Main
<1>4. ASSUME SuspendEnd \/ SuspendWait \/ Sleep PROVE Quiet
  BY <1>1, <1>4 DEF SuspendEnd, SuspendWait, Sleep, Main
<1>5. ASSUME Park PROVE Quiet
  BY <1>1, <1>5 DEF Park, Retracted, System, Main
<1>6. ASSUME EnterSleep PROVE Quiet
  BY <1>1, <1>6 DEF EnterSleep, Motion, Main
<1>7. ASSUME Parked PROVE Quiet
  BY <1>1, <1>7 DEF Parked, System, Main
<1>8. ASSUME RestoreSpindle \/ RestoreCoolant PROVE Quiet
  BY <1>1, <1>8 DEF RestoreSpindle, RestoreCoolant, Main
<1>9. ASSUME SpindleDelay \/ CoolantDelay PROVE Quiet
  BY <1>1, <1>9 DEF SpindleDelay, CoolantDelay, Delay, Main
<1>10. ASSUME RestoreDone PROVE Quiet
  BY <1>1, <1>10 DEF RestoreDone, System, Main
<1>11. ASSUME HoldManager PROVE Quiet
  BY <1>1, <1>11 DEF HoldManager, HoldManaged, System, Main
<1> QED
  BY <1>2, <1>3, <1>4, <1>5, <1>6, <1>7, <1>8, <1>9, <1>10, <1>11 DEF RtSuspend

LEMMA MainLoopStopped ==
  ASSUME Inv, Stopped, MainLoop
  PROVE  Stopped'
<1> DEFINE Lasting == {"eol", "loopEnd", "mcline", "softwait", "softreset", "room", "moved",
                       "gcSpindle", "gcCoolant", "sync", "synced", "alarm", "loop"}
                        \cup SyncReturns
           Quiet ==
             /\ sys'.state = sys.state /\ sys'.suspend = sys.suspend /\ sys'.abort = sys.abort
             /\ "CYCLE_STOP" \in exec' => "CYCLE_STOP" \in exec
             /\ motion'.on => motion.on
             /\ main.pc \in Lasting \ {"alarm", "loop"}
             /\ main'.pc \in Lasting
<1>1. /\ TypeOK /\ sys \in System /\ main \in Main /\ motion \in Motion
      /\ main.cont \in ExecReturns /\ main.after \in SyncReturns
      /\ main.line \in Lines \cup {"none"}
      /\ "$HQ" \notin Lines /\ "$J" \notin Lines
  BY DEF Inv, TypeOK, Main, Stopped, NoHoming, NoJog
<1>2. ASSUME Quiet PROVE Stopped'
  <2>1. Dying <=> Dying'
    BY <1>2 DEF Dying, At, SyncReturns
  <2> QED
    BY <1>2, <2>1, StillStep DEF SyncReturns
<1> DEFINE Parts == NoHoming /\ NoJog /\ OnMeansMoving /\ StopMeansOff /\ StaleStop
                       /\ StartsFromRest /\ HoldStates /\ HoldCompleteMeansStopped
<1>3. Parts
  BY DEF Stopped
<1> USE DEF At, GoTo, Exec, NextLine, SyncThen, SyncReturns
<1>4. CASE Boot
  <2>1. /\ sys'.suspend = {} /\ sys'.state = sys.state /\ exec' = {} /\ motion' = motion
        /\ main'.pc = "bootReset"
    BY <1>1, <1>4 DEF Boot, Cleared, Main
  <2>2. Dying'
    BY <2>1 DEF Dying
  <2> QED
    BY <1>3, <2>1, <2>2
    DEF Stopped, NoHoming, NoJog, OnMeansMoving, StopMeansOff, StaleStop, StartsFromRest,
        HoldStates, HoldCompleteMeansStopped, Completed
<1>5. CASE BootReset
  <2>1. sys' = sys /\ exec' = exec /\ motion' = Still /\ main'.pc = "mainStart" /\ ~motion'.on
    BY <1>1, <1>5 DEF BootReset, Main, Still
  <2>2. Dying'
    BY <2>1 DEF Dying
  <2> QED
    BY <1>3, <2>1, <2>2
    DEF Stopped, NoHoming, NoJog, OnMeansMoving, StopMeansOff, StaleStop, StartsFromRest,
        HoldStates, HoldCompleteMeansStopped, Completed
<1>6. CASE MainStart
  <2>1. /\ sys'.state \in {"IDLE", "ALARM"} /\ exec' = exec /\ motion' = motion
        /\ main'.pc \in {"loop", "doorFlag"}
    BY <1>1, <1>6, MainStartEffect
  <2>2. motion = Still /\ ~motion.on /\ motion.queue = <<>>
    BY <1>3, <1>6 DEF MainStart, StartsFromRest, Still
  <2> QED
    BY <1>3, <2>1, <2>2
    DEF Stopped, NoHoming, NoJog, OnMeansMoving, StopMeansOff, StaleStop, StartsFromRest,
        HoldStates, HoldCompleteMeansStopped, Completed
<1>7. CASE DoorFlag
  <2>1. sys' = sys /\ sys.state = "IDLE" /\ motion' = motion /\ main'.pc = "alarm"
    BY <1>1, <1>7 DEF DoorFlag, Inv, Safe, Control, DoorFlagIdle, Starting, Main
  <2>2. ~motion.on /\ motion.queue = <<>>
    BY <1>3, <1>7 DEF DoorFlag, StartsFromRest, Still
  <2> QED
    BY <1>3, <2>1, <2>2
    DEF Stopped, NoHoming, NoJog, OnMeansMoving, StopMeansOff, StaleStop, StartsFromRest,
        HoldStates, HoldCompleteMeansStopped, Completed
<1>8. CASE Idle \/ \E line \in Lines : ReadLine(line)
  <2>1. /\ sys' = sys /\ motion' = motion /\ main.pc = "loop" /\ main'.pc = "alarm"
        /\ ("CYCLE_STOP" \in exec') <=> ("CYCLE_STOP" \in exec)
    BY <1>1, <1>8 DEF Idle, ReadLine, AutoCycleStart, Main
  <2>2. (Moving' <=> Moving) /\ (Dying => Dying') /\ (Dying' => Dying)
    BY <2>1 DEF Moving, Stopping, Completed, Dying
  <2> QED
    BY <1>3, <2>1, <2>2
    DEF Stopped, NoHoming, NoJog, OnMeansMoving, StopMeansOff, StaleStop, StartsFromRest,
        HoldStates, HoldCompleteMeansStopped, Completed
<1>9. CASE LoopEnd
  <2>1. CASE sys.abort
    <3>1. sys' = sys /\ exec' = exec /\ motion' = motion /\ main'.pc = "boot"
      BY <1>1, <1>9, <2>1 DEF LoopEnd, Main
    <3>2. Dying'
      BY <3>1 DEF Dying
    <3> QED
      BY <1>3, <3>1, <3>2
      DEF Stopped, NoHoming, NoJog, OnMeansMoving, StopMeansOff, StaleStop, StartsFromRest,
          HoldStates, HoldCompleteMeansStopped, Completed
  <2>2. CASE ~sys.abort
    <3>1. Quiet
      BY <1>1, <1>9, <2>2 DEF LoopEnd, Main
    <3> QED
      BY <1>2, <3>1
  <2> QED
    BY <2>1, <2>2
<1>10. CASE LineStart
  <2>1. CASE RefuseLine \/ StartMove \/ StartAccessory \/ SleepCommand
    <3>1. Quiet
      BY <1>1, <2>1 DEF RefuseLine, StartMove, StartAccessory, SleepCommand, Dispatch, Main
    <3> QED
      BY <1>2, <3>1
  <2>2. CASE StateCommand
    <3>1. /\ sys.state \in {"IDLE", "ALARM"} /\ sys'.state \in {"IDLE", "CHECK_MODE"}
          /\ sys'.suspend = sys.suspend /\ sys'.abort = sys.abort /\ ~sys.abort
          /\ exec' = exec /\ motion' = motion /\ main.pc = "eol" /\ main'.pc = "loop"
      BY <1>1, <2>2 DEF StateCommand, Refused, Dispatch, System, Main
    <3>2. ~Moving /\ ~Dying
      BY <3>1 DEF Moving, Stopping, Dying
    <3>3. ~motion.on /\ "CYCLE_STOP" \notin exec
      BY <1>3, <3>1, <3>2 DEF OnMeansMoving, StaleStop
    <3> QED
      BY <1>3, <3>1, <3>3
      DEF Stopped, NoHoming, NoJog, OnMeansMoving, StopMeansOff, StaleStop, StartsFromRest,
          HoldStates, HoldCompleteMeansStopped, Completed
  <2>3. CASE LeaveCheckMode
    <3>1. Quiet
      BY <1>1, <2>3 DEF LeaveCheckMode, Dispatch, McReset, Motion, Main
    <3> QED
      BY <1>2, <3>1
  <2> QED
    BY <1>10, <2>1, <2>2, <2>3 DEF LineStart
<1>11. ASSUME McLine PROVE Quiet
  <2>1. main'.pc \in {"alarm", "softreset", "moved"}
    BY <1>1, <1>11 DEF McLine, Main
  <2>2. /\ main.pc = "mcline" /\ motion' = motion
        /\ exec' \in {exec, exec \cup {"FEED_HOLD"}}
        /\ sys' \in {sys, [sys EXCEPT !.soft_limit = TRUE]}
    BY <1>11 DEF McLine
  <2> QED
    BY <1>1, <2>1, <2>2 DEF System
<1>12. ASSUME SoftWait PROVE Quiet
  BY <1>1, <1>12 DEF SoftWait, Main
<1>13. ASSUME SoftReset PROVE Quiet
  BY <1>1, <1>13 DEF SoftReset, Motion, Main
<1>14. ASSUME WaitForRoom \/ Sync PROVE Quiet
  BY <1>1, <1>14 DEF WaitForRoom, Sync, AutoCycleStart, Main
<1>15. ASSUME PlanBufferLine PROVE Quiet
  BY <1>1, <1>15 DEF PlanBufferLine, Motion, Main
<1>16. ASSUME Moved PROVE Quiet
  BY <1>1, <1>16 DEF Moved, JogStarts, Main
<1>17. ~JogWake
  BY <1>3 DEF JogWake, NoJog
<1>18. ASSUME Synced PROVE Quiet
  BY <1>1, <1>18 DEF Synced, Main
<1>19. ASSUME GcSpindle \/ ApplySpindle PROVE Quiet
  BY <1>1, <1>19 DEF GcSpindle, ApplySpindle, Main
<1>20. ASSUME GcCoolant \/ ApplyCoolant PROVE Quiet
  BY <1>1, <1>20 DEF GcCoolant, ApplyCoolant, Main
<1>21. ASSUME ApplyFlow PROVE Quiet
  <2>1. main'.pc \in {"loop", "alarm"}
    BY <1>1, <1>21 DEF ApplyFlow, Main
  <2>2. /\ main.pc = "applyFlow" /\ sys' = sys /\ motion' = motion
        /\ exec' \in {exec, exec \cup {"FEED_HOLD"}}
    BY <1>21 DEF ApplyFlow
  <2> QED
    BY <2>1, <2>2
<1> QED
  BY <1>2, <1>4, <1>5, <1>6, <1>7, <1>8, <1>9, <1>10, <1>11, <1>12, <1>13, <1>14, <1>15,
     <1>16, <1>17, <1>18, <1>19, <1>20, <1>21 DEF MainLoop

\* For lines that neither jog nor leave the machine homing, nothing is parked, restored
\* or stopped while the machine still moves (protocol.cpp:545-546): not even when a
\* reset, a stale end of motion or the door interferes.
THEOREM HoldAtRestOnly ==
  Lines \cap {"$HQ", "$J"} = {} => (Spec => []HoldCompleteMeansStopped)
<1> SUFFICES ASSUME Lines \cap {"$HQ", "$J"} = {}
             PROVE  Spec => []HoldCompleteMeansStopped
  OBVIOUS
<1>1. Init => Stopped
  BY DEF Init, Cleared, Still, Stopped, NoHoming, NoJog, OnMeansMoving, StopMeansOff, StaleStop,
         StartsFromRest, HoldStates, HoldCompleteMeansStopped, Completed, At
<1>2. Inv /\ Stopped /\ [Next]_vars => Stopped'
  <2> SUFFICES ASSUME Inv, Stopped, [Next]_vars PROVE Stopped'
    OBVIOUS
  <2>1. CASE MainProgram
    BY <2>1, RtSystemStopped, RtSuspendStopped, MainLoopStopped DEF MainProgram
  <2>2. CASE Interrupts
    BY <2>2, InterruptsStopped
  <2>3. CASE UNCHANGED vars
    BY <2>3
    DEF vars, Stopped, NoHoming, NoJog, OnMeansMoving, StopMeansOff, StaleStop, StartsFromRest,
        HoldStates, HoldCompleteMeansStopped, Moving, Stopping, Completed, Dying, At
  <2> QED
    BY <2>1, <2>2, <2>3 DEF Next
<1>3. Stopped => HoldCompleteMeansStopped
  BY DEF Stopped
<1> QED
  BY <1>1, <1>2, <1>3, Invariance, PTL DEF Spec
=============================================================================
