--------------------------- MODULE RealtimeProofs ---------------------------
(***************************************************************************)
(* Safety of the real-time core for every set of lines, commands and       *)
(* buttons and every buffer size: its types, the invariant of              *)
(* RealtimeInvariant with the properties that follow from it, and what no  *)
(* step may do: switch the spindle on at the open door, or start anything  *)
(* in check mode.                                                          *)
(***************************************************************************)
EXTENDS RealtimeInvariant, SequenceTheorems, TLAPS

-----------------------------------------------------------------------------
(* What the branches of the executor make of the `sys` structure.           *)

\* Every branch of the executor maps a well-typed structure to one.
LEMMA InitiateHoldType ==
  ASSUME NEW s \in System, NEW rt \in SUBSET ExecFlags
  PROVE  InitiateHold(s, rt) \in System
BY DEF InitiateHold, System, StepFlags, SuspendFlags

LEMMA HoldStepsType ==
  ASSUME NEW s \in System, NEW rt \in SUBSET ExecFlags
  PROVE  /\ HoldAtRest(s) \in System
         /\ CancelMotion(s, rt) \in System
         /\ FeedHold(s, rt) \in System
         /\ RestartRetract(s) \in System
         /\ EnterDoor(s) \in System
         /\ FallAsleep(s, rt) \in System
BY DEF HoldAtRest, CancelMotion, FeedHold, RestartRetract, EnterDoor, FallAsleep,
       System, SuspendFlags, States

LEMMA DoorOpenedType ==
  ASSUME NEW s \in System, NEW rt \in SUBSET ExecFlags
  PROVE  DoorOpened(s, rt) \in System
<1>1. RestartRetract(s) \in System
  BY HoldStepsType
<1>2. EnterDoor(RestartRetract(s)) \in System
  BY <1>1, HoldStepsType
<1>3. \A t \in System : [t EXCEPT !.suspend = @ \cup {"SAFETY_DOOR_AJAR"}] \in System
  BY DEF System, SuspendFlags
<1> QED
  BY <1>2, <1>3 DEF DoorOpened

LEMMA HoldGroupType ==
  ASSUME NEW s \in System, NEW rt \in SUBSET ExecFlags
  PROVE  HoldGroup(s, rt) \in System
<1> DEFINE a == InitiateHold(s, rt)
           b == CancelMotion(HoldAtRest(a), rt)
           c == DoorOpened(FeedHold(b, rt), rt)
<1>1. a \in System
  BY InitiateHoldType
<1>2. b \in System
  BY <1>1, HoldStepsType
<1>3. c \in System
  BY <1>2, HoldStepsType, DoorOpenedType
<1> QED
  BY <1>3, HoldStepsType DEF HoldGroup

LEMMA CycleStartType ==
  ASSUME NEW s \in System, NEW rt \in SUBSET ExecFlags, NEW queued \in BOOLEAN
  PROVE  CycleStart(s, rt, queued) \in System
<1>1. DoorResume(s) \in System
  BY DEF DoorResume, System, SuspendFlags, States
<1>2. \A t \in System : ResumeCycle(t, queued) \in System
  BY DEF ResumeCycle, System, SuspendFlags, States, StopOvrFlags
<1> QED
  BY <1>1, <1>2 DEF CycleStart

LEMMA CycleStopType ==
  ASSUME NEW s \in System
  PROVE  CycleStop(s) \in System
BY DEF CycleStop, HoldReached, MotionEnded, System, SuspendFlags, States, StepFlags

LEMMA OverrideType ==
  ASSUME NEW s \in System, NEW acc \in SUBSET AccessoryFlags
  PROVE  SpindleOverride(s, acc) \in System
<1>1. SpindleSpeedOverride(s, acc) \in System
  BY DEF SpindleSpeedOverride, System, StepFlags
<1>2. \A t \in System : SpindleStopOverride(t, acc) \in System
  BY DEF SpindleStopOverride, System, StopOvrFlags
<1> QED
  BY <1>1, <1>2 DEF SpindleOverride

LEMMA SuspendType ==
  ASSUME NEW s \in System, NEW modal \in Condition
  PROVE  Retracted(s) \in System /\ HoldManaged(s, modal) \in System
BY DEF Retracted, HoldManaged, System, SuspendFlags, StopOvrFlags

\* Outputs stay outputs.
LEMMA OutputType ==
  ASSUME NEW s \in System, NEW pin \in BOOLEAN, NEW mode \in BOOLEAN,
         NEW coolants \in SUBSET Coolants, NEW wanted \in SUBSET Coolants
  PROVE  /\ SpindleSetState(s, pin, mode) \in BOOLEAN
         /\ CoolantSetState(s, coolants, wanted) \in SUBSET Coolants
BY DEF SpindleSetState, CoolantSetState

LEMMA HoldSpindleType ==
  ASSUME NEW s \in System, NEW modal \in Condition, NEW pin \in BOOLEAN,
         NEW restore \in Condition
  PROVE  HoldSpindle(s, modal, pin, restore) \in BOOLEAN
<1>1. restore.spindle \in BOOLEAN
  BY DEF Condition
<1>2. \A b \in BOOLEAN : SpindleSetState(s, pin, b) \in BOOLEAN
  BY DEF SpindleSetState
<1> QED
  BY <1>1, <1>2 DEF HoldSpindle

-----------------------------------------------------------------------------
(* Segment preparation.                                                     *)

LEMMA LoadableType ==
  ASSUME NEW m \in Motion
  PROVE  Loadable(m) \in 0..Len(m.queue) /\ m.segs + Loadable(m) <= SegmentSize
<1>1. m.queue \in Seq(Condition) /\ m.segs \in 0..SegmentSize /\ Len(m.queue) \in Nat
  BY LenProperties DEF Motion
<1> QED
  BY <1>1, SizesAssumption DEF Loadable

\* Blocks only leave the queue, and the segments fit their buffer.
LEMMA LoadedType ==
  ASSUME NEW m \in Motion, NEW n \in 0..Loadable(m)
  PROVE  /\ Loaded(m, n) \in Motion
         /\ Len(Loaded(m, n).queue) <= Len(m.queue)
         /\ Loaded(m, n).on = m.on
<1>1. /\ m.queue \in Seq(Condition) /\ m.segs \in 0..SegmentSize
      /\ m.on \in BOOLEAN /\ Len(m.queue) \in Nat
  BY LenProperties DEF Motion
<1>2. Loadable(m) \in 0..Len(m.queue) /\ m.segs + Loadable(m) <= SegmentSize
  BY LoadableType
<1> DEFINE q == SubSeq(m.queue, n + 1, Len(m.queue))
<1>3. q \in Seq(Condition) /\ Len(q) <= Len(m.queue)
  <2>1. \A i \in (n + 1)..Len(m.queue) : m.queue[i] \in Condition
    BY <1>1, <1>2, ElementOfSeq
  <2>2. q \in Seq(Condition) /\ Len(q) = IF n + 1 <= Len(m.queue) THEN Len(m.queue) - n ELSE 0
    BY <1>1, <1>2, SubSeqProperties
  <2> QED
    BY <1>1, <1>2, <2>2
<1>4. m.segs + n \in 0..SegmentSize
  BY <1>1, <1>2, SizesAssumption
<1> QED
  BY <1>1, <1>3, <1>4 DEF Loaded, Motion

\* Preparation changes only step_control, and moves blocks from the queue to
\* the segments.
LEMMA PrepType ==
  ASSUME NEW s \in System, NEW m \in Motion, NEW p \in Prep(s, m)
  PROVE  /\ p.sys \in System
         /\ p.motion \in Motion
         /\ Len(p.motion.queue) <= Len(m.queue)
         /\ p.motion.on = m.on
         /\ p.sys.state = s.state
         /\ p.sys.abort = s.abort
         /\ p.sys.suspend = s.suspend
         /\ p.sys.soft_limit = s.soft_limit
         /\ p.sys.spindle_stop_ovr = s.spindle_stop_ovr
<1> DEFINE t == PwmUpdated(s, m)
<1>1. \A u \in System : [u EXCEPT !.step_control = @ \ {"UPDATE_SPINDLE_PWM"}] \in System
  BY DEF System
<1>2. /\ t \in System /\ t.state = s.state /\ t.abort = s.abort /\ t.suspend = s.suspend
      /\ t.soft_limit = s.soft_limit /\ t.spindle_stop_ovr = s.spindle_stop_ovr
  BY <1>1 DEF PwmUpdated, System
<1>3. \E n \in 0..Loadable(m) :
         /\ p.motion = m \/ p.motion = Loaded(m, n)
         /\ \/ p.sys = s \/ p.sys = t
            \/ p.sys = [t EXCEPT !.step_control = @ \cup {"END_MOTION"}]
  <2>1. 0 \in 0..Loadable(m) /\ Loadable(m) \in 0..Loadable(m)
    BY LoadableType, LenProperties DEF Motion
  <2>2. CASE "END_MOTION" \in s.step_control
    BY <2>1, <2>2 DEF Prep
  <2>3. CASE "END_MOTION" \notin s.step_control
    <3> DEFINE stops == IF "EXECUTE_HOLD" \in s.step_control THEN StopsIn(m) ELSE {}
               stopped(n) == [sys |-> [t EXCEPT !.step_control = @ \cup {"END_MOTION"}],
                              motion |-> Loaded(m, n)]
    <3>1. \/ p = [sys |-> t, motion |-> Loaded(m, Loadable(m))]
          \/ p \in {stopped(n) : n \in stops}
      BY <2>3 DEF Prep
    <3>2. CASE p = [sys |-> t, motion |-> Loaded(m, Loadable(m))]
      BY <2>1, <3>2
    <3>3. CASE p \in {stopped(n) : n \in stops}
      <4>1. PICK n \in stops : p = stopped(n)
        BY <3>3
      <4>2. n \in 0..Loadable(m)
        BY <4>1 DEF StopsIn
      <4> QED
        BY <4>1, <4>2
    <3> QED
      BY <3>1, <3>2, <3>3
  <2> QED
    BY <2>2, <2>3
<1>4. /\ p.motion \in Motion /\ Len(p.motion.queue) <= Len(m.queue)
      /\ p.motion.on = m.on
  <2>1. Len(m.queue) \in Nat
    BY LenProperties DEF Motion
  <2> QED
    BY <1>3, <2>1, LoadedType
<1>5. CASE p.sys = s
  BY <1>4, <1>5
<1>6. CASE p.sys = t
  BY <1>2, <1>4, <1>6
<1>7. CASE p.sys = [t EXCEPT !.step_control = @ \cup {"END_MOTION"}]
  BY <1>2, <1>4, <1>7 DEF System, StepFlags
<1> QED
  BY <1>3, <1>5, <1>6, <1>7

-----------------------------------------------------------------------------
(* Type correctness.                                                        *)

\* Every move of the main program's control point is to one it has.
LEMMA ControlPoints ==
  ASSUME main \in Main
  PROVE  /\ \A pc \in PCs : GoTo(pc) \in Main
         /\ \A ret \in SysReturns : SysPass(ret) \in Main
         /\ \A cont \in ExecReturns : Exec(cont) \in Main
         /\ \A next \in SyncReturns : SyncThen(next) \in Main
         /\ Return \in Main
         /\ NextLine \in Main
<1>1. \A pc \in PCs : GoTo(pc) \in Main
  BY DEF GoTo, Main
<1>2. \A ret \in SysReturns : SysPass(ret) \in Main
  BY DEF SysPass, Main, PCs
<1>3. \A cont \in ExecReturns : Exec(cont) \in Main
  BY DEF Exec, Main, PCs, SysReturns
<1>4. \A next \in SyncReturns : SyncThen(next) \in Main
  BY DEF SyncThen, GoTo, Main, PCs
<1>5. Return \in Main
  BY DEF Return, Main, PCs, ExecReturns, AllOff, Condition
<1>6. NextLine \in Main
  BY DEF NextLine, Main, PCs, ExecReturns, AllOff, Condition
<1> QED
  BY <1>1, <1>2, <1>3, <1>4, <1>5, <1>6

LEMMA OffTypes == AllOff \in Condition /\ Still \in Motion /\ Len(Still.queue) = 0
BY SizesAssumption, EmptySeq DEF AllOff, Condition, Still, Motion

\* A reset drives every output off and may stop the motors, no more.
LEMMA McResetType ==
  ASSUME TypeOK, McReset
  PROVE  /\ exec' \in SUBSET ExecFlags /\ alarm' \in Alarms /\ out' \in Condition
         /\ motion' \in Motion /\ motion'.queue = motion.queue
         /\ hist' \in [killed : BOOLEAN, asked : BOOLEAN]
<1>1. AbortAlarm \in Alarms
  BY DEF AbortAlarm, TypeOK, Alarms
<1>2. InMotion \in BOOLEAN
  BY DEF InMotion
<1>3. CASE "RESET" \in exec
  BY <1>3 DEF McReset, TypeOK
<1>4. CASE "RESET" \notin exec
  <2>1. exec' \in SUBSET ExecFlags /\ alarm' \in Alarms /\ out' \in Condition
    BY <1>1, <1>4, OffTypes DEF McReset, TypeOK, ExecFlags
  <2>2. motion' \in Motion /\ motion'.queue = motion.queue
    BY <1>2, <1>4 DEF McReset, TypeOK, Motion
  <2>3. hist' \in [killed : BOOLEAN, asked : BOOLEAN]
    BY <1>4 DEF McReset, TypeOK, Motion
  <2> QED
    BY <2>1, <2>2, <2>3
<1> QED
  BY <1>3, <1>4

LEMMA InterruptsType ==
  ASSUME TypeOK, Interrupts
  PROVE  TypeOK'
<1>1. ASSUME NEW button \in Buttons, ControlISR(button)
      PROVE  TypeOK'
  <2>1. pins' \in SUBSET Buttons
    BY <1>1 DEF ControlISR, TypeOK
  <2>2. /\ exec' \in SUBSET ExecFlags /\ alarm' \in Alarms /\ out' \in Condition
        /\ motion' \in Motion /\ motion'.queue = motion.queue
        /\ hist' \in [killed : BOOLEAN, asked : BOOLEAN]
    <3>1. CASE McReset
      BY <3>1, McResetType
    <3>2. CASE ~McReset
      BY <1>1, <3>2 DEF ControlISR, Raise, UserAsks, TypeOK, ExecFlags, HoldFlags
    <3> QED
      BY <3>1, <3>2
  <2> QED
    BY <1>1, <2>1, <2>2 DEF ControlISR, TypeOK
<1>2. ASSUME NEW c \in Commands, SerialRx(c)
      PROVE  TypeOK'
  <2>1. accessory' \in SUBSET AccessoryFlags
    BY <1>2 DEF SerialRx, TypeOK
  <2>2. /\ exec' \in SUBSET ExecFlags /\ alarm' \in Alarms /\ out' \in Condition
        /\ motion' \in Motion /\ motion'.queue = motion.queue
        /\ hist' \in [killed : BOOLEAN, asked : BOOLEAN]
    <3>1. CASE McReset
      BY <3>1, McResetType
    <3>2. CASE ~McReset
      BY <1>2, <3>2 DEF SerialRx, Raise, UserAsks, TypeOK, ExecFlags, HoldFlags
    <3> QED
      BY <3>1, <3>2
  <2> QED
    BY <1>2, <2>1, <2>2 DEF SerialRx, TypeOK
<1>3. ASSUME StepperISR
      PROVE  TypeOK'
  <2>1. exec' \in SUBSET ExecFlags
    BY <1>3 DEF StepperISR, TypeOK, ExecFlags
  <2>2. motion' \in Motion /\ motion'.queue = motion.queue
    <3>1. motion.segs \in 0..SegmentSize /\ SegmentSize \in Nat
      BY SizesAssumption DEF TypeOK, Motion
    <3>2. motion.segs > 0 => motion.segs - 1 \in 0..SegmentSize
      BY <3>1
    <3>3. CASE motion.segs > 0
      BY <1>3, <3>2, <3>3 DEF StepperISR, TypeOK, Motion
    <3>4. CASE ~(motion.segs > 0)
      BY <1>3, <3>4 DEF StepperISR, TypeOK, Motion
    <3> QED
      BY <3>3, <3>4
  <2> QED
    BY <1>3, <2>1, <2>2 DEF StepperISR, TypeOK
<1> QED
  BY <1>1, <1>2, <1>3 DEF Interrupts

LEMMA RtSystemType ==
  ASSUME TypeOK, RtSystem
  PROVE  TypeOK'
<1> USE DEF At
<1>1. ASSUME AlarmCopy PROVE TypeOK'
  BY <1>1, ControlPoints DEF AlarmCopy, TypeOK, System, States, Alarms, PCs, ExecFlags
<1>2. ASSUME Critical PROVE TypeOK'
  BY <1>2, ControlPoints DEF Critical, TypeOK, Alarms, PCs
<1>3. ASSUME FlagCopy PROVE TypeOK'
  <2>1. CASE "RESET" \in exec
    BY <1>3, <2>1 DEF FlagCopy, TypeOK, System, Main, PCs, SysReturns
  <2>2. CASE "RESET" \notin exec
    <3>1. AfterCopy(exec) \in PCs
      BY DEF AfterCopy, AfterHold, AfterStart, PCs
    <3> QED
      BY <1>3, <2>2, <3>1 DEF FlagCopy, TypeOK, Main
  <2> QED
    BY <2>1, <2>2
<1>4. ASSUME ExecHold PROVE TypeOK'
  <2>1. sys' \in System
    BY <1>4, HoldGroupType DEF ExecHold, TypeOK, Main
  <2>2. AfterHold(main.rt) \in PCs
    BY DEF AfterHold, AfterStart, PCs
  <2>3. hist' \in [killed : BOOLEAN, asked : BOOLEAN]
    <3>1. \A b \in BOOLEAN : [hist EXCEPT !.asked = b] \in [killed : BOOLEAN, asked : BOOLEAN]
      BY DEF TypeOK
    <3>2. CASE NewHold
      <4> DEFINE again == "CYCLE_START" \in exec \ main.rt
      <4>1. hist' = [hist EXCEPT !.asked = again]
        BY <1>4, <3>2, Zenon DEF ExecHold
      <4>2. again \in BOOLEAN
        OBVIOUS
      <4> HIDE DEF again
      <4> QED
        BY <3>1, <4>1, <4>2
    <3>3. CASE ~NewHold
      BY <1>4, <3>3 DEF ExecHold, TypeOK
    <3> QED
      BY <3>2, <3>3
  <2> QED
    BY <1>4, <2>1, <2>2, <2>3, ControlPoints DEF ExecHold, TypeOK
<1>5. ASSUME ExecStart PROVE TypeOK'
  <2>1. sys' \in System
    BY <1>5, CycleStartType DEF ExecStart, TypeOK, Main
  <2>2. AfterStart(main.rt) \in PCs
    BY DEF AfterStart, PCs
  <2> QED
    BY <1>5, <2>1, <2>2, ControlPoints DEF ExecStart, TypeOK, PCs
<1>6. ASSUME ExecWake PROVE TypeOK'
  <2>1. /\ sys' \in System /\ motion' \in Motion
        /\ Len(motion'.queue) <= QueueSize
    <3>1. PICK p \in Prep(sys, motion) :
             sys' = p.sys /\ motion' = [p.motion EXCEPT !.on = TRUE]
      BY <1>6 DEF ExecWake, PrepAndWake
    <3>2. Len(motion.queue) \in Nat /\ Len(p.motion.queue) \in Nat
      BY <3>1, PrepType, LenProperties DEF TypeOK, Motion
    <3>3. /\ p.sys \in System /\ p.motion \in Motion
          /\ Len(p.motion.queue) <= Len(motion.queue)
      BY <3>1, PrepType DEF TypeOK
    <3>4. motion' \in Motion /\ motion'.queue = p.motion.queue
      BY <3>1, <3>3 DEF Motion
    <3>5. Len(p.motion.queue) <= QueueSize
      BY <3>2, <3>3, SizesAssumption DEF TypeOK
    <3> QED
      BY <3>1, <3>3, <3>4, <3>5
  <2>2. AfterStart(main.rt) \in PCs
    BY DEF AfterStart, PCs
  <2> QED
    BY <1>6, <2>1, <2>2, ControlPoints DEF ExecWake, TypeOK
<1>7. ASSUME ExecStop PROVE TypeOK'
  <2>1. sys' \in System
    BY <1>7, CycleStopType DEF ExecStop, TypeOK
  <2>2. motion' \in Motion /\ Len(motion'.queue) <= QueueSize
    BY <1>7, OffTypes, SizesAssumption DEF ExecStop, TypeOK
  <2> QED
    BY <1>7, <2>1, <2>2, ControlPoints DEF ExecStop, TypeOK, PCs
<1>8. ASSUME ExecFinish PROVE TypeOK'
  <2>1. Overrides.sys \in System /\ Overrides.gc \in Condition /\ Overrides.out \in Condition
    <3>1. SpindleOverride(sys, accessory) \in System
      BY OverrideType DEF TypeOK
    <3>2. ToggleCoolant(gc.coolant, accessory) \in SUBSET Coolants
      BY DEF ToggleCoolant, TypeOK, Condition
    <3>3. CoolantSetState(sys, out.coolant, ToggleCoolant(gc.coolant, accessory))
             \in SUBSET Coolants
      BY <3>2 DEF CoolantSetState, TypeOK, Condition
    <3> QED
      BY <3>1, <3>2, <3>3 DEF Overrides, TypeOK, Condition
  <2>2. /\ sys' \in System /\ motion' \in Motion
        /\ Len(motion'.queue) <= QueueSize
    <3>1. CASE sys.state \in Reloads
      <4>1. PICK p \in Prep(Overrides.sys, motion) : sys' = p.sys /\ motion' = p.motion
        BY <1>8, <3>1 DEF ExecFinish
      <4>2. Len(motion.queue) \in Nat /\ Len(p.motion.queue) \in Nat
        BY <2>1, <4>1, PrepType, LenProperties DEF TypeOK, Motion
      <4> QED
        BY <2>1, <4>1, <4>2, PrepType, SizesAssumption DEF TypeOK
    <3>2. CASE sys.state \notin Reloads
      BY <1>8, <2>1, <3>2 DEF ExecFinish, TypeOK
    <3> QED
      BY <3>1, <3>2
  <2>3. main' \in Main
    BY <1>8 DEF ExecFinish, TypeOK, Main, PCs, SysReturns
  <2> QED
    BY <1>8, <2>1, <2>2, <2>3 DEF ExecFinish, TypeOK
<1> QED
  BY <1>1, <1>2, <1>3, <1>4, <1>5, <1>6, <1>7, <1>8 DEF RtSystem

LEMMA RtSuspendType ==
  ASSUME TypeOK, RtSuspend
  PROVE  TypeOK'
<1> USE DEF At
<1>1. Off \in Condition
  BY DEF Off, SpindleSetState, CoolantSetState, TypeOK, Condition
<1>2. ASSUME ExecReturn PROVE TypeOK'
  <2>1. (IF motion.queue = <<>> THEN gc ELSE Head(motion.queue)) \in Condition
    BY HeadTailProperties DEF TypeOK, Motion
  <2>2. \A r \in Condition : [main EXCEPT !.pc = "suspend", !.restore = r] \in Main
    BY DEF TypeOK, Main, PCs, SysReturns
  <2>3. main' \in Main
    BY <1>2, <2>1, <2>2, ControlPoints DEF ExecReturn, TypeOK
  <2> QED
    BY <1>2, <2>3 DEF ExecReturn, TypeOK
<1>3. ASSUME SuspendEnd PROVE TypeOK'
  BY <1>3, ControlPoints DEF SuspendEnd, TypeOK
<1>4. ASSUME SuspendWait PROVE TypeOK'
  BY <1>4, ControlPoints DEF SuspendWait, TypeOK, SysReturns
<1>5. ASSUME Park PROVE TypeOK'
  <2>1. sys' \in System
    BY <1>5, SuspendType DEF Park, TypeOK
  <2> QED
    BY <1>1, <1>5, <2>1, ControlPoints DEF Park, TypeOK, SysReturns
<1>6. ASSUME EnterSleep PROVE TypeOK'
  <2>1. motion' \in Motion /\ motion'.queue = motion.queue
    BY <1>6 DEF EnterSleep, TypeOK, Motion
  <2>2. hist' \in [killed : BOOLEAN, asked : BOOLEAN]
    BY <1>6 DEF EnterSleep, TypeOK, Motion
  <2> QED
    BY <1>1, <1>6, <2>1, <2>2, ControlPoints DEF EnterSleep, TypeOK, SysReturns
<1>7. ASSUME Sleep PROVE TypeOK'
  BY <1>7, ControlPoints DEF Sleep, TypeOK, SysReturns
<1>8. ASSUME Parked PROVE TypeOK'
  <2>1. sys' \in System
    BY <1>8 DEF Parked, TypeOK, System
  <2> QED
    BY <1>8, <2>1, ControlPoints DEF Parked, TypeOK, SysReturns, PCs
<1>9. ASSUME RestoreSpindle PROVE TypeOK'
  <2>1. out' \in Condition
    BY <1>9 DEF RestoreSpindle, SpindleSetState, TypeOK, Condition, Main
  <2> QED
    BY <1>9, <2>1, ControlPoints DEF RestoreSpindle, TypeOK, SysReturns, PCs
<1>10. ASSUME RestoreCoolant PROVE TypeOK'
  <2>1. out' \in Condition
    BY <1>10 DEF RestoreCoolant, RestoredCoolant, CoolantSetState, TypeOK, Condition, Main
  <2> QED
    BY <1>10, <2>1, ControlPoints DEF RestoreCoolant, TypeOK, SysReturns, PCs
<1>11. ASSUME SpindleDelay \/ CoolantDelay PROVE TypeOK'
  BY <1>11, ControlPoints DEF SpindleDelay, CoolantDelay, Delay, TypeOK, SysReturns, PCs
<1>12. ASSUME RestoreDone PROVE TypeOK'
  <2>1. sys' \in System
    BY <1>12 DEF RestoreDone, TypeOK, System, SuspendFlags
  <2> QED
    BY <1>12, <2>1, ControlPoints DEF RestoreDone, TypeOK, SysReturns, ExecFlags
<1>13. ASSUME HoldManager PROVE TypeOK'
  <2>1. sys' \in System
    BY <1>13, SuspendType DEF HoldManager, TypeOK
  <2>2. out' \in Condition
    <3>1. HoldSpindle(sys, gc, out.spindle, main.restore) \in BOOLEAN
      BY HoldSpindleType DEF TypeOK, Condition, Main
    <3> QED
      BY <1>13, <3>1 DEF HoldManager, TypeOK, Condition
  <2> QED
    BY <1>13, <2>1, <2>2, ControlPoints DEF HoldManager, TypeOK, SysReturns, ExecFlags
<1> QED
  BY <1>2, <1>3, <1>4, <1>5, <1>6, <1>7, <1>8, <1>9, <1>10, <1>11, <1>12, <1>13
  DEF RtSuspend

LEMMA MainLoopType ==
  ASSUME TypeOK, MainLoop
  PROVE  TypeOK'
<1> USE DEF At
<1>1. ASSUME Boot \/ BootReset PROVE TypeOK'
  <2>1. Cleared(sys.state) \in System
    BY DEF Cleared, TypeOK, System
  <2>2. hist' \in [killed : BOOLEAN, asked : BOOLEAN]
    BY <1>1 DEF Boot, BootReset, TypeOK, Motion
  <2> QED
    BY <1>1, <2>1, <2>2, OffTypes, SizesAssumption, ControlPoints
    DEF Boot, BootReset, TypeOK, Alarms, PCs
<1>2. ASSUME MainStart PROVE TypeOK'
  <2>1. sys' \in System
    BY <1>2 DEF MainStart, TypeOK, System, States
  <2>2. [main EXCEPT !.pc = "doorFlag", !.rt = exec] \in Main
    BY DEF TypeOK, Main, PCs
  <2> QED
    BY <1>2, <2>1, <2>2, ControlPoints DEF MainStart, TypeOK
<1>3. ASSUME DoorFlag PROVE TypeOK'
  <2>1. [Exec("loop") EXCEPT !.rt = {}] \in Main
    BY DEF Exec, TypeOK, Main, PCs, SysReturns, ExecReturns
  <2> QED
    BY <1>3, <2>1 DEF DoorFlag, TypeOK, Main, ExecFlags, HoldFlags
<1>4. ASSUME NEW line \in Lines, ReadLine(line) PROVE TypeOK'
  <2>1. [Exec("eol") EXCEPT !.line = line] \in Main
    BY DEF Exec, TypeOK, Main, PCs, SysReturns, ExecReturns
  <2> QED
    BY <1>4, <2>1 DEF ReadLine, TypeOK
<1>5. ASSUME Idle \/ Sync \/ WaitForRoom PROVE TypeOK'
  BY <1>5, ControlPoints
  DEF Idle, Sync, WaitForRoom, AutoCycleStart, TypeOK, ExecReturns, ExecFlags
<1>6. ASSUME LoopEnd PROVE TypeOK'
  <2>1. [GoTo("boot") EXCEPT !.line = "none"] \in Main
    BY DEF GoTo, TypeOK, Main, PCs
  <2> QED
    BY <1>6, <2>1, ControlPoints DEF LoopEnd, TypeOK
<1>7. ASSUME LineStart PROVE TypeOK'
  <2>1. CASE RefuseLine \/ StartMove
    BY <2>1, ControlPoints DEF RefuseLine, StartMove, TypeOK, PCs
  <2>2. CASE StateCommand
    <3>1. sys' \in System
      BY <2>2 DEF StateCommand, TypeOK, System, States
    <3>2. hist' \in [killed : BOOLEAN, asked : BOOLEAN]
      BY <2>2 DEF StateCommand, TypeOK
    <3> QED
      BY <2>2, <3>1, <3>2, ControlPoints DEF StateCommand, TypeOK
  <2>3. CASE LeaveCheckMode
    BY <2>3, McResetType, ControlPoints DEF LeaveCheckMode, TypeOK
  <2>4. CASE SleepCommand
    BY <2>4, ControlPoints DEF SleepCommand, TypeOK, ExecFlags, HoldFlags
  <2>5. CASE StartAccessory
    <3>1. main.line \in {"M3", "M5", "M7", "M8", "M9"}
      BY <2>5 DEF StartAccessory, GCodeLines, Moves
    <3>2. BlockModal \in Condition
      BY <3>1 DEF BlockModal, TypeOK, Condition, Coolants
    <3>3. [GoTo("gcSpindle") EXCEPT !.block = BlockModal] \in Main
      BY <3>2 DEF GoTo, TypeOK, Main, PCs
    <3> QED
      BY <2>5, <3>3 DEF StartAccessory, TypeOK
  <2> QED
    BY <1>7, <2>1, <2>2, <2>3, <2>4, <2>5 DEF LineStart
<1>8. ASSUME McLine PROVE TypeOK'
  <2>1. sys' \in System
    BY <1>8 DEF McLine, TypeOK, System
  <2>2. main' \in Main
    BY <1>8, ControlPoints, ZenonT(40) DEF McLine, TypeOK, PCs, ExecReturns
  <2>3. exec' \in SUBSET ExecFlags
    BY <1>8 DEF McLine, TypeOK, ExecFlags, HoldFlags
  <2> QED
    BY <1>8, <2>1, <2>2, <2>3 DEF McLine, TypeOK
<1>9. ASSUME SoftWait PROVE TypeOK'
  BY <1>9, ControlPoints DEF SoftWait, TypeOK, PCs, ExecReturns
<1>10. ASSUME SoftReset PROVE TypeOK'
  <2>1. motion' \in Motion /\ motion'.queue = motion.queue
    BY <1>10 DEF SoftReset, InMotion, TypeOK, Motion
  <2>2. hist' \in [killed : BOOLEAN, asked : BOOLEAN]
    BY <1>10 DEF SoftReset, TypeOK, Motion
  <2> QED
    BY <1>10, <2>1, <2>2, OffTypes, ControlPoints
    DEF SoftReset, TypeOK, Alarms, ExecReturns, ExecFlags
<1>11. ASSUME PlanBufferLine PROVE TypeOK'
  <2>1. motion' \in Motion /\ Len(motion'.queue) <= QueueSize
    <3>1. motion.queue \in Seq(Condition) /\ Len(motion.queue) \in Nat /\ gc \in Condition
      BY LenProperties DEF TypeOK, Motion
    <3>2. /\ Append(motion.queue, gc) \in Seq(Condition)
          /\ Len(Append(motion.queue, gc)) = Len(motion.queue) + 1
      BY <3>1, AppendProperties
    <3>3. CASE sys.abort
      BY <1>11, <3>3 DEF PlanBufferLine, TypeOK
    <3>4. CASE ~sys.abort
      <4>1. motion' = [motion EXCEPT !.queue = Append(@, gc)] /\ Len(motion.queue) < QueueSize
        BY <1>11, <3>4 DEF PlanBufferLine, Room
      <4>2. motion'.queue = Append(motion.queue, gc) /\ motion' \in Motion
        BY <3>2, <4>1 DEF TypeOK, Motion
      <4>3. Len(motion.queue) + 1 <= QueueSize
        BY <3>1, <4>1, SizesAssumption
      <4> QED
        BY <3>2, <4>2, <4>3
    <3> QED
      BY <3>3, <3>4
  <2> QED
    BY <1>11, <2>1, ControlPoints DEF PlanBufferLine, TypeOK, PCs
<1>12. ASSUME Moved PROVE TypeOK'
  <2>1. sys' \in System
    BY <1>12 DEF Moved, TypeOK, System, States
  <2>2. main' \in Main
    <3>1. main' \in {GoTo("jogWake"), SyncThen("applyFlow"), NextLine}
      BY <1>12 DEF Moved
    <3> QED
      BY <3>1, ControlPoints DEF TypeOK, PCs, SyncReturns
  <2> QED
    BY <1>12, <2>1, <2>2 DEF Moved, TypeOK
<1>13. ASSUME JogWake PROVE TypeOK'
  <2>1. PICK p \in Prep(sys, motion) :
           sys' = p.sys /\ motion' = [p.motion EXCEPT !.on = TRUE]
    BY <1>13 DEF JogWake, PrepAndWake
  <2>2. Len(motion.queue) \in Nat /\ Len(p.motion.queue) \in Nat
    BY <2>1, PrepType, LenProperties DEF TypeOK, Motion
  <2>3. /\ p.sys \in System /\ p.motion \in Motion
        /\ Len(p.motion.queue) <= Len(motion.queue)
    BY <2>1, PrepType DEF TypeOK
  <2>4. motion' \in Motion /\ motion'.queue = p.motion.queue
    BY <2>1, <2>3 DEF Motion
  <2>5. Len(p.motion.queue) <= QueueSize
    BY <2>2, <2>3, SizesAssumption DEF TypeOK
  <2> QED
    BY <1>13, <2>1, <2>3, <2>4, <2>5, ControlPoints DEF JogWake, TypeOK
<1>14. ASSUME Synced PROVE TypeOK'
  <2>1. [GoTo(main.after) EXCEPT !.after = "applyFlow"] \in Main
    BY DEF GoTo, TypeOK, Main, PCs, SyncReturns
  <2> QED
    BY <1>14, <2>1, ControlPoints DEF Synced, TypeOK, ExecReturns
<1>15. ASSUME GcSpindle \/ ApplySpindle PROVE TypeOK'
  <2>1. gc' \in Condition /\ out' \in Condition
    BY <1>15 DEF GcSpindle, ApplySpindle, SpindleSetState, TypeOK, Main, Condition
  <2> QED
    BY <1>15, <2>1, ControlPoints DEF GcSpindle, ApplySpindle, TypeOK, PCs, SyncReturns
<1>16. ASSUME GcCoolant \/ ApplyCoolant PROVE TypeOK'
  <2>1. Coolant \in SUBSET Coolants
    BY DEF Coolant, TypeOK, Main, Condition
  <2>2. gc' \in Condition /\ out' \in Condition
    BY <1>16, <2>1 DEF GcCoolant, ApplyCoolant, CoolantSetState, TypeOK, Main, Condition
  <2> QED
    BY <1>16, <2>2, ControlPoints DEF GcCoolant, ApplyCoolant, TypeOK, SyncReturns
<1>17. ASSUME ApplyFlow PROVE TypeOK'
  <2>1. [Exec("loop") EXCEPT !.line = "none"] \in Main
    BY DEF Exec, TypeOK, Main, PCs, SysReturns, ExecReturns
  <2> QED
    BY <1>17, <2>1, ControlPoints DEF ApplyFlow, TypeOK, ExecFlags, HoldFlags
<1> QED
  BY <1>1, <1>2, <1>3, <1>4, <1>5, <1>6, <1>7, <1>8, <1>9, <1>10, <1>11, <1>12, <1>13,
     <1>14, <1>15, <1>16, <1>17
  DEF MainLoop

LEMMA InitType == Init => TypeOK
<1> SUFFICES ASSUME Init PROVE TypeOK
  OBVIOUS
<1>1. sys \in System
  BY DEF Init, Cleared, System, States
<1>2. main \in Main
  BY OffTypes DEF Init, Main, PCs, SysReturns, ExecReturns, SyncReturns
<1> QED
  BY <1>1, <1>2, OffTypes, SizesAssumption DEF Init, TypeOK, Alarms

\* Type correctness, for every set of lines, commands and buttons and every
\* size of the two buffers: in particular the planner's ring is never
\* overfilled by a line that waited for room (motion_control.cpp:64-70).
THEOREM TypeCorrect == Spec => []TypeOK
<1>1. TypeOK /\ [Next]_vars => TypeOK'
  <2> SUFFICES ASSUME TypeOK, [Next]_vars PROVE TypeOK'
    OBVIOUS
  <2>1. CASE MainProgram
    BY <2>1, RtSystemType, RtSuspendType, MainLoopType DEF MainProgram
  <2>2. CASE Interrupts
    BY <2>2, InterruptsType
  <2>3. CASE UNCHANGED vars
    BY <2>3 DEF vars, TypeOK
  <2> QED
    BY <2>1, <2>2, <2>3 DEF Next
<1> QED
  BY <1>1, InitType, PTL DEF Spec

-----------------------------------------------------------------------------
(* Interrupts.                                                              *)

\* What an interrupt handler may do to what the main program reads: it raises
\* flags, but never the sleep flag, and switches off, never on.
LEMMA InterruptEffect ==
  ASSUME TypeOK, Interrupts
  PROVE  /\ sys' = sys /\ main' = main
         /\ exec \subseteq exec' /\ ("SLEEP" \in exec' => "SLEEP" \in exec)
         /\ \/ alarm' = alarm
            \/ /\ "RESET" \notin exec /\ "RESET" \in exec'
               /\ InMotion /\ alarm' = AbortAlarm
         /\ out' \in {out, AllOff}
         /\ motion'.on => motion.on
<1>1. McReset => /\ exec \subseteq exec' /\ ("SLEEP" \in exec' => "SLEEP" \in exec)
                 /\ \/ alarm' = alarm
                    \/ /\ "RESET" \notin exec /\ "RESET" \in exec'
                       /\ InMotion /\ alarm' = AbortAlarm
                 /\ out' \in {out, AllOff}
                 /\ motion'.on => motion.on
  BY DEF McReset, TypeOK, Motion
<1>2. ASSUME NEW button \in Buttons, ControlISR(button)
      PROVE  /\ sys' = sys /\ main' = main
             /\ McReset \/ ( /\ exec \subseteq exec' /\ ("SLEEP" \in exec' => "SLEEP" \in exec)
                             /\ alarm' = alarm /\ out' = out /\ motion' = motion)
  BY <1>2 DEF ControlISR, Raise
<1>3. ASSUME NEW c \in Commands, SerialRx(c)
      PROVE  /\ sys' = sys /\ main' = main
             /\ McReset \/ ( /\ exec \subseteq exec' /\ ("SLEEP" \in exec' => "SLEEP" \in exec)
                             /\ alarm' = alarm /\ out' = out /\ motion' = motion)
  BY <1>3 DEF SerialRx, Raise
<1>4. ASSUME StepperISR
      PROVE  /\ sys' = sys /\ main' = main
             /\ exec \subseteq exec' /\ ("SLEEP" \in exec' => "SLEEP" \in exec)
             /\ alarm' = alarm /\ out' = out /\ (motion'.on => motion.on)
  BY <1>4 DEF StepperISR
<1> QED
  BY <1>1, <1>2, <1>3, <1>4 DEF Interrupts

LEMMA InterruptsSafe ==
  ASSUME Inv, Interrupts
  PROVE  Safe'
<1> USE DEF Inv, Safe
<1>1. TypeOK
  OBVIOUS
<1>2. Control'
  <2>1. alarm' = "SOFT_LIMIT" => alarm = "SOFT_LIMIT"
    BY <1>1, InterruptEffect DEF AbortAlarm
  <2>2. alarm = "SOFT_LIMIT" /\ At("alarm") => alarm' = "SOFT_LIMIT"
    BY <1>1, InterruptEffect DEF Control, AlarmReset, At
  <2>3. At("doorFlag") => alarm' = alarm
    BY <1>1, InterruptEffect DEF Control, DoorFlagIdle, InMotion, Starting, At
  <2> QED
    BY <1>1, <2>1, <2>2, <2>3, InterruptEffect
    DEF Control, ReturnTaken, AbortPending, ResumedOutside, AlarmReset, DoorFlagIdle, SoftLimitAlarm,
        SoftLimitLeads, SleepFlagged, SleepTaken, AtRest, SleepHeld, WakesCycle,
        JogCancelled, ParkedStates, AlarmResumed, RestoreAsked, AsleepState, Restoring,
        Asleep, ResetNext, At
<1>3. (ParkedIsOff /\ RestoreNeedsClosedDoor /\ SleepIsOff)'
  BY <1>1, InterruptEffect DEF ParkedIsOff, RestoreNeedsClosedDoor, SleepIsOff, Asleep, At
<1> QED
  BY <1>2, <1>3

-----------------------------------------------------------------------------
(* What the executor's branches owe the invariant.                          *)

\* The invariant's facts about the structure alone.
Sound(s) ==
  /\ "JOG_CANCEL" \in s.suspend => s.state \in {"JOG", "ALARM"}
  /\ "RETRACT_COMPLETE" \in s.suspend => s.state \in {"SAFETY_DOOR", "SLEEP", "ALARM"}
  /\ "INITIATE_RESTORE" \in s.suspend => "RETRACT_COMPLETE" \in s.suspend
  /\ s.state = "ALARM" => s.suspend = {}
  /\ s.state = "SLEEP" => "HOLD_COMPLETE" \in s.suspend /\ ~s.soft_limit
  /\ s.state = "SAFETY_DOOR" /\ "INITIATE_RESTORE" \in s.suspend =>
        "SAFETY_DOOR_AJAR" \notin s.suspend

ParkedIn(s) == s.state = "SAFETY_DOOR" /\ "RETRACT_COMPLETE" \in s.suspend

\* `t` is no more parked than `s` is, and asks for a restore if `s` does.
Keeps(s, t) ==
  /\ t.abort = s.abort /\ t.soft_limit = s.soft_limit
  /\ ParkedIn(t) => ParkedIn(s)
  /\ ParkedIn(t) /\ "INITIATE_RESTORE" \in s.suspend => "INITIATE_RESTORE" \in t.suspend

\* Each step of the hold group; the alarm state takes no part in them.
LEMMA HoldStepsSound ==
  ASSUME NEW s \in System, NEW rt \in SUBSET ExecFlags, Sound(s), s.state # "ALARM"
  PROVE  /\ LET t == InitiateHold(s, rt) IN Sound(t) /\ Keeps(s, t) /\ t.state = s.state
         /\ LET t == HoldAtRest(s) IN Sound(t) /\ Keeps(s, t) /\ t.state = s.state
         /\ LET t == CancelMotion(s, rt) IN Sound(t) /\ Keeps(s, t) /\ t.state = s.state
         /\ LET t == FeedHold(s, rt)
            IN Sound(t) /\ Keeps(s, t) /\ t.state \in {s.state, "HOLD"}
                 /\ (s.state = "SLEEP" => t.state = "SLEEP")
         /\ LET t == DoorOpened(s, rt)
            IN Sound(t) /\ Keeps(s, t) /\ t.state \in {s.state, "SAFETY_DOOR"}
                 /\ (s.state = "SLEEP" => t.state = "SLEEP")
<1> USE DEF Sound, Keeps, ParkedIn, System
<1>1. LET t == InitiateHold(s, rt) IN Sound(t) /\ Keeps(s, t) /\ t.state = s.state
  BY DEF InitiateHold
<1>2. LET t == HoldAtRest(s) IN Sound(t) /\ Keeps(s, t) /\ t.state = s.state
  BY DEF HoldAtRest
<1>3. LET t == CancelMotion(s, rt) IN Sound(t) /\ Keeps(s, t) /\ t.state = s.state
  BY DEF CancelMotion
<1>4. LET t == FeedHold(s, rt)
      IN Sound(t) /\ Keeps(s, t) /\ t.state \in {s.state, "HOLD"}
           /\ (s.state = "SLEEP" => t.state = "SLEEP")
  BY DEF FeedHold
<1>5. LET t == DoorOpened(s, rt)
      IN Sound(t) /\ Keeps(s, t) /\ t.state \in {s.state, "SAFETY_DOOR"}
           /\ (s.state = "SLEEP" => t.state = "SLEEP")
  BY DEF DoorOpened, RestartRetract, EnterDoor
<1> QED
  BY <1>1, <1>2, <1>3, <1>4, <1>5

LEMMA HoldGroupSound ==
  ASSUME NEW s \in System, NEW rt \in SUBSET ExecFlags, Sound(s),
         "SLEEP" \in rt => s.state \in {"IDLE", "ALARM"} /\ s.suspend = {} /\ ~s.soft_limit
  PROVE  /\ Sound(HoldGroup(s, rt)) /\ Keeps(s, HoldGroup(s, rt))
         /\ s.state = "SLEEP" => HoldGroup(s, rt).state = "SLEEP"
         /\ HoldGroup(s, rt).state = "ALARM" => s.state = "ALARM"
<1> DEFINE a == InitiateHold(s, rt)
           b == HoldAtRest(a)
           c == CancelMotion(b, rt)
           d == FeedHold(c, rt)
           e == DoorOpened(d, rt)
<1>1. CASE s.state = "ALARM"
  BY <1>1 DEF HoldGroup, FallAsleep, Sound, Keeps, ParkedIn, System
<1>2. CASE "SLEEP" \in rt /\ s.state = "IDLE"
  <2>1. a = s
    BY <1>2 DEF InitiateHold
  <2>2. b \in System /\ b.state = "IDLE" /\ b.suspend = {"HOLD_COMPLETE"}
        /\ b.abort = s.abort /\ b.soft_limit = s.soft_limit
    BY <1>2, <2>1 DEF HoldAtRest, System, SuspendFlags
  <2>3. c \in System /\ c.state = "IDLE" /\ c.suspend \in {{"HOLD_COMPLETE"}, {"HOLD_COMPLETE", "MOTION_CANCEL"}}
        /\ c.abort = s.abort /\ c.soft_limit = s.soft_limit
    BY <2>2 DEF CancelMotion, System, SuspendFlags
  <2>4. d \in System /\ d.state \in {"IDLE", "HOLD"} /\ d.suspend = c.suspend
        /\ d.abort = s.abort /\ d.soft_limit = s.soft_limit
    BY <2>3 DEF FeedHold, System, States
  <2>5. e \in System /\ e.state # "ALARM" /\ "HOLD_COMPLETE" \in e.suspend
        /\ e.suspend \subseteq {"HOLD_COMPLETE", "MOTION_CANCEL", "SAFETY_DOOR_AJAR"}
        /\ e.abort = s.abort /\ e.soft_limit = s.soft_limit
    BY <2>3, <2>4 DEF DoorOpened, RestartRetract, EnterDoor, System, States, SuspendFlags
  <2>6. HoldGroup(s, rt) = [e EXCEPT !.state = "SLEEP"]
    BY <1>2, <2>5 DEF HoldGroup, FallAsleep, System
  <2> HIDE DEF e
  <2> QED
    BY <1>2, <2>5, <2>6 DEF Sound, Keeps, ParkedIn, System
<1>3. CASE "SLEEP" \notin rt /\ s.state # "ALARM"
  <2>1. a \in System /\ Sound(a) /\ Keeps(s, a) /\ a.state = s.state
    BY <1>3, HoldStepsSound, InitiateHoldType
  <2>2. b \in System /\ Sound(b) /\ Keeps(a, b) /\ b.state = s.state
    BY <1>3, <2>1, HoldStepsSound, HoldStepsType
  <2>3. c \in System /\ Sound(c) /\ Keeps(b, c) /\ c.state = s.state
    BY <1>3, <2>2, HoldStepsSound, HoldStepsType
  <2>4. /\ d \in System /\ Sound(d) /\ Keeps(c, d)
        /\ d.state # "ALARM" /\ (s.state = "SLEEP" => d.state = "SLEEP")
    BY <1>3, <2>3, HoldStepsSound, HoldStepsType
  <2>5. /\ e \in System /\ Sound(e) /\ Keeps(d, e)
        /\ e.state # "ALARM" /\ (s.state = "SLEEP" => e.state = "SLEEP")
    BY <1>3, <2>4, HoldStepsSound, DoorOpenedType
  <2>6. HoldGroup(s, rt) \in {e, s}
    BY <1>3 DEF HoldGroup, FallAsleep
  <2> HIDE DEF a, b, c, d, e
  <2>7. Keeps(s, e)
    BY <2>1, <2>2, <2>3, <2>4, <2>5 DEF Keeps
  <2> QED
    BY <1>3, <2>5, <2>6, <2>7 DEF Keeps
<1> QED
  BY <1>1, <1>2, <1>3

LEMMA CycleStartSound ==
  ASSUME NEW s \in System, NEW rt \in SUBSET ExecFlags, NEW queued \in BOOLEAN, Sound(s)
  PROVE  /\ Sound(CycleStart(s, rt, queued)) /\ Keeps(s, CycleStart(s, rt, queued))
         /\ s.state \in {"ALARM", "SLEEP"} => CycleStart(s, rt, queued) = s
BY DEF Sound, Keeps, ParkedIn, CycleStart, DoorResume, MayStart, ResumeCycle, System, StartBlockers

LEMMA CycleStopSound ==
  ASSUME NEW s \in System, Sound(s)
  PROVE  /\ Sound(CycleStop(s)) /\ Keeps(s, CycleStop(s))
         /\ s.state = "SLEEP" => CycleStop(s).state = "SLEEP"
         /\ CycleStop(s).state # "ALARM"
BY DEF Sound, Keeps, ParkedIn, CycleStop, HoldReached, MotionEnded, System

LEMMA SnapshotSound ==
  ASSUME Inv, main.pc \in Snapshot
  PROVE  Sound(sys) /\ ~sys.abort
BY DEF Inv, Safe, Control, AbortPending, JogCancelled, ParkedStates, AlarmResumed, SleepHeld,
       RestoreNeedsClosedDoor, Sound, Snapshot, Starting, ResetNext, At

\* Preparing segments and taking the overrides leaves what the invariant reads.
LEMMA PrepStepEffect ==
  ASSUME TypeOK, ExecWake \/ ExecFinish \/ JogWake
  PROVE  /\ sys'.state = sys.state /\ sys'.abort = sys.abort
         /\ sys'.suspend = sys.suspend /\ sys'.soft_limit = sys.soft_limit
         /\ ExecFinish => motion'.on = motion.on
<1>1. sys \in System /\ motion \in Motion /\ accessory \in SUBSET AccessoryFlags
  BY DEF TypeOK
<1>2. CASE ExecWake \/ JogWake
  <2>1. PICK p \in Prep(sys, motion) : sys' = p.sys
    BY <1>2 DEF ExecWake, JogWake, PrepAndWake
  <2>2. ~ExecFinish
    BY <1>2 DEF ExecWake, JogWake, ExecFinish, At
  <2> QED
    BY <1>1, <2>1, <2>2, PrepType
<1>3. CASE ExecFinish
  <2>1. LET s == Overrides.sys
        IN /\ s \in System /\ s.state = sys.state /\ s.abort = sys.abort
           /\ s.suspend = sys.suspend /\ s.soft_limit = sys.soft_limit
    BY <1>1, OverrideType
    DEF Overrides, SpindleOverride, SpindleSpeedOverride, SpindleStopOverride, System
  <2>2. CASE sys.state \in Reloads
    <3>1. PICK p \in Prep(Overrides.sys, motion) : sys' = p.sys /\ motion' = p.motion
      BY <1>3, <2>2 DEF ExecFinish
    <3> QED
      BY <1>1, <2>1, <3>1, PrepType
  <2>3. CASE sys.state \notin Reloads
    BY <1>3, <2>1, <2>3 DEF ExecFinish
  <2> QED
    BY <2>2, <2>3
<1> QED
  BY <1>2, <1>3

-----------------------------------------------------------------------------
(* The executor.                                                            *)

LEMMA RtSystemSafe ==
  ASSUME Inv, RtSystem
  PROVE  Safe'
<1> USE DEF Inv, Safe, Control, ReturnTaken, AbortPending, ResumedOutside, AlarmReset, DoorFlagIdle,
        SoftLimitAlarm, SoftLimitLeads, SleepFlagged, SleepTaken, AtRest, SleepHeld, WakesCycle,
        JogCancelled, ParkedStates, AlarmResumed, RestoreAsked, AsleepState, Restoring,
        Asleep, ResetNext, At, ParkedIsOff, RestoreNeedsClosedDoor, SleepIsOff,
        Snapshot, Executing, RestorePCs, SuspendPCs, Inside, Starting,
        GoTo, TypeOK, Main, PCs, SysReturns, ExecReturns, SyncReturns, System
<1>1. CASE AlarmCopy
  BY <1>1 DEF AlarmCopy
<1>2. CASE Critical
  BY <1>2 DEF Critical
<1>3. CASE FlagCopy
  <2>1. CASE "RESET" \in exec
    <3>1. /\ main'.pc = main.ret /\ main'.ret = "exec" /\ main'.cont = main.cont /\ At("copy")
          /\ UNCHANGED <<exec, alarm, out, motion>>
      BY <1>3, <2>1 DEF FlagCopy
    <3>2. /\ sys'.abort /\ sys'.state = sys.state /\ sys'.suspend = sys.suspend
          /\ sys'.soft_limit = sys.soft_limit /\ main.ret \in SysReturns
      BY <1>3, <2>1 DEF FlagCopy
    <3>3. Control'
      BY <2>1, <3>1, <3>2, SMTT(20)
    <3>4. (ParkedIsOff /\ RestoreNeedsClosedDoor /\ SleepIsOff)'
      BY <2>1, <3>1, <3>2
    <3> QED
      BY <3>3, <3>4
  <2>2. CASE "RESET" \notin exec
    <3>1. main'.pc \in Snapshot \ {"wake"} /\ ("SLEEP" \in exec => main'.pc = "hold")
      BY <1>3, <2>2, ZenonT(40) DEF FlagCopy, AfterCopy, AfterHold, AfterStart, HoldFlags
    <3>2. /\ UNCHANGED <<exec, alarm, sys, out, motion>> /\ main'.rt = exec
          /\ main'.ret = main.ret /\ main'.cont = main.cont /\ ~sys.abort
      BY <1>3, <2>2 DEF FlagCopy
    <3> QED
      BY <1>3, <2>2, <3>1, <3>2 DEF FlagCopy
  <2> QED
    BY <2>1, <2>2
<1>4. CASE ExecHold
  BY <1>4, SnapshotSound, HoldGroupSound DEF ExecHold, AfterHold, AfterStart, Sound, Keeps, ParkedIn, HoldFlags
<1>5. CASE ExecStart
  <2>1. sys' = CycleStart(sys, main.rt, motion.queue # <<>>) /\ Sound(sys) /\ ~sys.abort
    BY <1>5, SnapshotSound DEF ExecStart
  <2>2. /\ Sound(sys') /\ Keeps(sys, sys')
        /\ sys.state \in {"ALARM", "SLEEP"} => sys' = sys
    BY <2>1, CycleStartSound
  <2>3. /\ main'.pc \in {"wake", "stop", "finish"} /\ (main'.pc = "wake" => sys'.state = "CYCLE")
        /\ main'.ret = main.ret /\ main'.cont = main.cont /\ main'.rt = main.rt
        /\ UNCHANGED <<alarm, out, motion>>
        /\ exec' \in {exec, exec \ {"CYCLE_START"}}
    BY <1>5 DEF ExecStart, AfterStart, Started
  <2>4. sys'.state = "ALARM" => sys = sys'
    BY <2>1 DEF CycleStart, DoorResume, MayStart, ResumeCycle
  <2> QED
    BY <1>5, <2>1, <2>2, <2>3, <2>4 DEF Sound, Keeps, ParkedIn, ExecStart
<1>6. CASE ExecWake
  BY <1>6, PrepStepEffect DEF ExecWake, AfterStart
<1>7. CASE ExecStop
  BY <1>7, SnapshotSound, CycleStopSound DEF ExecStop, Sound, Keeps, ParkedIn, Still
<1>8. CASE ExecFinish
  <2>1. /\ sys'.state = sys.state /\ sys'.abort = sys.abort /\ sys'.suspend = sys.suspend
        /\ sys'.soft_limit = sys.soft_limit /\ motion'.on = motion.on
    BY <1>8, PrepStepEffect
  <2>2. sys.state \in {"SAFETY_DOOR", "SLEEP"} => out' = out
    BY <1>8 DEF ExecFinish, Overrides, ToggleAllowed
  <2>3. /\ main'.pc = main.ret /\ main'.ret = "exec" /\ main'.cont = main.cont
        /\ exec' = exec /\ alarm' = alarm /\ At("finish")
    BY <1>8 DEF ExecFinish
  <2> QED
    BY <2>1, <2>2, <2>3
<1> QED
  BY <1>1, <1>2, <1>3, <1>4, <1>5, <1>6, <1>7, <1>8 DEF RtSystem

-----------------------------------------------------------------------------
(* The suspend loop.                                                        *)

\* A step of the restore sequence that leaves the flags alone, whatever it does
\* to the outputs: it stays in the sequence or polls the executor.
LEMMA RestoreStep ==
  ASSUME Inv, main.pc \in RestorePCs,
         sys' = sys, exec' = exec, alarm' = alarm, motion' = motion,
         main'.cont = main.cont, main'.rt = main.rt,
         \/ main'.pc \in RestorePCs /\ main'.ret = main.ret
         \/ main'.pc = "alarm" /\ main'.ret \in {"spindleDelay", "coolantDelay"}
  PROVE  Safe'
<1> USE DEF Inv, Safe, Control, ReturnTaken, AbortPending, ResumedOutside, AlarmReset, DoorFlagIdle,
        SoftLimitAlarm, SoftLimitLeads, SleepFlagged, SleepTaken, AtRest, SleepHeld, WakesCycle,
        JogCancelled, ParkedStates, AlarmResumed, RestoreAsked, AsleepState, Restoring,
        Asleep, ResetNext, At, ParkedIsOff, RestoreNeedsClosedDoor, SleepIsOff,
        Snapshot, Executing, RestorePCs, SuspendPCs, Inside, Starting
<1>1. Control'
  OBVIOUS
<1>2. (ParkedIsOff /\ RestoreNeedsClosedDoor /\ SleepIsOff)'
  BY SMTT(20)
<1> QED
  BY <1>1, <1>2

LEMMA RtSuspendSafe ==
  ASSUME Inv, RtSuspend
  PROVE  Safe'
<1> USE DEF Inv, Safe, Control, ReturnTaken, AbortPending, ResumedOutside, AlarmReset, DoorFlagIdle,
        SoftLimitAlarm, SoftLimitLeads, SleepFlagged, SleepTaken, AtRest, SleepHeld, WakesCycle,
        JogCancelled, ParkedStates, AlarmResumed, RestoreAsked, AsleepState, Restoring,
        Asleep, ResetNext, At, ParkedIsOff, RestoreNeedsClosedDoor, SleepIsOff,
        Snapshot, Executing, RestorePCs, SuspendPCs, Inside, Starting,
        GoTo, Return, SysPass, TypeOK, Main, PCs, SysReturns, ExecReturns, SyncReturns, System
<1>1. ~sys.abort => Off = AllOff
  BY DEF Off, AllOff, SpindleSetState, CoolantSetState
<1>2. CASE ExecReturn
  <2>1. CASE sys.suspend = {} \/ sys.abort
    <3>1. /\ main'.pc = main.cont /\ main'.ret = main.ret /\ main'.cont = "loop"
          /\ UNCHANGED <<exec, alarm, sys, out, motion>> /\ At("exec")
      BY <1>2, <2>1, ZenonT(40) DEF ExecReturn
    <3>2. Control'
      BY <2>1, <3>1, SMTT(20)
    <3>3. (ParkedIsOff /\ RestoreNeedsClosedDoor /\ SleepIsOff)'
      BY <2>1, <3>1
    <3> QED
      BY <3>2, <3>3
  <2>2. CASE sys.suspend # {} /\ ~sys.abort
    <3>1. /\ main'.pc = "suspend" /\ main'.ret = main.ret /\ main'.cont = main.cont
          /\ UNCHANGED <<exec, alarm, sys, out, motion>> /\ At("exec")
      BY <1>2, <2>2 DEF ExecReturn
    <3> QED
      BY <2>2, <3>1
  <2> QED
    BY <2>1, <2>2
<1>3. CASE SuspendEnd
  BY <1>3 DEF SuspendEnd
<1>4. CASE SuspendWait
  BY <1>4 DEF SuspendWait, Held
<1>5. CASE Park
  BY <1>1, <1>5 DEF Park, Held, Parking, Retracted
<1>6. CASE EnterSleep
  BY <1>1, <1>6 DEF EnterSleep, Held, Motion
<1>7. CASE Sleep
  BY <1>7 DEF Sleep
<1>8. CASE Parked
  BY <1>8 DEF Parked, Held
<1>9. CASE RestoreSpindle
  <2>1. /\ main.pc \in RestorePCs /\ UNCHANGED <<sys, exec, alarm, motion>>
        /\ main'.cont = main.cont /\ main'.rt = main.rt
        /\ \/ main'.pc = "restoreCoolant" /\ main'.ret = main.ret
           \/ main'.pc = "alarm" /\ main'.ret = "spindleDelay"
    BY <1>9, ZenonT(40) DEF RestoreSpindle
  <2> QED
    BY <2>1, RestoreStep
<1>10. CASE SpindleDelay
  <2>1. /\ main.pc \in RestorePCs /\ UNCHANGED <<sys, exec, alarm, motion>>
        /\ main'.cont = main.cont /\ main'.rt = main.rt
        /\ \/ main'.pc = "restoreCoolant" /\ main'.ret = main.ret
           \/ main'.pc = "alarm" /\ main'.ret = "spindleDelay"
    BY <1>10, ZenonT(40) DEF SpindleDelay, Delay
  <2> QED
    BY <2>1, RestoreStep
<1>11. CASE RestoreCoolant
  <2>1. /\ main.pc \in RestorePCs /\ UNCHANGED <<sys, exec, alarm, motion>>
        /\ main'.cont = main.cont /\ main'.rt = main.rt
        /\ \/ main'.pc = "restoreDone" /\ main'.ret = main.ret
           \/ main'.pc = "alarm" /\ main'.ret = "coolantDelay"
    BY <1>11, ZenonT(40) DEF RestoreCoolant
  <2> QED
    BY <2>1, RestoreStep
<1>12. CASE CoolantDelay
  <2>1. /\ main.pc \in RestorePCs /\ UNCHANGED <<sys, exec, alarm, motion>>
        /\ main'.cont = main.cont /\ main'.rt = main.rt
        /\ \/ main'.pc = "restoreDone" /\ main'.ret = main.ret
           \/ main'.pc = "alarm" /\ main'.ret = "coolantDelay"
    BY <1>12, ZenonT(40) DEF CoolantDelay, Delay
  <2> QED
    BY <2>1, RestoreStep
<1>13. CASE RestoreDone
  BY <1>13 DEF RestoreDone
<1>14. CASE HoldManager
  BY <1>14 DEF HoldManager, Held, Parking, HoldManaged
<1> QED
  BY <1>2, <1>3, <1>4, <1>5, <1>6, <1>7, <1>8, <1>9, <1>10, <1>11, <1>12, <1>13, <1>14
  DEF RtSuspend

-----------------------------------------------------------------------------
(* main() and the lines.                                                    *)

\* Where a line is on its way through mc_line(), jog_execute() and
\* protocol_buffer_synchronize().
LinePCs ==
  {"mcline", "room", "moved", "jogWake", "gcSpindle", "gcCoolant", "sync", "synced"}
    \cup SyncReturns

\* A step of a line: it may queue blocks, start a jog or switch outputs (not in
\* an abort), and goes on with the line, to the executor or to the next line.
LEMMA LineStep ==
  ASSUME Inv, main.pc \in LinePCs,
         sys'.abort = sys.abort, sys'.suspend = sys.suspend, sys'.soft_limit = sys.soft_limit,
         sys'.state = sys.state \/ (sys.state = "IDLE" /\ sys'.state = "JOG"),
         exec \subseteq exec', "SLEEP" \in exec' => "SLEEP" \in exec, alarm' = alarm,
         sys.abort => out' = out,
         main'.pc \in (LinePCs \ {"mcline"}) \cup {"alarm", "loop"},
         main'.ret = "exec"
  PROVE  Safe'
<1> USE DEF Inv, Safe, Control, ReturnTaken, AbortPending, ResumedOutside, AlarmReset, DoorFlagIdle,
        SoftLimitAlarm, SoftLimitLeads, SleepFlagged, SleepTaken, AtRest, SleepHeld, WakesCycle,
        JogCancelled, ParkedStates, AlarmResumed, RestoreAsked, AsleepState, Restoring,
        Asleep, ResetNext, At, ParkedIsOff, RestoreNeedsClosedDoor, SleepIsOff,
        Snapshot, Executing, RestorePCs, SuspendPCs, Inside, Starting
<1>1. Control'
  BY DEF LinePCs, SyncReturns
<1>2. (ParkedIsOff /\ RestoreNeedsClosedDoor /\ SleepIsOff)'
  BY DEF LinePCs, SyncReturns
<1> QED
  BY <1>1, <1>2

\* The steps of a line that are such steps, one for each action.
LEMMA LineSafe ==
  ASSUME Inv,
         \/ McLine /\ main.line # "G1 far"
         \/ WaitForRoom \/ PlanBufferLine \/ Moved \/ JogWake
         \/ Sync \/ Synced \/ GcSpindle \/ ApplySpindle \/ GcCoolant \/ ApplyCoolant \/ ApplyFlow
  PROVE  Safe'
<1> DEFINE Step ==
             /\ main.pc \in LinePCs
             /\ sys'.abort = sys.abort /\ sys'.suspend = sys.suspend
             /\ sys'.soft_limit = sys.soft_limit
             /\ sys'.state = sys.state \/ (sys.state = "IDLE" /\ sys'.state = "JOG")
             /\ exec \subseteq exec' /\ ("SLEEP" \in exec' => "SLEEP" \in exec)
             /\ alarm' = alarm
             /\ sys.abort => out' = out
             /\ main'.pc \in (LinePCs \ {"mcline"}) \cup {"alarm", "loop"}
             /\ main'.ret = "exec"
<1>1. TypeOK /\ (main.pc \in LinePCs => main.ret = "exec")
  BY DEF Inv, Safe, Control, ReturnTaken, Executing, Snapshot, LinePCs, SyncReturns
<1> USE DEF LinePCs, SyncReturns, At, Exec, GoTo, SyncThen, NextLine
<1>2. /\ main \in [pc : PCs, ret : SysReturns, cont : ExecReturns, after : SyncReturns,
                   line : Lines \cup {"none"}, block : Condition, rt : SUBSET ExecFlags,
                   restore : Condition]
      /\ sys \in System /\ out \in Condition /\ motion \in Motion
  BY <1>1 DEF TypeOK, Main
<1>3. ASSUME McLine /\ main.line # "G1 far" PROVE Step
  BY <1>1, <1>2, <1>3 DEF McLine
<1>4. ASSUME WaitForRoom \/ Sync PROVE Step
  BY <1>1, <1>2, <1>4 DEF WaitForRoom, Sync, AutoCycleStart
<1>5. ASSUME PlanBufferLine PROVE Step
  BY <1>1, <1>2, <1>5 DEF PlanBufferLine
<1>6. ASSUME Moved PROVE Step
  BY <1>1, <1>2, <1>6 DEF Moved, JogStarts, System
<1>7. ASSUME JogWake PROVE Step
  BY <1>1, <1>2, <1>7, PrepStepEffect DEF JogWake
<1>8. ASSUME Synced PROVE Step
  BY <1>1, <1>2, <1>8 DEF Synced
<1>9. ASSUME GcSpindle PROVE Step
  BY <1>1, <1>2, <1>9 DEF GcSpindle
<1>10. ASSUME ApplySpindle PROVE Step
  BY <1>1, <1>2, <1>10 DEF ApplySpindle, SpindleSetState, Condition
<1>11. ASSUME GcCoolant PROVE Step
  BY <1>1, <1>2, <1>11 DEF GcCoolant
<1>12. ASSUME ApplyCoolant PROVE Step
  BY <1>1, <1>2, <1>12 DEF ApplyCoolant, CoolantSetState, Condition
<1>13. ASSUME ApplyFlow PROVE Step
  <2>1. main'.pc \in {"loop", "alarm"} /\ main'.ret = "exec"
    BY <1>1, <1>2, <1>13 DEF ApplyFlow
  <2>2. /\ At("applyFlow") /\ UNCHANGED <<alarm, sys, out>>
        /\ exec' \in {exec, exec \cup {"FEED_HOLD"}}
    BY <1>13 DEF ApplyFlow
  <2> QED
    BY <2>1, <2>2
<1>14. Step
  BY <1>3, <1>4, <1>5, <1>6, <1>7, <1>8, <1>9, <1>10, <1>11, <1>12, <1>13
<1> QED
  BY <1>14, LineStep

\* What main() makes of the machine after a reset.
LEMMA MainStartEffect ==
  ASSUME TypeOK, MainStart
  PROVE  /\ sys'.state \in {"ALARM", "IDLE"} /\ sys'.abort = sys.abort
         /\ sys'.suspend = sys.suspend /\ sys'.soft_limit = sys.soft_limit
         /\ sys'.step_control = sys.step_control
         /\ UNCHANGED <<exec, alarm, out, motion>> /\ At("mainStart") /\ main'.ret = main.ret
         /\ \/ main'.pc = "loop"
            \/ main'.pc = "doorFlag" /\ main'.rt = exec /\ sys'.state = "IDLE"
<1>1. sys \in System /\ main \in Main
  BY DEF TypeOK
<1> QED
  BY <1>1, ZenonT(40) DEF MainStart, NextLine, System, Main

LEMMA MainLoopSafe ==
  ASSUME Inv, MainLoop
  PROVE  Safe'
<1> USE DEF Inv, Safe, Control, ReturnTaken, AbortPending, ResumedOutside, AlarmReset, DoorFlagIdle,
        SoftLimitAlarm, SoftLimitLeads, SleepFlagged, SleepTaken, AtRest, SleepHeld, WakesCycle,
        JogCancelled, ParkedStates, AlarmResumed, RestoreAsked, AsleepState, Restoring,
        Asleep, ResetNext, At, ParkedIsOff, RestoreNeedsClosedDoor, SleepIsOff,
        Snapshot, Executing, RestorePCs, SuspendPCs, Inside, Starting,
        GoTo, Exec, NextLine, SyncThen, TypeOK, Main, PCs, SysReturns, ExecReturns, SyncReturns, System
<1>1. CASE Boot
  BY <1>1 DEF Boot, Cleared
<1>2. CASE BootReset
  BY <1>2 DEF BootReset, Still
<1>3. CASE MainStart
  <2>1. /\ sys'.state \in {"ALARM", "IDLE"} /\ sys'.abort = sys.abort
        /\ sys'.suspend = sys.suspend /\ sys'.soft_limit = sys.soft_limit
        /\ sys'.step_control = sys.step_control
        /\ UNCHANGED <<exec, alarm, out, motion>> /\ At("mainStart") /\ main'.ret = main.ret
        /\ \/ main'.pc = "loop"
           \/ main'.pc = "doorFlag" /\ main'.rt = exec /\ sys'.state = "IDLE"
    BY <1>3, MainStartEffect
  <2> QED
    BY <2>1
<1>4. CASE DoorFlag
  BY <1>4 DEF DoorFlag
<1>5. ASSUME NEW line \in Lines, ReadLine(line) PROVE Safe'
  BY <1>5 DEF ReadLine
<1>6. CASE Idle
  <2>1. /\ exec' \in {exec, exec \cup {"CYCLE_START"}} /\ At("loop")
        /\ UNCHANGED <<alarm, sys, out, motion>>
        /\ main'.pc = "alarm" /\ main'.ret = "exec" /\ main'.cont = "loopEnd"
    BY <1>6 DEF Idle, AutoCycleStart
  <2> QED
    BY <2>1
<1>7. CASE LoopEnd
  BY <1>7 DEF LoopEnd
<1>8. CASE LineStart
  <2>1. CASE RefuseLine \/ StartMove \/ StartAccessory
    <3>1. /\ UNCHANGED <<exec, alarm, sys, out, motion>> /\ At("eol") /\ ~sys.abort
          /\ main'.pc \in {"loop", "mcline", "gcSpindle"} /\ main'.ret = main.ret
      <4>1. CASE RefuseLine
        BY <4>1 DEF RefuseLine, Dispatch, NextLine
      <4>2. CASE StartMove
        BY <4>2 DEF StartMove, Dispatch
      <4>3. CASE StartAccessory
        BY <4>3 DEF StartAccessory, Dispatch
      <4> QED
        BY <2>1, <4>1, <4>2, <4>3
    <3> QED
      BY <3>1
  <2>2. CASE StateCommand
    BY <2>2 DEF StateCommand, Dispatch
  <2>3. CASE LeaveCheckMode
    BY <2>3 DEF LeaveCheckMode, Dispatch, McReset, AbortAlarm, InMotion
  <2>4. CASE SleepCommand
    BY <2>4 DEF SleepCommand, Dispatch, Refused
  <2> QED
    BY <1>8, <2>1, <2>2, <2>3, <2>4 DEF LineStart
<1>9. CASE McLine
  <2>1. CASE main.line = "G1 far"
    <3>1. /\ At("mcline") /\ ~sys.abort /\ sys.state # "SLEEP"
          /\ sys'.state = sys.state /\ sys'.abort = sys.abort /\ sys'.suspend = sys.suspend
          /\ UNCHANGED <<alarm, out, motion>> /\ exec' \in {exec, exec \cup {"FEED_HOLD"}}
      BY <1>9, <2>1 DEF McLine
    <3>2. \/ main'.pc = "alarm" /\ main'.ret = "exec" /\ main'.cont = "softwait"
          \/ main'.pc = "softreset" /\ main'.ret = main.ret
      <4>1. CASE sys.state = "CYCLE"
        BY <1>9, <2>1, <4>1 DEF McLine, Exec
      <4>2. CASE sys.state # "CYCLE"
        BY <1>9, <2>1, <4>2 DEF McLine
      <4> QED
        BY <4>1, <4>2
    <3> QED
      BY <3>1, <3>2
  <2>2. CASE main.line # "G1 far"
    BY <1>9, <2>2, LineSafe
  <2> QED
    BY <2>1, <2>2
<1>10. CASE SoftWait
  BY <1>10 DEF SoftWait
<1>11. CASE SoftReset
  BY <1>11 DEF SoftReset
<1> QED
  BY <1>1, <1>2, <1>3, <1>4, <1>5, <1>6, <1>7, <1>8, <1>9, <1>10, <1>11, LineSafe DEF MainLoop

-----------------------------------------------------------------------------
(* The theorems.                                                            *)

LEMMA InitSafe == Init => Inv
<1> SUFFICES ASSUME Init PROVE Safe
  BY InitType DEF Inv
<1>1. Control
  BY DEF Init, Cleared, Control, ReturnTaken, AbortPending, ResumedOutside, AlarmReset,
         DoorFlagIdle, SoftLimitAlarm, SoftLimitLeads, SleepFlagged, SleepTaken, SleepHeld,
         WakesCycle, JogCancelled, ParkedStates, AlarmResumed, RestoreAsked, AsleepState,
         Restoring, Asleep, RestorePCs, SuspendPCs, Starting, Snapshot, Executing, Inside, At
<1>2. ParkedIsOff /\ RestoreNeedsClosedDoor /\ SleepIsOff
  BY DEF Init, Cleared, ParkedIsOff, RestoreNeedsClosedDoor, SleepIsOff, Asleep, At
<1> QED
  BY <1>1, <1>2 DEF Safe

\* The invariant holds in every reachable state of every instance.
THEOREM Invariance == Spec => []Inv
<1>1. Inv /\ [Next]_vars => Safe'
  <2> SUFFICES ASSUME Inv, [Next]_vars PROVE Safe'
    OBVIOUS
  <2>1. CASE MainProgram
    BY <2>1, RtSystemSafe, RtSuspendSafe, MainLoopSafe DEF MainProgram
  <2>2. CASE Interrupts
    BY <2>2, InterruptsSafe
  <2>3. CASE UNCHANGED vars
    BY <2>3
    DEF vars, Inv, Safe, Control, ReturnTaken, AbortPending, ResumedOutside, AlarmReset,
        DoorFlagIdle, SoftLimitAlarm, SoftLimitLeads, SleepFlagged, SleepTaken, AtRest,
        SleepHeld, WakesCycle, JogCancelled, ParkedStates, AlarmResumed, RestoreAsked,
        AsleepState, Restoring, Asleep, ResetNext, At, ParkedIsOff, RestoreNeedsClosedDoor,
        SleepIsOff
  <2> QED
    BY <2>1, <2>2, <2>3 DEF Next
<1>2. TypeOK /\ Safe => Inv
  BY DEF Inv
<1> QED
  BY <1>1, <1>2, InitSafe, TypeCorrect, PTL DEF Spec

\* A machine parked at the door is off until the user asks for the restore
\* (protocol.cpp:553-621, 637-684), whatever is raised or sent meanwhile.
THEOREM ParkedOff == Spec => []ParkedIsOff
<1>1. Inv => ParkedIsOff
  BY DEF Inv, Safe
<1> QED
  BY <1>1, Invariance, PTL

\* The restore never runs on once the executor has seen the door open again
\* (protocol.cpp:309-322, 346-357).
THEOREM RestoreClosed == Spec => []RestoreNeedsClosedDoor
<1>1. Inv => RestoreNeedsClosedDoor
  BY DEF Inv, Safe
<1> QED
  BY <1>1, Invariance, PTL

\* Asleep the machine is off and still (protocol.cpp:626-633).
THEOREM SleepOff == Spec => []SleepIsOff
<1>1. Inv => SleepIsOff
  BY DEF Inv, Safe
<1> QED
  BY <1>1, Invariance, PTL

\* A line beyond the soft limits gets back to the main loop only with an abort
\* (limits.cpp:671-689).
THEOREM SoftLimitsAbort == Spec => []SoftLimitAborts
<1>1. Inv => SoftLimitAborts
  BY DEF Inv, Safe, Control, SoftLimitLeads, SoftLimitAborts, ResetNext, Inside, Executing,
         Snapshot, SuspendPCs, RestorePCs, At
<1> QED
  BY <1>1, Invariance, PTL

-----------------------------------------------------------------------------
(* The executor's branches.                                                 *)

Noted(s) ==
  /\ "SAFETY_DOOR_AJAR" \in s.suspend => s.state \in {"SAFETY_DOOR", "SLEEP", "JOG", "ALARM"}
  /\ s.state = "JOG" => "HOLD_COMPLETE" \notin s.suspend

\* Each step of the hold group notes an open door where it may be noted, and
\* none enters check mode.
LEMMA HoldStepsNoted ==
  ASSUME NEW s \in System, NEW rt \in SUBSET ExecFlags, Noted(s), s.state # "ALARM"
  PROVE  /\ LET t == InitiateHold(s, rt) IN Noted(t) /\ t.state = s.state
         /\ LET t == HoldAtRest(s) IN Noted(t) /\ t.state = s.state
         /\ LET t == CancelMotion(s, rt) IN Noted(t) /\ t.state = s.state
         /\ LET t == FeedHold(s, rt)
            IN Noted(t) /\ t.state \in {s.state, "HOLD"}
         /\ ("JOG_CANCEL" \in s.suspend => s.state \in {"JOG", "ALARM"}) =>
               LET t == DoorOpened(s, rt)
               IN Noted(t) /\ t.state \in {s.state, "SAFETY_DOOR"}
<1> USE DEF Noted, System
<1>1. LET t == InitiateHold(s, rt) IN Noted(t) /\ t.state = s.state
  BY DEF InitiateHold
<1>2. LET t == HoldAtRest(s) IN Noted(t) /\ t.state = s.state
  BY DEF HoldAtRest
<1>3. LET t == CancelMotion(s, rt) IN Noted(t) /\ t.state = s.state
  BY DEF CancelMotion
<1>4. LET t == FeedHold(s, rt)
      IN Noted(t) /\ t.state \in {s.state, "HOLD"}
  BY DEF FeedHold
<1>5. ASSUME "JOG_CANCEL" \in s.suspend => s.state \in {"JOG", "ALARM"}
      PROVE  LET t == DoorOpened(s, rt)
             IN Noted(t) /\ t.state \in {s.state, "SAFETY_DOOR"}
  BY <1>5 DEF DoorOpened, RestartRetract, EnterDoor
<1> QED
  BY <1>1, <1>2, <1>3, <1>4, <1>5

LEMMA HoldGroupNoted ==
  ASSUME NEW s \in System, NEW rt \in SUBSET ExecFlags, Sound(s), Noted(s),
         "SLEEP" \in rt => s.state \in {"IDLE", "ALARM"} /\ s.suspend = {} /\ ~s.soft_limit
  PROVE  /\ Noted(HoldGroup(s, rt))
         /\ HoldGroup(s, rt).state = "CHECK_MODE" => HoldGroup(s, rt) = s
<1> DEFINE a == InitiateHold(s, rt)
           b == HoldAtRest(a)
           c == CancelMotion(b, rt)
           d == FeedHold(c, rt)
           e == DoorOpened(d, rt)
<1>1. CASE s.state \in {"ALARM", "CHECK_MODE"}
  BY <1>1 DEF HoldGroup, FallAsleep, Noted, System
<1>2. CASE s.state \notin {"ALARM", "CHECK_MODE"}
  <2>1. a \in System /\ Sound(a) /\ Noted(a) /\ a.state = s.state
    BY <1>2, HoldStepsSound, HoldStepsNoted, InitiateHoldType
  <2>2. b \in System /\ Sound(b) /\ Noted(b) /\ b.state = s.state
    BY <1>2, <2>1, HoldStepsSound, HoldStepsNoted, HoldStepsType
  <2>3. c \in System /\ Sound(c) /\ Noted(c) /\ c.state = s.state
    BY <1>2, <2>2, HoldStepsSound, HoldStepsNoted, HoldStepsType
  <2>4. d \in System /\ Sound(d) /\ Noted(d) /\ d.state \in {s.state, "HOLD"}
    BY <1>2, <2>3, HoldStepsSound, HoldStepsNoted, HoldStepsType
  <2>5. e \in System /\ Noted(e) /\ e.state \in {s.state, "HOLD", "SAFETY_DOOR"}
    <3>1. "JOG_CANCEL" \in d.suspend => d.state \in {"JOG", "ALARM"}
      BY <2>4 DEF Sound
    <3> QED
      BY <1>2, <2>4, <3>1, HoldStepsNoted, DoorOpenedType
  <2>6. HoldGroup(s, rt) = FallAsleep(e, rt)
    BY <1>2 DEF HoldGroup
  <2> HIDE DEF e
  <2> QED
    BY <1>2, <2>5, <2>6 DEF FallAsleep, Noted, System
<1> QED
  BY <1>1, <1>2

LEMMA CycleStartNoted ==
  ASSUME NEW s \in System, NEW rt \in SUBSET ExecFlags, NEW queued \in BOOLEAN,
         Sound(s), Noted(s)
  PROVE  /\ Noted(CycleStart(s, rt, queued))
         /\ CycleStart(s, rt, queued).state = "CHECK_MODE" => CycleStart(s, rt, queued) = s
BY DEF Sound, Noted, CycleStart, DoorResume, MayStart, ResumeCycle, System

LEMMA CycleStopNoted ==
  ASSUME NEW s \in System, Sound(s), Noted(s)
  PROVE  Noted(CycleStop(s)) /\ CycleStop(s).state # "CHECK_MODE"
BY DEF Sound, Noted, CycleStop, HoldReached, MotionEnded, System

-----------------------------------------------------------------------------
(* The two invariants.                                                      *)

\* What an executor pass makes of the structure, step by step.
LEMMA RtSystemNoted ==
  ASSUME Inv, DoorNoted, Inert, RtSystem
  PROVE  DoorNoted' /\ Inert'
<1> USE DEF DoorNoted, Inert, At
<1>0. /\ TypeOK /\ (main.pc \in Snapshot => Sound(sys) /\ Noted(sys) /\ ~sys.abort)
      /\ sys \in System /\ main \in Main
  BY SnapshotSound DEF Inv, TypeOK, Noted
<1>1. main.pc \in Executing => main.pc \in Inside
  BY DEF Inside
<1> DEFINE Kept == /\ main'.cont = main.cont /\ main'.after = main.after
                   /\ main'.pc \in Executing /\ main'.ret = main.ret
<1>2. ASSUME AlarmCopy \/ Critical PROVE DoorNoted' /\ Inert'
  <2>1. Kept /\ main.pc \in Executing /\ sys'.suspend = sys.suspend /\ sys'.abort = sys.abort
        /\ sys'.state \in {sys.state, "ALARM"}
    BY <1>0, <1>2 DEF AlarmCopy, Critical, GoTo, Executing, Main, System
  <2> QED
    BY <1>1, <2>1 DEF Executing, Snapshot, Inside, SuspendPCs, RestorePCs
<1>3. ASSUME FlagCopy PROVE DoorNoted' /\ Inert'
  <2>1. CASE "RESET" \in exec
    <3>1. /\ sys'.abort /\ sys'.state = sys.state /\ sys'.suspend = sys.suspend
          /\ main'.pc = main.ret /\ main'.cont = main.cont /\ main'.after = main.after
          /\ main.pc \in Executing
      BY <1>0, <1>3, <2>1 DEF FlagCopy, System, Main, Executing
    <3>2. main.ret \in SysReturns
      BY <1>0 DEF Main
    <3> QED
      BY <1>1, <3>1, <3>2 DEF SysReturns, Inside, SuspendPCs, RestorePCs, Executing, Snapshot
  <2>2. CASE "RESET" \notin exec
    <3>1. Kept /\ main.pc \in Executing /\ sys' = sys
      BY <1>0, <1>3, <2>2
      DEF FlagCopy, AfterCopy, AfterHold, AfterStart, Main, Executing, Snapshot
    <3> QED
      BY <1>1, <3>1 DEF Executing, Snapshot, Inside, SuspendPCs, RestorePCs
  <2> QED
    BY <2>1, <2>2
<1>4. ASSUME ExecHold \/ ExecStart \/ ExecStop PROVE DoorNoted' /\ Inert'
  <2>1. main.pc \in Snapshot /\ main.rt \in SUBSET ExecFlags
    BY <1>0, <1>4 DEF ExecHold, ExecStart, ExecStop, Snapshot, Main
  <2>2. Kept
    BY <1>0, <1>4
    DEF ExecHold, ExecStart, ExecStop, AfterHold, AfterStart, GoTo, Main, Executing, Snapshot
  <2>3. CASE ExecHold
    <3>1. "SLEEP" \in main.rt => AtRest
      BY <2>3 DEF ExecHold, Inv, Safe, Control, SleepTaken
    <3> QED
      BY <1>0, <2>1, <2>2, <2>3, <3>1, HoldGroupNoted
      DEF ExecHold, AtRest, Noted, Executing, Snapshot, SuspendPCs, RestorePCs, Inside
  <2>4. CASE ExecStart
    BY <1>0, <2>1, <2>2, <2>4, CycleStartNoted
    DEF ExecStart, Noted, Executing, Snapshot, SuspendPCs, RestorePCs, Inside
  <2>5. CASE ExecStop
    BY <1>0, <2>1, <2>2, <2>5, CycleStopNoted
    DEF ExecStop, Noted, Executing, Snapshot, SuspendPCs, RestorePCs, Inside
  <2> QED
    BY <1>4, <2>3, <2>4, <2>5
<1>5. ASSUME ExecWake PROVE DoorNoted' /\ Inert'
  <2>1. Kept /\ main.pc \in Executing
    BY <1>0, <1>5 DEF ExecWake, AfterStart, GoTo, Main, Executing, Snapshot
  <2> QED
    BY <1>0, <1>1, <1>5, <2>1, PrepStepEffect
    DEF Executing, Snapshot, Inside, SuspendPCs, RestorePCs
<1>6. ASSUME ExecFinish PROVE DoorNoted' /\ Inert'
  <2>1. /\ main'.pc = main.ret /\ main'.ret = "exec" /\ main'.cont = main.cont
        /\ main'.after = main.after /\ main.pc \in Snapshot /\ main.ret \in SysReturns
    BY <1>0, <1>6 DEF ExecFinish, Snapshot, Main
  <2> QED
    BY <1>0, <1>1, <1>6, <2>1, PrepStepEffect
    DEF Executing, Snapshot, Inside, SuspendPCs, RestorePCs, SysReturns
<1> QED
  BY <1>2, <1>3, <1>4, <1>5, <1>6 DEF RtSystem

LEMMA RtSuspendNoted ==
  ASSUME Inv, DoorNoted, Inert, RtSuspend
  PROVE  DoorNoted' /\ Inert'
<1> USE DEF DoorNoted, Inert, At
<1>1. /\ TypeOK /\ sys \in System /\ main \in Main /\ main.ret = "exec"
      /\ ParkedStates /\ main.pc \in {"exec"} \cup SuspendPCs
  BY DEF Inv, Safe, Control, ReturnTaken, TypeOK, RtSuspend, ExecReturn, SuspendEnd, SuspendWait,
         Held, Park, EnterSleep, Sleep, Parked, RestoreSpindle, SpindleDelay, CoolantDelay, Delay,
         RestoreCoolant, RestoreDone, HoldManager, SuspendPCs, RestorePCs, Executing, Snapshot
<1> DEFINE Waits == /\ main'.cont = main.cont /\ main'.after = main.after
                    /\ main'.pc \in {"suspend", "alarm"} \cup (SuspendPCs \ {"restoreSpindle"})
           Quiet == sys'.state = sys.state /\ sys'.abort = sys.abort
           Leaves == sys' = sys /\ main'.pc = main.cont /\ main'.after = main.after
                       /\ (sys.suspend = {} \/ sys.abort) /\ main'.ret = "exec"
<1>2. ASSUME ExecReturn \/ SuspendEnd \/ Sleep PROVE DoorNoted' /\ Inert'
  <2>1. Leaves \/ (Waits /\ sys' = sys /\ (At("exec") => sys.suspend # {} /\ ~sys.abort))
    BY <1>1, <1>2 DEF ExecReturn, SuspendEnd, Sleep, Return, SysPass, Main, SuspendPCs
  <2>2. main.cont \in ExecReturns
    BY <1>1 DEF Main
  <2>3. CASE Leaves
    BY <1>1, <2>2, <2>3 DEF ExecReturns, SuspendPCs, RestorePCs, Inside, Executing, Snapshot
  <2>4. CASE ~Leaves
    BY <1>1, <2>1, <2>4 DEF SuspendPCs, RestorePCs, Inside, Executing, Snapshot
  <2> QED
    BY <2>3, <2>4
<1>3. ASSUME SuspendWait \/ EnterSleep \/ SpindleDelay \/ CoolantDelay PROVE DoorNoted' /\ Inert'
  <2>1. Waits /\ sys' = sys /\ main.pc \in SuspendPCs
    BY <1>1, <1>3
    DEF SuspendWait, EnterSleep, SpindleDelay, CoolantDelay, Delay, Held, SysPass, GoTo, Main,
        SuspendPCs, RestorePCs
  <2> QED
    BY <1>1, <2>1 DEF SuspendPCs, RestorePCs, Inside, Executing, Snapshot
<1>4. ASSUME RestoreSpindle \/ RestoreCoolant PROVE DoorNoted' /\ Inert'
  <2>1. Waits /\ sys' = sys /\ main.pc \in SuspendPCs
    BY <1>1, <1>4
    DEF RestoreSpindle, RestoreCoolant, SysPass, GoTo, Main, SuspendPCs, RestorePCs
  <2> QED
    BY <1>1, <2>1 DEF SuspendPCs, RestorePCs, Inside, Executing, Snapshot
<1>5. ASSUME Park \/ RestoreDone \/ HoldManager PROVE DoorNoted' /\ Inert'
  <2>1. Waits /\ Quiet /\ main.pc \in SuspendPCs
    BY <1>1, <1>5
    DEF Park, RestoreDone, HoldManager, Retracted, HoldManaged, Held, SysPass, Main, System,
        SuspendPCs, RestorePCs
  <2>2. /\ "SAFETY_DOOR_AJAR" \in sys'.suspend => "SAFETY_DOOR_AJAR" \in sys.suspend
        /\ "HOLD_COMPLETE" \in sys'.suspend => "HOLD_COMPLETE" \in sys.suspend
    <3>1. CASE Park
      BY <1>1, <3>1 DEF Park, Retracted, System
    <3>2. CASE RestoreDone
      BY <1>1, <3>2 DEF RestoreDone, System
    <3>3. CASE HoldManager
      BY <1>1, <3>3 DEF HoldManager, HoldManaged, System
    <3> QED
      BY <1>5, <3>1, <3>2, <3>3
  <2> QED
    BY <1>1, <2>1, <2>2 DEF SuspendPCs, RestorePCs, Inside, Executing, Snapshot
<1>6. ASSUME Parked PROVE DoorNoted' /\ Inert'
  <2>1. /\ sys.state = "SAFETY_DOOR" /\ main.pc \in SuspendPCs
        /\ sys'.state = sys.state /\ sys'.abort = sys.abort
        /\ sys'.suspend \in {sys.suspend, sys.suspend \ {"SAFETY_DOOR_AJAR"}}
    BY <1>1, <1>6 DEF Parked, Held, System, SuspendPCs
  <2>2. /\ main'.cont = main.cont /\ main'.after = main.after
        /\ main'.pc \in {"alarm", "restoreSpindle"}
        /\ main'.pc = "restoreSpindle" => "INITIATE_RESTORE" \in sys.suspend
    BY <1>1, <1>6 DEF Parked, GoTo, SysPass, Main
  <2> QED
    BY <1>1, <2>1, <2>2 DEF SuspendPCs, RestorePCs, Inside, Executing, Snapshot
<1> QED
  BY <1>2, <1>3, <1>4, <1>5, <1>6 DEF RtSuspend

LEMMA InterruptsNoted ==
  ASSUME Inv, DoorNoted, Inert, Interrupts
  PROVE  DoorNoted' /\ Inert'
BY InterruptEffect DEF Inv, DoorNoted, Inert, At

\* Steps of main() and of the lines that leave what the two invariants read.
NeutralPCs ==
  {"mainStart", "alarm", "loop", "boot", "eol", "mcline", "gcSpindle", "gcCoolant",
   "softreset", "softwait", "room", "moved"}

LEMMA NeutralNoted ==
  ASSUME Inv, DoorNoted, Inert,
         main.pc \notin Inside \cup {"sync", "synced"},
         sys'.state = sys.state, sys'.suspend = sys.suspend, sys'.abort = sys.abort,
         main'.pc \in NeutralPCs, main'.ret = main.ret, main'.after = main.after
  PROVE  DoorNoted' /\ Inert'
BY DEF DoorNoted, Inert, At, NeutralPCs, SuspendPCs, RestorePCs, Inside

LEMMA MainLoopNoted ==
  ASSUME Inv, DoorNoted, Inert, MainLoop
  PROVE  DoorNoted' /\ Inert'
<1> USE DEF At
<1>1. /\ TypeOK /\ sys \in System /\ main \in Main
      /\ main.pc \notin Inside => (sys.suspend = {} \/ sys.abort) /\ main.ret = "exec"
  BY DEF Inv, Safe, Control, TypeOK, ResumedOutside, ReturnTaken, Inside
<1> DEFINE Neutral == /\ main.pc \notin Inside \cup {"sync", "synced"}
                      /\ sys'.state = sys.state /\ sys'.suspend = sys.suspend
                      /\ sys'.abort = sys.abort
                      /\ main'.pc \in NeutralPCs /\ main'.ret = main.ret
                      /\ main'.after = main.after
           Outside == main.pc \notin Inside /\ main.ret = "exec"
<1>2. ASSUME BootReset \/ DoorFlag \/ Idle \/ LoopEnd PROVE Neutral
  BY <1>1, <1>2
  DEF BootReset, DoorFlag, Idle, LoopEnd, GoTo, Exec, NextLine, Main, Inside, Executing, Snapshot,
      SuspendPCs, RestorePCs, NeutralPCs
<1>3. ASSUME NEW line \in Lines, ReadLine(line) PROVE Neutral
  BY <1>1, <1>3
  DEF ReadLine, Exec, Main, Inside, Executing, Snapshot, SuspendPCs, RestorePCs, NeutralPCs
<1>4. ASSUME RefuseLine \/ LeaveCheckMode \/ SleepCommand \/ StartMove \/ StartAccessory
      PROVE  Neutral
  BY <1>1, <1>4
  DEF RefuseLine, LeaveCheckMode, SleepCommand, StartMove, StartAccessory, Dispatch, GoTo, NextLine,
      Main, Inside, Executing, Snapshot, SuspendPCs, RestorePCs, NeutralPCs
<1>5. ASSUME McLine PROVE Neutral
  BY <1>1, <1>5
  DEF McLine, GoTo, Exec, Main, System, Inside, Executing, Snapshot, SuspendPCs, RestorePCs,
      NeutralPCs
<1>6. ASSUME SoftWait \/ SoftReset \/ WaitForRoom \/ PlanBufferLine PROVE Neutral
  BY <1>1, <1>6
  DEF SoftWait, SoftReset, WaitForRoom, PlanBufferLine, GoTo, Exec, Main, Inside, Executing,
      Snapshot, SuspendPCs, RestorePCs, NeutralPCs
<1>7. ASSUME JogWake PROVE Neutral
  BY <1>1, <1>7, PrepStepEffect
  DEF JogWake, NextLine, Main, Inside, Executing, Snapshot, SuspendPCs, RestorePCs, NeutralPCs
<1>8. ASSUME ApplySpindle \/ ApplyCoolant \/ ApplyFlow PROVE Neutral
  BY <1>1, <1>8
  DEF ApplySpindle, ApplyCoolant, ApplyFlow, GoTo, NextLine, Exec, Main, Inside, Executing,
      Snapshot, SuspendPCs, RestorePCs, NeutralPCs
<1> USE DEF DoorNoted, Inert
<1>9. ASSUME Boot PROVE DoorNoted' /\ Inert'
  BY <1>1, <1>9
  DEF Boot, Cleared, GoTo, Main, Inside, Executing, Snapshot, SuspendPCs, RestorePCs
<1>10. ASSUME MainStart PROVE DoorNoted' /\ Inert'
  <2>1. /\ sys'.state \in {"IDLE", "ALARM"} /\ sys'.suspend = {} /\ main.pc = "mainStart"
        /\ main'.pc \in {"loop", "doorFlag"} /\ main'.after = main.after
    BY <1>1, <1>10
    DEF MainStart, NextLine, Main, System, Inv, Safe, Control, AbortPending, Inside, Executing,
        Snapshot, SuspendPCs, RestorePCs, Starting
  <2> QED
    BY <2>1 DEF Inside, Executing, Snapshot, SuspendPCs, RestorePCs
<1>11. ASSUME StateCommand PROVE DoorNoted' /\ Inert'
  <2>1. /\ sys'.suspend = {} /\ main.pc = "eol"
        /\ main'.pc = "loop" /\ main'.after = main.after /\ main'.ret = "exec"
    BY <1>1, <1>11
    DEF StateCommand, Dispatch, NextLine, Main, System, Inside, Executing, Snapshot, SuspendPCs,
        RestorePCs
  <2> QED
    BY <2>1 DEF Inside, Executing, Snapshot, SuspendPCs, RestorePCs
<1>12. ASSUME Moved PROVE DoorNoted' /\ Inert'
  <2>1. /\ main.pc = "moved" /\ Outside
        /\ sys'.suspend = sys.suspend /\ sys'.abort = sys.abort
        /\ main'.after = "applyFlow" /\ main'.ret = "exec"
        /\ \/ sys'.state = "JOG" /\ main'.pc = "jogWake"
           \/ sys'.state = sys.state /\ main'.pc \in {"sync", "loop"}
    BY <1>1, <1>12
    DEF Moved, SyncThen, GoTo, NextLine, Main, System, Inside, Executing, Snapshot, SuspendPCs,
        RestorePCs
  <2> QED
    BY <1>1, <2>1 DEF SuspendPCs, RestorePCs
<1>13. ASSUME GcSpindle \/ GcCoolant PROVE DoorNoted' /\ Inert'
  <2>1. /\ Outside /\ sys' = sys /\ main'.ret = "exec"
        /\ \/ main'.pc = "sync" /\ sys.state # "CHECK_MODE"
           \/ main'.pc \in NeutralPCs /\ main'.after = main.after /\ main.after = "applyFlow"
    BY <1>1, <1>13
    DEF GcSpindle, GcCoolant, SyncThen, GoTo, NextLine, Main, Inside, Executing, Snapshot,
        SuspendPCs, RestorePCs, NeutralPCs
  <2> QED
    BY <1>1, <2>1 DEF SuspendPCs, RestorePCs, NeutralPCs
<1>14. ASSUME Sync PROVE DoorNoted' /\ Inert'
  <2>1. /\ Outside /\ sys' = sys /\ main'.ret = "exec" /\ main'.after = main.after
        /\ main'.pc = "alarm" /\ main'.cont = "synced"
    BY <1>1, <1>14
    DEF Sync, Exec, Main, Inside, Executing, Snapshot, SuspendPCs, RestorePCs
  <2> QED
    BY <1>1, <2>1 DEF SuspendPCs, RestorePCs, Inside, Executing
<1>15. ASSUME Synced PROVE DoorNoted' /\ Inert'
  <2>1. /\ Outside /\ sys' = sys /\ main'.ret = "exec"
        /\ \/ main'.pc = "alarm" /\ main'.cont = "synced" /\ main'.after = main.after
           \/ main'.pc = main.after /\ main'.after = "applyFlow"
    BY <1>1, <1>15
    DEF Synced, Exec, GoTo, Main, Inside, Executing, Snapshot, SuspendPCs, RestorePCs
  <2>2. main.after \in SyncReturns
    BY <1>1 DEF Main
  <2> QED
    BY <1>1, <2>1, <2>2 DEF SuspendPCs, RestorePCs, Inside, Executing, SyncReturns
<1> HIDE DEF Neutral
<1>16. Neutral => DoorNoted' /\ Inert'
  BY NeutralNoted DEF Neutral
<1> QED
  BY <1>2, <1>3, <1>4, <1>5, <1>6, <1>7, <1>8, <1>9, <1>10, <1>11, <1>12, <1>13, <1>14, <1>15,
     <1>16 DEF MainLoop, LineStart

\* Both hold in every reachable state.
THEOREM NotedInvariance == Spec => [](Inv /\ DoorNoted /\ Inert)
<1>1. Init => DoorNoted /\ Inert
  BY DEF Init, Cleared, DoorNoted, Inert, At, SuspendPCs, RestorePCs
<1>2. Inv /\ DoorNoted /\ Inert /\ [Next]_vars => DoorNoted' /\ Inert'
  <2> SUFFICES ASSUME Inv, DoorNoted, Inert, [Next]_vars PROVE DoorNoted' /\ Inert'
    OBVIOUS
  <2>1. CASE MainProgram
    BY <2>1, RtSystemNoted, RtSuspendNoted, MainLoopNoted DEF MainProgram
  <2>2. CASE Interrupts
    BY <2>2, InterruptsNoted
  <2>3. CASE UNCHANGED vars
    BY <2>3 DEF vars, DoorNoted, Inert, At
  <2> QED
    BY <2>1, <2>2, <2>3 DEF Next
<1> QED
  BY <1>1, <1>2, Invariance, PTL DEF Spec

-----------------------------------------------------------------------------
(* The action properties.                                                   *)

\* The only steps that start the motors or switch an output on.
Switching ==
  \/ ExecWake \/ JogWake \/ ExecFinish \/ RestoreSpindle \/ RestoreCoolant \/ HoldManager
  \/ ApplySpindle \/ ApplyCoolant

NotStarted ==
  /\ motion'.on => motion.on
  /\ out'.spindle => out.spindle
  /\ out'.coolant \subseteq out.coolant

LEMMA OthersSwitchOff ==
  ASSUME TypeOK, [Next]_vars, ~Switching
  PROVE  NotStarted
<1> USE DEF NotStarted, AllOff
<1>1. /\ sys \in System /\ out \in Condition /\ motion \in Motion
  BY DEF TypeOK
<1>2. UNCHANGED <<out, motion>> => NotStarted
  OBVIOUS
<1>3. McReset => NotStarted
  BY <1>1 DEF McReset, Motion, Condition
<1>4. CASE Interrupts
  BY <1>1, <1>4, InterruptEffect DEF Condition
<1>5. CASE RtSystem
  <2>1. AlarmCopy \/ Critical \/ FlagCopy \/ ExecHold \/ ExecStart => UNCHANGED <<out, motion>>
    BY DEF AlarmCopy, Critical, FlagCopy, ExecHold, ExecStart
  <2>2. ExecStop => NotStarted
    BY DEF ExecStop, Still
  <2> QED
    BY <1>2, <1>5, <2>1, <2>2 DEF RtSystem, Switching
<1>6. CASE RtSuspend
  <2>1. \/ ExecReturn \/ SuspendEnd \/ SuspendWait \/ Sleep \/ Parked \/ SpindleDelay
        \/ CoolantDelay \/ RestoreDone
        => UNCHANGED <<out, motion>>
    BY DEF ExecReturn, SuspendEnd, SuspendWait, Sleep, Parked, SpindleDelay, CoolantDelay, Delay,
           RestoreDone
  <2>2. Off.spindle => out.spindle
    BY DEF Off, SpindleSetState
  <2>3. Off.coolant \subseteq out.coolant
    BY DEF Off, CoolantSetState
  <2>4. Park \/ EnterSleep => NotStarted
    BY <1>1, <2>2, <2>3 DEF Park, EnterSleep, Motion
  <2> QED
    BY <1>2, <1>6, <2>1, <2>4 DEF RtSuspend, Switching
<1>7. CASE MainLoop
  <2>1. \/ Boot \/ MainStart \/ DoorFlag \/ Idle \/ LoopEnd \/ RefuseLine \/ StateCommand
        \/ SleepCommand \/ StartMove \/ StartAccessory \/ McLine \/ SoftWait \/ WaitForRoom
        \/ Moved \/ Sync \/ Synced \/ GcSpindle \/ GcCoolant \/ ApplyFlow
        \/ \E line \in Lines : ReadLine(line)
        => UNCHANGED <<out, motion>>
    BY DEF Boot, MainStart, DoorFlag, Idle, LoopEnd, RefuseLine, StateCommand, SleepCommand,
           StartMove, StartAccessory, McLine, SoftWait, WaitForRoom, Moved, Sync, Synced,
           GcSpindle, GcCoolant, ApplyFlow, ReadLine
  <2>2. BootReset => NotStarted
    BY DEF BootReset, Still
  <2>3. LeaveCheckMode => NotStarted
    BY <1>3 DEF LeaveCheckMode
  <2>4. SoftReset => NotStarted
    BY <1>1 DEF SoftReset, Motion
  <2>5. PlanBufferLine => NotStarted
    BY <1>1 DEF PlanBufferLine, Motion
  <2> QED
    BY <1>2, <1>7, <2>1, <2>2, <2>3, <2>4, <2>5 DEF MainLoop, LineStart, Switching
<1> QED
  BY <1>2, <1>4, <1>5, <1>6, <1>7 DEF Next, MainProgram, vars

\* Whatever is restored, resumed or sent, the spindle is not switched on while
\* the executor knows that the door is ajar (protocol.cpp:637-744).
THEOREM OpenDoorSpindleOff == Spec => NoSpindleAtOpenDoor
<1> DEFINE A == out'.spindle /\ ~out.spindle => "SAFETY_DOOR_AJAR" \notin sys.suspend
<1>1. Inv /\ DoorNoted /\ [Next]_vars => A
  <2> SUFFICES ASSUME Inv, DoorNoted, [Next]_vars, out'.spindle, ~out.spindle,
                      "SAFETY_DOOR_AJAR" \in sys.suspend
               PROVE  FALSE
    OBVIOUS
  <2>1. TypeOK /\ out \in Condition
    BY DEF Inv, TypeOK
  <2>2. Switching
    BY <2>1, OthersSwitchOff DEF NotStarted
  <2>3. ~ExecWake /\ ~JogWake /\ ~ExecFinish /\ ~RestoreCoolant /\ ~ApplyCoolant
    BY <2>1 DEF ExecWake, JogWake, ExecFinish, Overrides, RestoreCoolant, ApplyCoolant, Condition
  <2>4. ~RestoreSpindle
    BY DEF RestoreSpindle, DoorNoted, Inv, Safe, RestoreNeedsClosedDoor, At
  <2>5. ~HoldManager
    BY DEF HoldManager, Held, Parking, DoorNoted, Inv, Safe, Control, AlarmResumed, ResetNext, At
  <2>6. ~ApplySpindle
    BY <2>1 DEF ApplySpindle, SpindleSetState, Condition, Inv, Safe, Control, ResumedOutside, Inside,
                Executing, Snapshot, SuspendPCs, RestorePCs, At
  <2> QED
    BY <2>2, <2>3, <2>4, <2>5, <2>6 DEF Switching
<1> QED
  BY <1>1, NotedInvariance, PTL DEF Spec, NoSpindleAtOpenDoor

\* In check mode a program runs through the same synchronisations as ever and
\* starts nothing (motion_control.cpp:42-43, spindle_control.cpp:214,
\* coolant_control.cpp:110).
THEOREM CheckModeInert == Spec => CheckModeIsInert
<1>1. Inv /\ Inert /\ [Next]_vars => (sys.state = "CHECK_MODE" => NotStarted)
  <2> SUFFICES ASSUME Inv, Inert, [Next]_vars, sys.state = "CHECK_MODE", Switching
               PROVE  NotStarted
    BY OthersSwitchOff DEF Inv
  <2> USE DEF NotStarted
  <2>1. TypeOK /\ out \in Condition /\ sys \in System
    BY DEF Inv, TypeOK
  <2>2. ~ExecWake /\ ~JogWake /\ ~ApplySpindle /\ ~ApplyCoolant
    BY DEF ExecWake, JogWake, ApplySpindle, ApplyCoolant, Inert, Inv, Safe, Control, WakesCycle, At
  <2>3. ASSUME ExecFinish PROVE NotStarted
    BY <2>1, <2>3, PrepStepEffect DEF ExecFinish, Overrides, ToggleAllowed
  <2>4. RestoreSpindle \/ RestoreCoolant => sys.abort
    BY DEF RestoreSpindle, RestoreCoolant, Inert, SuspendPCs, RestorePCs, At
  <2>5. ASSUME RestoreSpindle \/ RestoreCoolant PROVE NotStarted
    BY <2>1, <2>4, <2>5
    DEF RestoreSpindle, RestoreCoolant, SpindleSetState, CoolantSetState, Condition
  <2>6. ~HoldManager
    BY DEF HoldManager, Held, Inert, SuspendPCs, At
  <2> QED
    BY <2>2, <2>3, <2>5, <2>6 DEF Switching
<1> QED
  BY <1>1, NotedInvariance, PTL DEF Spec, CheckModeIsInert, NotStarted
=============================================================================
