# Verification of the GRBL firmware for the Mega 2560

A TLA+ model of the firmware in `src/` (a fork of grbl 1.1 for RAMPS boards), model-checked with TLC and
proved about with TLAPS. Everything here is translated from the C++ source as it compiles with the
repository's own `config.h`:

- on: `DEFAULTS_RAMPS_BOARD`, three axes, `HOMING_INIT_LOCK`, `CHECK_LIMITS_AT_INIT`,
  `HOMING_SINGLE_AXIS_COMMANDS`, `ENABLE_SAFETY_DOOR_INPUT_PIN`, `DISABLE_LASER_DURING_HOLD`,
  `ADAPTIVE_MULTI_AXIS_STEP_SMOOTHING`, the forced buffer synchronisations;
- off: `PARKING_ENABLE`, `SLEEP_ENABLE`, `FORCE_INITIALIZATION_ALARM`, `DEBUG`,
  `ENABLE_SOFTWARE_DEBOUNCE`, `ENABLE_RAMPS_HW_LIMITS`. Code in those branches is not part of the program.

The repository has no tests, so the references for what the program should do are its comments.

## Inventory

One main program runs on the chip, interrupted by handlers; they share volatile flag words.

| Component | State | Operations | Talks to |
|---|---|---|---|
| Executor (`protocol.cpp` 215-767) | `sys` (state, abort, suspend, step_control, spindle_stop_ovr, soft_limit) | `protocol_execute_realtime`, `protocol_exec_rt_system`, `protocol_exec_rt_suspend` | polled by every loop of the main program; reads and clears `sys_rt_exec_state`, `_alarm`, `_*_override`; wakes the stepper |
| Main program (`main.cpp`, `protocol.cpp` 38-201, `system.cpp`) | control point, `line` | initialisation, `protocol_main_loop`, `system_execute_line`, `gc_execute_line`, `protocol_buffer_synchronize` | reads the serial ring, fills the planner |
| Control pins (`system.cpp` 41-83) | port | pin-change interrupt | raises flags, calls `mc_reset` |
| Real-time characters (`serial.cpp` 144-198) | - | receive interrupt | raises flags, calls `mc_reset`, empties the receive ring |
| Motion commands (`motion_control.cpp`, `jog.cpp`, `limits.cpp` 671-690) | - | `mc_line`, `jog_execute`, `limits_soft_check`, `mc_reset` | wait in the executor, fill the planner |
| Outputs (`spindle_control.cpp`, `coolant_control.cpp`) | pins | `*_set_state`, `*_sync`, `*_stop` | switched by g-code, overrides, the suspend loop, the reset |
| G-code parser (`gcode.cpp`) | `gc_state` | parse, validate, execute a block | synchronises, moves, switches |
| Planner (`planner.cpp`) | ring of blocks, planned pointer | `plan_buffer_line`, `planner_recalculate`, `plan_cycle_reinitialize` | filled by the main program, drained by segment generation |
| Stepper (`stepper.cpp`) | segment ring, shared block data, timers | `st_prep_buffer` (main), step interrupt | ends a motion with `EXEC_CYCLE_STOP` |
| Homing, limits, probe (`limits.cpp`, `probe.cpp`, `motion_control.cpp`) | probe state, axis locks | `limits_go_home`, `mc_probe_cycle`, `probe_state_monitor` | own wait loops next to the executor |
| Serial rings (`serial.cpp`) | two rings of 256 | `serial_read`, `serial_write`, two interrupts | the host; the main loop |
| Settings, EEPROM (`settings.cpp`, `eeprom.cpp`) | records with checksum | store, read, restore | g-code, `$` commands, boot |
| LCD (`fm_manager.cpp`, `fm_lcd.cpp`, `fm_system_data.cpp`) | two flags, a counter, the display's stage | `fm_manager_checkUpdate`, timer interrupt | main loop |
| Reports, printing, automatic sleep, helpers | - | formatting; sleep is not compiled | |

What makes this program hard: flag words are copied, acted on and cleared at different times while
interrupts raise more flags; the executor is re-entered from loops nested inside it (suspend, sleep, delays)
and from every wait of the main program; a reset is noticed only by whoever looks at `sys.abort` next; a step
interrupt that ends late or early confuses every state that waits for it; the safety door may open and close
at any of these points. What must hold for each component, and where it can go wrong, is listed line by line
under "hazards" in `PROJECT.json`.

## The modules

The system is modelled in four parts that share no variables. They are cut where the code passes a finished
thing on: a line of characters, a line's actions, a block of the planner, a flag. What one part takes as an input
of another is chosen from all its possibilities.

| Part | Module | What it is |
|---|---|---|
| Real-time core | `ExecRtSystem` | The branches of the executor and of the suspend loop as functions of the `sys` structure: hold group, cycle start, cycle stop, overrides, park and hold manager. Bit fields are sets of flag names. |
| | `Realtime` | Main program, executor and interrupt handlers as actions. `Spec`, `FairSpec`, `HoldSpec`. |
| | `RealtimeProperties` | What the real-time core owes its user; at the end, what comments promise and the code does not keep. |
| | `RealtimeInvariant` | The inductive invariant `Inv`, and the invariants of single theorems: `DoorNoted`, `Inert`, `Signalled`, `Stopped`. |
| | `RealtimeProofs`, `RealtimeMotionProofs` | Theorems and proofs. |
| | `MCRealtime` | The lines the host sends in each TLC scenario. |
| Serial stream | `LossyQueue` | The abstract specification of a serial ring: a bounded queue that loses what finds it full and may be discarded as a whole. |
| | `SerialRing` | Both rings, both interrupts, `serial_read()`, `serial_write()` and the flush, split at each access of a shared index. |
| | `LineReader` | How `protocol_main_loop()` assembles a line from characters. |
| | `Stream` | Host, rings, line assembly and answers composed (extends both). |
| | `StreamProperties`, `StreamInvariant`, `StreamProofs` | Properties with the refinement mappings to `LossyQueue`; the invariants; theorems and proofs. |
| | `MCStream` | Texts and hosts for TLC. |
| Program | `GcodeWords` | First half of `gc_execute_line()`: words to a block, with modal groups and axis-word claims. |
| | `GcodeBlock` | Second half: the error checks in their order, targets in machine coordinates, and the actions that execute the block. Pure operators. |
| | `Program` | The life of a line: dispatch, execution, planner queue, motion, probing, homing, jogs, resets, EEPROM, boot. |
| | `ProgramProperties`, `MCProgram` | Properties; the programs TLC sends. |
| | `GcodeProofs`, `ProgramProofs`, `ProgramPositionProofs` | Lemmas about the parser's operators; theorems and proofs. |
| Motion | `Planner` | `planner.cpp`: the ring, the planned pointer, the look-ahead passes, profiles under overrides. |
| | `SegmentBuffer` | `st_prep_buffer()`: velocity profile, segments, shared block data, holds, system motions. |
| | `Motion` | `mc_line()`, executor, segment generator, step interrupt and the homing cycle composed. |
| | `MotionProperties`, `MCMotion` | Properties with the reference definition of the best plan; the scenarios. |
| | `MotionInvariant`, `MotionProofs` | The types and the inductive invariant; theorems and proofs. |
| Shared | `DataInduction` | Induction over an interval and over a finite set, and the existence of recursive functions, for the proofs. |

### Real-time core

**State.** `exec`, `alarm` and `accessory` are the three volatile flag words; `sys` the structure without its
report counters and percentages; `gc` and `out` the parser's accessory state and the output pins (spindle
on/off, set of coolants); `motion` the planner queue (each block as its accessory condition), the number of
segments ready and whether the step interrupt is enabled; `pins` the control pins. `main` is the control point
of the main program (`pc`), the return points of the nested calls (`ret` of `protocol_exec_rt_system`, `cont` of
`protocol_execute_realtime`, `after` of `protocol_buffer_synchronize`) and the locals that outlive a step:
`rt_exec`, `restore_condition`, `gc_block.modal` and the line. `hist` is a history variable that no action
reads.

**Steps.** An action of the main program runs from one access to shared flags to the next, so an interrupt may
fall between any two: the copy of the flags, the hold group and its clear, the cycle start and its wake-up are
steps of their own. The read and the write of `bit_true()` on the flag word at start-up (`protocol.cpp:59`) are
two steps, because that macro does not mask interrupts while `system_set_exec_state_flag()` does. Handlers do
not nest on this chip and are one step each.

**Abstractions.** A segment of the model completes a whole block, and a hold either ends within one of the
segments that are prepared or outlasts them (`Prep`). All speed overrides are one flag. The delays of the
restore last any number of polls. `QueueSize` and `SegmentSize` bound the two buffers as the code's sizes do.
A line is one of a dozen kinds (`GCodeLines`, `SystemLines`): a move, a move beyond the soft limits, a move with
a program pause, the accessory words, a jog, `$X`, `$C`, `$SLP`, and a homing command for an axis that does not
exist (the only homing command that ends without homing).

### Serial stream

**State.** `rx` and `tx` are the arrays with their head and tail, `tx` with the interrupt enable bit; `reader` and
`writer` are `serial_read()` and `serial_write()` under way with their locals; `wire` what the transmitter was
given last; `line` and `main` the line under assembly and what the main loop is writing; `sys` a pending reset
and the state JOG. `host` is the text and how much of it is sent and answered.

**Steps.** `serial_read()` is a comparison, a load and a store of the tail; `serial_write()` a wait for a free
slot, the store with the new head, and the enabling of the interrupt. Two kinds of host are
composed with it: one that counts characters as the streaming protocol asks, and one that just sends.

**Abstractions.** The receive ring holds positions in the host's text, so that equal characters can be told
apart. An answer is a status and its end, the greeting one symbol. A jog cancel may fall anywhere in `serial_read()`,
which masks no interrupt; `hist.overtaken` notes that one did, and `hist.last` the last position read (history
variables, for the properties only). `Burst` says how many transmit interrupts may fall between the store of a
character and the enabling of the interrupt. The passing run and the theorems take one, since a character lasts far
longer than the three instructions; `tx_burst` shows what two would do.

### Program

**State.** `gc` is `gc_state`; `machine` the state, `sys_position`, whether the steppers run and the mode of
M88/M89; `plan` the queued displacements and the planner position; `rt` the real-time flags and alarm;
`main` where the main program is and the actions still to do for the line; `eeprom` the coordinate records and
startup lines; `report` the counter that decides when the work offset is told.

**Steps.** A line is parsed and checked in one step, because nothing interrupts the parser's data; its actions
are then executed one by one, and resets, jog cancels, ends of cycles, probe contacts and power failures fall
between them. A planner block is a displacement, as in the code: where it ends depends on where it starts. A
record is written byte by byte (`put_x`, `put_y`, `put_z`, `put_sum`), with one byte per axis and the checksum as the
code computes it.

**Abstractions.** Lengths are whole units (`MmPerInch` = 2), arcs pass points chosen from `ArcPoints`, radii are
compared as squares. Holds, doors and sleep are left to the real-time core. The repair at boot of a record that
fails its checksum is one step.

### Motion

**State.** `gen` is the planner's ring, `prep_t` with `pl_block`, `sys.step_control`, the overrides, the segment ring
and `st_block_buffer`; `stepper` the step interrupt with its block and counters; `homing` the locals of
`limits_go_home()`; `place` the distance of each axis from its switch, in steps.

**Steps.** A pass of the executor is three steps (hold or start with the copy of the flags, the rest, the reload),
and the reload is one step for each block loaded and for each segment prepared, so that step interrupts fall
everywhere. The homing cycle polls in a loop of its own, as in the code.

**Abstractions.** Speeds are squared speeds in the unit in which twice the acceleration is 1, which keeps the
planner's arithmetic in integers without changing it. A segment ends at one of the points where one of some
duration could end (multiples of `Grain`). Unit vectors are not kept: the junction speed is an input of
a line. The main program is late only with a block that starts from rest (`MainIsLate`); the code
relies on that throughout (`stepper.cpp:968-973`). A failed homing cycle collapses `mc_reset()` and the following
initialisation into one step.

## What is checked

Every run is one scenario with the smallest alphabet in which its question is interesting; `PROJECT.json` names
for each property a plausible fault of the code (the definitions marked "Seeded fault") that makes the same
run fail.

| Run | Scenario | Properties |
|---|---|---|
| `rt_door` | moves and a spindle; cycle starts, speed overrides; the door | `TypeOK`, `HoldCompleteMeansStopped`, `ParkedIsOff`, `RestoreNeedsClosedDoor`, `EndOfMotionSignalled`, `DoorHonoured`, `NoSpindleAtOpenDoor`, `NoUnaskedResume`, `SpindleRestored` |
| `rt_hold` | a program that leaves the travel; cycle starts, spindle stops; hold and reset buttons | `HoldCompleteMeansStopped`, `EndOfMotionSignalled`, `SoftLimitAborts`, `NoUnaskedResume`, `SpindleRestored` |
| `rt_jog` | jogs and pausing moves; cycle starts, feed holds, jog cancels; the door | `HoldCompleteMeansStopped`, `EndOfMotionSignalled`, `NoUnaskedResume` |
| `rt_locked` | accessories, alarms, check mode, sleep, homing; coolant toggles, resets, door commands; the door | `SleepIsOff`, `AlarmLocked`, `CheckModeIsInert` |
| `rt_live` | a pausing program; resumes, resets, door commands; the hold button | `HoldCompletes`, `ResetHonoured` |
| `stream` | every text of four characters, and longer ones with a reset and jog cancels, from a host that counts and one that does not | `RxKeepsOrder` (the ring implements `LossyQueue` but for overtaken tails, and reads in order and once) and `TxIsQueue` (the ring implements `LossyQueue`), `LineIsCleaned` (against a definition on the line as a whole), `LinesAreWhole`, `TransmitterRuns`, `Answered` |
| `program` | after an unlock every pair of some thirty lines, and triples of a line with lasting effect, a motion or offset, and a line that may show the damage; one reset, one power failure, cancels and failed cycles anywhere | `PositionIsKnown`, `OffsetIsStored`, `HostKnowsOffset`, `ProgrammedIsWorkPosition`, `StaysInTravel` |
| `plan` | lines of mixed rates; long lines with a hold; lines under overrides, with and without a hold; homing of two axes from every position, twice, with a line and a hold | `MotionType`, `PlanIsOptimal` (against the best plan by definition), `SpeedIsContinuous`, `StopsAtRest`, `StepsAreExact`, `HomedAtSwitch`, `MotionEnds` |
| `door_missed`, `alarm_unlocked`, `coolant_restore`, `home_queued` | see Divergences | one each, violated |

**Bounds.**
- *Real-time core*: one segment and one or two blocks suffice for what the properties tell apart: a queue that
  is empty, has a next block, is full; segments that are ready or have run out. Nothing bounds the
  number of lines, characters or pin changes: the runs explore the complete state space of their scenario
  (0.2 to 2.2 million states).
- *Stream*: rings of 4 and 3 slots and texts of up to 8 characters, so that both rings fill and turn over and a line
  overflows (`LineSize` 3). One reset and one jog cancel, or two cancels in the text of 8 characters, which lets a
  second cancel and a turn of the ring follow a cancel that `serial_read()` has undone.
- *Program*: a queue of one block, travel of 4 units, one reset and one power failure at any step
  (`Resets`, `PowerFails`). What one line leaves for another is a pair; the triples cover an offset, unit
  or mode set by a first line. `HomeQueued` is FALSE in `program`: with it, homing with blocks in the queue breaks
  the positions, which is the finding `home_queued`.
- *Motion*: a ring of 4 blocks (three queued) and of 3 segments (two queued, two block data), the smallest in which
  the planned pointer lags, the ring wraps and block data are reused; lines of 2 to 4 steps, one to
  four of them; one hold, up to two overrides, two homings (1.1 million states). Mixed rates and overrides
  do not meet in one scenario: together they break the plan (see Divergences).

**Fairness.**
- `Realtime!FairSpec`: the main program and the step timer keep running; the one is the only thread, the other a
  hardware timer. The host, the user and the pins owe nothing. `HoldSpec` adds strong fairness of `Standstill`: the
  deceleration ramp of `st_prep_buffer()` is finite, so a hold that keeps being prepared reaches its end; that module
  has no speeds and can say so only as an assumption. (`Motion` has speeds, and `MotionEnds` needs no such
  assumption.) A critical alarm waits for a reset by design, which is why `HoldCompletes` is about holds and not
  about alarms.
- `Stream!FairSpec`: the main program never stops, and the transmitter is hardware.
- `Motion!FairSpec`: the main program takes steps for ever (it always can), and the timer ticks while it is on.

**Deadlock** is checked except in `program` and `home_queued`: the main loop never stops, but there the host's
program ends, and the model with it.

## Divergences

Four runs expect a violation and are findings in `PROJECT.json`: `door_missed` (a door that opens between copy
and clear is dropped, `protocol.cpp:337`), `alarm_unlocked` (a cycle stop that outlives the initialisation turns
an alarm into IDLE, `protocol.cpp:408`), `coolant_restore` (mist is never restored, `protocol.cpp:681`) and
`home_queued` (`$H` is accepted while blocks are queued, `system.cpp:162`).

The following configurations reproduce further counterexamples by hand (`tlc -config <name>.cfg` with
`MCRealtime`, or the module named):

| Configuration | Property | What happens |
|---|---|---|
| `sync_moving`, `sync_preloaded` | `SyncedMeansStopped`, `SyncedMeansExecuted` | `protocol_buffer_synchronize()` leaves its loop in a hold whose planner is empty, with steps still to come (`protocol.cpp:186`) |
| `sync_forever` | `SyncEnds` | its auto cycle start comes once; when the cycle it started ends with another block queued, the wait has nothing to wait for |
| `killed_unlocked` | `KilledMeansLocked` | motors still running in the initialisation are stopped by `st_reset()` without an alarm |
| `cancel_idle` | `CancelOnlyInMotion` | a jog cancel that arrives at the end of the jog marks an idle machine (`protocol.cpp:291`) |
| `homing_stuck` | `NotStuckHoming` | `$HQ` leaves the state at HOMING (`system.cpp:171`) |
| `reset_turns_on` | `ResetMeansOff` | a line that is about to switch the spindle does so after the reset has killed it |
| `limit_no_stop` | `SoftLimitStopsFirst` | a jog or a just started program is stopped abruptly, not by a hold (`limits.cpp:675-678`) |
| `unasked_resume` | `NoUnaskedResume` | with a reset in play, a restore's automatic cycle start resumes the next hold |
| `reset_lost` | `ResetHonoured` | the read-modify-write of `protocol.cpp:59` loses a reset |
| `jog_after_reset` | `HoldCompleteMeansStopped` | `jog_execute()` starts the motors after an abort (`jog.cpp:39`) |
| `spindle_lost` | `SpindleRestored` | see below |
| `tx_burst` (`MCStream`) | `TxIsQueue` | two transmit interrupts between the store of a character and the enabling of the interrupt send what is not there (`serial.cpp:98-103`) |
| `cancel_undone` (`MCStream`) | `RxIsQueue` | `serial_read()` writes back the tail it read before a jog cancel emptied the ring (`serial.cpp:137`, `203`) |
| `resume_lost` (`MCMotion`) | `MotionFinishes` | in a hold of an idle machine a waiting block that fits the segment buffer is prepared and leaves the ring; the resume asks the ring, finds nothing and goes to IDLE with steps to come (`protocol.cpp:358`, `365`) |

`spindle_lost`: a feed hold raised in the pass that would resume after the restore blocks that start. The restore
is still initiated and runs again; a cycle start during its delay resumes the cycle from inside the delay; the end of
the restore then marks the running cycle as restored, and the next door stop resumes at once, with the spindle
off.

They delimit the passing runs: `DoorHonoured` is checked without feed holds (they share the clear with the
door), `SpindleRestored` with holds or with the door but not both, `HoldCompleteMeansStopped` without resets during
jogs, `ResetHonoured` without a door that is open at start-up, `RxKeepsOrder` allows the undone cancel
of `cancel_undone` and nothing else, `TxIsQueue` is checked with at most one interrupt before the enabling.

Observed while translating, and not checked by a run (most of them are modelled as the code has them; what lies
outside the model is marked †):

- *Real time.* A feed hold after `$HQ` waits for an end of motion that nothing will signal. A cycle start and a
  cycle stop taken in one pass leave a synchronisation waiting in IDLE. A soft limit under an abort asks
  for a second reset. Override percentages are bytes; decrements below zero become the maximum† (`protocol.cpp:423-427`).
  `fm_manager_init()` at every reset allocates again† (`main.cpp:439`).
- *Stream.* A jog cancel flushes the ring and not the line under assembly, which is glued to the next line
  (`serial.cpp:163`). `serial_get_rx_buffer_count()` is off by one when the ring has wrapped† (`serial.cpp:52`, not used).
- *M88 and M89* raise an alarm on the spot (`gcode.cpp:290-291`, `protocol.cpp:224`), which is no way out of check mode:
  `$C`, a motion, M88 leave it for ALARM without the reset that `system.cpp:137-139` promises "to ensure that the
  parser is back in sync", and after `$X` the parser believes in a motion that was never made (`PositionIsKnown`). With
  `G55`, `$C`, `M2`, `M88` it keeps the coordinate system of one selection and the number of another (`OffsetIsStored`).
  In a cycle the motors run on in ALARM, through `$X`, and the end of the cycle then stops what comes next.
- *G-code.* `$J=F100` without axis words jogs to the machine origin (`gcode.cpp:1206`). A change from G93 to G94 in inches
  leaves F unconverted (518). M88/M89 take effect although the block fails later (290-291; 437-438 promise
  otherwise). G10 without P is taken as P0 (789). P256 and L258 are
  truncated to bytes†. An arc to its start with a radius divides by zero† (1012). The mode selection is not copied to the
  parser state. M2 and M30 in check mode reset the selection of the coordinate system but not the system (1451, 1469),
  and fail after having taken effect if the record cannot be read (1470). G10 in check mode writes the
  EEPROM. `$C` with blocks in the queue, then a synchronisation, waits for ever†. A jog line in hand when a jog cancel
  comes is still planned. A record repaired while blocks are queued waits in ALARM for them†.
- *EEPROM.* The checksum is folded with `||` (`eeprom.cpp:133`, `144`) and so depends on the last byte only. Startup lines
  at 768 + 257n overlap the build information at 942†. `$N<n>=` does not check its index† (`system.cpp:297-298`). Restoring
  the startup lines clears two bytes of each (`settings.cpp:139-148`).
- *Motion.* With mixed rates a feed override that lowers the rates leaves entry speeds that cannot be reached: the
  "Guaranteed to intersect updated plan" of `stepper.cpp:1112` fails, and the test that lets the planner skip a block
  (`planner.cpp:159`) keeps such an entry. An override with an empty ring makes `planner_recalculate()` walk every slot
  and move the planned pointer to a stale one; the next block recovers. A hold that ends exactly at a block's end
  with a full segment ring would resume at the planned entry speed (excluded by `MainIsLate`). The interrupt's shut-down against
  `st_prep_buffer()` may leave IDLE with a block loaded and segments queued, which `$H` then runs (`limits.cpp:429-431`).
  A cycle stop between the homing loop's exit check and `st_reset()` is stale (463-485). The two switches of an axis share
  one bit (200-219): an axis at its far switch counts as found, and ends in the pull-off alarm†.

## What is proved

### Real-time core

For every set of lines, real-time characters and pins and every buffer size (the assumptions
`LinesAssumption`, `CommandsAssumption`, `ButtonsAssumption`, `SizesAssumption` of `Realtime`):

| Theorem | Statement |
|---|---|
| `TypeCorrect` | `Spec => []TypeOK` |
| `Invariance` | `Spec => []Inv` |
| `ParkedOff`, `RestoreClosed`, `SleepOff`, `SoftLimitsAbort` | `Spec => []P` for `ParkedIsOff`, `RestoreNeedsClosedDoor`, `SleepIsOff`, `SoftLimitAborts` |
| `NotedInvariance` | `Spec => [](Inv /\ DoorNoted /\ Inert)` |
| `OpenDoorSpindleOff`, `CheckModeInert` | `Spec => NoSpindleAtOpenDoor`, `Spec => CheckModeIsInert` |
| `EndSignalled` | `"$HQ" \notin Lines => (Spec => []EndOfMotionSignalled)` |
| `HoldAtRestOnly` | `Lines \cap {"$HQ", "$J"} = {} => (Spec => []HoldCompleteMeansStopped)` |

**Types** come first, one lemma per group of operators and per group of actions, because the
record updates of the executor make sense only on well-typed structures.

**The invariant.** None of the safety properties is inductive. "Parked means off", for instance, needs that only
a door stop or sleep is parked (`ParkedStates`), that the restore sequence runs on request only (`RestoreAsked`),
that nothing is suspended while a line runs, unless the system aborts (`ResumedOutside`), and that an abort, which
makes the outputs unswitchable, is never seen by the branches that assume they can be switched off
(`AbortPending`). `Control` in `RealtimeInvariant` collects these sixteen facts; each is named for what it says
about the code. The argument then follows the code: interrupt handlers raise flags and switch off
(`InterruptEffect`); each step of the hold group, the cycle start and the cycle stop keeps the structure `Sound`
and never makes it parked (`HoldStepsSound`, `CycleStartSound`, `CycleStopSound`); a line on its way leaves the
structure alone (`LineStep`); the rest is one case per action.

**Action properties** use two more invariants. `DoorNoted`: the ajar flag is never set
in a hold that the hold manager serves. `Inert`: check mode is never suspended and never in the middle of
switching. Eight actions can start or switch on anything (`Switching`); `OthersSwitchOff` disposes of all
others.

**Ends of motion** (`RealtimeMotionProofs`). Both properties are about a conversation between the executor and the
step interrupt, so their invariants say who holds the news. `Signalled`: a hold of moving motors has been asked of the
generator (`HoldPrepared`), a jog is not marked cancelled unless the machine is being reset (`JogUnmarked`), and the
executor's copy of the cycle stop is used before the state changes (`StopTaken`). `Stopped`: the interrupt is on in a
moving state only, or in a reset that will stop it (`OnMeansMoving`), a cycle stop means the motors are off
(`StopMeansOff`), a stale one is harmless (`StaleStop`), and a cycle starts from rest (`StartsFromRest`). The
premises are what the divergences demand: `$HQ` leaves a state that waits for nothing, and a jog may start the
motors of an aborted machine (`jog_after_reset`).

### Serial stream

For every ring size, line size, set of hosts and texts:

| Theorem | Statement |
|---|---|
| `TransmitterNeverSleeps` | `Spec => []TransmitterRuns` |
| `ReceivesInOrder` | `Spec => RxKeepsOrder` |
| `TransmitsInOrder` | `Burst <= 1 => (Spec => TxIsQueue)` |
| `LineIsCleanedAlways` | `Spec => []LineIsCleaned` |
| `LinesAreWholeAlways` | `Burst <= 1 => (Spec => []LinesAreWhole)` |

**The queues.** `ReceivesInOrder` and `TransmitsInOrder` are refinements: the initial states of `Stream` map to those of `LossyQueue`, and each of its steps to an
accepted, lost, delivered or discarded character or to a stutter. The mapping is `Contents`, the slots from the tail
to the head. It needs that `serial_read()` holds the true tail (`AtTail`) as long as no jog cancel has overtaken it
(`ReaderInvariant`), that `serial_write()` stores into a free slot (`WriterInvariant`), and that the interrupt is enabled only with something
to send, even if one transmission falls between store and enabling (`InterruptInvariant`), for the handler does not ask. Lemmas about
`Contents` (what appending at the head, removing at the tail and flushing do to it) carry the arithmetic modulo the
ring size.

A jog cancel within `serial_read()` breaks the queue: the old tail is written back, and what was discarded is there
again, together with whatever the interrupt has stored since. What survives is the order, and the argument for it does
not look at the tail: behind each character in the ring, read and discarded ones included, there are only newer ones up to
the head (`OrderInvariant`), and a character is stored behind all others. So any tail that `serial_read()`
writes back lies where only characters newer than the one just read follow.

**The text of a line.** `LineIsCleaned` defines on the whole line, by its positions, what the main loop computes one
character after the other with three flags. The invariant `LineInvariant` adds what the flags mean: as long as the line
is not too long, the parentheses flag says that the next character would be inside parentheses, the semicolon flag that
it would be behind a semicolon (`Flagged`). One more character does not change the meaning of those before it
(`OpenedStays`, `EndedStays`), so that the kept characters and their places only grow (`KeptGrows`, `PlacesGrow`); after
an overflow nothing is added but a closing parenthesis is still honoured, which changes no character that counts.

**The host's count.** `LinesAreWhole` rests on a protocol: the host never believes the receive ring emptier than it is. The
invariant `StreamedInvariant` holds as long as no jog cancel has emptied the ring under the host. Some position of the
text is the last that the main loop has taken: the line under assembly ends there, the ring continues from there
without a gap, and if the host is greeted, the ring ends with what it sent last (`Taken`). The answers on their way (in the
transmit ring, in the hand of `serial_write()`, still to be written, or owed for a line that has just ended:
`Pending`) are at most as many as the lines taken and not acknowledged (`Counted`), so an answer that arrives
acknowledges a line that has left the ring, and a character is sent only if there is room (`CountIfSent`). Across a
reset the count starts anew: while the host waits, the greeting is alone on its way behind whatever was left of old
answers, and nothing is received (`Greeting`), so when it arrives no old answer can be taken for a new one
(`CountIfGreeted`). That it is the last on its way uses the transmit ring as a queue, hence the premise on `Burst`.

### Program

For every program, travel, set of arc points, queue size and number of resets and power failures (`TravelAssumption`
of `GcodeBlock`, `ProgramAssumption` of `Program`):

| Theorem | Statement |
|---|---|
| `InvariantHolds` | `~HomeQueued => (Spec => []Inv)` |
| `StaysInTravelAlways` | `~HomeQueued => (Spec => []StaysInTravel)` |
| `BufferedPlanIsCorrectAlways` | `~HomeQueued => (Spec => []BufferedPlanIsCorrect)` |
| `HostKnowsOffsetAlways` | `~HomeQueued => (Spec => []HostKnowsOffset)` |
| `PositionIsKnownAlways` | `~HomeQueued /\ NoMachineModes => (Spec => []PositionIsKnown)` |
| `OffsetIsStoredAlways` | `~HomeQueued /\ NoMachineModes => (Spec => []OffsetIsStored)` |
| `ProgrammedIsWorkPositionAlways` | `~HomeQueued /\ NoMachineModes => (Spec => []ProgrammedIsWorkPosition)` |

The premise `~HomeQueued` is the finding `home_queued`: with `$H` sent while blocks are queued, `BufferedPlanIsCorrect`
is false. `NoMachineModes` says that no line of the host holds M88 or M89; with them the position and the
offset of the active system are lost (see Divergences, *M88 and M89*). TLC checks all three also with M88 sent at
rest.

**What a line is made of** (`GcodeProofs`). The parser folds over words and checks, and what a fold returns is an
induction over data. It is carried out here on functions over an interval of naturals: the set of the indices up to
which the claim holds is the interval (`IntervalInduction` in `DataInduction`, from the well-foundedness of the
naturals), and a fold of the library is such a function (`RecursionExists`). The results are that a block
that passed the checks has targets and offsets of vectors and, for a jog, a target inside the travel
(`CheckedIsGood`), and that its actions form a `Chain` (`StepsAreFresh`): every line of an arc, every motion and its
arrival stand together, every byte of a record is followed by the next, every change of an offset by its
announcement. `Meant` relates the block to its words: an absolute motion goes where they say under all offsets, G92
and G10 L20 take the offset under which the position reads as they say. It rests on the order of the checks, the
axis words being claimed by one command and converted to millimetres once.

**The invariant** (`ProgramProofs`) has three parts. `Shapes` are the types. `Work` says what may be left to do: a
chain; where the main program waits, the action it waits in; a machine that jogs has only its jog to do, which
ends in the travel (`JogsAlone`, because `limits_soft_check()` passes everything while jogging); a machine that homes has
nothing queued (`HomesAlone`). `Blocks` says that every queued block ends in the travel, and the last where the
planner says (`PlanAgrees`), except while homing has moved the axes and not told the planner yet. None of it could do
without the rest: a motion stays in the travel because the planner's position is where the queue ends, that because
every flush tells the planner, and a jog cancelled half way is followed by nothing that skips the check.
The steppers may stop half way in a block, so `HalfInTravel` shows that the travel is convex. One lemma per group of
actions ends in `NextInv`.

**The announcement** (`ProgramPositionProofs`) takes two facts more. `Told`: the offset was told, or will be with the next
report, or its announcement is among the actions left to do, or the firmware boots. `Stored`: the record of the first
coordinate system is sound, or being written, with the bytes written so far those of the record. The second is needed
because M2 changes the coordinate system, reads that record and announces the change only if it is sound; it
is, since a record that is half written is completed before the next action or lost with the power, and boot repairs
it.

**The position** (same module). `PositionIsKnown` speaks of a machine at rest; `PositionInv` says what it rests on while
something is under way, unless the main program is about to start again (`Ending`), which sets everything from the
motors. `PlannerFollows`: the parser is where the planner is, or the next action is the line that takes the planner
there, or the planner is already at the target and the next action tells the parser. `ProbesAtRest`: a probing cycle
begins with the motors at rest, so that where it ends is where the probe stopped them. `MotorsAgree`: motors run only in a
cycle or a jog, and a cycle stop is pending only when they have come to rest with the queue empty, or on the probe.
`Ordered`: what is left to do has no probing behind a motion that is not waited for, and check mode neither probes
nor homes. Check mode is the exception all of this names, because the parser moves there and the planner does not; the
way out is a reset, and `LinesAreModeless` says that nothing else leaves it. One lemma (`Settled`) says what the real-time
check points leave of the position wherever the main program waits.

**The outcome** (same module). `OffsetIsStored` and `ProgrammedIsWorkPosition` relate the parser's fields to the EEPROM
and to the words of the line, and in the middle of a line neither holds: a system is selected and not yet read, a
record is half written, the offset is changed and the position is not. `Outcome` says it of what the actions left to do
lead to (`Leads`: the last action that sets a field or a record counts, or what it holds now): the active system
leads to the data of the record of its number (`WillBeStored`), and the position and the three offsets to the work
position that was programmed (`WillBeThere`). `Tidy` says that nothing is set behind the end of a program, which
selects a system itself. Every action within a line carries on what the actions lead to (`Carries`, one
lemma per group of actions, `OutcomeCarried`), an abort ends in boot or a reset, which set everything anew, and
what a line leads to when it is read follows from `CheckedIsGood` and from what each part of its actions sets
(`LinesOutcome`). Between two lines nothing is left to do, and the two properties remain.

### Motion

For every ring of blocks, segment ring, step length, grain of segments, set of axes, distances and scenarios
(`PlannerAssumption`, `SegmentAssumption`, `MotionAssumption`):

| Theorem | Statement |
|---|---|
| `InvariantHolds` | `HomesWithNothingPlanned /\ Spec => []Invariant` |
| `StepsAreExactAlways` | `HomesWithNothingPlanned /\ Spec => []StepsAreExact` |
| `HomedAtSwitchAlways` | `HomesWithNothingPlanned /\ Spec => []HomedAtSwitch` |
| `MotionTypeAlways` | `HomesWithNothingPlanned /\ Spec => []MotionType` |

The premise says that the planner is empty whenever `HomeBegin` is taken. It is the motion side of the finding
`home_queued`: `$H` is accepted with blocks queued (`system.cpp:162`), and if the first of them is partly prepared and
marked for recalculation, the generator takes the system motion for its rest.

**What the operators do.** The look-ahead passes are recursive functions over the queued slots; by interval induction they
leave a plan in which nothing but the speeds of blocks and the planned pointer differ (`Replanned`). An
interruption by the planner either leaves the generator's block in hand or marks it for another load (`Interrupted`). A
load goes on with that block or takes the step data of a new one (`Loads`), and its profile ends before the block does
only in a hold (`Profiled`, by the cases of `NormalProfile`). A segment takes at least one step, except at the end of a
hold that has no step left to make (`SegmentEndIsInBlock`: a segment is at least one and a quarter steps long, so its
ends round up to different steps).

**Steps** (`StepsAreExact`) add up over three places: done by the interrupt, queued in segments, not yet prepared. The
queue's share is a sum over segments; `AppendAdds` and `StepTakes` say what a new segment and a step of the
interrupt do to it. Two facts make this inductive. `BlocksAreWhole`: all blocks of the ring are as long as they were
planned except the one in hand, which has as many steps left as its remaining length rounded up; so a block taken for
the first time starts with all its steps, and one loaded again with those that are left. `TableInvariant`: the queued
segments go through the slots of the table without leaving one out, the last one at the slot being prepared or just
before it; so the slot that a new block takes, in a table one shorter than the ring of segments, is in use by no segment
(`NewBlockStep`), and a segment whose block differs from the interrupt's is the first of that block (`StepperStep`).

**Homing** (`HomedAtSwitch`). `HomingInvariant` says what the cycle relies on: nothing planned, no hold, the system
motion in control, and the numbered alternation of approaches and pull-offs. `SwitchInvariant` says where the axes are.
In an approach an axis is let go only at its switch and then no longer moves; so all are at or behind their switches
when the direction turns. In a pull-off no axis is farther from its switch than the steps done; those are steps of the
pull-off's own block, of which there are `Pulloff` by `StepsAreExact` (`PulledOffAtMost`). The poll that ends it finds
every switch released.

### Checked by TLC only

- The liveness properties `HoldCompletes`, `ResetHonoured`, `Answered`, `MotionEnds`: fairness and ENABLED are outside the
  prover.
- `NoUnaskedResume`, `SpindleRestored`: true of their scenarios and false when the characters named above are added.
- `DoorHonoured` and `AlarmLocked`: false in general, see the findings.
- `PlanIsOptimal`, `SpeedIsContinuous` and `StopsAtRest` of `Motion`: they are about speeds, and fail when an override
  lowers the rates of lines of different rates (see Divergences), so that a proof would be about a part of the hosts
  only. What is proved of the planner's passes is that they change entry speeds and the planned pointer and no block
  otherwise.

## Not modelled

- The formatting of reports, messages and numbers (`report.cpp`, `print.cpp`, `read_float()`), and the commands that
  only print. Of the reports, the work offset's counter is modelled.
- The LCD (`fm_*.cpp`): a display that nothing in the motion, parsing or safety code reads.
- Laser mode, PWM values, spindle direction.
- The percentages of the overrides in bytes; `Motion` takes the resulting rates.
- The global settings record and the validation of `$x=` values; they are constants of a run. EEPROM addresses.
- Step timing: timer rates, adaptive smoothing, the Bresenham counters of the single axes (steps are counted per
  step event), the pulse ports.
- The arithmetic of unit vectors, junction angles and arc segments.
- A reset or a door in the middle of a homing cycle at the level of `Motion` (the resets are in `Program`).
- Code that `config.h` leaves out: parking, automatic sleep, debouncing, hard limits of the RAMPS board.
