------------------------------ MODULE Program ------------------------------
(***************************************************************************)
(* The life of a program line: the main loop dispatches it, gc_execute_    *)
(* line() checks it and executes its actions one by one, the planner queue *)
(* holds its motions, the steppers run them, the real-time executor reacts *)
(* to resets, jog cancels and the ends of cycles at every check point, and *)
(* coordinate systems and startup lines are kept in the EEPROM.            *)
(*                                                                         *)
(* The planner keeps a block as a displacement in steps, as the code does: *)
(* where a block ends depends on where the machine is when it starts.      *)
(***************************************************************************)
EXTENDS GcodeBlock

CONSTANTS
  Programs,      \* what the host may send: sequences of lines [kind, words]
  Resets,        \* bound: resets by the user, those that end an alarm aside
  PowerFails,    \* bound: power failures of a behaviour
  QueueSize,     \* blocks the planner buffer holds: BLOCK_BUFFER_SIZE - 1
  ArcPoints,     \* points an arc may be divided at
  WcoRefresh,    \* REPORT_WCO_REFRESH_IDLE_COUNT
  HomeQueued     \* the host sends $H while blocks are queued

ASSUME ProgramAssumption ==
  /\ QueueSize \in Nat \ {0} /\ Resets \in Nat /\ PowerFails \in Nat
  /\ ArcPoints \subseteq Vector /\ WcoRefresh \in Nat \ {0, 1} /\ HomeQueued \in BOOLEAN
  /\ \A program \in Programs : program \in Seq([kind : STRING, words : Lines])

VARIABLES
  gc,       \* parser state: gc_state
  machine,  \* sys.state, sys_position, whether the steppers run, sys_mode
  plan,     \* planner queue and planner position
  rt,       \* real-time flags and alarm: sys_rt_exec_state, sys_rt_exec_alarm
  main,     \* where the main program is and what is left to do
  eeprom,   \* coordinate records and startup lines
  report,   \* sys.report_wco_counter, and the offset the host was last told
  hist      \* bounds, and the work position the last line programmed

vars == <<gc, machine, plan, rt, main, eeprom, report, hist>>

StartupLines == {0, 1}
WorkOffset(g) == Plus(Plus(g.coord_system, g.coord_offset), ToolLengthVector(g.tool_length_offset))

GcInit(system, position) ==
  [motion |-> "SEEK", feed_rate |-> "UNITS_PER_MIN", units |-> "MM", distance |-> "ABSOLUTE",
   plane_select |-> "XY", tool_length |-> "CANCEL", coord_select |-> 0, spindle |-> "DISABLE",
   coolant |-> {}, feed |-> 0, spindle_speed |-> 0, position |-> position,
   coord_system |-> system, coord_offset |-> Origin, tool_length_offset |-> 0]

NothingProgrammed == <<>>
Unprogrammed == [hist EXCEPT !.programmed = NothingProgrammed]

\* After power-up, with homing enabled, the position is unknown: HOMING_INIT_LOCK.
PowerUp ==
  [gc |-> GcInit(Origin, Origin),
   machine |-> [state |-> "ALARM", pos |-> Origin, moving |-> FALSE, mode |-> "HOTWIRE"],
   plan |-> [queue |-> <<>>, pos |-> Origin],
   rt |-> [flags |-> {}, alarm |-> "NONE"],
   main |-> [pc |-> "boot", todo |-> <<>>, startup |-> <<>>, abort |-> FALSE, contact |-> FALSE]]

Init ==
  /\ gc = PowerUp.gc /\ machine = PowerUp.machine /\ plan = PowerUp.plan
  /\ rt = PowerUp.rt /\ main = PowerUp.main
  /\ eeprom = [records |-> [n \in Records |-> Record(Origin)],
               startup |-> [n \in StartupLines |-> <<>>]]
  /\ report = [counter |-> 0, told |-> Origin]
  /\ \E program \in Programs :
       hist = [program |-> program, resets |-> Resets, fails |-> PowerFails,
               programmed |-> NothingProgrammed]

-----------------------------------------------------------------------------
(* Flags, resets and the real-time executor.                                *)

Raise(r, flag) == [r EXCEPT !.flags = @ \cup {flag}]

\* protocol_auto_cycle_start()
AutoStart(r) == IF plan.queue = <<>> THEN r ELSE Raise(r, "start")

\* mc_reset(): once, and with an alarm if something moves.
InMotion == {"CYCLE", "JOG", "HOMING"}

AfterReset(r) ==
  IF "reset" \in r.flags THEN r
  ELSE [Raise(r, "reset") EXCEPT
          !.alarm = IF machine.state = "HOMING" THEN IF @ = "NONE" THEN "HOMING_FAIL_RESET" ELSE @
                    ELSE IF machine.state \in InMotion THEN "ABORT_CYCLE" ELSE @]

Killed(r) == [machine EXCEPT !.moving = @ /\ ("reset" \in r.flags \/ machine.state \notin InMotion)]

State == [gc |-> gc, machine |-> machine, plan |-> plan, rt |-> rt, main |-> main]

Become(s) ==
  /\ gc' = s.gc /\ machine' = s.machine /\ plan' = s.plan /\ rt' = s.rt /\ main' = s.main

\* Seeded fault: the parser is not told.
FlushedParserForgotten(s) ==
  [s EXCEPT !.machine = [@ EXCEPT !.state = "IDLE", !.moving = FALSE],
            !.plan = [queue |-> <<>>, pos |-> s.machine.pos]]

\* A jog cancel stops the jog, flushes the plan and takes the position as it is.
Flushed(s) ==
  [s EXCEPT !.machine = [@ EXCEPT !.state = "IDLE", !.moving = FALSE],
            !.plan = [queue |-> <<>>, pos |-> s.machine.pos],
            !.gc = [@ EXCEPT !.position = s.machine.pos]]

Cancelled(s) == IF "cancel" \in s.rt.flags /\ s.machine.state = "JOG" THEN Flushed(s) ELSE s

Started(s) ==
  IF "start" \in s.rt.flags /\ "cancel" \notin s.rt.flags /\ s.machine.state = "IDLE"
       /\ s.plan.queue # <<>>
  THEN [s EXCEPT !.machine = [@ EXCEPT !.state = "CYCLE", !.moving = TRUE]] ELSE s

Stopped(s) ==
  IF "stop" \in s.rt.flags THEN [s EXCEPT !.machine = [@ EXCEPT !.state = "IDLE"]] ELSE s

\* protocol_execute_realtime()
Polled(s) ==
  LET alarmed == IF s.rt.alarm = "NONE" THEN s
                 ELSE [s EXCEPT !.machine = [@ EXCEPT !.state = "ALARM"],
                                !.rt = [@ EXCEPT !.alarm = "NONE"]]
  IN IF "reset" \in s.rt.flags THEN [alarmed EXCEPT !.main = [@ EXCEPT !.abort = TRUE]]
     ELSE [Stopped(Started(Cancelled(alarmed))) EXCEPT !.rt = [@ EXCEPT !.flags = {}]]

\* A jog cancel takes back what was programmed.
HistAfter(s) == IF s.gc = gc THEN hist ELSE Unprogrammed

-----------------------------------------------------------------------------
(* The steps of a block.                                                    *)

Op(name) == main.pc = "run" /\ main.todo # <<>> /\ Head(main.todo).do = name
TheOp == Head(main.todo)
Done == [main EXCEPT !.pc = "run", !.todo = Tail(@)]
At(pc) == [main EXCEPT !.pc = pc]

DoSet ==
  /\ Op("set") \/ Op("offset")
  /\ gc' = Updated(gc, TheOp.to) /\ main' = Done
  /\ UNCHANGED <<machine, plan, rt, eeprom, report, hist>>

\* The parser believes a motion that is queued has arrived.
DoPosition ==
  /\ Op("position")
  /\ gc' = [gc EXCEPT !.position = TheOp.target] /\ main' = Done
  /\ UNCHANGED <<machine, plan, rt, eeprom, report, hist>>

\* protocol_buffer_synchronize()
DoSync ==
  /\ Op("sync") \/ (Op("outputs") /\ machine.state # "CHECK")
  /\ rt' = AutoStart(rt) /\ main' = At("sync")
  /\ UNCHANGED <<gc, machine, plan, eeprom, report, hist>>

\* Spindle, coolant and dwell do nothing in check mode.
DoNoOutputs ==
  /\ Op("outputs") /\ machine.state = "CHECK"
  /\ main' = Done /\ UNCHANGED <<gc, machine, plan, rt, eeprom, report, hist>>

SyncWait ==
  /\ main.pc = "sync"
  /\ LET s == Polled(State)
         over == s.main.abort \/ (s.plan.queue = <<>> /\ s.machine.state # "CYCLE")
     IN /\ s # State \/ over
        /\ Become(IF over THEN [s EXCEPT !.main = [Done EXCEPT !.abort = s.main.abort]] ELSE s)
        /\ hist' = HistAfter(s)
  /\ UNCHANGED <<eeprom, report>>

DoWco ==
  /\ Op("wco")
  /\ report' = [report EXCEPT !.counter = 0] /\ main' = Done
  /\ UNCHANGED <<gc, machine, plan, rt, eeprom, hist>>

\* One byte of a record, and its checksum.
ByteOf == [put_x |-> "X", put_y |-> "Y", put_z |-> "Z"]

DoPut ==
  /\ \E name \in DOMAIN ByteOf :
       Op(name) /\ eeprom' = [eeprom EXCEPT !.records[TheOp.record].data[ByteOf[name]] =
                                              TheOp.data[ByteOf[name]]]
  /\ main' = Done /\ UNCHANGED <<gc, machine, plan, rt, report, hist>>

DoSum ==
  /\ Op("put_sum")
  /\ eeprom' = [eeprom EXCEPT !.records[TheOp.record].sum = Sum(TheOp.data)]
  /\ main' = Done /\ UNCHANGED <<gc, machine, plan, rt, report, hist>>

\* A program pause only holds, which Realtime models.
DoPause ==
  /\ Op("pause") /\ main' = Done
  /\ UNCHANGED <<gc, machine, plan, rt, eeprom, report, hist>>

\* The end of a program: M2 and M30.
DoEnd ==
  /\ Op("end")
  /\ LET record == eeprom.records[0]
     IN IF machine.state = "CHECK" THEN gc' = [gc EXCEPT !.coord_select = 0] /\ main' = Done
        ELSE IF Sound(record)
        THEN /\ gc' = [gc EXCEPT !.coord_select = 0, !.coord_system = record.data]
             /\ main' = [Done EXCEPT !.todo = OffsetChanged \o @]
        ELSE /\ gc' = [gc EXCEPT !.coord_select = 0, !.coord_system = Origin]
             /\ main' = [Done EXCEPT !.todo = WriteRecord(0, Origin)]
  /\ UNCHANGED <<machine, plan, rt, eeprom, report, hist>>

-----------------------------------------------------------------------------
(* Motions: mc_line(), mc_arc(), jog_execute().                             *)

SoftLimited(target) == SoftLimits /\ machine.state # "JOG" /\ OutOfTravel(target)

\* limits_soft_check(): a cycle is stopped first, which a reset may cut short;
\* then everything stops until the user resets.
SoftLimit ==
  /\ Op("line") /\ SoftLimited(TheOp.target)
  /\ LET s == Polled(State)
     IN IF machine.state = "CYCLE" /\ s.main.abort
        THEN Become([s EXCEPT !.main = [Done EXCEPT !.abort = TRUE]])
        ELSE /\ machine' = [machine EXCEPT !.state = "ALARM", !.moving = @ /\ machine.state # "CYCLE"]
             /\ rt' = [flags |-> rt.flags \ {"reset"}, alarm |-> "NONE"]
             /\ main' = At("critical") /\ UNCHANGED <<gc, plan>>
  /\ UNCHANGED <<eeprom, report, hist>>

\* The critical event loop: nothing but a reset ends it.
Critical ==
  /\ main.pc = "critical" /\ "reset" \in rt.flags
  /\ machine' = [machine EXCEPT !.state = "ALARM"] /\ rt' = [rt EXCEPT !.alarm = "NONE"]
  /\ main' = [Done EXCEPT !.abort = TRUE]
  /\ UNCHANGED <<gc, plan, eeprom, report, hist>>

LineInCheckMode ==
  /\ Op("line") /\ ~SoftLimited(TheOp.target) /\ machine.state = "CHECK"
  /\ main' = Done /\ UNCHANGED <<gc, machine, plan, rt, eeprom, report, hist>>

\* plan_buffer_line(): the displacement from the planner position, if there is one.
Buffered(p, target) ==
  LET steps == Minus(target, p.pos)
  IN IF steps = Origin THEN p ELSE [queue |-> Append(p.queue, steps), pos |-> target]

DoLine ==
  /\ Op("line") /\ ~SoftLimited(TheOp.target) /\ machine.state # "CHECK"
  /\ main' = At("line") /\ UNCHANGED <<gc, machine, plan, rt, eeprom, report, hist>>

\* The loop of mc_line(): wait for room, bail out on an abort.
LineWait ==
  /\ main.pc = "line"
  /\ LET s == Polled(State)
         full == Len(s.plan.queue) >= QueueSize
         done == [s EXCEPT !.main = [Done EXCEPT !.abort = s.main.abort]]
     IN /\ CASE s.main.abort -> Become(done)
             [] ~s.main.abort /\ full -> Become([s EXCEPT !.rt = Raise(@, "start")])
             [] OTHER -> Become([done EXCEPT !.plan = Buffered(@, TheOp.target)])
        /\ hist' = HistAfter(s)
  /\ UNCHANGED <<eeprom, report>>

DoJog ==
  /\ Op("jog")
  /\ machine' = IF machine.state = "IDLE" /\ plan.queue # <<>>
                THEN [machine EXCEPT !.state = "JOG", !.moving = TRUE] ELSE machine
  /\ main' = Done /\ UNCHANGED <<gc, plan, rt, eeprom, report, hist>>

\* An arc is lines to points on the way, its end a line of its own.
DoArc ==
  /\ Op("arc")
  /\ \E points \in {<<>>} \cup {MoveTo("line", p) : p \in ArcPoints} :
       main' = [main EXCEPT !.todo = points \o Tail(@)]
  /\ UNCHANGED <<gc, machine, plan, rt, eeprom, report, hist>>

-----------------------------------------------------------------------------
(* mc_probe_cycle()                                                         *)

\* The steps of a probing cycle.
Probing(name) == [do |-> name, target |-> TheOp.target, silent |-> TheOp.silent]

ProbeInCheckMode ==
  /\ Op("probe") /\ machine.state = "CHECK"
  /\ gc' = [gc EXCEPT !.position = TheOp.target] /\ main' = Done
  /\ UNCHANGED <<machine, plan, rt, eeprom, report, hist>>

\* Empty the queue, then probe if the probe is open.
DoProbe ==
  /\ Op("probe") /\ machine.state # "CHECK"
  /\ main' = [main EXCEPT !.contact = FALSE,
                !.todo = Do("sync") \o <<Probing("probe_open")>> \o Tail(@)]
  /\ UNCHANGED <<gc, machine, plan, rt, eeprom, report, hist>>

\* A probe that is closed already is an alarm.
ProbeClosed ==
  /\ Op("probe_open") /\ ~main.abort
  /\ Become(Polled([State EXCEPT !.rt = [@ EXCEPT !.alarm = "PROBE_FAIL_INITIAL"], !.main = Done]))
  /\ UNCHANGED <<eeprom, report, hist>>

ProbeOpen ==
  /\ Op("probe_open")
  /\ main' = IF main.abort THEN Done
             ELSE [main EXCEPT !.todo = MoveTo("line", TheOp.target)
                                          \o <<Probing("probe_run")>> \o Tail(@)]
  /\ UNCHANGED <<gc, machine, plan, rt, eeprom, report, hist>>

ProbeRun ==
  /\ Op("probe_run")
  /\ rt' = Raise(rt, "start") /\ main' = At("probing")
  /\ UNCHANGED <<gc, machine, plan, eeprom, report, hist>>

\* The stepper interrupt sees the probe close: the motion is cancelled.
ProbeContact ==
  /\ main.pc = "probing" /\ machine.moving
  /\ machine' = [machine EXCEPT !.moving = FALSE] /\ rt' = Raise(rt, "stop")
  /\ main' = [main EXCEPT !.contact = TRUE]
  /\ UNCHANGED <<gc, plan, eeprom, report, hist>>

\* The rest of the motion is flushed. Without contact the parser believes the
\* target was reached.
Probed(s) ==
  LET alarm == ~main.contact /\ ~TheOp.silent
      polled == Polled(IF alarm THEN [s EXCEPT !.rt = [@ EXCEPT !.alarm = "PROBE_FAIL_CONTACT"]] ELSE s)
  IN [polled EXCEPT
        !.machine = [@ EXCEPT !.moving = FALSE],
        !.plan = [queue |-> <<>>, pos |-> s.machine.pos],
        !.main = [Done EXCEPT !.abort = polled.main.abort],
        !.gc = [@ EXCEPT !.position = IF main.contact THEN s.machine.pos ELSE TheOp.target]]

ProbeWait ==
  /\ main.pc = "probing"
  /\ LET s == Polled(State)
         end == CASE s.main.abort -> [s EXCEPT !.main = [Done EXCEPT !.abort = TRUE]]
                  [] ~s.main.abort /\ s.machine.state = "IDLE" -> Probed(s)
                  [] OTHER -> s
     IN end # State /\ Become(end)
  /\ UNCHANGED <<eeprom, report, hist>>

-----------------------------------------------------------------------------
(* System commands with more than one step.                                 *)

DoStore ==
  /\ Op("store")
  /\ eeprom' = [eeprom EXCEPT !.startup[0] = TheOp.words] /\ main' = Done
  /\ UNCHANGED <<gc, machine, plan, rt, report, hist>>

DoClear ==
  /\ Op("clear")
  /\ LET n == TheOp.record
         others == IF n + 1 \in Records THEN <<[do |-> "clear", record |-> n + 1]>> ELSE <<>>
     IN main' = [Done EXCEPT !.todo = WriteRecord(n, Origin) \o others \o @]
  /\ UNCHANGED <<gc, machine, plan, rt, eeprom, report, hist>>

DoReset ==
  /\ Op("reset")
  /\ rt' = AfterReset(rt) /\ machine' = Killed(rt) /\ main' = Done
  /\ UNCHANGED <<gc, plan, eeprom, report, hist>>

\* limits_go_home() took the axes to their switches, or failed and reset.
HomeFound ==
  /\ Op("home") /\ ~main.abort /\ "reset" \notin rt.flags
  /\ machine' = [machine EXCEPT !.pos = [a \in Axes |-> IF a \in TheOp.axes THEN 0 ELSE @[a]]]
  /\ main' = Done /\ UNCHANGED <<gc, plan, rt, eeprom, report, hist>>

HomeSkipped ==
  /\ Op("home") /\ main.abort
  /\ main' = Done /\ UNCHANGED <<gc, machine, plan, rt, eeprom, report, hist>>

HomeFailed ==
  /\ Op("home") /\ ~main.abort
  /\ LET failed == [rt EXCEPT !.alarm = "HOMING_FAIL"]
     IN Become(Polled([State EXCEPT !.rt = AfterReset(failed), !.main = Done]))
  /\ UNCHANGED <<eeprom, report, hist>>

\* The rest of mc_homing_cycle(), and of $H.
Homed ==
  /\ Op("homed")
  /\ LET s == Polled(State)
         synced == [s EXCEPT !.machine = [@ EXCEPT !.state = "IDLE", !.moving = FALSE],
                             !.gc = [@ EXCEPT !.position = s.machine.pos],
                             !.plan = [@ EXCEPT !.pos = s.machine.pos],
                             !.main = [Done EXCEPT !.startup = TheOp.startup]]
     IN Become(IF s.main.abort THEN [s EXCEPT !.main = [Done EXCEPT !.abort = TRUE]] ELSE synced)
  /\ UNCHANGED <<eeprom, report, hist>>

-----------------------------------------------------------------------------
(* The main loop: dispatch of lines, startup lines, boot.                   *)

\* What the host programmed: the work position its words name.
Programmed(b) ==
  LET named == [a \in b.axes |-> Val(b, a) * Unit(b)]
      here == b.non_modal = "SET_COORDINATE_OFFSET" \/
              (b.non_modal = "SET_COORDINATE_DATA" /\ Val(b, "L") = 20 /\ b.select = b.coord_select)
      there == /\ b.non_modal = "NO_ACTION" /\ b.distance = "ABSOLUTE" /\ b.axis = "MOTION_MODE"
               /\ b.motion \in {"SEEK", "LINEAR", "CW_ARC", "CCW_ARC"}
  IN IF b.status = "OK" /\ b.program_flow # "COMPLETED" /\ (here \/ there)
     THEN named ELSE NothingProgrammed

\* gc_execute_line(). A machine mode takes effect as its word is read.
Execute(words, jog, then, rest) ==
  LET b == Checked(Parsed(gc, jog, words), gc, eeprom.records)
      changed == b.machine # "SAME"
  IN /\ main' = [main EXCEPT
           !.pc = "run", !.startup = rest,
           !.todo = IF b.status = "OK" THEN Steps(b, gc) \o then
                    ELSE IF b.repair # {} THEN WriteRecord(CHOOSE n \in b.repair : TRUE, Origin)
                    ELSE <<>>]
     /\ machine' = [machine EXCEPT !.mode = IF changed THEN b.machine ELSE @]
     /\ rt' = [rt EXCEPT !.alarm = IF changed THEN "MACHINE_MODE_CHANGED" ELSE @]
     /\ hist' = [hist EXCEPT !.programmed = Programmed(b),
                             !.program = IF main.pc = "idle" THEN Tail(@) ELSE @]

Directly(todo) ==
  /\ main' = [main EXCEPT !.pc = "run", !.todo = todo]
  /\ hist' = [Unprogrammed EXCEPT !.program = Tail(@)]

\* The states in which a line is not refused.
TakenIn ==
  [gcode |-> {"IDLE", "CYCLE", "CHECK"}, jog |-> {"IDLE", "JOG"}, store |-> {"IDLE"},
   check |-> {"IDLE", "CHECK"}, unlock |-> {"ALARM"}, clear |-> {"IDLE", "ALARM"},
   home |-> {"IDLE", "ALARM"}, home_x |-> {"IDLE", "ALARM"}]

\* The line is read after a check point has found nothing to do.
Reads(kind) ==
  /\ main.pc = "idle" /\ ~main.abort /\ rt = [flags |-> {}, alarm |-> "NONE"]
  /\ hist.program # <<>> /\ Head(hist.program).kind = kind
TheWords == Head(hist.program).words

Takes(kind) == Reads(kind) /\ machine.state \in TakenIn[kind]

Refused ==
  /\ \E kind \in DOMAIN TakenIn : Reads(kind) /\ machine.state \notin TakenIn[kind]
  /\ Directly(<<>>) /\ UNCHANGED <<gc, machine, plan, rt, eeprom, report>>

Gcode ==
  /\ Takes("gcode") /\ Execute(TheWords, FALSE, <<>>, <<>>) /\ UNCHANGED <<gc, plan, eeprom, report>>

Jog ==
  /\ Takes("jog") /\ Execute(TheWords, TRUE, <<>>, <<>>) /\ UNCHANGED <<gc, plan, eeprom, report>>

\* $N0=: the block is executed, then stored.
StoreStartup ==
  /\ Takes("store")
  /\ Execute(TheWords, FALSE, Do("sync") \o <<[do |-> "store", words |-> TheWords]>>, <<>>)
  /\ UNCHANGED <<gc, plan, eeprom, report>>

\* $C: into check mode, and out of it by a reset.
CheckMode ==
  /\ Takes("check")
  /\ machine' = [machine EXCEPT !.state = "CHECK"]
  /\ Directly(IF machine.state = "CHECK" THEN Do("reset") ELSE <<>>)
  /\ UNCHANGED <<gc, plan, rt, eeprom, report>>

Unlock ==
  /\ Takes("unlock")
  /\ machine' = [machine EXCEPT !.state = "IDLE"]
  /\ Directly(<<>>) /\ UNCHANGED <<gc, plan, rt, eeprom, report>>

\* $RST=#: all records are cleared, one after the other.
Clear ==
  /\ Takes("clear") /\ Directly(<<[do |-> "clear", record |-> 0]>> \o Do("reset"))
  /\ UNCHANGED <<gc, machine, plan, rt, eeprom, report>>

\* $H homes Z, then X and Y, and runs the startup lines; $HX homes X.
Home ==
  /\ HomeQueued \/ plan.queue = <<>>
  /\ machine' = [machine EXCEPT !.state = "HOMING", !.moving = FALSE]
  /\ LET homes(axes) == <<[do |-> "home", axes |-> axes]>>
         end(startup) == <<[do |-> "homed", startup |-> startup]>>
     IN \/ Takes("home") /\ Directly(homes({"Z"}) \o homes({"X", "Y"}) \o end(<<0, 1>>))
        \/ Takes("home_x") /\ Directly(homes({"X"}) \o end(<<>>))
  /\ UNCHANGED <<gc, plan, rt, eeprom, report>>

\* The next startup line, or the end of the line.
Startup ==
  /\ main.pc = "run" /\ main.todo = <<>> /\ main.startup # <<>>
  /\ Execute(eeprom.startup[Head(main.startup)], FALSE, <<>>, Tail(main.startup))
  /\ UNCHANGED <<gc, plan, eeprom, report>>

EndOfLine ==
  /\ main.pc = "run" /\ main.todo = <<>> /\ main.startup = <<>>
  /\ main' = At("idle") /\ UNCHANGED <<gc, machine, plan, rt, eeprom, report, hist>>

\* The check points: at the end of a line, and with nothing to read, when
\* queued blocks are started.
Idle ==
  /\ main.pc = "idle"
  /\ \E r \in {rt, AutoStart(rt)} :
     LET s == Polled([State EXCEPT !.rt = r])
         next == IF s.main.abort THEN [s EXCEPT !.main = [@ EXCEPT !.pc = "boot"]] ELSE s
     IN next # State /\ Become(next) /\ hist' = HistAfter(next)
  /\ UNCHANGED <<eeprom, report>>

\* main(): after power-up and after every abort.
Boot ==
  /\ main.pc = "boot"
  /\ LET record == eeprom.records[0]
         system == IF Sound(record) THEN record.data ELSE Origin
         locked == machine.state = "ALARM"
     IN /\ gc' = GcInit(system, machine.pos)
        /\ eeprom' = [eeprom EXCEPT !.records[0] = IF Sound(record) THEN @ ELSE Record(Origin)]
        /\ machine' = [machine EXCEPT !.state = IF locked THEN @ ELSE "IDLE", !.moving = FALSE]
        /\ main' = [pc |-> "run", todo |-> <<>>, startup |-> IF locked THEN <<>> ELSE <<0, 1>>,
                    abort |-> FALSE, contact |-> FALSE]
  /\ plan' = [queue |-> <<>>, pos |-> machine.pos]
  /\ rt' = [flags |-> {}, alarm |-> "NONE"]
  /\ report' = [report EXCEPT !.counter = 0] /\ hist' = Unprogrammed

-----------------------------------------------------------------------------
(* Interrupts and the world.                                                *)

\* The steppers finish the block in hand, or half of it.
Move ==
  /\ machine.moving /\ plan.queue # <<>>
  /\ LET steps == Head(plan.queue)
         half == [a \in Axes |-> steps[a] \div 2]
         rest == Minus(steps, half)
         halved(q) == IF rest = Origin THEN Tail(q) ELSE <<rest>> \o Tail(q)
     IN \/ /\ machine' = [machine EXCEPT !.pos = Plus(@, steps)]
           /\ plan' = [plan EXCEPT !.queue = Tail(@)]
        \/ /\ half # Origin
           /\ machine' = [machine EXCEPT !.pos = Plus(@, half)]
           /\ plan' = [plan EXCEPT !.queue = halved(@)]
  /\ UNCHANGED <<gc, rt, main, eeprom, report, hist>>

\* Nothing left to execute.
MotionEnds ==
  /\ machine.moving /\ plan.queue = <<>>
  /\ machine' = [machine EXCEPT !.moving = FALSE] /\ rt' = Raise(rt, "stop")
  /\ UNCHANGED <<gc, plan, main, eeprom, report, hist>>

UserReset ==
  /\ main.pc # "boot" /\ "reset" \notin rt.flags
  /\ hist.resets > 0 \/ main.pc = "critical"
  /\ rt' = AfterReset(rt) /\ machine' = Killed(rt)
  /\ hist' = [hist EXCEPT !.resets = IF main.pc = "critical" THEN @ ELSE @ - 1]
  /\ UNCHANGED <<gc, plan, main, eeprom, report>>

JogCancel ==
  /\ machine.state = "JOG" /\ "cancel" \notin rt.flags
  /\ rt' = Raise(rt, "cancel") /\ UNCHANGED <<gc, machine, plan, main, eeprom, report, hist>>

\* A status report, at any check point.
StatusReport ==
  /\ main.pc \in {"idle", "sync", "line", "probing"}
  /\ report' = IF report.counter > 0 THEN [report EXCEPT !.counter = @ - 1]
               ELSE [counter |-> WcoRefresh - 1, told |-> WorkOffset(gc)]
  /\ UNCHANGED <<gc, machine, plan, rt, main, eeprom, hist>>

PowerFail ==
  /\ hist.fails > 0 /\ hist' = [Unprogrammed EXCEPT !.fails = @ - 1]
  /\ Become(PowerUp) /\ UNCHANGED <<eeprom, report>>

Next ==
  \/ DoSet \/ DoPosition \/ DoSync \/ DoNoOutputs \/ SyncWait \/ DoWco \/ DoPut \/ DoSum \/ DoPause \/ DoEnd
  \/ SoftLimit \/ Critical \/ LineInCheckMode \/ DoLine \/ LineWait \/ DoJog \/ DoArc
  \/ ProbeInCheckMode \/ DoProbe \/ ProbeClosed \/ ProbeOpen \/ ProbeRun \/ ProbeContact \/ ProbeWait
  \/ DoStore \/ DoClear \/ DoReset \/ HomeFound \/ HomeSkipped \/ HomeFailed \/ Homed
  \/ Refused \/ Gcode \/ Jog \/ StoreStartup \/ CheckMode \/ Unlock \/ Clear \/ Home
  \/ Startup \/ EndOfLine \/ Idle \/ Boot
  \/ Move \/ MotionEnds \/ UserReset \/ JogCancel \/ StatusReport \/ PowerFail

Spec == Init /\ [][Next]_vars
=============================================================================
