------------------------- MODULE ProgramProperties -------------------------
(***************************************************************************)
(* What a program may rely on, whatever lines came before it, wherever     *)
(* resets, jog cancels, failed probes and power failures fell.             *)
(***************************************************************************)
EXTENDS Program

\* Where the machine is after each block of the queue.
Ends(pos, queue) ==
  LET e[i \in 0..Len(queue)] == IF i = 0 THEN pos ELSE Plus(e[i - 1], queue[i])
  IN e
PlannedEnd == Ends(machine.pos, plan.queue)[Len(plan.queue)]

\* Nothing is pending between two lines.
AtRest == main.pc = "idle" /\ ~main.abort /\ rt = [flags |-> {}, alarm |-> "NONE"]

\* The three positions agree between lines: where the parser believes it is is
\* where the planner will have gone, and where the steppers will be when the
\* queue is empty: gc_sync_position() and plan_sync_position() are called
\* wherever a motion ended otherwise. In check mode the parser alone moves.
PositionIsKnown ==
  AtRest /\ machine.state # "CHECK" =>
    gc.position = plan.pos /\ plan.pos = PlannedEnd

\* "This prevents incorrect buffered plans after homing" (motion_control.cpp:346):
\* the blocks of the planner end where the planner says.
BufferedPlanIsCorrect == AtRest => plan.pos = PlannedEnd

\* The active coordinate system is the one the EEPROM holds, between lines: G10
\* on the active system, G54 to G59, M2, $RST=# and boot keep them equal. Check
\* mode resets the selection but not the system.
OffsetIsStored ==
  AtRest /\ machine.state # "CHECK" => gc.coord_system = eeprom.records[gc.coord_select].data

\* A host that shows work positions knows the work offset, or will with the next
\* report: every change of an offset is followed by system_flag_wco_change(),
\* with reports served while it waits for the buffer.
HostKnowsOffset ==
  AtRest => report.told = WorkOffset(gc) \/ report.counter = 0

\* What the words of a line say is the work position after it: absolute motions
\* and jogs, arcs, G92, and G10 L20 on the active system, in either unit and
\* under every offset.
ProgrammedIsWorkPosition ==
  AtRest => \A a \in DOMAIN hist.programmed :
              gc.position[a] - WorkOffset(gc)[a] = hist.programmed[a]

\* With soft limits the machine stays inside its travel: blocks, arcs on their
\* way, jogs sent while others are cancelled, and probes.
StaysInTravel == SoftLimits => ~OutOfTravel(machine.pos)
=============================================================================
