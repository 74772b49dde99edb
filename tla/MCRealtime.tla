----------------------------- MODULE MCRealtime -----------------------------
(***************************************************************************)
(* Instances of the real-time core for TLC: what the host sends in each    *)
(* scenario. The configurations choose a scenario, the real-time characters*)
(* and pins that go with it, and the sizes of the buffers.                 *)
(***************************************************************************)
EXTENDS RealtimeInvariant

\* A program: moves with a spindle.
ProgramLines == {"G1", "M3"}

\* A program that leaves the machine's travel, and its recovery.
HoldLines == {"G1", "G1 far", "M3", "$X"}

\* Jogging between moves that pause.
JogLines == {"G1 M0", "$J"}

\* Accessories switched in every mode that locks the machine: alarm, sleep,
\* check mode and a homing command.
LockedLines ==
  {"G1 far", "M3", "M5", "M7", "M8", "M9", "$C", "$SLP", "$X", "$HQ"}

\* A program that pauses after each move, alone.
PauseLines == {"G1 M0"}
=============================================================================
