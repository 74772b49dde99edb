------------------------------ MODULE MCMotion ------------------------------
(***************************************************************************)
(* The instance of Motion that TLC checks: lines of different rates with   *)
(* holds, lines of one rate with overrides, and homing.                    *)
(***************************************************************************)
EXTENDS MotionProperties

Line(count, kind, rate, junction) ==
  [count |-> count, axes |-> {}, kind |-> kind, rate |-> rate, rapid |-> 16, junction |-> junction]

Over(f, r) == [f |-> f, r |-> r]

Scenario == [lines |-> 0, choice |-> {}, holds |-> 0, resumes |-> 0,
             overrides |-> 0, overs |-> {}, homes |-> 0, starts |-> {1}]

Mixed == {Line(2, "feed", 8, 4), Line(2, "rapid", 16, 1000), Line(3, "feed", 16, 1000)}

Long == {Line(4, "feed", 16, 1000), Line(2, "feed", 16, 1000)}

MCScenarios ==
  { [Scenario EXCEPT !.lines = 4, !.choice = Mixed],
    [Scenario EXCEPT !.lines = 3, !.choice = Long, !.holds = 1, !.resumes = 1],
    [Scenario EXCEPT !.lines = 2, !.choice = {Line(4, "feed", 16, 1000), Line(3, "feed", 16, 4)},
                     !.overrides = 2, !.overs = {Over(1, 2), Over(2, 2)}],
    [Scenario EXCEPT !.lines = 2, !.choice = {Line(4, "feed", 16, 1000)},
                     !.overrides = 1, !.overs = {Over(1, 2)}, !.holds = 1, !.resumes = 1],
    [Scenario EXCEPT !.lines = 1, !.choice = {Line(2, "feed", 16, 0)},
                     !.homes = 2, !.holds = 1, !.resumes = 1, !.starts = 0..2] }
=============================================================================
