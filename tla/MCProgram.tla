----------------------------- MODULE MCProgram -----------------------------
(***************************************************************************)
(* The programs TLC sends: every pair of the lines below after the machine *)
(* is unlocked, and longer programs aimed at what one line leaves for the  *)
(* next.                                                                   *)
(***************************************************************************)
EXTENDS ProgramProperties

Pt(x, y, z) == [X |-> x, Y |-> y, Z |-> z]
MCMaxTravel == Pt(4, 4, 4)
MCHomingDirMask == {"X", "Y"}
MCArcPoints == {Pt(1, 1, 0), Pt(3, 5, 0)}

G(words) == [kind |-> "gcode", words |-> words]
J(words) == [kind |-> "jog", words |-> words]
Sys(kind) == [kind |-> kind, words |-> <<>>]
Stored(words) == [kind |-> "store", words |-> words]
c(name) == <<name, 0>>

Motions ==
  {G(<<c("G1"), <<"X", 2>>, <<"F", 1>>>>), G(<<c("G91"), c("G0"), <<"X", 1>>, <<"Z", -1>>>>),
   G(<<c("G20"), c("G90"), c("G0"), <<"Y", 1>>>>), G(<<c("G53"), c("G0"), <<"X", 3>>>>),
   G(<<c("G2"), <<"X", 2>>, <<"I", 1>>, <<"F", 1>>>>), G(<<c("G28"), <<"X", 1>>>>),
   G(<<c("G38.2"), <<"X", 3>>, <<"F", 1>>>>), G(<<c("G38.3"), <<"X", 3>>, <<"F", 1>>>>),
   G(<<c("G0"), <<"X", 9>>>>), J(<<c("G91"), <<"X", 2>>, <<"F", 1>>>>), J(<<c("G90"), <<"X", 3>>, <<"F", 1>>>>)}

Offsets92 ==
  {G(<<c("G92"), <<"X", 1>>, <<"Z", -1>>>>), G(<<c("G92.1")>>), G(<<c("G10"), <<"L", 2>>, <<"P", 1>>, <<"X", 1>>>>),
   G(<<c("G10"), <<"L", 20>>, <<"P", 0>>, <<"X", 1>>>>), G(<<c("G10"), <<"L", 2>>, <<"P", 2>>, <<"X", 2>>>>),
   G(<<c("G55")>>), G(<<c("G43.1"), <<"Z", 1>>>>), G(<<c("G49")>>), G(<<c("G28.1")>>)}

Others ==
  {G(<<c("M2")>>), G(<<c("M0")>>), G(<<c("M3"), <<"S", 1>>>>), G(<<c("M88")>>), G(<<c("G4"), <<"P", 1>>, c("M8")>>),
   Sys("check"), Sys("clear"), Sys("home"), Sys("home_x"), Stored(<<c("G55")>>)}

\* After any two: a motion, another system, the end of the program, back from
\* check mode, and a jog.
Last ==
  {G(<<c("G90"), c("G1"), <<"Y", 3>>, <<"F", 1>>>>), G(<<c("G54")>>), G(<<c("M30")>>), Sys("check"),
   J(<<c("G90"), c("G20"), <<"X", 1>>, <<"F", 1>>>>)}

\* What may need another line to show.
Lasting == Offsets92 \cup {Sys("check"), Stored(<<c("G55")>>), G(<<c("M88")>>),
                          J(<<c("G91"), <<"X", 2>>, <<"F", 1>>>>)}

MCPrograms ==
  {<<Sys("unlock"), a, b>> : a, b \in Motions \cup Offsets92 \cup Others}
    \cup {<<Sys("unlock"), a, b, l>> : a \in Lasting, b \in Motions \cup Offsets92, l \in Last}
=============================================================================
