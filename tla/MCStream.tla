------------------------------ MODULE MCStream ------------------------------
(***************************************************************************)
(* The instance of Stream that TLC checks: every text of a few characters, *)
(* followed by lines that make the rings turn over.                        *)
(***************************************************************************)
EXTENDS StreamProperties

Alphabet == {"g", "(", ")", ";", " ", "eol"}

MCRxChars == 1..8

Turning == {<<"j", "eol", "g", "eol", "G", "eol">>, <<"g", "g", "g", "g", "eol", "eol">>}

\* A jog, and behind its cancel more characters than the ring has slots.
Overrunning == {<<"j", "eol", "g", "g", "g", "g", "g", "eol">>}

MCHosts ==
  [text : [1..4 -> Alphabet], counts : {FALSE}, resets : {0}, cancels : {0}]
    \cup [text : Turning, counts : BOOLEAN, resets : {1}, cancels : {1}]
    \cup [text : Overrunning, counts : {FALSE}, resets : {0}, cancels : {2}]
=============================================================================
