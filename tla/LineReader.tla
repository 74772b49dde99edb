----------------------------- MODULE LineReader -----------------------------
(***************************************************************************)
(* How protocol_main_loop() assembles a line from characters: it drops     *)
(* blanks, comments and the block delete sign, raises letters to upper     *)
(* case and notes a line that does not fit its buffer. A line under way is *)
(* the text so far with the flags of the loop.                             *)
(***************************************************************************)
EXTENDS Naturals, Sequences

CONSTANT LineSize        \* LINE_BUFFER_SIZE: a line has at most LineSize - 1 characters

ASSUME LineSizeAssumption == LineSize \in Nat \ {0}

Blank == {" "}           \* white space and control characters
Skipped == Blank \cup {"/"}
Semicolon == ";"
Upper(c) == CASE c = "g" -> "G" [] c = "j" -> "J" [] OTHER -> c
Letters == {"g", "j", "G", "J"}
CharSet == Skipped \cup Letters \cup {"(", ")", Semicolon, "eol"}

LineFlags == {"OVERFLOW", "PARENTHESES", "SEMICOLON"}

LineState == [text : Seq(CharSet), flags : SUBSET LineFlags]

NoLine == [text |-> <<>>, flags |-> {}]

\* Seeded fault: the end of a comment clears every flag.
CommentEndClearsAll(line) == [line EXCEPT !.flags = {}]

CommentEnd(line) == [line EXCEPT !.flags = @ \ {"PARENTHESES"}]

AddFlag(line, flag) == [line EXCEPT !.flags = @ \cup {flag}]

\* A character other than an end of line.
AddChar(line, c) ==
  IF line.flags # {} THEN (IF c = ")" THEN CommentEnd(line) ELSE line)
  ELSE CASE c \in Skipped -> line
         [] c = "(" -> AddFlag(line, "PARENTHESES")
         [] c = Semicolon -> AddFlag(line, "SEMICOLON")
         [] OTHER -> IF Len(line.text) >= LineSize - 1 THEN AddFlag(line, "OVERFLOW")
                     ELSE [line EXCEPT !.text = Append(@, Upper(c))]
=============================================================================
