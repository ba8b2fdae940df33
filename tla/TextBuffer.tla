----------------------------- MODULE TextBuffer -----------------------------
(***************************************************************************)
(* What the text editor promises (src/edit/src/edit.c): a text is a list   *)
(* of lines, there is a cursor, and a key changes the text at the cursor   *)
(* and nowhere else.  No slots, no screen, no scrolling.                   *)
(*                                                                         *)
(* Up and Down leave the cursor at its column also when the line they      *)
(* reach is shorter.  Past the end of a line a character typed is lost,    *)
(* and Enter opens a line of whatever text.                                *)
(***************************************************************************)
EXTENDS Integers, SequencesExt

CONSTANTS MaxLines, MaxLineLength, Chars

VARIABLES lines, line, column   \* line from 1, column from 0

text == <<lines, line, column>>

Here == lines[line]
Fits(s) == Len(s) < MaxLineLength
Before == SubSeq(Here, 1, column)
Behind(n) == SubSeq(Here, column + 1 + n, Len(Here))

Init ==
  /\ lines # <<>> /\ Len(lines) <= MaxLines
  /\ \A l \in DOMAIN lines : Fits(lines[l])
  /\ line = 1 /\ column = 0

Type(c) ==
  /\ Fits(Append(Here, c))
  /\ lines' = IF column <= Len(Here) THEN ReplaceAt(lines, line, Before \o <<c>> \o Behind(0)) ELSE lines
  /\ line' = line /\ column' = column + 1

Enter ==
  /\ Len(lines) < MaxLines /\ Len(lines') = Len(lines) + 1
  /\ lines' = IF column <= Len(Here)
              THEN InsertAt(ReplaceAt(lines, line, Before), line + 1, Behind(0))
              ELSE InsertAt(lines, line + 1, lines'[line + 1])
  /\ line' = line + 1 /\ column' = 0

\* The two lines from l on become one, if it is short enough.
CanJoin(l) == l \in 1 .. Len(lines) - 1 /\ Fits(lines[l] \o lines[l + 1])
Joined(l) == RemoveAt(ReplaceAt(lines, l, lines[l] \o lines[l + 1]), l + 1)

Delete ==
  /\ column = Len(Here) => CanJoin(line)
  /\ lines' = CASE column = Len(Here) -> Joined(line)
                [] column < Len(Here) -> ReplaceAt(lines, line, Before \o Behind(1))
                [] column > Len(Here) -> lines
  /\ line' = line /\ column' = column

Backspace ==
  \/ /\ column = 0 /\ CanJoin(line - 1)
     /\ lines' = Joined(line - 1)
     /\ line' = line - 1 /\ column' = Len(lines[line - 1])
  \/ /\ column > 0
     /\ lines' = IF column <= Len(Here)
                 THEN ReplaceAt(lines, line, SubSeq(Here, 1, column - 1) \o Behind(0)) ELSE lines
     /\ line' = line /\ column' = column - 1

\* The line that is left scrolls back to its start, and the cursor with it.
Vertical ==
  /\ line' \in {line - 1, line + 1} \cap DOMAIN lines
  /\ column' <= column
  /\ UNCHANGED lines

Horizontal ==
  /\ line' = line
  /\ column' \in {column - 1, column + 1, 0, Len(Here)}
  /\ column' = column - 1 => column > 0
  /\ column' = column + 1 => column # Len(Here)
  /\ UNCHANGED lines

Next == (\E c \in Chars : Type(c)) \/ Enter \/ Delete \/ Backspace \/ Vertical \/ Horizontal

Spec == Init /\ [][Next]_text
=============================================================================
