------------------------------- MODULE Editor -------------------------------
(***************************************************************************)
(* The text editor that runs on the machine (src/edit/src/edit.c).         *)
(*                                                                         *)
(* The record editor is the code's struct Data and the terminal.  A line   *)
(* is an array of MaxLineLength characters up to a NUL, kept in a slot;    *)
(* index gives the slot of each line of the text, freeSlots is a stack of  *)
(* those in no use.  The cursor is at line top + row and column            *)
(* left + col; only the current line scrolls sideways.                     *)
(*                                                                         *)
(* The terminal shows rows 1 .. LinesHeight (linesHeight) of Width         *)
(* characters and clips what is longer; its escape sequences scroll only   *)
(* from the last and the first row.  The status line is left out.          *)
(***************************************************************************)
EXTENDS Integers, Sequences

CONSTANTS
  MaxLines, MaxLineLength,   \* 999 and 256
  Width, LinesHeight,        \* of the terminal; the status line is below
  Chars, Nul,                \* what can be typed, and the end of a line
  Documents,                 \* files that may be opened: sequences of bytes
  ReadFailed,                \* the line added when a file cannot be read on
  Edits                      \* bound: keys that change the text

\* A file without a byte to show leaves the editor with no line at all.
ASSUME EditorAssumption ==
  /\ MaxLines \in Nat \ {0} /\ MaxLineLength \in Nat \ {0, 1}
  /\ Width \in Nat \ {0} /\ LinesHeight \in Nat \ {0} /\ Edits \in Nat
  /\ Chars \cup {Nul} \subseteq STRING /\ Nul \notin Chars
  /\ Documents \subseteq Seq(STRING)
  /\ ReadFailed \in Seq(STRING) /\ Len(ReadFailed) < MaxLineLength
  /\ \A bytes \in Documents : \E n \in DOMAIN bytes : bytes[n] # "CR"

VARIABLES editor, edits

vars == <<editor, edits>>

Slots == 0 .. MaxLines - 1
NoSlot == -1

-----------------------------------------------------------------------------
(* Lines.                                                                  *)

\* How far the NUL is behind place n (or the end of the slot, were there none).
stringLen(line, n) ==
  LET Ends(k) == IF n + k < MaxLineLength THEN line[n + k] = Nul ELSE TRUE IN
  CHOOSE k \in 0 .. MaxLineLength - n : Ends(k) /\ \A j \in 0 .. k - 1 : ~Ends(j)

TextFrom(line, n) == [k \in 1 .. stringLen(line, n) |-> line[n + k - 1]]

\* The text s, and a NUL, from place n on; what is behind stays.
stringCopy(line, n, s) ==
  [k \in DOMAIN line |-> IF k < n \/ k > n + Len(s) THEN line[k]
                         ELSE IF k = n + Len(s) THEN Nul ELSE s[k - n + 1]]

Current(d) == d.top + d.row
Cursor(d) == d.left + d.col
getLineAt(d, i) == d.text[d.index[i]]
getCurrentLine(d) == getLineAt(d, Current(d))
getLineLength(d, i) == stringLen(getLineAt(d, i), 0)
getCurrentLength(d) == getLineLength(d, Current(d))

freeSlot(d, slot) ==
  [d EXCEPT !.text[slot][0] = Nul, !.freeSlots[d.freeCount] = slot, !.freeCount = @ + 1]

\* allocSlot, addToSlot and the place in the index; no room, no line.
insertLineAtPos(d, pos, s) ==
  LET slot == d.freeSlots[d.freeCount - 1] IN
  IF d.count >= MaxLines \/ d.freeCount = 0 THEN d
  ELSE [d EXCEPT !.freeCount = @ - 1, !.count = @ + 1,
                 !.text[slot] = stringCopy(@, 0, s),
                 !.index = [i \in Slots |-> IF i = pos THEN slot
                                            ELSE IF pos < i /\ i <= d.count THEN @[i - 1] ELSE @[i]]]

IndexWithout(d, pos) ==
  [i \in Slots |-> IF i = d.count - 1 THEN NoSlot
                   ELSE IF pos <= i /\ i < d.count - 1 THEN d.index[i + 1] ELSE d.index[i]]

\* Faulty variant: the slot is looked up when the index has been closed up.
RemoveLineLate(d, pos) ==
  freeSlot([d EXCEPT !.count = @ - 1, !.index = IndexWithout(d, pos)],
           d.index[IF pos < d.count - 1 THEN pos + 1 ELSE pos])

\* The line at pos leaves the index, and its slot is the next to be used.
RemoveLine(d, pos) ==
  freeSlot([d EXCEPT !.count = @ - 1, !.index = IndexWithout(d, pos)], d.index[pos])

-----------------------------------------------------------------------------
(* The terminal.                                                           *)

Clip(s) == SubSeq(s, 1, IF Len(s) < Width THEN Len(s) ELSE Width)

\* What belongs in a row of the screen.
RowOf(d, r) ==
  LET i == d.top + r - 1 IN
  CASE i >= d.count -> <<>>
    [] i < d.count /\ i # Current(d) -> Clip(TextFrom(getLineAt(d, i), 0))
    [] i < d.count /\ i = Current(d) ->
         IF d.left < getLineLength(d, i) THEN Clip(TextFrom(getLineAt(d, i), d.left)) ELSE <<>>

redrawLines(d, first, last) ==
  [d EXCEPT !.screen = [r \in DOMAIN @ |-> IF r \in first .. last THEN RowOf(d, r) ELSE @[r]],
            !.terminalRow = IF first <= last THEN last ELSE @]

updateStatusLineAndSetCursor(d) == [d EXCEPT !.terminalRow = d.row + 1]

conscrollup(d) ==
  IF d.terminalRow = LinesHeight
  THEN [d EXCEPT !.screen = [r \in DOMAIN @ |-> IF r = LinesHeight THEN <<>> ELSE @[r + 1]]]
  ELSE [d EXCEPT !.terminalRow = @ + 1]

conscrolldown(d) ==
  IF d.terminalRow = 1
  THEN [d EXCEPT !.screen = [r \in DOMAIN @ |-> IF r = 1 THEN <<>> ELSE @[r - 1]]]
  ELSE [d EXCEPT !.terminalRow = @ - 1]

restoreCurrentLine(d) ==
  IF d.left = 0 THEN d ELSE redrawLines([d EXCEPT !.left = 0], d.row + 1, d.row + 1)

-----------------------------------------------------------------------------
(* Moving.  The column is not adjusted to a shorter line, and may be past  *)
(* its end from then on.                                                   *)

moveUp(d) ==
  LET r == restoreCurrentLine(d) IN
  CASE Current(d) = 0 -> d
    [] Current(d) # 0 /\ d.row = 0 -> conscrolldown([r EXCEPT !.top = @ - 1])
    [] Current(d) # 0 /\ d.row # 0 -> [r EXCEPT !.row = @ - 1]

LineBelow(d) ==
  LET r == restoreCurrentLine(d) IN
  IF d.row = LinesHeight - 1 THEN conscrollup([r EXCEPT !.top = @ + 1]) ELSE [r EXCEPT !.row = @ + 1]

moveDown(d) == IF Current(d) = d.count - 1 THEN d ELSE LineBelow(d)

moveLeft(d) ==
  CASE d.col = 0 /\ d.left = 0 -> d
    [] d.col = 0 /\ d.left # 0 -> [d EXCEPT !.left = @ - 1]
    [] OTHER                   -> [d EXCEPT !.col = @ - 1]

moveRight(d) ==
  IF Cursor(d) = getCurrentLength(d) THEN d
  ELSE IF d.col = Width - 1 THEN [d EXCEPT !.left = @ + 1] ELSE [d EXCEPT !.col = @ + 1]

moveEnd(d) ==
  LET len == getCurrentLength(d) IN
  CASE Cursor(d) = len -> d
    [] Cursor(d) # len /\ len < d.left + Width  -> [d EXCEPT !.col = len - d.left]
    [] Cursor(d) # len /\ len >= d.left + Width -> [d EXCEPT !.left = len - Width + 1, !.col = Width - 1]

-----------------------------------------------------------------------------
(* Changing the text.                                                      *)

Rewrite(d, line) == [d EXCEPT !.text[d.index[Current(d)]] = line]
Full(d) == getCurrentLength(d) >= MaxLineLength - 1

Opened(line, cur, c) ==
  LET len == stringLen(line, 0) IN
  [k \in DOMAIN line |-> IF k = cur THEN c
                         ELSE IF cur < k /\ k <= len + 1 THEN line[k - 1] ELSE line[k]]

Closed(line, cur) ==
  [k \in DOMAIN line |-> IF cur <= k /\ k < stringLen(line, 0) THEN line[k + 1] ELSE line[k]]

addChar(d, c) == Rewrite(d, Opened(getCurrentLine(d), Cursor(d), c))
deleteLeftChar(d) == Rewrite(d, Closed(getCurrentLine(d), Cursor(d) - 1))
deleteChar(d) == Rewrite(d, Closed(getCurrentLine(d), Cursor(d)))

splitLine(d) ==
  LET i == Current(d)
      below == insertLineAtPos(d, i + 1, TextFrom(getLineAt(d, i), Cursor(d))) IN
  [below EXCEPT !.text[d.index[i]][Cursor(d)] = Nul]

\* Line i and the next fit into one.
CanJoin(d, i) ==
  i >= 0 /\ i < d.count - 1 /\ getLineLength(d, i) + getLineLength(d, i + 1) < MaxLineLength

\* strcat(line1, line2).
Concatenated(d, i) ==
  [d EXCEPT !.text[d.index[i]] = stringCopy(@, getLineLength(d, i), TextFrom(getLineAt(d, i + 1), 0))]

joinWithNextLine(d) == RemoveLine(Concatenated(d, Current(d)), Current(d) + 1)

\* Faulty variant: the end is looked for when the text has been joined.
JoinThenMoveEnd(d) ==
  LET cur == Current(d) IN moveEnd(RemoveLine(Concatenated(moveUp(d), cur - 1), cur))

joinWithPreviousLine(d) ==
  LET cur == Current(d) IN RemoveLine(Concatenated(moveEnd(moveUp(d)), cur - 1), cur)

-----------------------------------------------------------------------------
(* The keys, as run handles them: from Data to Data.                       *)

Redrawn(d, first, last) == updateStatusLineAndSetCursor(redrawLines(d, first, last))
RedrawnIf(condition, d, first, last) ==
  updateStatusLineAndSetCursor(IF condition THEN redrawLines(d, first, last) ELSE d)

\* Faulty variant: a line may be filled to its last place.
CharacterTooMany(d, c) ==
  IF getCurrentLength(d) >= MaxLineLength THEN d
  ELSE LET typed == moveRight(addChar(d, c)) IN Redrawn(typed, d.row + 1, d.row + 1)

Character(d, c) ==
  IF Full(d) THEN d ELSE Redrawn(moveRight(addChar(d, c)), d.row + 1, d.row + 1)

\* Faulty variant: when the screen scrolls only the new line is drawn.
EnterLastRow(d) ==
  LET start == [splitLine(d) EXCEPT !.left = 0, !.col = 0]
      below == moveDown(start) IN
  IF d.count >= MaxLines THEN d
  ELSE Redrawn(below, IF below.top > d.top THEN LinesHeight ELSE below.row, LinesHeight)

Enter(d) ==
  LET start == [splitLine(d) EXCEPT !.left = 0, !.col = 0]
      below == moveDown(start) IN
  IF d.count >= MaxLines THEN d
  ELSE Redrawn(below, IF below.top > d.top THEN LinesHeight - 1 ELSE below.row, LinesHeight)

Delete(d) ==
  LET i == Current(d) IN
  CASE getCurrentLength(d) # Cursor(d) -> Redrawn(deleteChar(d), d.row + 1, d.row + 1)
    [] getCurrentLength(d) = Cursor(d) /\ CanJoin(d, i) ->
         Redrawn(joinWithNextLine(d), d.row + 1, LinesHeight)
    [] OTHER -> d

Backspace(d) ==
  LET i == Current(d)
      joined == joinWithPreviousLine(d) IN
  CASE Cursor(d) # 0 -> Redrawn(moveLeft(deleteLeftChar(d)), d.row + 1, d.row + 1)
    [] Cursor(d) = 0 /\ CanJoin(d, i - 1) -> Redrawn(joined, joined.row + 1, LinesHeight)
    [] OTHER -> d

Up(d)    == LET m == moveUp(d) IN RedrawnIf(m.top # d.top, m, 1, 1)
Down(d) == LET m == moveDown(d) IN RedrawnIf(m.top # d.top, m, LinesHeight, LinesHeight)
Left(d)  == LET m == moveLeft(d) IN RedrawnIf(m.left # d.left, m, d.row + 1, d.row + 1)
Right(d) == LET m == moveRight(d) IN RedrawnIf(m.left # d.left, m, d.row + 1, d.row + 1)
Home(d)  == RedrawnIf(Cursor(d) > 0, [d EXCEPT !.left = 0, !.col = 0], d.row + 1, d.row + 1)
End(d)   ==
  LET m == moveEnd(d) IN
  RedrawnIf(Cursor(d) # getCurrentLength(d) /\ getCurrentLength(d) >= d.left + Width,
            m, d.row + 1, d.row + 1)

-----------------------------------------------------------------------------
(* The document.                                                           *)

appendLine(d, s) == insertLineAtPos(d, d.count, s)

Converted(byte) == CASE byte = "TAB" -> " " [] byte = "HIGH" -> "?" [] OTHER -> byte

\* A line ends at a line feed, or when its slot is full.
ReadByte(s, byte) ==
  LET tmps == Append(s.tmps, Converted(byte)) IN
  CASE byte = "LF" -> [d |-> appendLine(s.d, s.tmps), tmps |-> <<>>]
    [] byte = "CR" -> s
    [] byte \notin {"LF", "CR"} ->
         IF Len(tmps) = MaxLineLength - 1 THEN [d |-> appendLine(s.d, tmps), tmps |-> <<>>]
                                          ELSE [s EXCEPT !.tmps = tmps]

\* A read that fails loses the line begun.
readFile(d, bytes, fails) ==
  LET read[n \in 0 .. Len(bytes)] ==
        IF n = 0 THEN [d |-> d, tmps |-> <<>>] ELSE ReadByte(read[n - 1], bytes[n])
      s == read[Len(bytes)] IN
  CASE fails -> appendLine(s.d, ReadFailed)
    [] ~fails /\ s.tmps # <<>> -> appendLine(s.d, s.tmps)
    [] ~fails /\ s.tmps = <<>> -> s.d

Empty ==
  [text |-> [slot \in Slots |-> [k \in 0 .. MaxLineLength - 1 |-> Nul]],
   freeSlots |-> [i \in Slots |-> i], freeCount |-> MaxLines,
   index |-> [i \in Slots |-> NoSlot], count |-> 0,
   top |-> 0, row |-> 0, left |-> 0, col |-> 0,
   screen |-> [r \in 1 .. LinesHeight |-> <<>>], terminalRow |-> 1]

Init ==
  /\ edits = 0
  /\ \E bytes \in Documents, fails \in BOOLEAN :
       editor = Redrawn(readFile(Empty, bytes, fails), 1, LinesHeight)

-----------------------------------------------------------------------------
(* Bounds, on what is typed where the cursor is past the end of its line:  *)
(* there nothing stops it.  No key takes it out of the slot of the line,   *)
(* none overwrites the NUL at the end of a slot, and End is not pressed    *)
(* when the end is off the screen to the left (col would be negative, and  *)
(* Home then does not redraw).                                             *)

InSlot(d) == 0 <= Cursor(d) /\ Cursor(d) < MaxLineLength /\ 0 <= d.col

Edit(after) ==
  /\ edits < Edits
  /\ InSlot(after)
  /\ editor' = after
  /\ edits' = edits + 1

Move(after) ==
  /\ InSlot(after)
  /\ editor' = after
  /\ UNCHANGED edits

TypeKey(c) == (Full(editor) \/ Cursor(editor) < MaxLineLength - 1) /\ Edit(Character(editor, c))
EnterKey == Edit(Enter(editor))
DeleteKey == Edit(Delete(editor))
BackspaceKey == Edit(Backspace(editor))
MoveKey == \E after \in {Up(editor), Down(editor), Left(editor), Right(editor),
                         Home(editor), End(editor)} : Move(after)

Next == (\E c \in Chars : TypeKey(c)) \/ EnterKey \/ DeleteKey \/ BackspaceKey \/ MoveKey

Spec == Init /\ [][Next]_vars

-----------------------------------------------------------------------------
(* Properties.                                                             *)

Terminated(line) == line[MaxLineLength - 1] = Nul

\* The editor's data are in their ranges.  Every slot ends with a NUL, so that
\* no line runs into the next slot (addChar, joinWithNextLine, readFile), and
\* the cursor is on a line of the text and in a row of the screen, so that
\* nothing is typed into the dummy line (moveUp, moveDown, both joins).
TypeOK ==
  /\ edits \in 0 .. Edits
  /\ \A slot \in Slots : Terminated(editor.text[slot])
  /\ editor.count \in 1 .. MaxLines /\ editor.freeCount \in 0 .. MaxLines - 1
  /\ \A i \in Slots : editor.index[i] \in Slots \cup {NoSlot} /\ editor.freeSlots[i] \in Slots
  /\ editor.top \in 0 .. MaxLines - 1 /\ editor.left \in 0 .. MaxLineLength - 1
  /\ editor.row \in 0 .. LinesHeight - 1 /\ Current(editor) < editor.count

\* Every slot belongs to exactly one line of the text or is free, once: lines
\* that are split off, joined and read never share a slot and none is lost
\* (insertLineAtPos, freeSlot and the loops over index in both joins).
SlotsPartition ==
  LET d == editor
      used == 0 .. d.count - 1
      free == 0 .. d.freeCount - 1 IN
  /\ d.count + d.freeCount = MaxLines
  /\ \A i \in used : d.index[i] \in Slots
  /\ \A i, j \in used : d.index[i] = d.index[j] => i = j
  /\ \A i, j \in free : d.freeSlots[i] = d.freeSlots[j] => i = j
  /\ \A i \in used, j \in free : d.index[i] # d.freeSlots[j]

\* The screen shows the text, though each key redraws only the rows it thinks
\* it changed and leaves the rest to the terminal's scrolling (run,
\* redrawLines, restoreCurrentLine).
ScreenShowsText == \A r \in 1 .. LinesHeight : editor.screen[r] = RowOf(editor, r)

\* (SubSeq has TLC evaluate all the lines at once, in one state.)
Lines(d) == SubSeq([i \in 1 .. d.count |-> TextFrom(getLineAt(d, i - 1), 0)], 1, d.count)

Text == INSTANCE TextBuffer WITH
          lines  <- Lines(editor),
          line   <- Current(editor) + 1,
          column <- Cursor(editor)

\* The editor edits a list of lines at a cursor: slots, index and scrolling
\* do not show (edit.c, all of it).
ImplementsText == Text!Spec
=============================================================================
