---------------------------- MODULE EditorProofs ----------------------------
(***************************************************************************)
(* Proofs about the text editor, for every number and length of lines,     *)
(* every size of the screen and every document.                            *)
(***************************************************************************)
EXTENDS Editor, NaturalLemmas

-----------------------------------------------------------------------------
(***************************************************************************)
(* The record of the editor, field by field: what its parts are, and that  *)
(* an update keeps the others.                                             *)
(***************************************************************************)
\* (The provers do not know that a literal is a string.)
Letters == STRING \cup {" ", "?"}

Places == 0 .. MaxLineLength - 1
Line   == [Places -> Letters]

Fields == {"text", "freeSlots", "freeCount", "index", "count", "top", "row", "left", "col",
           "screen", "terminalRow"}
Record(d) == d = [f \in Fields |-> d[f]]

Screen(s) == s = [r \in 1 .. LinesHeight |-> s[r]]

IsData(d) ==
  /\ Record(d)
  /\ d.text \in [Slots -> Line]
  /\ d.freeSlots \in [Slots -> Slots] /\ d.freeCount \in Int
  /\ d.index \in [Slots -> Slots \cup {NoSlot}] /\ d.count \in Int
  /\ d.top \in Int /\ d.row \in Int /\ d.left \in Int /\ d.col \in Int
  /\ Screen(d.screen) /\ d.terminalRow \in Int

SameSlots(d, e) ==
  /\ e.freeSlots = d.freeSlots /\ e.freeCount = d.freeCount
  /\ e.index = d.index /\ e.count = d.count
SameText(d, e)   == SameSlots(d, e) /\ e.text = d.text
SameCursor(d, e) == e.top = d.top /\ e.row = d.row /\ e.left = d.left /\ e.col = d.col
SameScreen(d, e) == e.screen = d.screen /\ e.terminalRow = d.terminalRow

LEMMA DataNumbers ==
  ASSUME NEW d, IsData(d)
  PROVE  /\ d.freeCount \in Int /\ d.count \in Int /\ d.terminalRow \in Int
         /\ d.top \in Int /\ d.row \in Int /\ d.left \in Int /\ d.col \in Int
BY DEF IsData

-----------------------------------------------------------------------------
(***************************************************************************)
(* Lines.                                                                  *)
(***************************************************************************)

LEMMA WiderSequences ==
  ASSUME NEW S, NEW T, S \subseteq T, NEW s \in Seq(S)
  PROVE  s \in Seq(T)
<1>1. s \in [1 .. Len(s) -> S] /\ Len(s) \in Nat
  OBVIOUS
<1>2. PICK n \in Nat : n = Len(s)
  BY <1>1
<1>3. s \in [1 .. n -> T]
  BY <1>1, <1>2
<1>4. QED
  BY <1>3

LEMMA TextIsLetters ==
  /\ Nul \in Letters /\ Chars \subseteq Letters
  /\ Documents \subseteq Seq(Letters) /\ ReadFailed \in Seq(Letters)
<1>1. PICK Strings : Strings = STRING
  OBVIOUS
<1>2. Strings \subseteq Letters
  BY <1>1 DEF Letters
<1>3. \A s \in Seq(Strings) : s \in Seq(Letters)
  BY <1>2, WiderSequences
<1>4. Documents \subseteq Seq(Letters) /\ ReadFailed \in Seq(Letters)
  BY <1>1, <1>3, EditorAssumption
<1>5. Nul \in Letters /\ Chars \subseteq Letters
  BY EditorAssumption DEF Letters
<1>6. QED
  BY <1>4, <1>5

\* The NUL is found: the first one, or the end of the slot.
LEMMA StringLength ==
  ASSUME NEW line, NEW n \in 0 .. MaxLineLength
  PROVE  /\ stringLen(line, n) \in 0 .. MaxLineLength - n
         /\ n + stringLen(line, n) < MaxLineLength => line[n + stringLen(line, n)] = Nul
         /\ \A j \in 0 .. stringLen(line, n) - 1 : line[n + j] # Nul
<1> USE EditorAssumption
<1> DEFINE Ends(k) == IF n + k < MaxLineLength THEN line[n + k] = Nul ELSE TRUE
           T == {k \in 0 .. MaxLineLength - n : Ends(k)}
           First(k) == Ends(k) /\ \A j \in 0 .. k - 1 : ~Ends(j)
<1>1. T \in SUBSET Nat
  OBVIOUS
<1>2. MaxLineLength - n \in T
  OBVIOUS
<1>3. PICK k \in T : \A y \in T : k <= y
  <2> HIDE DEF T
  <2>1. QED
    BY <1>1, <1>2, LeastNumber
<1>4. k \in 0 .. MaxLineLength - n /\ First(k)
  <2>1. k \in 0 .. MaxLineLength - n /\ Ends(k)
    OBVIOUS
  <2>2. ASSUME NEW j \in 0 .. k - 1, Ends(j)
        PROVE  FALSE
    <3>1. j \in 0 .. MaxLineLength - n /\ j < k
      BY <2>1
    <3>2. j \in T
      BY <2>2, <3>1
    <3>3. k <= j
      <4> HIDE DEF T
      <4>1. QED
        BY <1>3, <3>2
    <3>4. QED
      BY <2>1, <3>1, <3>3
  <2>3. QED
    BY <2>1, <2>2
<1>5. stringLen(line, n) = CHOOSE l \in 0 .. MaxLineLength - n : First(l)
  BY DEF stringLen
<1> DEFINE len == stringLen(line, n)
<1>6. len \in 0 .. MaxLineLength - n /\ First(len)
  <2> HIDE DEF First
  <2>1. QED
    BY <1>4, <1>5
<1>7. \A j \in 0 .. len - 1 : n + j < MaxLineLength /\ ~Ends(j)
  BY <1>6
<1>8. QED
  BY <1>6, <1>7

\* There is only one such number.
LEMMA LengthIs ==
  ASSUME NEW line, NEW n \in 0 .. MaxLineLength, NEW k \in 0 .. MaxLineLength - n,
         n + k < MaxLineLength => line[n + k] = Nul,
         \A j \in 0 .. k - 1 : line[n + j] # Nul
  PROVE  stringLen(line, n) = k
<1> DEFINE len == stringLen(line, n)
<1>1. /\ len \in 0 .. MaxLineLength - n
      /\ n + len < MaxLineLength => line[n + len] = Nul
      /\ \A j \in 0 .. len - 1 : line[n + j] # Nul
  BY StringLength
<1> HIDE DEF len
<1>2. ~(k < len)
  BY <1>1, EditorAssumption
<1>3. ~(len < k)
  BY <1>1, EditorAssumption
<1>4. QED
  BY <1>1, <1>2, <1>3 DEF len

\* A slot that ends with a NUL has its line end before that or there.
LEMMA TerminatedLength ==
  ASSUME NEW line, NEW n \in Places, Terminated(line)
  PROVE  /\ stringLen(line, n) \in 0 .. MaxLineLength - 1 - n
         /\ n + stringLen(line, n) \in Places /\ line[n + stringLen(line, n)] = Nul
         /\ \A j \in 0 .. stringLen(line, n) - 1 : line[n + j] # Nul
<1> USE EditorAssumption
<1> DEFINE len == stringLen(line, n)
<1>1. /\ len \in 0 .. MaxLineLength - n
      /\ n + len < MaxLineLength => line[n + len] = Nul
      /\ \A j \in 0 .. len - 1 : line[n + j] # Nul
  BY StringLength DEF Places
<1> HIDE DEF len
<1>2. len # MaxLineLength - n
  <2>1. SUFFICES ASSUME len = MaxLineLength - n
                 PROVE  FALSE
    OBVIOUS
  <2>2. MaxLineLength - 1 - n \in 0 .. len - 1 /\ n + (MaxLineLength - 1 - n) = MaxLineLength - 1
    BY <2>1 DEF Places
  <2>3. QED
    BY <1>1, <2>2 DEF Terminated
<1>3. QED
  BY <1>1, <1>2 DEF len, Places

LEMMA TextFromIs ==
  ASSUME NEW line \in Line, NEW n \in 0 .. MaxLineLength
  PROVE  /\ TextFrom(line, n) \in Seq(Letters)
         /\ Len(TextFrom(line, n)) = stringLen(line, n)
         /\ \A k \in 1 .. stringLen(line, n) : TextFrom(line, n)[k] = line[n + k - 1]
<1> USE EditorAssumption
<1> DEFINE len == stringLen(line, n)
<1>1. len \in 0 .. MaxLineLength - n
  BY StringLength
<1>2. TextFrom(line, n) = [k \in 1 .. len |-> line[n + k - 1]]
  BY DEF TextFrom
<1> HIDE DEF len
<1>3. \A k \in 1 .. len : line[n + k - 1] \in Letters
  BY <1>1 DEF Line, Places
<1>4. TextFrom(line, n) \in [1 .. len -> Letters] /\ len \in Nat
  BY <1>1, <1>2, <1>3
<1>5. TextFrom(line, n) \in Seq(Letters) /\ Len(TextFrom(line, n)) = len
  BY <1>4
<1>6. \A k \in 1 .. len : TextFrom(line, n)[k] = line[n + k - 1]
  BY <1>2
<1>7. QED
  BY <1>5, <1>6 DEF len

\* A copy keeps a slot's type; its end stays a NUL if the text leaves room.
LEMMA CopyIs ==
  ASSUME NEW line \in Line, NEW n \in Nat, NEW s \in Seq(Letters)
  PROVE  /\ stringCopy(line, n, s) \in Line
         /\ Terminated(line) /\ n + Len(s) < MaxLineLength => Terminated(stringCopy(line, n, s))
<1> USE EditorAssumption, TextIsLetters
<1> DEFINE new == stringCopy(line, n, s)
           len == Len(s)
<1>1. len \in Nat /\ DOMAIN line = Places
  BY DEF Line
<1>2. \A k \in 1 .. len : s[k] \in Letters
  OBVIOUS
<1>3. new = [k \in Places |-> IF k < n \/ k > n + len THEN line[k]
                              ELSE IF k = n + len THEN Nul ELSE s[k - n + 1]]
  BY <1>1 DEF stringCopy
<1> HIDE DEF new, len
<1>4. \A k \in Places : new[k] \in Letters
  <2>1. SUFFICES ASSUME NEW k \in Places
                 PROVE  new[k] \in Letters
    OBVIOUS
  <2>2. CASE k < n \/ k > n + len
    BY <1>3, <2>2 DEF Line
  <2>3. CASE k = n + len
    BY <1>1, <1>3, <2>3
  <2>4. CASE n <= k /\ k < n + len
    <3>1. k - n + 1 \in 1 .. len
      BY <1>1, <2>4 DEF Places
    <3>2. new[k] = s[k - n + 1]
      BY <1>1, <1>3, <2>4 DEF Places
    <3>3. QED
      BY <1>2, <3>1, <3>2
  <2>5. QED
    BY <1>1, <2>2, <2>3, <2>4 DEF Places
<1>5. new \in Line
  BY <1>3, <1>4 DEF Line
<1>6. Terminated(line) /\ n + len < MaxLineLength => Terminated(new)
  <2>1. MaxLineLength - 1 \in Places
    BY DEF Places
  <2>2. QED
    BY <1>1, <1>3, <2>1 DEF Terminated
<1>7. QED
  BY <1>5, <1>6 DEF new, len

-----------------------------------------------------------------------------
(***************************************************************************)
(* The slots: what is in use, and what is free.                            *)
(***************************************************************************)
Partition(d) ==
  /\ d.count \in 0 .. MaxLines /\ d.count + d.freeCount = MaxLines
  /\ \A i \in 0 .. d.count - 1 : d.index[i] \in Slots
  /\ \A i, j \in 0 .. d.count - 1 : d.index[i] = d.index[j] => i = j
  /\ \A i, j \in 0 .. d.freeCount - 1 : d.freeSlots[i] = d.freeSlots[j] => i = j
  /\ \A i \in 0 .. d.count - 1, j \in 0 .. d.freeCount - 1 : d.index[i] # d.freeSlots[j]

AllTerminated(d) == \A slot \in Slots : Terminated(d.text[slot])

LEMMA SameSlotsPartition ==
  ASSUME NEW d, NEW e, Partition(d), SameSlots(d, e)
  PROVE  Partition(e)
BY DEF Partition, SameSlots

\* What has changed when a line was inserted, and when one was removed.
Inserted(d, e, pos, slot, s) ==
  /\ IsData(e) /\ SameCursor(d, e) /\ SameScreen(d, e)
  /\ d.freeCount \in 1 .. MaxLines /\ slot \in Slots
  /\ e.count = d.count + 1 /\ e.freeCount = d.freeCount - 1
  /\ e.freeSlots = d.freeSlots
  /\ e.text = [d.text EXCEPT ![slot] = stringCopy(d.text[slot], 0, s)]
  /\ \A i \in Slots : e.index[i] =
       IF i = pos THEN slot
       ELSE IF pos < i /\ i <= d.count THEN d.index[i - 1] ELSE d.index[i]

Removed(d, e, pos, slot) ==
  /\ IsData(e) /\ SameCursor(d, e) /\ SameScreen(d, e)
  /\ d.freeCount \in Slots /\ slot \in Slots
  /\ e.count = d.count - 1 /\ e.freeCount = d.freeCount + 1
  /\ e.freeSlots = [d.freeSlots EXCEPT ![d.freeCount] = slot]
  /\ e.text = [d.text EXCEPT ![slot] = [d.text[slot] EXCEPT ![0] = Nul]]
  /\ e.index = IndexWithout(d, pos)

\* A line is inserted: the last free slot goes into the index at pos.
LEMMA InsertIs ==
  ASSUME NEW d, IsData(d), Partition(d), d.count < MaxLines, NEW pos \in 0 .. d.count,
         NEW s \in Seq(Letters), NEW e, e = insertLineAtPos(d, pos, s),
         NEW slot, slot = d.freeSlots[d.freeCount - 1]
  PROVE  Inserted(d, e, pos, slot, s)
<1> USE EditorAssumption
<1> DEFINE ix == [i \in Slots |-> IF i = pos THEN slot
                                  ELSE IF pos < i /\ i <= d.count THEN d.index[i - 1] ELSE d.index[i]]
<1>1. d.freeCount \in 1 .. MaxLines /\ d.count \in Nat /\ d.freeCount - 1 \in Slots
  <2>1. d.count \in 0 .. MaxLines /\ d.count + d.freeCount = MaxLines /\ d.freeCount \in Int
    BY DEF IsData, Partition
  <2>2. PICK count \in Int, free \in Int : count = d.count /\ free = d.freeCount
    BY <2>1
  <2>3. count \in 0 .. MaxLines /\ count + free = MaxLines /\ count < MaxLines
    BY <2>1, <2>2
  <2>4. count >= 0 /\ count < MaxLines /\ free = MaxLines - count
    BY <2>3
  <2>5. free \in 1 .. MaxLines
    BY <2>4
  <2>6. free - 1 \in 0 .. MaxLines - 1
    BY <2>5
  <2>7. QED
    BY <2>2, <2>4, <2>5, <2>6 DEF Slots
<1>2. slot \in Slots
  BY <1>1 DEF IsData
<1> DEFINE u == [d EXCEPT !.freeCount = @ - 1, !.count = @ + 1,
                          !.text[slot] = stringCopy(@, 0, s), !.index = 
                    [i \in Slots |-> IF i = pos THEN slot
                                     ELSE IF pos < i /\ i <= d.count THEN @[i - 1] ELSE @[i]]]
<1>3. e = u
  <2>1. ~(d.count >= MaxLines) /\ d.freeCount # 0
    BY <1>1
  <2>2. QED
    BY <2>1 DEF insertLineAtPos
<1>4. /\ Record(u)
      /\ u.freeSlots = d.freeSlots /\ u.freeCount = d.freeCount - 1
      /\ u.count = d.count + 1 /\ u.index = ix
      /\ u.text = [d.text EXCEPT ![slot] = stringCopy(d.text[slot], 0, s)]
      /\ SameCursor(d, u) /\ SameScreen(d, u)
  BY DEF IsData, Record, Fields, SameCursor, SameScreen
<1> HIDE DEF ix, u
<1>5. /\ Record(e)
      /\ e.freeSlots = d.freeSlots /\ e.freeCount = d.freeCount - 1
      /\ e.count = d.count + 1 /\ e.index = ix
      /\ e.text = [d.text EXCEPT ![slot] = stringCopy(d.text[slot], 0, s)]
      /\ SameCursor(d, e) /\ SameScreen(d, e)
  BY <1>3, <1>4
<1>6. ix \in [Slots -> Slots \cup {NoSlot}]
  <2>1. ASSUME NEW i \in Slots
        PROVE  ix[i] \in Slots \cup {NoSlot}
    <3>1. pos < i => i - 1 \in Slots
      BY DEF Slots
    <3>2. QED
      BY <1>2, <3>1 DEF ix, IsData
  <2>2. QED
    BY <2>1 DEF ix
<1>7. stringCopy(d.text[slot], 0, s) \in Line
  BY <1>2, CopyIs DEF IsData
<1>8. e.text \in [Slots -> Line]
  BY <1>2, <1>5, <1>7 DEF IsData
<1>9. IsData(e)
  <2>1. e.freeCount \in Int /\ e.count \in Int /\ e.terminalRow \in Int
    BY <1>5, DataNumbers DEF SameScreen
  <2>2. e.top \in Int /\ e.row \in Int /\ e.left \in Int /\ e.col \in Int
    BY <1>5 DEF IsData, SameCursor
  <2>3. QED
    BY <1>5, <1>6, <1>8, <2>1, <2>2 DEF IsData, SameScreen
<1>10. QED
  BY <1>1, <1>2, <1>5, <1>9 DEF ix, Inserted

LEMMA InsertPartitions ==
  ASSUME NEW d, IsData(d), Partition(d), d.count < MaxLines, NEW pos \in 0 .. d.count,
         NEW s \in Seq(Letters), NEW e, e = insertLineAtPos(d, pos, s)
  PROVE  Partition(e)
<1> USE EditorAssumption
<1>1. PICK slot : slot = d.freeSlots[d.freeCount - 1]
  OBVIOUS
<1> DEFINE old(i) == IF i < pos THEN i ELSE i - 1
<1>2. /\ d.freeCount \in 1 .. MaxLines
      /\ slot \in Slots
      /\ e.count = d.count + 1 /\ e.freeCount = d.freeCount - 1
      /\ e.freeSlots = d.freeSlots
      /\ \A i \in Slots : e.index[i] =
           IF i = pos THEN slot
           ELSE IF pos < i /\ i <= d.count THEN d.index[i - 1] ELSE d.index[i]
  <2>1. Inserted(d, e, pos, slot, s)
    BY <1>1, InsertIs
  <2>2. QED
    BY <2>1 DEF Inserted
<1>3. d.count \in 0 .. MaxLines /\ d.count + d.freeCount = MaxLines
  BY DEF Partition
<1>4. ASSUME NEW i \in 0 .. e.count - 1
      PROVE  /\ i = pos => e.index[i] = slot
             /\ i # pos => old(i) \in 0 .. d.count - 1 /\ e.index[i] = d.index[old(i)]
  <2>1. i \in Slots /\ i <= d.count
    BY <1>2, <1>3 DEF Slots
  <2>2. CASE i = pos
    BY <1>2, <2>1, <2>2
  <2>3. CASE i < pos
    BY <1>2, <1>3, <2>1, <2>3 DEF Slots
  <2>4. CASE pos < i
    BY <1>2, <1>3, <2>1, <2>4 DEF Slots
  <2>5. QED
    BY <2>2, <2>3, <2>4, <1>3
<1>5. e.count \in 0 .. MaxLines /\ e.count + e.freeCount = MaxLines
  BY <1>2, <1>3
<1>6. \A i \in 0 .. d.count - 1 : d.index[i] \in Slots /\ d.index[i] # slot
  <2>1. d.freeCount - 1 \in 0 .. d.freeCount - 1
    BY <1>2
  <2>2. QED
    BY <1>1, <2>1 DEF Partition
<1>7. \A i \in 0 .. e.count - 1 : e.index[i] \in Slots
  BY <1>2, <1>4, <1>6
<1>8. ASSUME NEW i \in 0 .. e.count - 1, NEW j \in 0 .. e.count - 1, e.index[i] = e.index[j]
      PROVE  i = j
  <2>1. CASE i = pos /\ j = pos
    BY <2>1
  <2>2. CASE i = pos /\ j # pos
    BY <1>4, <1>6, <1>8, <2>2
  <2>3. CASE i # pos /\ j = pos
    BY <1>4, <1>6, <1>8, <2>3
  <2>4. CASE i # pos /\ j # pos
    <3>1. /\ old(i) \in 0 .. d.count - 1 /\ old(j) \in 0 .. d.count - 1
          /\ d.index[old(i)] = d.index[old(j)]
      BY <1>4, <1>8, <2>4
    <3>2. old(i) = old(j)
      <4> HIDE DEF old
      <4>1. QED
        BY <3>1 DEF Partition
    <3>3. QED
      BY <1>2, <1>3, <2>4, <3>2
  <2>5. QED
    BY <2>1, <2>2, <2>3, <2>4
<1>9. ASSUME NEW i \in 0 .. e.count - 1, NEW j \in 0 .. e.freeCount - 1, e.index[i] = e.freeSlots[j]
      PROVE  FALSE
  <2>1. j \in 0 .. d.freeCount - 1 /\ j # d.freeCount - 1 /\ d.freeCount - 1 \in 0 .. d.freeCount - 1
    BY <1>2
  <2>2. e.freeSlots[j] = d.freeSlots[j]
    BY <1>2
  <2>3. CASE i = pos
    <3>1. d.freeSlots[j] = d.freeSlots[d.freeCount - 1]
      BY <1>1, <1>4, <1>9, <2>2, <2>3
    <3>2. QED
      BY <2>1, <3>1 DEF Partition
  <2>4. CASE i # pos
    <3>1. old(i) \in 0 .. d.count - 1 /\ d.index[old(i)] = d.freeSlots[j]
      BY <1>4, <1>9, <2>2, <2>4
    <3> HIDE DEF old
    <3>2. QED
      BY <2>1, <3>1 DEF Partition
  <2>5. QED
    BY <2>3, <2>4
<1>10. \A i, j \in 0 .. e.freeCount - 1 : e.freeSlots[i] = e.freeSlots[j] => i = j
  <2>1. \A i \in 0 .. e.freeCount - 1 : i \in 0 .. d.freeCount - 1
    BY <1>2
  <2>2. QED
    BY <1>2, <2>1 DEF Partition
<1>11. QED
  BY <1>5, <1>7, <1>8, <1>9, <1>10 DEF Partition

\* A line is removed: its slot goes on top of the free ones.
LEMMA RemoveIs ==
  ASSUME NEW d, IsData(d), Partition(d), NEW pos \in 0 .. d.count - 1,
         NEW e, e = RemoveLine(d, pos), NEW slot, slot = d.index[pos]
  PROVE  Removed(d, e, pos, slot)
<1> USE EditorAssumption
<1> DEFINE ix == IndexWithout(d, pos)
<1>1. d.count \in 0 .. MaxLines /\ d.count + d.freeCount = MaxLines /\ d.freeCount \in Int
  BY DEF IsData, Partition
<1>2. d.freeCount \in Slots /\ pos \in Slots
  BY <1>1 DEF Slots
<1>3. slot \in Slots
  BY DEF Partition
<1> DEFINE c == [d EXCEPT !.count = @ - 1, !.index = ix]
<1> HIDE DEF ix
<1>4. /\ Record(c) /\ c.count = d.count - 1 /\ c.index = ix /\ c.text = d.text
      /\ c.freeSlots = d.freeSlots /\ c.freeCount = d.freeCount
      /\ SameCursor(d, c) /\ SameScreen(d, c)
  BY DEF IsData, Record, Fields, SameCursor, SameScreen
<1>5. e = freeSlot(c, slot)
  BY DEF RemoveLine, ix
<1> HIDE DEF c
<1>6. /\ Record(e) /\ e.count = c.count /\ e.index = c.index
      /\ e.text = [c.text EXCEPT ![slot][0] = Nul]
      /\ e.freeSlots = [c.freeSlots EXCEPT ![c.freeCount] = slot] /\ e.freeCount = c.freeCount + 1
      /\ SameCursor(c, e) /\ SameScreen(c, e)
  <2> DEFINE u == [c EXCEPT !.text[slot][0] = Nul, !.freeSlots[c.freeCount] = slot,
                            !.freeCount = @ + 1]
  <2>1. e = u
    BY <1>5 DEF freeSlot
  <2>2. /\ Record(u) /\ u.count = c.count /\ u.index = c.index
        /\ u.text = [c.text EXCEPT ![slot][0] = Nul]
        /\ u.freeSlots = [c.freeSlots EXCEPT ![c.freeCount] = slot] /\ u.freeCount = c.freeCount + 1
        /\ SameCursor(c, u) /\ SameScreen(c, u)
    BY <1>4 DEF Record, Fields, SameCursor, SameScreen
  <2> HIDE DEF u
  <2>3. QED
    BY <2>1, <2>2
<1>7. e.text = [d.text EXCEPT ![slot] = [d.text[slot] EXCEPT ![0] = Nul]]
  BY <1>4, <1>6
<1>8. [d.text[slot] EXCEPT ![0] = Nul] \in Line
  <2>1. d.text[slot] \in Line
    BY <1>3 DEF IsData
  <2>2. Nul \in Letters
    BY TextIsLetters
  <2>3. QED
    BY <2>1, <2>2 DEF Line
<1>9. e.text \in [Slots -> Line]
  BY <1>3, <1>7, <1>8 DEF IsData
<1>10. e.freeSlots \in [Slots -> Slots]
  BY <1>2, <1>3, <1>4, <1>6 DEF IsData
<1>11. ix \in [Slots -> Slots \cup {NoSlot}]
  <2>1. ASSUME NEW i \in Slots
        PROVE  (IF i = d.count - 1 THEN NoSlot
                ELSE IF pos <= i /\ i < d.count - 1 THEN d.index[i + 1] ELSE d.index[i])
                 \in Slots \cup {NoSlot}
    <3>1. i < d.count - 1 => i + 1 \in Slots
      BY <1>1 DEF Slots
    <3>2. QED
      BY <3>1 DEF IsData
  <2>2. QED
    BY <2>1 DEF ix, IndexWithout
<1>12. IsData(e)
  <2>1. e.freeCount = d.freeCount + 1 /\ e.count = d.count - 1
    BY <1>4, <1>6
  <2>2. d.freeCount \in Int /\ d.count \in Int
    BY DataNumbers
  <2>3. e.freeCount \in Int /\ e.count \in Int
    BY <2>1, <2>2
  <2>4. e.terminalRow \in Int /\ Screen(e.screen)
    BY <1>4, <1>6 DEF IsData, SameScreen
  <2>5. e.top \in Int /\ e.row \in Int /\ e.left \in Int /\ e.col \in Int
    BY <1>4, <1>6, DataNumbers DEF SameCursor
  <2>6. QED
    BY <1>4, <1>6, <1>9, <1>10, <1>11, <2>3, <2>4, <2>5 DEF IsData
<1>13. SameCursor(d, e) /\ SameScreen(d, e)
  BY <1>4, <1>6 DEF SameCursor, SameScreen
<1>14. QED
  BY <1>2, <1>3, <1>4, <1>6, <1>7, <1>12, <1>13 DEF ix, Removed

LEMMA RemovePartitions ==
  ASSUME NEW d, IsData(d), Partition(d), NEW pos \in 0 .. d.count - 1,
         NEW e, e = RemoveLine(d, pos)
  PROVE  Partition(e)
<1> USE EditorAssumption
<1>1. PICK slot : slot = d.index[pos]
  OBVIOUS
<1> DEFINE old(i) == IF i < pos THEN i ELSE i + 1
<1>2. /\ e.count = d.count - 1 /\ e.freeCount = d.freeCount + 1
      /\ d.freeCount \in Slots
      /\ e.freeSlots = [d.freeSlots EXCEPT ![d.freeCount] = slot]
      /\ e.index = IndexWithout(d, pos)
  <2>1. Removed(d, e, pos, slot)
    BY <1>1, RemoveIs
  <2>2. QED
    BY <2>1 DEF Removed
<1>3. d.count \in 1 .. MaxLines /\ d.count + d.freeCount = MaxLines /\ d.freeCount \in Nat
  <2>1. d.count \in 0 .. MaxLines /\ d.count + d.freeCount = MaxLines /\ d.freeCount \in Int
    BY DEF Partition, IsData
  <2>2. QED
    BY <2>1
<1>4. ASSUME NEW i \in 0 .. e.count - 1
      PROVE  /\ e.index[i] = d.index[old(i)] /\ old(i) \in 0 .. d.count - 1 /\ old(i) # pos
  <2>1. i \in Slots /\ i < d.count - 1
    BY <1>2, <1>3 DEF Slots
  <2>2. e.index[i] = IF pos <= i THEN d.index[i + 1] ELSE d.index[i]
    BY <1>2, <1>3, <2>1 DEF IndexWithout
  <2>3. QED
    BY <1>2, <1>3, <2>1, <2>2
<1>5. /\ \A i \in 0 .. d.freeCount - 1 : e.freeSlots[i] = d.freeSlots[i]
      /\ e.freeSlots[d.freeCount] = slot
  <2>1. \A i \in 0 .. d.freeCount - 1 : i \in Slots /\ i # d.freeCount
    BY <1>2 DEF Slots
  <2>2. d.freeSlots \in [Slots -> Slots]
    BY DEF IsData
  <2>3. QED
    BY <1>2, <2>1, <2>2
<1>6. ASSUME NEW i \in 0 .. e.count - 1, NEW j \in 0 .. e.count - 1, e.index[i] = e.index[j]
      PROVE  i = j
  <2>1. /\ old(i) \in 0 .. d.count - 1 /\ old(j) \in 0 .. d.count - 1
        /\ d.index[old(i)] = d.index[old(j)]
    BY <1>4, <1>6
  <2>2. old(i) = old(j)
    <3> HIDE DEF old
    <3>1. QED
      BY <2>1 DEF Partition
  <2>3. e.count - 1 \in Int /\ pos \in Int
    BY <1>2, <1>3
  <2>4. i \in Int /\ j \in Int
    BY <2>3
  <2>5. QED
    BY <2>2, <2>3, <2>4
<1>7. ASSUME NEW i \in 0 .. e.count - 1
      PROVE  e.index[i] \in Slots /\ e.index[i] # slot
  <2> HIDE DEF old
  <2>1. old(i) \in 0 .. d.count - 1 /\ old(i) # pos /\ e.index[i] = d.index[old(i)]
    BY <1>4
  <2>2. QED
    BY <1>1, <2>1 DEF Partition
<1>8. ASSUME NEW i \in 0 .. e.count - 1, NEW j \in 0 .. e.freeCount - 1, e.index[i] = e.freeSlots[j]
      PROVE  FALSE
  <2> HIDE DEF old
  <2>1. CASE j = d.freeCount
    BY <1>5, <1>7, <1>8, <2>1
  <2>2. CASE j # d.freeCount
    <3>1. j \in 0 .. d.freeCount - 1
      BY <1>2, <1>3, <2>2
    <3>2. d.index[old(i)] = d.freeSlots[j] /\ old(i) \in 0 .. d.count - 1
      BY <1>4, <1>5, <1>8, <3>1
    <3>3. QED
      BY <3>1, <3>2 DEF Partition
  <2>3. QED
    BY <2>1, <2>2
<1>9. ASSUME NEW i \in 0 .. e.freeCount - 1, NEW j \in 0 .. e.freeCount - 1,
             e.freeSlots[i] = e.freeSlots[j]
      PROVE  i = j
  <2>1. \A k \in 0 .. d.freeCount - 1 : d.freeSlots[k] # slot
    BY <1>1 DEF Partition
  <2>2. \A k \in 0 .. e.freeCount - 1 : k = d.freeCount \/ k \in 0 .. d.freeCount - 1
    BY <1>2, <1>3
  <2>3. CASE i = d.freeCount \/ j = d.freeCount
    BY <1>5, <1>9, <2>1, <2>2, <2>3
  <2>4. CASE i # d.freeCount /\ j # d.freeCount
    <3>1. i \in 0 .. d.freeCount - 1 /\ j \in 0 .. d.freeCount - 1
      BY <2>2, <2>4
    <3>2. d.freeSlots[i] = d.freeSlots[j]
      BY <1>5, <1>9, <3>1
    <3>3. QED
      BY <3>1, <3>2 DEF Partition
  <2>5. QED
    BY <2>3, <2>4
<1>10. e.count \in 0 .. MaxLines /\ e.count + e.freeCount = MaxLines
  BY <1>2, <1>3
<1>11. QED
  BY <1>6, <1>7, <1>8, <1>9, <1>10 DEF Partition

LEMMA InsertTerminates ==
  ASSUME NEW d, IsData(d), Partition(d), AllTerminated(d), d.count < MaxLines,
         NEW pos \in 0 .. d.count, NEW s \in Seq(Letters), Len(s) < MaxLineLength,
         NEW e, e = insertLineAtPos(d, pos, s)
  PROVE  AllTerminated(e)
<1> USE EditorAssumption
<1>1. PICK slot : slot = d.freeSlots[d.freeCount - 1]
  OBVIOUS
<1>2. Inserted(d, e, pos, slot, s)
  BY <1>1, InsertIs
<1>3. slot \in Slots /\ d.text \in [Slots -> Line]
  BY <1>2 DEF Inserted, IsData
<1>4. Terminated(stringCopy(d.text[slot], 0, s))
  <2>1. d.text[slot] \in Line /\ Terminated(d.text[slot]) /\ Len(s) \in Nat /\ 0 + Len(s) = Len(s)
    BY <1>3 DEF AllTerminated
  <2>2. QED
    BY <2>1, CopyIs
<1>5. e.text = [d.text EXCEPT ![slot] = stringCopy(d.text[slot], 0, s)]
  BY <1>2 DEF Inserted
<1>6. QED
  BY <1>3, <1>4, <1>5 DEF AllTerminated

LEMMA RemoveTerminates ==
  ASSUME NEW d, IsData(d), Partition(d), AllTerminated(d), NEW pos \in 0 .. d.count - 1,
         NEW e, e = RemoveLine(d, pos)
  PROVE  AllTerminated(e)
<1> USE EditorAssumption
<1>1. PICK slot : slot = d.index[pos]
  OBVIOUS
<1>2. Removed(d, e, pos, slot)
  BY <1>1, RemoveIs
<1>3. slot \in Slots /\ d.text \in [Slots -> Line]
  BY <1>2 DEF Removed, IsData
<1>4. Terminated([d.text[slot] EXCEPT ![0] = Nul])
  BY <1>3 DEF AllTerminated, Terminated, Line, Places
<1>5. e.text = [d.text EXCEPT ![slot] = [d.text[slot] EXCEPT ![0] = Nul]]
  BY <1>2 DEF Removed
<1>6. QED
  BY <1>3, <1>4, <1>5 DEF AllTerminated

-----------------------------------------------------------------------------
(***************************************************************************)
(* The cursor, the part of the text that is seen, and the screen.          *)
(***************************************************************************)
Position(d) ==
  /\ d.count \in 1 .. MaxLines
  /\ d.top \in Nat /\ d.row \in 0 .. LinesHeight - 1 /\ Current(d) < d.count
  /\ d.left \in Nat

\* The same text and screen, with a cursor and a window of one's own.
Moved(d, e, top, row, left, col) ==
  /\ IsData(e) /\ SameText(d, e) /\ SameScreen(d, e)
  /\ e.top = top /\ e.row = row /\ e.left = left /\ e.col = col

LEMMA SetTop ==
  ASSUME NEW d, IsData(d), NEW top \in Int
  PROVE  Moved(d, [d EXCEPT !.top = top], top, d.row, d.left, d.col)
<1> DEFINE e == [d EXCEPT !.top = top]
<1>1. Record(e) /\ SameText(d, e) /\ SameScreen(d, e)
      /\ e.top = top /\ e.row = d.row /\ e.left = d.left /\ e.col = d.col
  BY DEF IsData, Record, Fields, SameText, SameSlots, SameScreen
<1> HIDE DEF e
<1>2. IsData(e)
  BY <1>1 DEF IsData, SameText, SameSlots, SameScreen
<1>3. Moved(d, e, top, d.row, d.left, d.col)
  BY <1>1, <1>2 DEF Moved
<1>4. QED
  BY <1>3 DEF e

LEMMA SetRow ==
  ASSUME NEW d, IsData(d), NEW row \in Int
  PROVE  Moved(d, [d EXCEPT !.row = row], d.top, row, d.left, d.col)
<1> DEFINE e == [d EXCEPT !.row = row]
<1>1. Record(e) /\ SameText(d, e) /\ SameScreen(d, e)
      /\ e.top = d.top /\ e.row = row /\ e.left = d.left /\ e.col = d.col
  BY DEF IsData, Record, Fields, SameText, SameSlots, SameScreen
<1> HIDE DEF e
<1>2. IsData(e)
  BY <1>1 DEF IsData, SameText, SameSlots, SameScreen
<1>3. Moved(d, e, d.top, row, d.left, d.col)
  BY <1>1, <1>2 DEF Moved
<1>4. QED
  BY <1>3 DEF e

LEMMA SetLeft ==
  ASSUME NEW d, IsData(d), NEW left \in Int
  PROVE  Moved(d, [d EXCEPT !.left = left], d.top, d.row, left, d.col)
<1> DEFINE e == [d EXCEPT !.left = left]
<1>1. Record(e) /\ SameText(d, e) /\ SameScreen(d, e)
      /\ e.top = d.top /\ e.row = d.row /\ e.left = left /\ e.col = d.col
  BY DEF IsData, Record, Fields, SameText, SameSlots, SameScreen
<1> HIDE DEF e
<1>2. IsData(e)
  BY <1>1 DEF IsData, SameText, SameSlots, SameScreen
<1>3. Moved(d, e, d.top, d.row, left, d.col)
  BY <1>1, <1>2 DEF Moved
<1>4. QED
  BY <1>3 DEF e

LEMMA SetCol ==
  ASSUME NEW d, IsData(d), NEW col \in Int
  PROVE  Moved(d, [d EXCEPT !.col = col], d.top, d.row, d.left, col)
<1> DEFINE e == [d EXCEPT !.col = col]
<1>1. Record(e) /\ SameText(d, e) /\ SameScreen(d, e)
      /\ e.top = d.top /\ e.row = d.row /\ e.left = d.left /\ e.col = col
  BY DEF IsData, Record, Fields, SameText, SameSlots, SameScreen
<1> HIDE DEF e
<1>2. IsData(e)
  BY <1>1 DEF IsData, SameText, SameSlots, SameScreen
<1>3. Moved(d, e, d.top, d.row, d.left, col)
  BY <1>1, <1>2 DEF Moved
<1>4. QED
  BY <1>3 DEF e

LEMMA SetLeftCol ==
  ASSUME NEW d, IsData(d), NEW left \in Int, NEW col \in Int,
         NEW e, e = [d EXCEPT !.left = left, !.col = col]
  PROVE  Moved(d, e, d.top, d.row, left, col)
<1> DEFINE u == [d EXCEPT !.left = left, !.col = col]
<1>1. Record(u) /\ SameText(d, u) /\ SameScreen(d, u)
      /\ u.top = d.top /\ u.row = d.row /\ u.left = left /\ u.col = col
  BY DEF IsData, Record, Fields, SameText, SameSlots, SameScreen
<1>2. e = u
  OBVIOUS
<1> HIDE DEF u
<1>3. IsData(e)
  BY <1>1, <1>2 DEF IsData, SameText, SameSlots, SameScreen
<1>4. QED
  BY <1>1, <1>2, <1>3 DEF Moved

\* Rows first to last are drawn, the others stay.
Drawn(d, e, first, last) ==
  /\ IsData(e) /\ SameText(d, e) /\ SameCursor(d, e)
  /\ \A r \in 1 .. LinesHeight :
       e.screen[r] = IF r \in first .. last THEN RowOf(d, r) ELSE d.screen[r]
  /\ e.terminalRow = IF first <= last THEN last ELSE d.terminalRow

LEMMA RedrawIs ==
  ASSUME NEW d, IsData(d), NEW first \in Int, NEW last \in Int,
         NEW e, e = redrawLines(d, first, last)
  PROVE  Drawn(d, e, first, last)
<1> DEFINE screen == [r \in DOMAIN d.screen |-> IF r \in first .. last THEN RowOf(d, r) ELSE d.screen[r]]
           terminalRow == IF first <= last THEN last ELSE d.terminalRow
           u == [d EXCEPT !.screen = screen, !.terminalRow = terminalRow]
<1>1. e = u
  BY DEF redrawLines
<1>2. DOMAIN d.screen = 1 .. LinesHeight
  BY DEF IsData, Screen
<1>3. Screen(screen) /\ \A r \in 1 .. LinesHeight :
        screen[r] = IF r \in first .. last THEN RowOf(d, r) ELSE d.screen[r]
  BY <1>2 DEF Screen
<1>4. terminalRow \in Int
  BY DEF IsData
<1> HIDE DEF screen, terminalRow
<1>5. Record(u) /\ SameText(d, u) /\ SameCursor(d, u)
      /\ u.screen = screen /\ u.terminalRow = terminalRow
  BY DEF IsData, Record, Fields, SameText, SameSlots, SameCursor
<1> HIDE DEF u
<1>6. IsData(u)
  BY <1>3, <1>4, <1>5 DEF IsData, SameText, SameSlots, SameCursor
<1>7. QED
  BY <1>1, <1>3, <1>5, <1>6 DEF Drawn, terminalRow

\* The terminal's cursor goes to the row of the text's.
Placed(d, e) ==
  /\ IsData(e) /\ SameText(d, e) /\ SameCursor(d, e)
  /\ e.screen = d.screen /\ e.terminalRow = d.row + 1

LEMMA StatusIs ==
  ASSUME NEW d, IsData(d), NEW e, e = updateStatusLineAndSetCursor(d)
  PROVE  Placed(d, e)
<1> DEFINE u == [d EXCEPT !.terminalRow = d.row + 1]
<1>1. e = u
  BY DEF updateStatusLineAndSetCursor
<1>2. Record(u) /\ SameText(d, u) /\ SameCursor(d, u)
      /\ u.screen = d.screen /\ u.terminalRow = d.row + 1
  BY DEF IsData, Record, Fields, SameText, SameSlots, SameCursor
<1> HIDE DEF u
<1>3. IsData(u)
  <2>1. d.row + 1 \in Int
    BY DEF IsData
  <2>2. QED
    BY <1>2, <2>1 DEF IsData, SameText, SameSlots, SameCursor
<1>4. QED
  BY <1>1, <1>2, <1>3 DEF Placed

\* The screen scrolls when the terminal's cursor is in its last, or first row.
Scrolled(d, e, screen, terminalRow) ==
  /\ IsData(e) /\ SameText(d, e) /\ SameCursor(d, e)
  /\ e.screen = screen /\ e.terminalRow = terminalRow

RaisedScreen(d)  == [r \in DOMAIN d.screen |-> IF r = LinesHeight THEN <<>> ELSE d.screen[r + 1]]
LoweredScreen(d) == [r \in DOMAIN d.screen |-> IF r = 1 THEN <<>> ELSE d.screen[r - 1]]

LEMMA ScrollIs ==
  ASSUME NEW d, IsData(d), NEW screen, Screen(screen)
  PROVE  Scrolled(d, [d EXCEPT !.screen = screen], screen, d.terminalRow)
<1> DEFINE u == [d EXCEPT !.screen = screen]
<1>1. Record(u) /\ SameText(d, u) /\ SameCursor(d, u)
      /\ u.screen = screen /\ u.terminalRow = d.terminalRow
  BY DEF IsData, Record, Fields, SameText, SameSlots, SameCursor
<1> HIDE DEF u
<1>2. IsData(u)
  BY <1>1 DEF IsData, SameText, SameSlots, SameCursor
<1>3. QED
  BY <1>1, <1>2 DEF Scrolled, u

LEMMA TerminalMoves ==
  ASSUME NEW d, IsData(d), NEW row \in Int
  PROVE  Scrolled(d, [d EXCEPT !.terminalRow = row], d.screen, row)
<1> DEFINE u == [d EXCEPT !.terminalRow = row]
<1>1. Record(u) /\ SameText(d, u) /\ SameCursor(d, u)
      /\ u.screen = d.screen /\ u.terminalRow = row
  BY DEF IsData, Record, Fields, SameText, SameSlots, SameCursor
<1> HIDE DEF u
<1>2. IsData(u)
  BY <1>1 DEF IsData, SameText, SameSlots, SameCursor
<1>3. QED
  BY <1>1, <1>2 DEF Scrolled, u

LEMMA ScrollUpIs ==
  ASSUME NEW d, IsData(d), NEW e, e = conscrollup(d)
  PROVE  IF d.terminalRow = LinesHeight
         THEN Scrolled(d, e, RaisedScreen(d), d.terminalRow)
         ELSE Scrolled(d, e, d.screen, d.terminalRow + 1)
<1>1. CASE d.terminalRow = LinesHeight
  <2>1. e = [d EXCEPT !.screen = RaisedScreen(d)]
    BY <1>1 DEF conscrollup, RaisedScreen
  <2>2. Screen(RaisedScreen(d))
    BY DEF RaisedScreen, Screen, IsData
  <2>3. QED
    BY <1>1, <2>1, <2>2, ScrollIs
<1>2. CASE d.terminalRow # LinesHeight
  <2>1. e = [d EXCEPT !.terminalRow = d.terminalRow + 1]
    BY <1>2 DEF conscrollup
  <2>2. d.terminalRow + 1 \in Int
    BY DEF IsData
  <2>3. QED
    BY <1>2, <2>1, <2>2, TerminalMoves
<1>3. QED
  BY <1>1, <1>2

LEMMA ScrollDownIs ==
  ASSUME NEW d, IsData(d), NEW e, e = conscrolldown(d)
  PROVE  IF d.terminalRow = 1
         THEN Scrolled(d, e, LoweredScreen(d), d.terminalRow)
         ELSE Scrolled(d, e, d.screen, d.terminalRow - 1)
<1>1. CASE d.terminalRow = 1
  <2>1. e = [d EXCEPT !.screen = LoweredScreen(d)]
    BY <1>1 DEF conscrolldown, LoweredScreen
  <2>2. Screen(LoweredScreen(d))
    BY DEF LoweredScreen, Screen, IsData
  <2>3. QED
    BY <1>1, <2>1, <2>2, ScrollIs
<1>2. CASE d.terminalRow # 1
  <2>1. e = [d EXCEPT !.terminalRow = d.terminalRow - 1]
    BY <1>2 DEF conscrolldown
  <2>2. d.terminalRow - 1 \in Int
    BY DEF IsData
  <2>3. QED
    BY <1>2, <2>1, <2>2, TerminalMoves
<1>3. QED
  BY <1>1, <1>2

-----------------------------------------------------------------------------
(***************************************************************************)
(* What a row should show.                                                 *)
(***************************************************************************)
\* Line i from its start.
PlainRow(d, i) == IF i >= d.count THEN <<>> ELSE Clip(TextFrom(getLineAt(d, i), 0))

LEMMA ClipOfNothing ==
  ASSUME NEW line \in Line, stringLen(line, 0) = 0
  PROVE  Clip(TextFrom(line, 0)) = <<>>
<1> USE EditorAssumption
<1> DEFINE s == TextFrom(line, 0)
<1>1. s \in Seq(Letters) /\ Len(s) = 0
  <2>1. 0 \in 0 .. MaxLineLength
    OBVIOUS
  <2>2. s \in Seq(Letters) /\ Len(s) = stringLen(line, 0)
    BY <2>1, TextFromIs
  <2>3. QED
    BY <2>2
<1> HIDE DEF s
<1>2. s = <<>>
  BY <1>1
<1>3. Clip(s) = SubSeq(s, 1, 0)
  BY <1>1 DEF Clip
<1>4. SubSeq(s, 1, 0) = <<>>
  BY <1>2
<1>5. QED
  BY <1>3, <1>4 DEF s

\* Only the current line is seen from another place than its start.
LEMMA RowIs ==
  ASSUME NEW d, IsData(d), Partition(d), NEW r \in 1 .. LinesHeight, d.top \in Nat,
         d.left = 0 \/ d.top + r - 1 # Current(d)
  PROVE  RowOf(d, r) = PlainRow(d, d.top + r - 1)
<1> USE EditorAssumption
<1> DEFINE i == d.top + r - 1
<1>1. i \in Nat /\ d.count \in Int
  BY DEF IsData
<1>2. CASE i >= d.count
  <2>1. ~(i < d.count)
    BY <1>1, <1>2
  <2>2. QED
    BY <1>2, <2>1 DEF RowOf, PlainRow
<1>3. CASE i < d.count /\ i # Current(d)
  BY <1>1, <1>3 DEF RowOf, PlainRow
<1>4. CASE i < d.count /\ i = Current(d) /\ d.left = 0
  <2>1. RowOf(d, r) = IF 0 < getLineLength(d, i) THEN Clip(TextFrom(getLineAt(d, i), 0)) ELSE <<>>
    BY <1>1, <1>4 DEF RowOf
  <2>2. PlainRow(d, i) = Clip(TextFrom(getLineAt(d, i), 0))
    BY <1>1, <1>4 DEF PlainRow
  <2>3. getLineAt(d, i) \in Line
    <3>1. d.index[i] \in Slots
      BY <1>1, <1>4 DEF Partition
    <3>2. QED
      BY <3>1 DEF getLineAt, IsData
  <2>4. getLineLength(d, i) \in Nat
    <3>1. 0 \in 0 .. MaxLineLength
      OBVIOUS
    <3>2. QED
      BY <3>1, StringLength DEF getLineLength
  <2>5. getLineLength(d, i) = 0 => Clip(TextFrom(getLineAt(d, i), 0)) = <<>>
    BY <2>3, ClipOfNothing DEF getLineLength
  <2>6. QED
    BY <2>1, <2>2, <2>4, <2>5
<1>5. QED
  BY <1>1, <1>2, <1>3, <1>4

LEMMA SameRow ==
  ASSUME NEW d, NEW e, NEW r, SameText(d, e), e.top = d.top, e.row = d.row, e.left = d.left
  PROVE  RowOf(e, r) = RowOf(d, r)
<1>1. Current(e) = Current(d)
  BY DEF Current
<1>2. \A i : getLineAt(e, i) = getLineAt(d, i) /\ getLineLength(e, i) = getLineLength(d, i)
  BY DEF getLineAt, getLineLength, SameText, SameSlots
<1>3. e.count = d.count
  BY DEF SameText, SameSlots
<1>4. QED
  BY <1>1, <1>2, <1>3 DEF RowOf

LEMMA SamePlainRow ==
  ASSUME NEW d, NEW e, NEW i, SameText(d, e)
  PROVE  PlainRow(e, i) = PlainRow(d, i)
BY DEF PlainRow, getLineAt, SameText, SameSlots

Shows(d) == \A r \in 1 .. LinesHeight : d.screen[r] = RowOf(d, r)
Tidy(d)  == Shows(d) /\ d.terminalRow = d.row + 1

-----------------------------------------------------------------------------
(***************************************************************************)
(* Moving up and down.                                                     *)
(***************************************************************************)
\* The line that is left scrolls back to its start.
Restored(d, e) ==
  /\ IsData(e) /\ SameText(d, e)
  /\ e.top = d.top /\ e.row = d.row /\ e.left = 0 /\ e.col = d.col

LEMMA RestoreIs ==
  ASSUME NEW d, IsData(d), NEW e, e = restoreCurrentLine(d)
  PROVE  Restored(d, e)
<1>1. CASE d.left = 0
  <2>1. e = d
    BY <1>1 DEF restoreCurrentLine
  <2>2. QED
    BY <1>1, <2>1 DEF Restored, SameText, SameSlots
<1>2. CASE d.left # 0
  <2>1. PICK u : u = [d EXCEPT !.left = 0]
    OBVIOUS
  <2>2. Moved(d, u, d.top, d.row, 0, d.col)
    BY <2>1, SetLeft
  <2>3. e = redrawLines(u, d.row + 1, d.row + 1)
    BY <1>2, <2>1 DEF restoreCurrentLine
  <2>4. IsData(u) /\ d.row + 1 \in Int
    BY <2>2 DEF Moved, IsData
  <2>5. Drawn(u, e, d.row + 1, d.row + 1)
    BY <2>3, <2>4, RedrawIs
  <2>6. QED
    BY <2>2, <2>5 DEF Moved, Drawn, Restored, SameCursor, SameText, SameSlots
<1>3. QED
  BY <1>1, <1>2

LEMMA RestoreTidies ==
  ASSUME NEW d, IsData(d), Partition(d), Position(d), Tidy(d), NEW e, e = restoreCurrentLine(d)
  PROVE  Tidy(e)
<1> USE EditorAssumption
<1>1. CASE d.left = 0
  BY <1>1 DEF restoreCurrentLine
<1>2. CASE d.left # 0
  <2>1. PICK u : u = [d EXCEPT !.left = 0]
    OBVIOUS
  <2>2. Moved(d, u, d.top, d.row, 0, d.col)
    <3>1. IsData(d) /\ 0 \in Int
      OBVIOUS
    <3>2. QED
      BY <2>1, <3>1, SetLeft
  <2>3. e = redrawLines(u, d.row + 1, d.row + 1)
    BY <1>2, <2>1 DEF restoreCurrentLine
  <2>4. IsData(u) /\ d.row + 1 \in Int /\ d.row \in Nat /\ d.top \in Nat
    <3>1. IsData(u)
      BY <2>2 DEF Moved
    <3>2. d.row \in Nat /\ d.top \in Nat
      BY DEF Position
    <3>3. QED
      BY <3>1, <3>2
  <2>5. Drawn(u, e, d.row + 1, d.row + 1)
    BY <2>3, <2>4, RedrawIs
  <2>6. Restored(d, e)
    BY RestoreIs
  <2>7. e.terminalRow = e.row + 1
    BY <2>4, <2>5, <2>6 DEF Drawn, Restored
  <2>8. ASSUME NEW r \in 1 .. LinesHeight
        PROVE  e.screen[r] = RowOf(e, r)
    <3>1. CASE r = d.row + 1
      <4>1. e.screen[r] = RowOf(u, r)
        BY <2>4, <2>5, <3>1 DEF Drawn
      <4>2. RowOf(e, r) = RowOf(u, r)
        BY <2>5, SameRow DEF Drawn, SameCursor
      <4>3. QED
        BY <4>1, <4>2
    <3>2. CASE r # d.row + 1
      <4>1. r \notin d.row + 1 .. d.row + 1
        BY <2>4, <3>2
      <4>2. e.screen[r] = u.screen[r] /\ u.screen[r] = d.screen[r] /\ d.screen[r] = RowOf(d, r)
        BY <2>2, <2>5, <4>1 DEF Drawn, Moved, SameScreen, Tidy, Shows
      <4>3. RowOf(d, r) = PlainRow(d, d.top + r - 1)
        BY <2>4, <3>2, RowIs DEF Current
      <4>4. RowOf(e, r) = PlainRow(e, d.top + r - 1)
        <5>1. IsData(e) /\ e.left = 0 /\ e.top = d.top
          BY <2>6 DEF Restored
        <5>2. Partition(e)
          BY <2>6, SameSlotsPartition DEF Restored, SameText
        <5>3. QED
          BY <2>4, <5>1, <5>2, RowIs
      <4>5. QED
        BY <2>6, <4>2, <4>3, <4>4, SamePlainRow DEF Restored
    <3>3. QED
      BY <3>1, <3>2
  <2>9. QED
    BY <2>7, <2>8 DEF Tidy, Shows
<1>3. QED
  BY <1>1, <1>2

\* A step up or down from a line that is seen from its start.
Stepped(d, e, top, row, screen, terminalRow) ==
  /\ IsData(e) /\ SameText(d, e)
  /\ e.top = top /\ e.row = row /\ e.left = 0 /\ e.col = d.col
  /\ e.screen = screen /\ e.terminalRow = terminalRow

LEMMA BelowIs ==
  ASSUME NEW d, IsData(d), d.left = 0, d.terminalRow = d.row + 1, NEW e, e = LineBelow(d)
  PROVE  IF d.row = LinesHeight - 1
         THEN Stepped(d, e, d.top + 1, d.row, RaisedScreen(d), d.terminalRow)
         ELSE Stepped(d, e, d.top, d.row + 1, d.screen, d.terminalRow)
<1> USE EditorAssumption
<1>1. restoreCurrentLine(d) = d
  BY DEF restoreCurrentLine
<1>2. CASE d.row = LinesHeight - 1
  <2>1. PICK u : u = [d EXCEPT !.top = d.top + 1]
    OBVIOUS
  <2>2. e = conscrollup(u)
    BY <1>1, <1>2, <2>1 DEF LineBelow
  <2>3. Moved(d, u, d.top + 1, d.row, d.left, d.col)
    <3>1. d.top + 1 \in Int
      BY DEF IsData
    <3>2. QED
      BY <2>1, <3>1, SetTop
  <2>4. IsData(u) /\ u.terminalRow = LinesHeight /\ u.screen = d.screen
    BY <1>2, <2>3 DEF Moved, SameScreen
  <2>5. Scrolled(u, e, RaisedScreen(u), u.terminalRow)
    BY <2>2, <2>4, ScrollUpIs
  <2>6. RaisedScreen(u) = RaisedScreen(d)
    BY <2>4 DEF RaisedScreen
  <2>7. QED
    BY <1>2, <2>3, <2>5, <2>6 DEF Stepped, Moved, Scrolled, SameText, SameSlots, SameCursor, SameScreen
<1>3. CASE d.row # LinesHeight - 1
  <2>1. e = [d EXCEPT !.row = d.row + 1]
    BY <1>1, <1>3 DEF LineBelow
  <2>2. Moved(d, e, d.top, d.row + 1, d.left, d.col)
    <3>1. d.row + 1 \in Int
      BY DEF IsData
    <3>2. QED
      BY <2>1, <3>1, SetRow
  <2>3. QED
    BY <1>3, <2>2 DEF Stepped, Moved, SameScreen
<1>4. QED
  BY <1>2, <1>3

LEMMA AboveIs ==
  ASSUME NEW d, IsData(d), d.left = 0, d.terminalRow = d.row + 1, Current(d) # 0,
         NEW e, e = moveUp(d)
  PROVE  IF d.row = 0
         THEN Stepped(d, e, d.top - 1, d.row, LoweredScreen(d), d.terminalRow)
         ELSE Stepped(d, e, d.top, d.row - 1, d.screen, d.terminalRow)
<1> USE EditorAssumption
<1>1. restoreCurrentLine(d) = d
  BY DEF restoreCurrentLine
<1>2. CASE d.row = 0
  <2>1. PICK u : u = [d EXCEPT !.top = d.top - 1]
    OBVIOUS
  <2>2. e = conscrolldown(u)
    BY <1>1, <1>2, <2>1 DEF moveUp
  <2>3. Moved(d, u, d.top - 1, d.row, d.left, d.col)
    <3>1. d.top - 1 \in Int
      BY DEF IsData
    <3>2. QED
      BY <2>1, <3>1, SetTop
  <2>4. IsData(u) /\ u.terminalRow = 1 /\ u.screen = d.screen
    BY <1>2, <2>3 DEF Moved, SameScreen
  <2>5. Scrolled(u, e, LoweredScreen(u), u.terminalRow)
    BY <2>2, <2>4, ScrollDownIs
  <2>6. LoweredScreen(u) = LoweredScreen(d)
    BY <2>4 DEF LoweredScreen
  <2>7. QED
    BY <1>2, <2>3, <2>5, <2>6 DEF Stepped, Moved, Scrolled, SameText, SameSlots, SameCursor, SameScreen
<1>3. CASE d.row # 0
  <2>1. e = [d EXCEPT !.row = d.row - 1]
    BY <1>1, <1>3 DEF moveUp
  <2>2. Moved(d, e, d.top, d.row - 1, d.left, d.col)
    <3>1. d.row - 1 \in Int
      BY DEF IsData
    <3>2. QED
      BY <2>1, <3>1, SetRow
  <2>3. QED
    BY <1>3, <2>2 DEF Stepped, Moved, SameScreen
<1>4. QED
  BY <1>2, <1>3

-----------------------------------------------------------------------------
(***************************************************************************)
(* What every key keeps: the slots are divided among the lines of the text *)
(* and the free ones, every line ends within its slot, the cursor is on a  *)
(* line of the text, and the screen shows it.                              *)
(***************************************************************************)
Sound(d) == IsData(d) /\ Partition(d) /\ AllTerminated(d) /\ Position(d)

\* Rows first to last need not be right.
ShowsBut(d, first, last) ==
  \A r \in 1 .. LinesHeight : r \notin first .. last => d.screen[r] = RowOf(d, r)

LEMMA SameSound ==
  ASSUME NEW d, NEW e, Sound(d), IsData(e), SameText(d, e),
         e.top = d.top, e.row = d.row, e.left \in Nat
  PROVE  Sound(e)
<1>1. Partition(e)
  BY SameSlotsPartition DEF Sound, SameText
<1>2. AllTerminated(e)
  BY DEF Sound, SameText, AllTerminated
<1>3. Position(e)
  BY DEF Sound, SameText, SameSlots, Position, Current
<1>4. QED
  BY <1>1, <1>2, <1>3 DEF Sound

LEMMA RedrawnTidies ==
  ASSUME NEW d, IsData(d), NEW first \in Int, NEW last \in Int, ShowsBut(d, first, last),
         NEW e, e = Redrawn(d, first, last)
  PROVE  IsData(e) /\ SameText(d, e) /\ SameCursor(d, e) /\ Tidy(e)
<1>1. PICK u : u = redrawLines(d, first, last)
  OBVIOUS
<1>2. Drawn(d, u, first, last)
  BY <1>1, RedrawIs
<1>3. e = updateStatusLineAndSetCursor(u)
  BY <1>1 DEF Redrawn
<1>4. Placed(u, e)
  BY <1>2, <1>3, StatusIs DEF Drawn
<1>5. IsData(e) /\ SameText(d, e) /\ SameCursor(d, e)
  BY <1>2, <1>4 DEF Drawn, Placed, SameText, SameSlots, SameCursor
<1>6. ASSUME NEW r \in 1 .. LinesHeight
      PROVE  e.screen[r] = RowOf(e, r)
  <2>1. RowOf(e, r) = RowOf(d, r)
    BY <1>5, SameRow DEF SameCursor
  <2>2. e.screen[r] = IF r \in first .. last THEN RowOf(d, r) ELSE d.screen[r]
    BY <1>2, <1>4 DEF Drawn, Placed
  <2>3. QED
    BY <2>1, <2>2 DEF ShowsBut
<1>7. e.terminalRow = e.row + 1
  BY <1>4 DEF Placed, SameCursor
<1>8. QED
  BY <1>5, <1>6, <1>7 DEF Tidy, Shows

LEMMA RedrawnIfTidies ==
  ASSUME NEW d, IsData(d), NEW first \in Int, NEW last \in Int, NEW condition \in BOOLEAN,
         condition => ShowsBut(d, first, last), ~condition => Shows(d),
         NEW e, e = RedrawnIf(condition, d, first, last)
  PROVE  IsData(e) /\ SameText(d, e) /\ SameCursor(d, e) /\ Tidy(e)
<1>1. CASE condition
  <2>1. e = Redrawn(d, first, last)
    BY <1>1 DEF RedrawnIf, Redrawn
  <2>2. QED
    BY <1>1, <2>1, RedrawnTidies
<1>2. CASE ~condition
  <2>1. e = updateStatusLineAndSetCursor(d)
    BY <1>2 DEF RedrawnIf
  <2>2. Placed(d, e)
    BY <2>1, StatusIs
  <2>3. \A r \in 1 .. LinesHeight : RowOf(e, r) = RowOf(d, r)
    BY <2>2, SameRow DEF Placed, SameCursor
  <2>4. QED
    BY <1>2, <2>2, <2>3 DEF Placed, Tidy, Shows, SameCursor
<1>3. QED
  BY <1>1, <1>2

LEMMA RedrawnIsSound ==
  ASSUME NEW d, Sound(d), NEW e, IsData(e), SameText(d, e), SameCursor(d, e)
  PROVE  Sound(e)
<1>1. e.top = d.top /\ e.row = d.row /\ e.left = d.left
  BY DEF SameCursor
<1>2. e.left \in Nat
  BY <1>1 DEF Sound, Position
<1>3. QED
  BY <1>1, <1>2, SameSound

LEMMA RestoreIsSound ==
  ASSUME NEW d, Sound(d), Tidy(d), NEW e, e = restoreCurrentLine(d)
  PROVE  Sound(e) /\ Tidy(e) /\ Restored(d, e)
<1>1. Restored(d, e)
  BY RestoreIs DEF Sound
<1>2. Tidy(e)
  BY RestoreTidies DEF Sound
<1>3. Sound(e)
  <2>1. e.left \in Nat
    BY <1>1 DEF Restored
  <2>2. QED
    BY <1>1, <2>1, SameSound DEF Restored
<1>4. QED
  BY <1>1, <1>2, <1>3

\* Rows that show their lines show them from the start if the window is at its
\* left edge; then a row that comes from another one shows the line it had.
LEMMA AboveTidies ==
  ASSUME NEW d, Sound(d), Tidy(d), Current(d) # 0, NEW e, e = moveUp(d)
  PROVE  /\ Sound(e) /\ SameText(d, e) /\ e.left = 0 /\ e.col = d.col
         /\ Current(e) = Current(d) - 1
         /\ IF d.row = 0 THEN e.top = d.top - 1 /\ e.row = 0 /\ ShowsBut(e, 1, 1)
            ELSE e.top = d.top /\ e.row = d.row - 1 /\ Shows(e)
<1> USE EditorAssumption
<1>1. PICK r0 : r0 = restoreCurrentLine(d)
  OBVIOUS
<1>2. Sound(r0) /\ Tidy(r0) /\ Restored(d, r0)
  BY <1>1, RestoreIsSound
<1>3. restoreCurrentLine(r0) = r0 /\ Current(r0) = Current(d) /\ r0.row = d.row
  BY <1>2 DEF restoreCurrentLine, Restored, Current
<1>4. e = moveUp(r0)
  BY <1>1, <1>3 DEF moveUp
<1>5. IsData(r0) /\ r0.left = 0 /\ r0.terminalRow = r0.row + 1 /\ Current(r0) # 0
  BY <1>2, <1>3 DEF Sound, Restored, Tidy
<1>6. IF r0.row = 0
      THEN Stepped(r0, e, r0.top - 1, r0.row, LoweredScreen(r0), r0.terminalRow)
      ELSE Stepped(r0, e, r0.top, r0.row - 1, r0.screen, r0.terminalRow)
  BY <1>4, <1>5, AboveIs
<1>7. /\ r0.top = d.top /\ r0.row = d.row /\ r0.col = d.col /\ SameText(d, r0)
      /\ d.top \in Nat /\ d.row \in 0 .. LinesHeight - 1
      /\ d.top + d.row < d.count /\ d.count \in 1 .. MaxLines
  BY <1>2 DEF Restored, Sound, Position, Current
<1>8. /\ IsData(e) /\ SameText(r0, e) /\ e.left = 0 /\ e.col = d.col
      /\ e.top \in Nat /\ e.row \in 0 .. LinesHeight - 1
      /\ e.top + e.row = d.top + d.row - 1
  <2>1. CASE d.row = 0
    <3>1. d.top # 0
      BY <1>7, <2>1 DEF Current
    <3>2. QED
      BY <1>6, <1>7, <2>1, <3>1 DEF Stepped
  <2>2. CASE d.row # 0
    BY <1>6, <1>7, <2>2 DEF Stepped
  <2>3. QED
    BY <2>1, <2>2
<1>9. SameText(d, e)
  BY <1>7, <1>8 DEF SameText, SameSlots
<1>10. Sound(e)
  <2>1. Partition(e)
    BY <1>9, SameSlotsPartition DEF Sound, SameText
  <2>2. AllTerminated(e)
    BY <1>9 DEF Sound, SameText, AllTerminated
  <2>3. Position(e)
    BY <1>7, <1>8, <1>9 DEF SameText, SameSlots, Position, Current
  <2>4. QED
    BY <1>8, <2>1, <2>2, <2>3 DEF Sound
<1>11. ASSUME NEW r \in 1 .. LinesHeight
       PROVE  RowOf(e, r) = PlainRow(r0, e.top + r - 1) /\ RowOf(r0, r) = PlainRow(r0, r0.top + r - 1)
  <2>1. RowOf(e, r) = PlainRow(e, e.top + r - 1)
    BY <1>8, <1>10, RowIs DEF Sound
  <2>2. PlainRow(e, e.top + r - 1) = PlainRow(r0, e.top + r - 1)
    BY <1>8, SamePlainRow
  <2>3. RowOf(r0, r) = PlainRow(r0, r0.top + r - 1)
    BY <1>2, <1>5, <1>7, RowIs DEF Sound
  <2>4. QED
    BY <2>1, <2>2, <2>3
<1>12. CASE d.row = 0
  <2>1. e.top = d.top - 1 /\ e.row = 0 /\ e.screen = LoweredScreen(r0)
    BY <1>6, <1>7, <1>12 DEF Stepped
  <2>2. ASSUME NEW r \in 1 .. LinesHeight, r \notin 1 .. 1
        PROVE  e.screen[r] = RowOf(e, r)
    <3>1. r - 1 \in 1 .. LinesHeight /\ r # 1
      BY <2>2
    <3>2. e.screen[r] = r0.screen[r - 1]
      BY <1>5, <2>1, <3>1 DEF LoweredScreen, IsData, Screen
    <3>3. r0.screen[r - 1] = PlainRow(r0, r0.top + (r - 1) - 1)
      BY <1>2, <1>11, <3>1 DEF Tidy, Shows
    <3>4. r0.top + (r - 1) - 1 = e.top + r - 1
      <4>1. r0.top = d.top /\ d.top \in Nat /\ e.top = d.top - 1 /\ r \in Int
        BY <1>7, <2>1
      <4>2. QED
        BY <4>1
    <3>5. QED
      BY <1>11, <3>2, <3>3, <3>4
  <2>3. QED
    BY <1>7, <1>8, <1>9, <1>10, <1>12, <2>1, <2>2 DEF ShowsBut, Current
<1>13. CASE d.row # 0
  <2>1. e.top = d.top /\ e.row = d.row - 1 /\ e.screen = r0.screen
    BY <1>6, <1>7, <1>13 DEF Stepped
  <2>2. ASSUME NEW r \in 1 .. LinesHeight
        PROVE  e.screen[r] = RowOf(e, r)
    BY <1>2, <1>7, <1>11, <2>1 DEF Tidy, Shows
  <2>3. QED
    BY <1>7, <1>8, <1>9, <1>10, <1>13, <2>1, <2>2 DEF Shows, Current
<1>14. QED
  BY <1>12, <1>13

LEMMA BelowTidies ==
  ASSUME NEW d, Sound(d), Tidy(d), Current(d) # d.count - 1, NEW e, e = LineBelow(d)
  PROVE  /\ Sound(e) /\ SameText(d, e) /\ e.left = 0 /\ e.col = d.col
         /\ Current(e) = Current(d) + 1
         /\ IF d.row = LinesHeight - 1 THEN e.top = d.top + 1 /\ e.row = d.row /\ ShowsBut(e, LinesHeight, LinesHeight)
            ELSE e.top = d.top /\ e.row = d.row + 1 /\ Shows(e)
<1> USE EditorAssumption
<1>1. PICK r0 : r0 = restoreCurrentLine(d)
  OBVIOUS
<1>2. Sound(r0) /\ Tidy(r0) /\ Restored(d, r0)
  BY <1>1, RestoreIsSound
<1>3. restoreCurrentLine(r0) = r0 /\ Current(r0) = Current(d) /\ r0.row = d.row
  BY <1>2 DEF restoreCurrentLine, Restored, Current
<1>4. e = LineBelow(r0)
  BY <1>1, <1>3 DEF LineBelow
<1>5. IsData(r0) /\ r0.left = 0 /\ r0.terminalRow = r0.row + 1
  BY <1>2, <1>3 DEF Sound, Restored, Tidy
<1>6. IF r0.row = LinesHeight - 1
      THEN Stepped(r0, e, r0.top + 1, r0.row, RaisedScreen(r0), r0.terminalRow)
      ELSE Stepped(r0, e, r0.top, r0.row + 1, r0.screen, r0.terminalRow)
  BY <1>4, <1>5, BelowIs
<1>7. /\ r0.top = d.top /\ r0.row = d.row /\ r0.col = d.col /\ SameText(d, r0)
      /\ d.top \in Nat /\ d.row \in 0 .. LinesHeight - 1
      /\ d.top + d.row < d.count /\ d.count \in 1 .. MaxLines
  BY <1>2 DEF Restored, Sound, Position, Current
<1>8. /\ IsData(e) /\ SameText(r0, e) /\ e.left = 0 /\ e.col = d.col
      /\ e.top \in Nat /\ e.row \in 0 .. LinesHeight - 1
      /\ e.top + e.row = d.top + d.row + 1 /\ e.top + e.row < d.count
  <2>1. CASE d.row = LinesHeight - 1
    <3>1. d.top + d.row + 1 < d.count
      BY <1>7 DEF Current
    <3>2. /\ IsData(e) /\ SameText(r0, e) /\ e.left = 0 /\ e.col = d.col
          /\ e.top = d.top + 1 /\ e.row = d.row
      BY <1>6, <1>7, <2>1 DEF Stepped
    <3>3. d.top + 1 \in Nat /\ d.top + 1 + d.row = d.top + d.row + 1
      BY <1>7
    <3>4. QED
      BY <1>7, <3>1, <3>2, <3>3
  <2>2. CASE d.row # LinesHeight - 1
    <3>1. d.top + d.row + 1 < d.count
      BY <1>7 DEF Current
    <3>2. /\ IsData(e) /\ SameText(r0, e) /\ e.left = 0 /\ e.col = d.col
          /\ e.top = d.top /\ e.row = d.row + 1
      BY <1>6, <1>7, <2>2 DEF Stepped
    <3>3. d.row + 1 \in 0 .. LinesHeight - 1 /\ d.top + (d.row + 1) = d.top + d.row + 1
      <4>1. PICK top \in Nat, row \in 0 .. LinesHeight - 1 : top = d.top /\ row = d.row
        BY <1>7
      <4>2. row + 1 \in 0 .. LinesHeight - 1 /\ top + (row + 1) = top + row + 1
        BY <2>2, <4>1
      <4>3. QED
        BY <4>1, <4>2
    <3>4. QED
      BY <1>7, <3>1, <3>2, <3>3
  <2>3. QED
    BY <2>1, <2>2
<1>9. SameText(d, e)
  BY <1>7, <1>8 DEF SameText, SameSlots
<1>10. Sound(e)
  <2>1. Partition(e)
    BY <1>9, SameSlotsPartition DEF Sound, SameText
  <2>2. AllTerminated(e)
    BY <1>9 DEF Sound, SameText, AllTerminated
  <2>3. Position(e)
    BY <1>7, <1>8, <1>9 DEF SameText, SameSlots, Position, Current
  <2>4. QED
    BY <1>8, <2>1, <2>2, <2>3 DEF Sound
<1>11. ASSUME NEW r \in 1 .. LinesHeight
       PROVE  RowOf(e, r) = PlainRow(r0, e.top + r - 1) /\ RowOf(r0, r) = PlainRow(r0, r0.top + r - 1)
  <2>1. RowOf(e, r) = PlainRow(e, e.top + r - 1)
    BY <1>8, <1>10, RowIs DEF Sound
  <2>2. PlainRow(e, e.top + r - 1) = PlainRow(r0, e.top + r - 1)
    BY <1>8, SamePlainRow
  <2>3. RowOf(r0, r) = PlainRow(r0, r0.top + r - 1)
    BY <1>2, <1>5, <1>7, RowIs DEF Sound
  <2>4. QED
    BY <2>1, <2>2, <2>3
<1>12. CASE d.row = LinesHeight - 1
  <2>1. e.top = d.top + 1 /\ e.row = d.row /\ e.screen = RaisedScreen(r0)
    BY <1>6, <1>7, <1>12 DEF Stepped
  <2>2. ASSUME NEW r \in 1 .. LinesHeight, r \notin LinesHeight .. LinesHeight
        PROVE  e.screen[r] = RowOf(e, r)
    <3>1. r + 1 \in 1 .. LinesHeight /\ r # LinesHeight
      BY <2>2
    <3>2. e.screen[r] = r0.screen[r + 1]
      BY <1>5, <2>1, <3>1 DEF RaisedScreen, IsData, Screen
    <3>3. r0.screen[r + 1] = PlainRow(r0, r0.top + (r + 1) - 1)
      BY <1>2, <1>11, <3>1 DEF Tidy, Shows
    <3>4. r0.top + (r + 1) - 1 = e.top + r - 1
      <4>1. r0.top = d.top /\ d.top \in Nat /\ e.top = d.top + 1 /\ r \in Int
        BY <1>7, <2>1
      <4>2. QED
        BY <4>1
    <3>5. QED
      BY <1>11, <3>2, <3>3, <3>4
  <2>3. QED
    BY <1>7, <1>8, <1>9, <1>10, <1>12, <2>1, <2>2 DEF ShowsBut, Current
<1>13. CASE d.row # LinesHeight - 1
  <2>1. e.top = d.top /\ e.row = d.row + 1 /\ e.screen = r0.screen
    BY <1>6, <1>7, <1>13 DEF Stepped
  <2>2. ASSUME NEW r \in 1 .. LinesHeight
        PROVE  e.screen[r] = RowOf(e, r)
    BY <1>2, <1>7, <1>11, <2>1 DEF Tidy, Shows
  <2>3. QED
    BY <1>7, <1>8, <1>9, <1>10, <1>13, <2>1, <2>2 DEF Shows, Current
<1>14. QED
  BY <1>12, <1>13

-----------------------------------------------------------------------------
(***************************************************************************)
(* The cursor keys.                                                        *)
(***************************************************************************)
LEMMA UpKeeps ==
  ASSUME NEW d, Sound(d), Tidy(d), NEW e, e = Up(d)
  PROVE  Sound(e) /\ Tidy(e)
<1> USE EditorAssumption
<1>1. PICK m : m = moveUp(d)
  OBVIOUS
<1>2. e = RedrawnIf(m.top # d.top, m, 1, 1)
  BY <1>1 DEF Up
<1>3. Sound(m) /\ (m.top # d.top => ShowsBut(m, 1, 1)) /\ (~(m.top # d.top) => Shows(m))
  <2>1. CASE Current(d) = 0
    <3>1. m = d
      BY <1>1, <2>1 DEF moveUp
    <3>2. QED
      BY <3>1 DEF Tidy
  <2>2. CASE Current(d) # 0
    <3>1. /\ Sound(m)
          /\ IF d.row = 0 THEN m.top = d.top - 1 /\ m.row = 0 /\ ShowsBut(m, 1, 1)
             ELSE m.top = d.top /\ m.row = d.row - 1 /\ Shows(m)
      BY <1>1, <2>2, AboveTidies
    <3>2. d.top \in Nat
      BY DEF Sound, Position
    <3>3. QED
      BY <3>1, <3>2
  <2>3. QED
    BY <2>1, <2>2
<1>4. IsData(e) /\ SameText(m, e) /\ SameCursor(m, e) /\ Tidy(e)
  <2>1. IsData(m) /\ (m.top # d.top) \in BOOLEAN /\ 1 \in Int
    BY <1>3 DEF Sound
  <2>2. QED
    BY <1>2, <1>3, <2>1, RedrawnIfTidies
<1>5. QED
  BY <1>3, <1>4, RedrawnIsSound

LEMMA DownKeeps ==
  ASSUME NEW d, Sound(d), Tidy(d), NEW e, e = Down(d)
  PROVE  Sound(e) /\ Tidy(e)
<1> USE EditorAssumption
<1>1. PICK m : m = moveDown(d)
  OBVIOUS
<1>2. e = RedrawnIf(m.top # d.top, m, LinesHeight, LinesHeight)
  BY <1>1 DEF Down
<1>3. /\ Sound(m)
      /\ m.top # d.top => ShowsBut(m, LinesHeight, LinesHeight)
      /\ ~(m.top # d.top) => Shows(m)
  <2>1. CASE Current(d) = d.count - 1
    <3>1. m = d
      BY <1>1, <2>1 DEF moveDown
    <3>2. QED
      BY <3>1 DEF Tidy
  <2>2. CASE Current(d) # d.count - 1
    <3>1. m = LineBelow(d)
      BY <1>1, <2>2 DEF moveDown
    <3>2. /\ Sound(m)
          /\ IF d.row = LinesHeight - 1
             THEN m.top = d.top + 1 /\ m.row = d.row /\ ShowsBut(m, LinesHeight, LinesHeight)
             ELSE m.top = d.top /\ m.row = d.row + 1 /\ Shows(m)
      BY <2>2, <3>1, BelowTidies
    <3>3. d.top \in Nat
      BY DEF Sound, Position
    <3>4. QED
      BY <3>2, <3>3
  <2>3. QED
    BY <2>1, <2>2
<1>4. IsData(e) /\ SameText(m, e) /\ SameCursor(m, e) /\ Tidy(e)
  <2>1. IsData(m) /\ (m.top # d.top) \in BOOLEAN /\ LinesHeight \in Int
    BY <1>3 DEF Sound
  <2>2. QED
    BY <1>2, <1>3, <2>1, RedrawnIfTidies
<1>5. QED
  BY <1>3, <1>4, RedrawnIsSound

\* Within a line, only its own row depends on where the window begins.
LEMMA HorizontalMoves ==
  ASSUME NEW d, Sound(d), ShowsBut(d, d.row + 1, d.row + 1), NEW left \in Nat, NEW col \in Int,
         NEW m, Moved(d, m, d.top, d.row, left, col)
  PROVE  /\ Sound(m) /\ d.row + 1 \in Int
         /\ ShowsBut(m, d.row + 1, d.row + 1)
         /\ left = d.left /\ Shows(d) => Shows(m)
<1> USE EditorAssumption
<1>1. /\ IsData(m) /\ SameText(d, m) /\ m.top = d.top /\ m.row = d.row /\ m.left = left
      /\ m.screen = d.screen
  BY DEF Moved, SameScreen
<1>2. Sound(m)
  BY <1>1, SameSound
<1>3. d.row \in Nat /\ d.top \in Nat
  BY DEF Sound, Position
<1>4. ASSUME NEW r \in 1 .. LinesHeight, r \notin d.row + 1 .. d.row + 1
      PROVE  m.screen[r] = RowOf(m, r)
  <2>1. r # d.row + 1
    BY <1>3, <1>4
  <2>2. d.top + r - 1 # d.top + d.row
    BY <1>3, <2>1
  <2>3. RowOf(d, r) = PlainRow(d, d.top + r - 1)
    BY <1>3, <2>2, RowIs DEF Sound, Current
  <2>4. RowOf(m, r) = PlainRow(m, d.top + r - 1)
    <3>1. Current(m) = d.top + d.row
      BY <1>1 DEF Current
    <3>2. QED
      BY <1>1, <1>2, <1>3, <2>2, <3>1, RowIs DEF Sound
  <2>5. PlainRow(m, d.top + r - 1) = PlainRow(d, d.top + r - 1)
    BY <1>1, SamePlainRow
  <2>6. QED
    BY <1>1, <1>4, <2>3, <2>4, <2>5 DEF ShowsBut
<1>5. ASSUME left = d.left, Shows(d), NEW r \in 1 .. LinesHeight
      PROVE  m.screen[r] = RowOf(m, r)
  <2>1. RowOf(m, r) = RowOf(d, r)
    BY <1>1, <1>5, SameRow
  <2>2. QED
    BY <1>1, <1>5, <2>1 DEF Shows
<1>6. QED
  BY <1>2, <1>3, <1>4, <1>5 DEF ShowsBut, Shows

LEMMA HorizontalKeeps ==
  ASSUME NEW d, Sound(d), Tidy(d), NEW left \in Nat, NEW col \in Int,
         NEW m, Moved(d, m, d.top, d.row, left, col), NEW condition \in BOOLEAN,
         left # d.left => condition,
         NEW e, e = RedrawnIf(condition, m, d.row + 1, d.row + 1)
  PROVE  Sound(e) /\ Tidy(e)
<1>1. /\ Sound(m) /\ d.row + 1 \in Int
      /\ ShowsBut(m, d.row + 1, d.row + 1)
      /\ left = d.left => Shows(m)
  <2>1. ShowsBut(d, d.row + 1, d.row + 1) /\ Shows(d)
    BY DEF Tidy, Shows, ShowsBut
  <2>2. QED
    BY <2>1, HorizontalMoves
<1>2. IsData(e) /\ SameText(m, e) /\ SameCursor(m, e) /\ Tidy(e)
  <2>1. IsData(m) /\ (~condition => Shows(m))
    BY <1>1 DEF Sound
  <2>2. QED
    BY <1>1, <2>1, RedrawnIfTidies
<1>3. QED
  BY <1>1, <1>2, RedrawnIsSound

\* A cursor that does not move.
LEMMA StaysMoved ==
  ASSUME NEW d, IsData(d)
  PROVE  Moved(d, d, d.top, d.row, d.left, d.col)
BY DEF Moved, SameText, SameSlots, SameScreen

LEMMA LeftMoves ==
  ASSUME NEW d, Sound(d), NEW m, m = moveLeft(d)
  PROVE  \E left \in Nat, col \in Int : Moved(d, m, d.top, d.row, left, col)
<1>1. IsData(d) /\ d.left \in Nat /\ d.col \in Int
  BY DEF Sound, Position, IsData
<1>2. CASE d.col = 0 /\ d.left = 0
  BY <1>1, <1>2, StaysMoved DEF moveLeft
<1>3. CASE d.col = 0 /\ d.left # 0
  <2>1. m = [d EXCEPT !.left = d.left - 1] /\ d.left - 1 \in Nat /\ d.left - 1 \in Int
    BY <1>1, <1>3 DEF moveLeft
  <2>2. Moved(d, m, d.top, d.row, d.left - 1, d.col)
    BY <1>1, <2>1, SetLeft
  <2>3. QED
    BY <1>1, <2>1, <2>2
<1>4. CASE d.col # 0
  <2>1. m = [d EXCEPT !.col = d.col - 1] /\ d.col - 1 \in Int
    BY <1>1, <1>4 DEF moveLeft
  <2>2. Moved(d, m, d.top, d.row, d.left, d.col - 1)
    BY <1>1, <2>1, SetCol
  <2>3. QED
    BY <1>1, <2>1, <2>2
<1>5. QED
  BY <1>2, <1>3, <1>4

LEMMA RightMoves ==
  ASSUME NEW d, Sound(d), NEW m, m = moveRight(d)
  PROVE  \E left \in Nat, col \in Int : Moved(d, m, d.top, d.row, left, col)
<1>1. IsData(d) /\ d.left \in Nat /\ d.col \in Int
  BY DEF Sound, Position, IsData
<1>2. CASE Cursor(d) = getCurrentLength(d)
  BY <1>1, <1>2, StaysMoved DEF moveRight
<1>3. CASE Cursor(d) # getCurrentLength(d) /\ d.col = Width - 1
  <2>1. m = [d EXCEPT !.left = d.left + 1] /\ d.left + 1 \in Nat /\ d.left + 1 \in Int
    BY <1>1, <1>3 DEF moveRight
  <2>2. Moved(d, m, d.top, d.row, d.left + 1, d.col)
    BY <1>1, <2>1, SetLeft
  <2>3. QED
    BY <1>1, <2>1, <2>2
<1>4. CASE Cursor(d) # getCurrentLength(d) /\ d.col # Width - 1
  <2>1. m = [d EXCEPT !.col = d.col + 1] /\ d.col + 1 \in Int
    BY <1>1, <1>4 DEF moveRight
  <2>2. Moved(d, m, d.top, d.row, d.left, d.col + 1)
    BY <1>1, <2>1, SetCol
  <2>3. QED
    BY <1>1, <2>1, <2>2
<1>5. QED
  BY <1>2, <1>3, <1>4

\* The length of the line the cursor is on.
LEMMA CurrentLine ==
  ASSUME NEW d, Sound(d)
  PROVE  /\ Current(d) \in 0 .. d.count - 1 /\ d.index[Current(d)] \in Slots
         /\ getCurrentLine(d) \in Line /\ Terminated(getCurrentLine(d))
         /\ getCurrentLength(d) = stringLen(getCurrentLine(d), 0)
         /\ getCurrentLength(d) \in Places
<1> USE EditorAssumption
<1>1. Current(d) \in 0 .. d.count - 1
  BY DEF Sound, Position, Current
<1>2. d.index[Current(d)] \in Slots
  BY <1>1 DEF Sound, Partition
<1>3. getCurrentLine(d) \in Line /\ Terminated(getCurrentLine(d))
  BY <1>2 DEF Sound, IsData, AllTerminated, getCurrentLine, getLineAt
<1>4. getCurrentLength(d) = stringLen(getCurrentLine(d), 0)
  BY DEF getCurrentLength, getLineLength, getCurrentLine
<1>5. stringLen(getCurrentLine(d), 0) \in 0 .. MaxLineLength - 1 - 0 /\ 0 \in Places
  <2>1. 0 \in Places
    BY DEF Places
  <2>2. QED
    BY <1>3, <2>1, TerminatedLength
<1>6. QED
  BY <1>1, <1>2, <1>3, <1>4, <1>5 DEF Places

LEMMA EndMoves ==
  ASSUME NEW d, Sound(d), NEW m, m = moveEnd(d)
  PROVE  \E left \in Nat, col \in Int :
           /\ Moved(d, m, d.top, d.row, left, col)
           /\ left + col = getCurrentLength(d)
           /\ left # d.left =>
                Cursor(d) # getCurrentLength(d) /\ getCurrentLength(d) >= d.left + Width
<1> USE EditorAssumption
<1>1. IsData(d) /\ d.left \in Nat /\ d.col \in Int
  BY DEF Sound, Position, IsData
<1>2. getCurrentLength(d) \in Places
  BY CurrentLine
<1>3. PICK len \in Nat : len = getCurrentLength(d)
  BY <1>2 DEF Places
<1>4. CASE Cursor(d) = len
  BY <1>1, <1>3, <1>4, StaysMoved DEF moveEnd, Cursor
<1>5. CASE Cursor(d) # len /\ len < d.left + Width
  <2>1. m = [d EXCEPT !.col = len - d.left] /\ len - d.left \in Int
    BY <1>1, <1>3, <1>5 DEF moveEnd
  <2>2. Moved(d, m, d.top, d.row, d.left, len - d.left)
    BY <1>1, <2>1, SetCol
  <2>3. d.left + (len - d.left) = len
    BY <1>1
  <2>4. QED
    BY <1>1, <1>3, <2>1, <2>2, <2>3
<1>6. CASE Cursor(d) # len /\ len >= d.left + Width
  <2>1. m = [d EXCEPT !.left = len - Width + 1, !.col = Width - 1]
    BY <1>1, <1>3, <1>6 DEF moveEnd
  <2>2. len - Width + 1 \in Nat /\ Width - 1 \in Int /\ (len - Width + 1) + (Width - 1) = len
    BY <1>1, <1>6
  <2>3. PICK left \in Nat, col \in Int : left = len - Width + 1 /\ col = Width - 1
    BY <2>2
  <2>4. m = [d EXCEPT !.left = left, !.col = col] /\ left \in Int
    BY <2>1, <2>3
  <2>5. Moved(d, m, d.top, d.row, left, col)
    BY <1>1, <2>4, SetLeftCol
  <2>6. QED
    BY <1>3, <1>6, <2>2, <2>3, <2>5
<1>7. QED
  BY <1>1, <1>4, <1>5, <1>6

LEMMA LeftKeeps ==
  ASSUME NEW d, Sound(d), Tidy(d), NEW e, e = Left(d)
  PROVE  Sound(e) /\ Tidy(e)
<1>1. PICK m : m = moveLeft(d)
  OBVIOUS
<1>2. PICK left \in Nat, col \in Int : Moved(d, m, d.top, d.row, left, col)
  BY <1>1, LeftMoves
<1>3. PICK condition \in BOOLEAN : condition = (m.left # d.left)
  OBVIOUS
<1>4. e = RedrawnIf(condition, m, d.row + 1, d.row + 1)
  BY <1>1, <1>3 DEF Left
<1>5. left # d.left => condition
  BY <1>2, <1>3 DEF Moved
<1>6. QED
  BY <1>2, <1>4, <1>5, HorizontalKeeps

LEMMA RightKeeps ==
  ASSUME NEW d, Sound(d), Tidy(d), NEW e, e = Right(d)
  PROVE  Sound(e) /\ Tidy(e)
<1>1. PICK m : m = moveRight(d)
  OBVIOUS
<1>2. PICK left \in Nat, col \in Int : Moved(d, m, d.top, d.row, left, col)
  BY <1>1, RightMoves
<1>3. PICK condition \in BOOLEAN : condition = (m.left # d.left)
  OBVIOUS
<1>4. e = RedrawnIf(condition, m, d.row + 1, d.row + 1)
  BY <1>1, <1>3 DEF Right
<1>5. left # d.left => condition
  BY <1>2, <1>3 DEF Moved
<1>6. QED
  BY <1>2, <1>4, <1>5, HorizontalKeeps

\* At place 0 the window is at its left edge: it cannot be to the right of it.
LEMMA HomeKeeps ==
  ASSUME NEW d, Sound(d), Tidy(d), InSlot(d), NEW e, e = Home(d)
  PROVE  Sound(e) /\ Tidy(e)
<1>1. IsData(d) /\ d.left \in Nat /\ d.col \in Int /\ 0 <= d.col
  BY DEF Sound, Position, IsData, InSlot
<1>2. PICK left \in Nat, col \in Nat : left = d.left /\ col = d.col
  BY <1>1
<1>3. PICK zero \in Nat : zero = 0
  OBVIOUS
<1>4. PICK m : m = [d EXCEPT !.left = zero, !.col = zero]
  OBVIOUS
<1>5. Moved(d, m, d.top, d.row, zero, zero)
  <2>1. zero \in Int /\ m = [d EXCEPT !.left = zero, !.col = zero]
    BY <1>4
  <2>2. QED
    BY <1>1, <2>1, SetLeftCol
<1> DEFINE condition == left + col > 0
<1>6. condition \in BOOLEAN
  OBVIOUS
<1>7. e = RedrawnIf(condition, m, d.row + 1, d.row + 1)
  BY <1>2, <1>3, <1>4 DEF Home, Cursor
<1>8. zero # d.left => condition
  BY <1>2, <1>3
<1> HIDE DEF condition
<1>9. QED
  <2>1. zero \in Int
    OBVIOUS
  <2>2. QED
    BY <1>5, <1>6, <1>7, <1>8, <2>1, HorizontalKeeps

LEMMA EndKeeps ==
  ASSUME NEW d, Sound(d), Tidy(d), NEW e, e = End(d)
  PROVE  Sound(e) /\ Tidy(e)
<1>1. PICK m : m = moveEnd(d)
  OBVIOUS
<1>2. PICK left \in Nat, col \in Int :
        /\ Moved(d, m, d.top, d.row, left, col)
        /\ left # d.left =>
             Cursor(d) # getCurrentLength(d) /\ getCurrentLength(d) >= d.left + Width
  BY <1>1, EndMoves
<1>3. PICK condition \in BOOLEAN :
        condition = (Cursor(d) # getCurrentLength(d) /\ getCurrentLength(d) >= d.left + Width)
  OBVIOUS
<1>4. e = RedrawnIf(condition, m, d.row + 1, d.row + 1)
  BY <1>1, <1>3 DEF End
<1>5. left # d.left => condition
  BY <1>2, <1>3
<1>6. QED
  BY <1>2, <1>4, <1>5, HorizontalKeeps

-----------------------------------------------------------------------------
(***************************************************************************)
(* Keys that change the current line.                                      *)
(***************************************************************************)
\* One line is another one; no other line is in its slot.
Changed(d, e, i, line) ==
  /\ IsData(e) /\ SameSlots(d, e) /\ SameCursor(d, e) /\ SameScreen(d, e)
  /\ e.text = [d.text EXCEPT ![d.index[i]] = line]

LEMMA ChangeIs ==
  ASSUME NEW d, IsData(d), NEW i, d.index[i] \in Slots, NEW line \in Line,
         NEW e, e = [d EXCEPT !.text[d.index[i]] = line]
  PROVE  Changed(d, e, i, line)
<1> DEFINE text == [d.text EXCEPT ![d.index[i]] = line]
           u == [d EXCEPT !.text = text]
<1>1. e = u
  BY DEF IsData, Record
<1>2. text \in [Slots -> Line]
  BY DEF IsData
<1> HIDE DEF text
<1>3. Record(u) /\ SameSlots(d, u) /\ SameCursor(d, u) /\ SameScreen(d, u) /\ u.text = text
  BY DEF IsData, Record, Fields, SameSlots, SameCursor, SameScreen
<1> HIDE DEF u
<1>4. IsData(u)
  BY <1>2, <1>3 DEF IsData, SameSlots, SameCursor, SameScreen
<1>5. QED
  BY <1>1, <1>3, <1>4 DEF Changed, text

LEMMA ChangeKeeps ==
  ASSUME NEW d, Sound(d), NEW i \in 0 .. d.count - 1, NEW line \in Line, Terminated(line),
         NEW e, Changed(d, e, i, line)
  PROVE  /\ Sound(e)
         /\ \A j \in 0 .. d.count - 1 : j # i => getLineAt(e, j) = getLineAt(d, j)
         /\ getLineAt(e, i) = line
<1>1. d.index[i] \in Slots /\ d.text \in [Slots -> Line]
  BY DEF Sound, Partition, IsData
<1>2. Partition(e)
  BY SameSlotsPartition DEF Sound, Changed
<1>3. AllTerminated(e)
  BY <1>1 DEF Sound, Changed, AllTerminated
<1>4. Position(e)
  BY DEF Sound, Changed, SameSlots, SameCursor, Position, Current
<1>5. ASSUME NEW j \in 0 .. d.count - 1, j # i
      PROVE  getLineAt(e, j) = getLineAt(d, j)
  <2>1. d.index[j] \in Slots /\ d.index[j] # d.index[i]
    BY <1>5 DEF Sound, Partition
  <2>2. QED
    BY <1>1, <2>1 DEF Changed, SameSlots, getLineAt
<1>6. getLineAt(e, i) = line
  BY <1>1 DEF Changed, SameSlots, getLineAt
<1>7. QED
  BY <1>2, <1>3, <1>4, <1>5, <1>6 DEF Changed, Sound

\* A change of the current line shows in no other row.
LEMMA RewriteKeeps ==
  ASSUME NEW d, Sound(d), Tidy(d), NEW line \in Line, Terminated(line),
         NEW e, e = Rewrite(d, line)
  PROVE  Sound(e) /\ SameCursor(d, e) /\ ShowsBut(e, e.row + 1, e.row + 1)
<1> USE EditorAssumption
<1>1. Current(d) \in 0 .. d.count - 1 /\ d.index[Current(d)] \in Slots
  BY CurrentLine
<1>2. PICK i : i = Current(d)
  OBVIOUS
<1>3. Changed(d, e, i, line)
  <2>1. IsData(d)
    BY DEF Sound
  <2>2. d.index[i] \in Slots /\ e = [d EXCEPT !.text[d.index[i]] = line]
    BY <1>1, <1>2 DEF Rewrite
  <2>3. QED
    BY <2>1, <2>2, ChangeIs
<1>4. Sound(e) /\ \A j \in 0 .. d.count - 1 : j # i => getLineAt(e, j) = getLineAt(d, j)
  BY <1>1, <1>2, <1>3, ChangeKeeps
<1>5. SameCursor(d, e) /\ SameScreen(d, e) /\ e.count = d.count
  BY <1>3 DEF Changed, SameSlots
<1>6. ASSUME NEW r \in 1 .. LinesHeight, r \notin e.row + 1 .. e.row + 1
      PROVE  e.screen[r] = RowOf(e, r)
  <2>1. d.row \in Nat /\ d.top \in Nat /\ e.row = d.row /\ e.top = d.top /\ d.count \in Nat
    BY <1>5 DEF Sound, Position, SameCursor
  <2>2. r # d.row + 1
    BY <1>6, <2>1
  <2>3. d.top + r - 1 # d.top + d.row /\ d.top + r - 1 \in Nat
    <3>1. PICK top \in Nat, row \in Nat : top = d.top /\ row = d.row
      BY <2>1
    <3>2. r \in Nat /\ r >= 1 /\ r # row + 1
      BY <2>2, <3>1
    <3>3. top + r - 1 # top + row /\ top + r - 1 \in Nat
      BY <3>2
    <3>4. QED
      BY <3>1, <3>3
  <2>4. RowOf(d, r) = PlainRow(d, d.top + r - 1)
    BY <2>1, <2>3, RowIs DEF Sound, Current
  <2>5. RowOf(e, r) = PlainRow(e, d.top + r - 1)
    <3>1. Current(e) = d.top + d.row
      BY <2>1 DEF Current
    <3>2. QED
      BY <1>4, <2>1, <2>3, <3>1, RowIs DEF Sound
  <2>6. PlainRow(e, d.top + r - 1) = PlainRow(d, d.top + r - 1)
    <3>1. PICK j \in Nat : j = d.top + r - 1
      BY <2>3
    <3>2. j # i
      BY <1>2, <2>3, <3>1 DEF Current
    <3>3. ~(j >= d.count) => j \in 0 .. d.count - 1
      BY <2>1
    <3>4. PlainRow(e, j) = PlainRow(d, j)
      BY <1>4, <1>5, <3>2, <3>3 DEF PlainRow
    <3>5. QED
      BY <3>1, <3>4
  <2>7. QED
    BY <1>5, <2>4, <2>5, <2>6 DEF Tidy, Shows, SameScreen
<1>7. QED
  BY <1>4, <1>5, <1>6 DEF ShowsBut

\* Then the cursor moves within the line, and its row is drawn.
LEMMA LineKeyKeeps ==
  ASSUME NEW d, Sound(d), Tidy(d), NEW line \in Line, Terminated(line),
         NEW w, w = Rewrite(d, line), NEW left \in Nat, NEW col \in Int,
         NEW m, Moved(w, m, w.top, w.row, left, col),
         NEW e, e = Redrawn(m, d.row + 1, d.row + 1)
  PROVE  Sound(e) /\ Tidy(e)
<1>1. Sound(w) /\ SameCursor(d, w) /\ ShowsBut(w, w.row + 1, w.row + 1)
  BY RewriteKeeps
<1>2. Sound(m) /\ w.row + 1 \in Int /\ ShowsBut(m, w.row + 1, w.row + 1)
  BY <1>1, HorizontalMoves
<1>3. w.row = d.row
  BY <1>1 DEF SameCursor
<1>4. IsData(e) /\ SameText(m, e) /\ SameCursor(m, e) /\ Tidy(e)
  <2>1. e = Redrawn(m, w.row + 1, w.row + 1) /\ IsData(m)
    BY <1>2, <1>3 DEF Sound
  <2>2. QED
    BY <1>2, <2>1, RedrawnTidies
<1>5. QED
  BY <1>2, <1>4, RedrawnIsSound

\* A character goes in before the NUL, which moves by one: there is room.
LEMMA OpenedIs ==
  ASSUME NEW line \in Line, Terminated(line), NEW cur \in Nat, cur < MaxLineLength - 1,
         stringLen(line, 0) < MaxLineLength - 1, NEW c \in Letters
  PROVE  Opened(line, cur, c) \in Line /\ Terminated(Opened(line, cur, c))
<1> USE EditorAssumption
<1>1. PICK len \in Nat : len = stringLen(line, 0)
  <2>1. stringLen(line, 0) \in 0 .. MaxLineLength - 0
    BY StringLength
  <2>2. QED
    BY <2>1
<1>2. line[len] = Nul /\ len < MaxLineLength - 1
  <2>1. 0 + stringLen(line, 0) = stringLen(line, 0)
    BY <1>1
  <2>2. line[0 + stringLen(line, 0)] = Nul
    BY TerminatedLength DEF Places
  <2>3. QED
    BY <1>1, <2>1, <2>2
<1> DEFINE new == Opened(line, cur, c)
<1>3. new = [k \in Places |-> IF k = cur THEN c
                              ELSE IF cur < k /\ k <= len + 1 THEN line[k - 1] ELSE line[k]]
  BY <1>1 DEF Opened, Line
<1> HIDE DEF new
<1>4. ASSUME NEW k \in Places
      PROVE  new[k] \in Letters
  <2>1. CASE k = cur
    BY <1>3, <2>1
  <2>2. CASE k # cur /\ cur < k /\ k <= len + 1 /\ k # 0
    <3>1. k - 1 \in Places /\ new[k] = line[k - 1]
      BY <1>3, <2>2 DEF Places
    <3>2. QED
      BY <3>1 DEF Line
  <2>3. CASE k # cur /\ ~(cur < k /\ k <= len + 1)
    <3>1. new[k] = line[k]
      BY <1>3, <2>3
    <3>2. QED
      BY <3>1 DEF Line
  <2>5. QED
    BY <2>1, <2>2, <2>3 DEF Places
<1>5. new \in Line
  BY <1>3, <1>4 DEF Line
<1>6. Terminated(new)
  <2>1. MaxLineLength - 1 \in Places /\ MaxLineLength - 1 # cur
    BY DEF Places
  <2>2. CASE MaxLineLength - 1 = len + 1
    <3>1. new[MaxLineLength - 1] = line[len]
      BY <1>3, <2>1, <2>2
    <3>2. QED
      BY <1>2, <3>1 DEF Terminated
  <2>3. CASE MaxLineLength - 1 # len + 1
    <3>1. new[MaxLineLength - 1] = line[MaxLineLength - 1]
      BY <1>2, <1>3, <2>1, <2>3
    <3>2. QED
      BY <3>1 DEF Terminated
  <2>4. QED
    BY <2>2, <2>3
<1>7. QED
  BY <1>5, <1>6 DEF new

\* A character goes out, and no place behind the NUL is read.
LEMMA ClosedIs ==
  ASSUME NEW line \in Line, Terminated(line), NEW cur \in Int
  PROVE  Closed(line, cur) \in Line /\ Terminated(Closed(line, cur))
<1> USE EditorAssumption
<1>1. PICK len \in Nat : len = stringLen(line, 0) /\ len <= MaxLineLength - 1
  <2>1. stringLen(line, 0) \in 0 .. MaxLineLength - 1 - 0
    BY TerminatedLength DEF Places
  <2>2. QED
    BY <2>1
<1> DEFINE new == Closed(line, cur)
<1>2. new = [k \in Places |-> IF cur <= k /\ k < len THEN line[k + 1] ELSE line[k]]
  BY <1>1 DEF Closed, Line
<1> HIDE DEF new
<1>3. ASSUME NEW k \in Places
      PROVE  new[k] \in Letters
  <2>1. CASE cur <= k /\ k < len
    <3>1. k + 1 \in Places /\ new[k] = line[k + 1]
      BY <1>1, <1>2, <2>1 DEF Places
    <3>2. QED
      BY <3>1 DEF Line
  <2>2. CASE ~(cur <= k /\ k < len)
    BY <1>2, <2>2 DEF Line
  <2>3. QED
    BY <2>1, <2>2
<1>4. new \in Line
  BY <1>2, <1>3 DEF Line
<1>5. new[MaxLineLength - 1] = line[MaxLineLength - 1]
  <2>1. MaxLineLength - 1 \in Places /\ ~(MaxLineLength - 1 < len)
    BY <1>1 DEF Places
  <2>2. QED
    BY <1>2, <2>1
<1>6. QED
  BY <1>4, <1>5 DEF new, Terminated

LEMMA CharacterKeeps ==
  ASSUME NEW d, Sound(d), Tidy(d), InSlot(d), NEW c \in Chars,
         Full(d) \/ Cursor(d) < MaxLineLength - 1, NEW e, e = Character(d, c)
  PROVE  Sound(e) /\ Tidy(e)
<1> USE EditorAssumption
<1>1. CASE Full(d)
  BY <1>1 DEF Character
<1>2. CASE ~Full(d)
  <2>1. PICK line : line = Opened(getCurrentLine(d), Cursor(d), c)
    OBVIOUS
  <2>2. line \in Line /\ Terminated(line)
    <3>1. /\ getCurrentLine(d) \in Line /\ Terminated(getCurrentLine(d))
          /\ getCurrentLength(d) = stringLen(getCurrentLine(d), 0)
          /\ getCurrentLength(d) \in Places
      BY CurrentLine
    <3>2. PICK old \in Line : old = getCurrentLine(d)
      BY <3>1
    <3>3. PICK cur \in Nat : cur = Cursor(d)
      BY DEF InSlot, Cursor, Sound, Position, IsData
    <3>4. stringLen(old, 0) < MaxLineLength - 1
      BY <1>2, <3>1, <3>2 DEF Full, Places
    <3>5. cur < MaxLineLength - 1
      BY <1>2, <3>3
    <3>6. line = Opened(old, cur, c) /\ c \in Letters /\ Terminated(old)
      BY <2>1, <3>1, <3>2, <3>3, TextIsLetters
    <3>7. QED
      BY <3>4, <3>5, <3>6, OpenedIs
  <2>3. PICK w : w = Rewrite(d, line)
    OBVIOUS
  <2>4. Sound(w)
    BY <2>2, <2>3, RewriteKeeps
  <2>5. PICK m : m = moveRight(w)
    OBVIOUS
  <2>6. PICK left \in Nat, col \in Int : Moved(w, m, w.top, w.row, left, col)
    BY <2>4, <2>5, RightMoves
  <2>7. e = Redrawn(m, d.row + 1, d.row + 1)
    BY <1>2, <2>1, <2>3, <2>5 DEF Character, addChar
  <2>8. QED
    BY <2>2, <2>3, <2>6, <2>7, LineKeyKeeps
<1>3. QED
  BY <1>1, <1>2

-----------------------------------------------------------------------------
(***************************************************************************)
(* Keys that remove a line: what is above it stays.                        *)
(***************************************************************************)
LEMMA RowOfLine ==
  ASSUME NEW d, Sound(d), NEW r \in 1 .. LinesHeight, NEW k \in 0 .. d.count - 1,
         d.top + r - 1 = k, k # Current(d)
  PROVE  RowOf(d, r) = Clip(TextFrom(getLineAt(d, k), 0))
<1>1. d.top \in Nat /\ d.count \in Nat
  BY DEF Sound, Position
<1>2. RowOf(d, r) = PlainRow(d, d.top + r - 1)
  BY <1>1, RowIs DEF Sound
<1>3. ~(k >= d.count)
  BY <1>1
<1>4. QED
  BY <1>2, <1>3 DEF PlainRow

\* Line i takes in the next one, whose slot is freed.
Joined(d, e, i) ==
  /\ IsData(e) /\ Partition(e) /\ AllTerminated(e) /\ SameCursor(d, e) /\ SameScreen(d, e)
  /\ e.count = d.count - 1
  /\ \A k \in 0 .. i - 1 : getLineAt(e, k) = getLineAt(d, k)

LEMMA ConcatenatedIs ==
  ASSUME NEW d, Sound(d), NEW i \in Nat, CanJoin(d, i), NEW c, c = Concatenated(d, i)
  PROVE  \E line \in Line : Terminated(line) /\ Changed(d, c, i, line)
<1> USE EditorAssumption
<1>1. i \in 0 .. d.count - 1 /\ i + 1 \in 0 .. d.count - 1
  BY DEF CanJoin, Sound, Position
<1>2. d.index[i] \in Slots /\ d.index[i + 1] \in Slots
  BY <1>1 DEF Sound, Partition
<1>3. PICK old \in Line, next \in Line :
        /\ old = getLineAt(d, i) /\ next = getLineAt(d, i + 1)
        /\ Terminated(old) /\ Terminated(next)
  BY <1>2 DEF Sound, IsData, AllTerminated, getLineAt
<1>4. PICK len \in Nat, s \in Seq(Letters) :
        /\ len = stringLen(old, 0) /\ s = TextFrom(next, 0) /\ len + Len(s) < MaxLineLength
  <2>1. 0 \in 0 .. MaxLineLength
    OBVIOUS
  <2>2. stringLen(old, 0) \in 0 .. MaxLineLength - 0
    BY <2>1, StringLength
  <2>3. TextFrom(next, 0) \in Seq(Letters) /\ Len(TextFrom(next, 0)) = stringLen(next, 0)
    BY <2>1, TextFromIs
  <2>4. stringLen(old, 0) + stringLen(next, 0) < MaxLineLength
    BY <1>3 DEF CanJoin, getLineLength
  <2>5. QED
    BY <2>2, <2>3, <2>4
<1>5. PICK line : line = stringCopy(old, len, s)
  OBVIOUS
<1>6. line \in Line /\ Terminated(line)
  BY <1>3, <1>4, <1>5, CopyIs
<1>7. c = [d EXCEPT !.text[d.index[i]] = line]
  BY <1>3, <1>4, <1>5 DEF Concatenated, getLineLength, getLineAt
<1>8. Changed(d, c, i, line)
  <2>1. IsData(d)
    BY DEF Sound
  <2>2. QED
    BY <1>2, <1>6, <1>7, <2>1, ChangeIs
<1>9. QED
  BY <1>6, <1>8

LEMMA JoinIs ==
  ASSUME NEW d, Sound(d), NEW i \in Nat, CanJoin(d, i),
         NEW e, e = RemoveLine(Concatenated(d, i), i + 1)
  PROVE  Joined(d, e, i)
<1> USE EditorAssumption
<1>1. i \in 0 .. d.count - 1 /\ d.count \in Nat
  BY DEF CanJoin, Sound, Position
<1>2. PICK c : c = Concatenated(d, i)
  OBVIOUS
<1>3. PICK line \in Line : Terminated(line) /\ Changed(d, c, i, line)
  BY <1>2, ConcatenatedIs
<1>4. Sound(c) /\ \A j \in 0 .. d.count - 1 : j # i => getLineAt(c, j) = getLineAt(d, j)
  BY <1>1, <1>3, ChangeKeeps
<1>5. SameCursor(d, c) /\ SameScreen(d, c) /\ c.count = d.count
  BY <1>3 DEF Changed, SameSlots
<1>6. PICK next \in 0 .. c.count - 1 : next = i + 1
  BY <1>1, <1>5 DEF CanJoin
<1>7. PICK slot : slot = c.index[next]
  OBVIOUS
<1>8. IsData(c) /\ Partition(c) /\ AllTerminated(c) /\ e = RemoveLine(c, next)
  BY <1>2, <1>4, <1>6 DEF Sound
<1>9. Removed(c, e, next, slot) /\ Partition(e) /\ AllTerminated(e)
  BY <1>7, <1>8, RemoveIs, RemovePartitions, RemoveTerminates
<1>10. ASSUME NEW k \in 0 .. i - 1
       PROVE  getLineAt(e, k) = getLineAt(d, k)
  <2>1. k \in 0 .. d.count - 1 /\ k # i /\ k # next /\ k < next /\ k < c.count - 1 /\ k \in 0 .. c.count - 1
    BY <1>1, <1>5, <1>6
  <2>2. k \in Slots /\ c.index[k] \in Slots /\ c.index[k] # slot
    <3>1. c.index[k] \in Slots /\ c.index[k] # slot /\ c.count <= MaxLines /\ c.count \in Nat
      BY <1>7, <1>8, <2>1 DEF Partition
    <3>2. QED
      BY <2>1, <3>1 DEF Slots
  <2>3. e.index[k] = c.index[k]
    <3>1. e.index[k] = IndexWithout(c, next)[k]
      BY <1>9 DEF Removed
    <3>2. k # c.count - 1 /\ ~(next <= k)
      BY <1>5, <2>1
    <3>3. QED
      BY <2>2, <3>1, <3>2 DEF IndexWithout
  <2>4. e.text[c.index[k]] = c.text[c.index[k]]
    BY <1>8, <1>9, <2>2 DEF Removed, IsData
  <2>5. getLineAt(e, k) = getLineAt(c, k)
    BY <2>3, <2>4 DEF getLineAt
  <2>6. QED
    BY <1>4, <2>1, <2>5
<1>11. SameCursor(d, e) /\ SameScreen(d, e) /\ IsData(e) /\ e.count = d.count - 1
  BY <1>5, <1>9 DEF Removed, SameCursor, SameScreen
<1>12. QED
  BY <1>9, <1>10, <1>11 DEF Joined

\* The rows above the current one show lines that have not changed.
LEMMA JoinKeeps ==
  ASSUME NEW d, Sound(d), ShowsBut(d, d.row + 1, d.row + 1), CanJoin(d, Current(d)),
         NEW j, j = joinWithNextLine(d), NEW e, e = Redrawn(j, d.row + 1, LinesHeight)
  PROVE  Sound(e) /\ Tidy(e)
<1> USE EditorAssumption
<1>1. /\ d.top \in Nat /\ d.row \in 0 .. LinesHeight - 1 /\ d.count \in 1 .. MaxLines
      /\ d.left \in Nat /\ Current(d) = d.top + d.row /\ Current(d) < d.count - 1
  BY DEF Sound, Position, Current, CanJoin
<1>2. PICK i \in Nat : i = Current(d)
  BY <1>1
<1>3. Joined(d, j, i)
  <2>1. CanJoin(d, i) /\ j = RemoveLine(Concatenated(d, i), i + 1)
    BY <1>2 DEF joinWithNextLine
  <2>2. QED
    BY <2>1, JoinIs
<1>4. /\ j.top = d.top /\ j.row = d.row /\ j.left = d.left /\ j.count = d.count - 1
      /\ j.screen = d.screen /\ Current(j) = Current(d)
  BY <1>3 DEF Joined, SameCursor, SameScreen, Current
<1>5. Position(j)
  <2>1. PICK count \in 1 .. MaxLines : count = d.count /\ i < count - 1
    BY <1>1, <1>2
  <2>2. count - 1 \in 1 .. MaxLines
    BY <2>1
  <2>3. QED
    BY <1>1, <1>2, <1>4, <2>1, <2>2 DEF Position
<1>6. Sound(j)
  BY <1>3, <1>5 DEF Joined, Sound
<1>7. ASSUME NEW r \in 1 .. LinesHeight, r \notin d.row + 1 .. LinesHeight
      PROVE  j.screen[r] = RowOf(j, r)
  <2>1. r < d.row + 1
    BY <1>1, <1>7
  <2>2. PICK k \in 0 .. i - 1 : k = d.top + r - 1
    <3>1. PICK top \in Nat, row \in Nat : top = d.top /\ row = d.row
      BY <1>1
    <3>2. i = top + row /\ r < row + 1
      BY <1>1, <1>2, <2>1, <3>1
    <3>3. top + r - 1 \in 0 .. i - 1
      BY <3>2
    <3>4. QED
      BY <3>1, <3>3
  <2>3. k \in 0 .. d.count - 1 /\ k \in 0 .. j.count - 1 /\ k # Current(d)
    <3>1. PICK count \in Nat : count = d.count /\ i < count - 1
      BY <1>1, <1>2
    <3>2. k \in 0 .. count - 1 /\ k \in 0 .. count - 1 - 1 /\ k # i
      BY <3>1
    <3>3. QED
      BY <1>2, <1>4, <3>1, <3>2
  <2>4. RowOf(d, r) = Clip(TextFrom(getLineAt(d, k), 0))
    BY <2>2, <2>3, RowOfLine
  <2>5. RowOf(j, r) = Clip(TextFrom(getLineAt(j, k), 0))
    <3>1. j.top + r - 1 = k /\ k # Current(j)
      BY <1>4, <2>2, <2>3
    <3>2. QED
      BY <1>6, <2>3, <3>1, RowOfLine
  <2>6. getLineAt(j, k) = getLineAt(d, k)
    BY <1>3 DEF Joined
  <2>7. d.screen[r] = RowOf(d, r)
    <3>1. r \notin d.row + 1 .. d.row + 1
      BY <1>1, <2>1
    <3>2. QED
      BY <3>1 DEF ShowsBut
  <2>8. QED
    BY <1>4, <2>4, <2>5, <2>6, <2>7
<1>8. IsData(e) /\ SameText(j, e) /\ SameCursor(j, e) /\ Tidy(e)
  <2>1. PICK first \in Int : first = d.row + 1
    BY <1>1
  <2>2. ShowsBut(j, first, LinesHeight) /\ e = Redrawn(j, first, LinesHeight)
    BY <1>7, <2>1 DEF ShowsBut
  <2>3. IsData(j) /\ LinesHeight \in Int
    BY <1>3 DEF Joined
  <2>4. QED
    BY <2>2, <2>3, RedrawnTidies
<1>9. QED
  BY <1>6, <1>8, RedrawnIsSound

LEMMA DeleteKeeps ==
  ASSUME NEW d, Sound(d), Tidy(d), NEW e, e = Delete(d)
  PROVE  Sound(e) /\ Tidy(e)
<1>1. CASE getCurrentLength(d) # Cursor(d)
  <2>1. PICK line : line = Closed(getCurrentLine(d), Cursor(d))
    OBVIOUS
  <2>2. line \in Line /\ Terminated(line)
    <3>1. PICK cur \in Int : cur = Cursor(d)
      BY DEF Sound, IsData, Cursor
    <3>2. getCurrentLine(d) \in Line /\ Terminated(getCurrentLine(d))
      BY CurrentLine
    <3>3. QED
      BY <2>1, <3>1, <3>2, ClosedIs
  <2>3. PICK w : w = Rewrite(d, line)
    OBVIOUS
  <2>4. Sound(w)
    BY <2>2, <2>3, RewriteKeeps
  <2>5. PICK left \in Nat, col \in Int : left = w.left /\ col = w.col
    BY <2>4 DEF Sound, Position, IsData
  <2>6. Moved(w, w, w.top, w.row, left, col)
    BY <2>4, <2>5, StaysMoved DEF Sound
  <2>7. e = Redrawn(w, d.row + 1, d.row + 1)
    BY <1>1, <2>1, <2>3 DEF Delete, deleteChar
  <2>8. QED
    BY <2>2, <2>3, <2>6, <2>7, LineKeyKeeps
<1>2. CASE getCurrentLength(d) = Cursor(d) /\ CanJoin(d, Current(d))
  <2>1. PICK j : j = joinWithNextLine(d)
    OBVIOUS
  <2>2. e = Redrawn(j, d.row + 1, LinesHeight)
    BY <1>2, <2>1 DEF Delete
  <2>3. ShowsBut(d, d.row + 1, d.row + 1)
    BY DEF Tidy, Shows, ShowsBut
  <2>4. QED
    BY <1>2, <2>1, <2>2, <2>3, JoinKeeps
<1>3. CASE getCurrentLength(d) = Cursor(d) /\ ~CanJoin(d, Current(d))
  BY <1>3 DEF Delete
<1>4. QED
  BY <1>1, <1>2, <1>3

\* The line above is the current one before it takes in the line left.
LEMMA PreviousLine ==
  ASSUME NEW d, Sound(d), Tidy(d), CanJoin(d, Current(d) - 1),
         NEW m, m = moveEnd(moveUp(d))
  PROVE  /\ Sound(m) /\ ShowsBut(m, m.row + 1, m.row + 1)
         /\ Current(m) = Current(d) - 1 /\ CanJoin(m, Current(m))
<1> USE EditorAssumption
<1>1. Current(d) \in Nat /\ Current(d) # 0
  BY DEF CanJoin, Sound, Position, Current
<1>2. PICK u : u = moveUp(d)
  OBVIOUS
<1>3. /\ Sound(u) /\ SameText(d, u)
      /\ Current(u) = Current(d) - 1
      /\ IF d.row = 0 THEN u.top = d.top - 1 /\ u.row = 0 /\ ShowsBut(u, 1, 1)
         ELSE u.top = d.top /\ u.row = d.row - 1 /\ Shows(u)
  BY <1>1, <1>2, AboveTidies
<1>4. ShowsBut(u, u.row + 1, u.row + 1)
  BY <1>3 DEF Shows, ShowsBut
<1>5. PICK left \in Nat, col \in Int : Moved(u, m, u.top, u.row, left, col)
  BY <1>2, <1>3, EndMoves
<1>6. Sound(m) /\ ShowsBut(m, u.row + 1, u.row + 1)
  BY <1>3, <1>4, <1>5, HorizontalMoves
<1>7. m.row = u.row /\ Current(m) = Current(u) /\ SameText(u, m)
  BY <1>5 DEF Moved, Current
<1>8. CanJoin(m, Current(m))
  BY <1>3, <1>7 DEF CanJoin, getLineLength, getLineAt, SameText, SameSlots
<1>9. QED
  BY <1>3, <1>6, <1>7, <1>8

LEMMA BackspaceKeeps ==
  ASSUME NEW d, Sound(d), Tidy(d), NEW e, e = Backspace(d)
  PROVE  Sound(e) /\ Tidy(e)
<1>1. CASE Cursor(d) # 0
  <2>1. PICK line : line = Closed(getCurrentLine(d), Cursor(d) - 1)
    OBVIOUS
  <2>2. line \in Line /\ Terminated(line)
    <3>1. PICK cur \in Int : cur = Cursor(d) - 1
      BY DEF Sound, IsData, Cursor
    <3>2. getCurrentLine(d) \in Line /\ Terminated(getCurrentLine(d))
      BY CurrentLine
    <3>3. QED
      BY <2>1, <3>1, <3>2, ClosedIs
  <2>3. PICK w : w = Rewrite(d, line)
    OBVIOUS
  <2>4. Sound(w)
    BY <2>2, <2>3, RewriteKeeps
  <2>5. PICK m : m = moveLeft(w)
    OBVIOUS
  <2>6. PICK left \in Nat, col \in Int : Moved(w, m, w.top, w.row, left, col)
    BY <2>4, <2>5, LeftMoves
  <2>7. e = Redrawn(m, d.row + 1, d.row + 1)
    BY <1>1, <2>1, <2>3, <2>5 DEF Backspace, deleteLeftChar
  <2>8. QED
    BY <2>2, <2>3, <2>6, <2>7, LineKeyKeeps
<1>2. CASE Cursor(d) = 0 /\ CanJoin(d, Current(d) - 1)
  <2>1. PICK m : m = moveEnd(moveUp(d))
    OBVIOUS
  <2>2. /\ Sound(m) /\ ShowsBut(m, m.row + 1, m.row + 1)
        /\ Current(m) = Current(d) - 1 /\ CanJoin(m, Current(m))
    BY <1>2, <2>1, PreviousLine
  <2>3. PICK j : j = joinWithPreviousLine(d)
    OBVIOUS
  <2>4. j = joinWithNextLine(m)
    <3>1. PICK cur \in Int : cur = Current(d)
      BY DEF Sound, IsData, Current
    <3>2. Current(m) = cur - 1 /\ cur = Current(m) + 1
      BY <2>2, <3>1
    <3>3. QED
      BY <2>1, <2>3, <3>1, <3>2 DEF joinWithPreviousLine, joinWithNextLine
  <2>5. j.row = m.row
    <3>1. PICK i \in Nat : i = Current(m)
      BY <2>2 DEF CanJoin, Sound, IsData, Current
    <3>2. Joined(m, j, i)
      <4>1. CanJoin(m, i) /\ j = RemoveLine(Concatenated(m, i), i + 1)
        BY <2>2, <2>4, <3>1 DEF joinWithNextLine
      <4>2. QED
        BY <2>2, <4>1, JoinIs
    <3>3. QED
      BY <3>2 DEF Joined, SameCursor
  <2>6. e = Redrawn(j, m.row + 1, LinesHeight)
    BY <1>2, <2>3, <2>5 DEF Backspace
  <2>7. QED
    BY <2>2, <2>4, <2>6, JoinKeeps
<1>3. CASE Cursor(d) = 0 /\ ~CanJoin(d, Current(d) - 1)
  BY <1>3 DEF Backspace
<1>4. QED
  BY <1>1, <1>2, <1>3

-----------------------------------------------------------------------------
(***************************************************************************)
(* Enter: the line is split, and the cursor goes to the one below.         *)
(***************************************************************************)
Split(d, e, i) ==
  /\ Sound(e) /\ SameCursor(d, e) /\ SameScreen(d, e) /\ e.count = d.count + 1
  /\ \A k \in 0 .. i - 1 : getLineAt(e, k) = getLineAt(d, k)

\* What is behind the cursor goes into a new line, and the old one is cut.
Divided(d, e, below, i, pos, slot, s, line) ==
  /\ i = Current(d) /\ pos = i + 1 /\ i \in 0 .. d.count - 1 /\ pos \in 0 .. d.count
  /\ s = TextFrom(getLineAt(d, i), Cursor(d)) /\ s \in Seq(Letters) /\ Len(s) < MaxLineLength
  /\ slot = d.freeSlots[d.freeCount - 1]
  /\ Inserted(d, below, pos, slot, s) /\ Sound(below)
  /\ \A k \in 0 .. i : getLineAt(below, k) = getLineAt(d, k)
  /\ line = [getLineAt(d, i) EXCEPT ![Cursor(d)] = Nul]
  /\ line \in Line /\ Terminated(line) /\ Changed(below, e, i, line)

LEMMA SplitDivides ==
  ASSUME NEW d, Sound(d), InSlot(d), d.count < MaxLines, NEW e, e = splitLine(d)
  PROVE  \E below, i, pos, slot, s, line : Divided(d, e, below, i, pos, slot, s, line)
<1> USE EditorAssumption
<1>1. /\ IsData(d) /\ Partition(d) /\ AllTerminated(d) /\ d.count \in Nat
      /\ d.top \in Nat /\ d.row \in 0 .. LinesHeight - 1
      /\ d.left \in Nat /\ Current(d) = d.top + d.row /\ Current(d) < d.count
  BY DEF Sound, Position, Current
<1>2. PICK i \in Nat, pos \in 0 .. d.count :
        i = Current(d) /\ pos = i + 1 /\ i \in 0 .. d.count - 1
  <2>1. Current(d) \in Nat /\ Current(d) \in 0 .. d.count - 1
    BY <1>1
  <2>2. PICK i \in Nat : i = Current(d) /\ i \in 0 .. d.count - 1
    BY <2>1
  <2>3. i + 1 \in 0 .. d.count
    BY <1>1, <2>2
  <2>4. QED
    BY <2>2, <2>3
<1>3. PICK cur \in Places : cur = Cursor(d)
  <2>1. Cursor(d) \in Int /\ 0 <= Cursor(d) /\ Cursor(d) < MaxLineLength
    BY <1>1 DEF InSlot, Cursor, IsData
  <2>2. Cursor(d) \in Places
    BY <2>1 DEF Places
  <2>3. QED
    BY <2>2
<1>4. d.index[i] \in Slots /\ i \in Slots /\ i # pos /\ ~(pos < i)
  <2>1. d.index[i] \in Slots
    BY <1>1, <1>2 DEF Partition
  <2>2. PICK count \in Nat : count = d.count /\ count < MaxLines
    BY <1>1
  <2>3. i \in Slots
    BY <1>2, <2>2 DEF Slots
  <2>4. QED
    BY <1>2, <2>1, <2>3
<1>5. PICK old \in Line : old = getLineAt(d, i) /\ Terminated(old)
  BY <1>1, <1>4 DEF IsData, AllTerminated, getLineAt
<1>6. PICK s \in Seq(Letters) : s = TextFrom(old, cur) /\ Len(s) < MaxLineLength
  <2>1. cur \in 0 .. MaxLineLength
    BY DEF Places
  <2>2. TextFrom(old, cur) \in Seq(Letters) /\ Len(TextFrom(old, cur)) = stringLen(old, cur)
    BY <2>1, TextFromIs
  <2>3. stringLen(old, cur) \in 0 .. MaxLineLength - 1 - cur
    BY <1>5, TerminatedLength
  <2>4. stringLen(old, cur) < MaxLineLength
    BY <2>3 DEF Places
  <2>5. QED
    BY <2>2, <2>4
<1>7. PICK b : b = insertLineAtPos(d, pos, s)
  OBVIOUS
<1>8. PICK slot : slot = d.freeSlots[d.freeCount - 1]
  OBVIOUS
<1>9. Inserted(d, b, pos, slot, s) /\ Partition(b) /\ AllTerminated(b)
  BY <1>1, <1>6, <1>7, <1>8, InsertIs, InsertPartitions, InsertTerminates
<1>10. Sound(b) /\ SameCursor(d, b) /\ SameScreen(d, b) /\ b.count = d.count + 1
  <2>1. SameCursor(d, b) /\ SameScreen(d, b) /\ b.count = d.count + 1 /\ IsData(b)
    BY <1>9 DEF Inserted
  <2>2. Position(b)
    <3>1. /\ b.top = d.top /\ b.row = d.row /\ b.left = d.left /\ Current(b) = Current(d)
      BY <2>1 DEF SameCursor, Current
    <3>2. b.count \in 1 .. MaxLines /\ Current(b) < b.count
      BY <1>1, <2>1, <3>1
    <3>3. QED
      BY <1>1, <3>1, <3>2 DEF Position
  <2>3. QED
    BY <1>9, <2>1, <2>2 DEF Sound
<1>11. ASSUME NEW k \in 0 .. i
       PROVE  b.index[k] = d.index[k] /\ getLineAt(b, k) = getLineAt(d, k)
  <2>1. k \in 0 .. d.count - 1 /\ k # pos /\ ~(pos < k)
    <3>1. PICK count \in Nat : count = d.count /\ i \in 0 .. count - 1
      BY <1>1, <1>2
    <3>2. k \in 0 .. count - 1 /\ ~(i + 1 < k) /\ k # i + 1
      BY <3>1
    <3>3. QED
      BY <1>2, <3>1, <3>2
  <2>2. k \in Slots /\ d.index[k] \in Slots
    BY <1>1, <2>1 DEF Partition, Slots
  <2>3. b.index[k] = d.index[k]
    BY <1>9, <2>1, <2>2 DEF Inserted
  <2>4. d.index[k] # slot
    <3>1. d.freeCount - 1 \in 0 .. d.freeCount - 1
      BY <1>9 DEF Inserted
    <3>2. QED
      BY <1>1, <1>8, <2>1, <3>1 DEF Partition
  <2>5. b.text[d.index[k]] = d.text[d.index[k]]
    BY <1>1, <1>9, <2>2, <2>4 DEF Inserted, IsData
  <2>6. QED
    BY <2>3, <2>5 DEF getLineAt
<1>12. PICK line : line = [old EXCEPT ![cur] = Nul]
  OBVIOUS
<1>13. line \in Line /\ Terminated(line)
  <2>1. Nul \in Letters
    BY TextIsLetters
  <2>2. line \in Line
    BY <1>12, <2>1 DEF Line
  <2>3. Terminated(line)
    BY <1>5, <1>12 DEF Line, Terminated
  <2>4. QED
    BY <2>2, <2>3
<1>14. b.index[i] \in Slots /\ getLineAt(b, i) = old /\ b.index[i] = d.index[i]
  BY <1>4, <1>5, <1>11
<1>15. e = [b EXCEPT !.text[b.index[i]] = line]
  <2>1. e = [b EXCEPT !.text[d.index[i]][cur] = Nul]
    BY <1>2, <1>3, <1>5, <1>6, <1>7 DEF splitLine
  <2>2. b.text[b.index[i]] = old
    BY <1>14 DEF getLineAt
  <2>3. QED
    BY <1>12, <1>14, <2>1, <2>2
<1>16. Changed(b, e, i, line)
  <2>1. IsData(b)
    BY <1>10 DEF Sound
  <2>2. QED
    BY <1>13, <1>14, <1>15, <2>1, ChangeIs
<1>17. i = Current(d) /\ pos = i + 1 /\ i \in 0 .. d.count - 1 /\ pos \in 0 .. d.count
  BY <1>2
<1>18. s = TextFrom(getLineAt(d, i), Cursor(d)) /\ line = [getLineAt(d, i) EXCEPT ![Cursor(d)] = Nul]
  BY <1>3, <1>5, <1>6, <1>12
<1>19. Divided(d, e, b, i, pos, slot, s, line)
  BY <1>6, <1>8, <1>9, <1>10, <1>11, <1>13, <1>16, <1>17, <1>18 DEF Divided
<1>20. QED
  BY <1>19

LEMMA SplitIs ==
  ASSUME NEW d, Sound(d), InSlot(d), d.count < MaxLines, NEW e, e = splitLine(d)
  PROVE  Split(d, e, Current(d))
<1>1. PICK b, i, pos, slot, s, line : Divided(d, e, b, i, pos, slot, s, line)
  BY SplitDivides
<1>2. PICK count \in Nat : count = d.count /\ i = Current(d) /\ i \in 0 .. count - 1
  BY <1>1 DEF Divided, Sound, Position
<1>3. /\ Sound(b) /\ SameCursor(d, b) /\ SameScreen(d, b) /\ b.count = count + 1
      /\ line \in Line /\ Terminated(line) /\ Changed(b, e, i, line)
  BY <1>1, <1>2 DEF Divided, Inserted
<1>4. \A k \in 0 .. i : getLineAt(b, k) = getLineAt(d, k)
  BY <1>1 DEF Divided
<1>5. Sound(e) /\ \A k \in 0 .. b.count - 1 : k # i => getLineAt(e, k) = getLineAt(b, k)
  <2>1. i \in 0 .. b.count - 1
    BY <1>2, <1>3
  <2>2. QED
    BY <1>3, <2>1, ChangeKeeps
<1>6. \A k \in 0 .. i - 1 : getLineAt(e, k) = getLineAt(d, k)
  <2>1. b.count - 1 = count
    BY <1>2, <1>3
  <2>2. \A k \in 0 .. i - 1 : k \in 0 .. count /\ k # i /\ k \in 0 .. i
    BY <1>2
  <2>3. QED
    BY <1>4, <1>5, <2>1, <2>2
<1>7. SameCursor(d, e) /\ SameScreen(d, e) /\ e.count = d.count + 1
  BY <1>2, <1>3 DEF Changed, SameCursor, SameScreen, SameSlots
<1>8. QED
  BY <1>2, <1>5, <1>6, <1>7 DEF Split

LEMMA EnterKeeps ==
  ASSUME NEW d, Sound(d), Tidy(d), InSlot(d), NEW e, e = Enter(d)
  PROVE  Sound(e) /\ Tidy(e)
<1> USE EditorAssumption
<1>1. CASE d.count >= MaxLines
  BY <1>1 DEF Enter
<1>2. CASE d.count < MaxLines
  <2>1. /\ d.count \in Nat /\ d.top \in Nat /\ d.row \in 0 .. LinesHeight - 1
        /\ Current(d) = d.top + d.row /\ Current(d) < d.count /\ d.terminalRow = d.row + 1
    BY DEF Sound, Position, Current, Tidy
  <2>2. PICK s : s = splitLine(d)
    OBVIOUS
  <2>3. PICK top \in Nat, row \in 0 .. LinesHeight - 1, count \in Nat, i \in Nat :
          /\ top = d.top /\ row = d.row /\ count = d.count
          /\ i = Current(d) /\ i = top + row /\ i < count
    <3>1. PICK top \in Nat, row \in 0 .. LinesHeight - 1, count \in Nat :
            top = d.top /\ row = d.row /\ count = d.count
      BY <2>1
    <3>2. top + row \in Nat
      OBVIOUS
    <3>3. PICK i \in Nat : i = top + row
      BY <3>2
    <3>4. QED
      BY <2>1, <3>1, <3>3
  <2>4. Split(d, s, i)
    BY <1>2, <2>2, <2>3, SplitIs
  <2>5. PICK start : start = [s EXCEPT !.left = 0, !.col = 0]
    OBVIOUS
  <2>6. Moved(s, start, s.top, s.row, 0, 0)
    <3>1. IsData(s) /\ 0 \in Int
      BY <2>4 DEF Split, Sound
    <3>2. QED
      BY <2>5, <3>1, SetLeftCol
  <2>7. /\ IsData(start) /\ start.left = 0 /\ start.top = d.top /\ start.row = d.row
        /\ start.terminalRow = d.row + 1 /\ start.screen = d.screen
        /\ start.count = d.count + 1 /\ SameText(s, start)
    BY <2>1, <2>4, <2>6 DEF Split, Moved, SameCursor, SameScreen, SameText, SameSlots
  <2>8. PICK below : below = moveDown(start)
    OBVIOUS
  <2>9. below = LineBelow(start)
    <3>1. Current(start) = i /\ start.count - 1 = count
      BY <2>3, <2>7 DEF Current
    <3>2. QED
      BY <2>3, <2>8, <3>1 DEF moveDown
  <2>10. IF d.row = LinesHeight - 1
         THEN Stepped(start, below, d.top + 1, d.row, RaisedScreen(start), start.terminalRow)
         ELSE Stepped(start, below, d.top, d.row + 1, d.screen, start.terminalRow)
    <3>1. start.terminalRow = start.row + 1
      BY <2>7
    <3>2. QED
      BY <2>7, <2>9, <3>1, BelowIs
  <2>11. /\ IsData(below) /\ SameText(s, below) /\ below.left = 0
         /\ IF d.row = LinesHeight - 1
            THEN below.top = d.top + 1 /\ below.row = d.row /\ below.screen = RaisedScreen(start)
            ELSE below.top = d.top /\ below.row = d.row + 1 /\ below.screen = d.screen
    BY <2>7, <2>10 DEF Stepped, SameText, SameSlots
  <2>12. /\ below.top \in Nat /\ below.row \in 0 .. LinesHeight - 1
         /\ Current(below) = i + 1 /\ below.count = d.count + 1
    <3>1. below.count = d.count + 1
      BY <2>4, <2>11 DEF SameText, SameSlots, Split
    <3>2. below.top \in Nat /\ below.row \in 0 .. LinesHeight - 1 /\ below.top + below.row = i + 1
      <4>1. CASE row = LinesHeight - 1
        <5>1. top + 1 \in Nat /\ (top + 1) + row = (top + row) + 1
          OBVIOUS
        <5>2. below.top = top + 1 /\ below.row = row
          BY <2>3, <2>11, <4>1
        <5>3. QED
          BY <2>3, <5>1, <5>2
      <4>2. CASE row # LinesHeight - 1
        <5>1. row + 1 \in 0 .. LinesHeight - 1 /\ top + (row + 1) = (top + row) + 1
          BY <4>2
        <5>2. below.top = top /\ below.row = row + 1
          BY <2>3, <2>11, <4>2
        <5>3. QED
          BY <2>3, <5>1, <5>2
      <4>3. QED
        BY <4>1, <4>2
    <3>3. QED
      BY <3>1, <3>2 DEF Current
  <2>13. Sound(below)
    <3>1. Partition(below) /\ AllTerminated(below)
      BY <2>4, <2>11, SameSlotsPartition DEF Split, Sound, SameText, AllTerminated
    <3>2. below.count = count + 1 /\ below.count \in 1 .. MaxLines /\ Current(below) < below.count
      <4>1. count < MaxLines
        BY <1>2, <2>3
      <4>2. count \in Nat /\ i \in Nat /\ i < count
        BY <2>3
      <4>3. count + 1 \in 1 .. MaxLines /\ i + 1 < count + 1
        BY <4>1, <4>2
      <4>4. QED
        BY <2>3, <2>12, <4>3
    <3>3. Position(below)
      BY <2>11, <2>12, <3>2 DEF Position
    <3>4. QED
      BY <2>11, <3>1, <3>3 DEF Sound
  <2>14. PICK first \in Int : first = IF below.top > d.top THEN LinesHeight - 1 ELSE below.row
    BY <2>12
  <2>15. ASSUME NEW r \in 1 .. LinesHeight, r \notin first .. LinesHeight
         PROVE  below.screen[r] = RowOf(below, r)
    <3>1. PICK q \in 1 .. LinesHeight :
            /\ below.screen[r] = d.screen[q] /\ d.top + q - 1 = below.top + r - 1
            /\ q < d.row + 1
      <4>1. CASE d.row = LinesHeight - 1
        <5>1. below.top = d.top + 1 /\ first = LinesHeight - 1
          BY <2>1, <2>11, <2>14, <4>1
        <5>2. r < LinesHeight - 1 /\ r + 1 \in 1 .. LinesHeight /\ r # LinesHeight
          BY <2>15, <5>1
        <5>3. below.screen[r] = d.screen[r + 1]
          <6>1. DOMAIN start.screen = 1 .. LinesHeight
            BY <2>7 DEF IsData, Screen
          <6>2. QED
            BY <2>7, <2>11, <4>1, <5>2, <6>1 DEF RaisedScreen
        <5>4. d.top + (r + 1) - 1 = below.top + r - 1 /\ r + 1 < d.row + 1
          BY <2>1, <4>1, <5>1, <5>2
        <5>5. QED
          BY <5>2, <5>3, <5>4
      <4>2. CASE d.row # LinesHeight - 1
        <5>1. below.top = d.top /\ first = d.row + 1 /\ below.screen = d.screen
          BY <2>1, <2>11, <2>14, <4>2
        <5>2. r < d.row + 1
          BY <2>1, <2>15, <5>1
        <5>3. QED
          BY <5>1, <5>2
      <4>3. QED
        BY <4>1, <4>2
    <3>2. PICK k \in 0 .. i - 1 : k = d.top + q - 1
      <4>1. top + q - 1 \in 0 .. i - 1
        <5>1. q < row + 1
          BY <2>3, <3>1
        <5>2. top + q - 1 \in 0 .. (top + row) - 1
          BY <5>1
        <5>3. QED
          BY <2>3, <5>2
      <4>2. QED
        BY <2>3, <4>1
    <3>3. k \in 0 .. d.count - 1 /\ k \in 0 .. below.count - 1 /\ k # Current(d) /\ k # Current(below)
      <4>1. k \in 0 .. count - 1 /\ k \in 0 .. count /\ k # i /\ k # i + 1
        BY <2>3
      <4>2. below.count - 1 = count
        BY <2>3, <2>12
      <4>3. QED
        BY <2>3, <2>12, <4>1, <4>2
    <3>4. d.screen[q] = Clip(TextFrom(getLineAt(d, k), 0))
      <4>1. RowOf(d, q) = Clip(TextFrom(getLineAt(d, k), 0))
        BY <3>2, <3>3, RowOfLine
      <4>2. QED
        BY <4>1 DEF Tidy, Shows
    <3>5. RowOf(below, r) = Clip(TextFrom(getLineAt(below, k), 0))
      <4>1. below.top + r - 1 = k
        BY <3>1, <3>2
      <4>2. QED
        BY <2>13, <3>3, <4>1, RowOfLine
    <3>6. getLineAt(below, k) = getLineAt(d, k)
      <4>1. getLineAt(below, k) = getLineAt(s, k)
        BY <2>11 DEF SameText, SameSlots, getLineAt
      <4>2. QED
        BY <2>4, <4>1 DEF Split
    <3>7. QED
      BY <3>1, <3>4, <3>5, <3>6
  <2>16. e = Redrawn(below, first, LinesHeight)
    <3>1. ~(d.count >= MaxLines)
      BY <1>2, <2>1
    <3>2. QED
      BY <2>2, <2>5, <2>8, <2>14, <3>1 DEF Enter
  <2>17. IsData(e) /\ SameText(below, e) /\ SameCursor(below, e) /\ Tidy(e)
    <3>1. ShowsBut(below, first, LinesHeight) /\ LinesHeight \in Int
      BY <2>15 DEF ShowsBut
    <3>2. QED
      BY <2>11, <2>16, <3>1, RedrawnTidies
  <2>18. QED
    BY <2>13, <2>17, RedrawnIsSound
<1>3. QED
  <2>1. d.count \in Nat
    BY DEF Sound, Position
  <2>2. QED
    BY <1>1, <1>2, <2>1

-----------------------------------------------------------------------------
(***************************************************************************)
(* The document is read.                                                   *)
(***************************************************************************)
Loaded(d) ==
  /\ IsData(d) /\ Partition(d) /\ AllTerminated(d)
  /\ d.top = 0 /\ d.row = 0 /\ d.left = 0 /\ d.col = 0

Reading(s) ==
  /\ s = [d |-> s.d, tmps |-> s.tmps]
  /\ Loaded(s.d) /\ s.tmps \in Seq(Letters) /\ Len(s.tmps) < MaxLineLength - 1

\* There is a line, or one will be.
Begun(s) == s.d.count >= 1 \/ s.tmps # <<>>

LEMMA EmptyIsLoaded == Loaded(Empty)
<1> USE EditorAssumption
<1> DEFINE d == Empty
<1>1. /\ d.text = [slot \in Slots |-> [k \in 0 .. MaxLineLength - 1 |-> Nul]]
      /\ d.freeSlots = [i \in Slots |-> i] /\ d.freeCount = MaxLines
      /\ d.index = [i \in Slots |-> NoSlot] /\ d.count = 0
      /\ d.top = 0 /\ d.row = 0 /\ d.left = 0 /\ d.col = 0
      /\ d.screen = [r \in 1 .. LinesHeight |-> <<>>] /\ d.terminalRow = 1
  BY DEF Empty
<1>2. Record(d)
  BY DEF Record, Fields, Empty
<1> HIDE DEF d
<1>3. [k \in 0 .. MaxLineLength - 1 |-> Nul] \in Line
  BY TextIsLetters DEF Line, Places
<1>4. d.text \in [Slots -> Line]
  BY <1>1, <1>3
<1>5. d.freeSlots \in [Slots -> Slots] /\ d.index \in [Slots -> Slots \cup {NoSlot}]
  BY <1>1
<1>6. Screen(d.screen)
  BY <1>1 DEF Screen
<1>7. /\ d.freeCount \in Int /\ d.count \in Int /\ d.terminalRow \in Int
      /\ d.top \in Int /\ d.row \in Int /\ d.left \in Int /\ d.col \in Int
  BY <1>1
<1>8. IsData(d)
  BY <1>2, <1>4, <1>5, <1>6, <1>7 DEF IsData
<1>9. Partition(d)
  <2>1. d.count \in 0 .. MaxLines /\ d.count + d.freeCount = MaxLines
    BY <1>1
  <2>2. \A i \in 0 .. d.count - 1 : FALSE
    BY <1>1
  <2>3. \A i \in 0 .. d.freeCount - 1 : d.freeSlots[i] = i
    BY <1>1 DEF Slots
  <2>4. \A i, j \in 0 .. d.freeCount - 1 : d.freeSlots[i] = d.freeSlots[j] => i = j
    BY <2>3
  <2>5. QED
    BY <2>1, <2>2, <2>4 DEF Partition
<1>10. AllTerminated(d)
  BY <1>1 DEF AllTerminated, Terminated
<1>11. QED
  BY <1>1, <1>8, <1>9, <1>10 DEF Loaded, d

LEMMA AppendKeeps ==
  ASSUME NEW d, Loaded(d), NEW s \in Seq(Letters), Len(s) < MaxLineLength,
         NEW e, e = appendLine(d, s)
  PROVE  Loaded(e) /\ e.count >= 1
<1> USE EditorAssumption
<1>1. IsData(d) /\ Partition(d) /\ AllTerminated(d) /\ d.count \in 0 .. MaxLines
  BY DEF Loaded, Partition
<1>2. CASE d.count >= MaxLines
  <2>1. e = d
    BY <1>2 DEF appendLine, insertLineAtPos
  <2>2. QED
    BY <1>1, <1>2, <2>1
<1>3. CASE d.count < MaxLines
  <2>1. PICK pos \in 0 .. d.count : pos = d.count
    BY <1>1
  <2>2. e = insertLineAtPos(d, pos, s)
    BY <2>1 DEF appendLine
  <2>3. PICK slot : slot = d.freeSlots[d.freeCount - 1]
    OBVIOUS
  <2>4. Inserted(d, e, pos, slot, s) /\ Partition(e) /\ AllTerminated(e)
    BY <1>1, <1>3, <2>2, <2>3, InsertIs, InsertPartitions, InsertTerminates
  <2>5. IsData(e) /\ SameCursor(d, e) /\ e.count = d.count + 1
    BY <2>4 DEF Inserted
  <2>6. Loaded(e)
    BY <2>4, <2>5 DEF Loaded, SameCursor
  <2>7. QED
    BY <1>1, <2>5, <2>6
<1>4. QED
  BY <1>1, <1>2, <1>3

\* A line is kept while there is room for one more character and the NUL.
LEMMA ReadByteKeeps ==
  ASSUME NEW s, Reading(s), NEW byte \in Letters, NEW e, e = ReadByte(s, byte)
  PROVE  Reading(e) /\ (Begun(s) \/ byte # "CR" => Begun(e))
<1> USE EditorAssumption
<1>1. PICK old \in Seq(Letters) : old = s.tmps /\ Len(old) < MaxLineLength - 1
  BY DEF Reading
<1>2. PICK char \in Letters : char = Converted(byte)
  <2>1. CASE byte = "TAB"
    <3>1. Converted(byte) = " "
      BY <2>1 DEF Converted
    <3>2. QED
      BY <3>1 DEF Letters
  <2>2. CASE byte = "HIGH"
    <3>1. Converted(byte) = "?"
      BY <2>2 DEF Converted
    <3>2. QED
      BY <3>1 DEF Letters
  <2>3. CASE byte # "TAB" /\ byte # "HIGH"
    BY <2>3 DEF Converted
  <2>4. QED
    BY <2>1, <2>2, <2>3
<1>3. PICK tmps \in Seq(Letters) :
        tmps = Append(old, char) /\ Len(tmps) = Len(old) + 1 /\ tmps # <<>>
  <2>1. Append(old, char) \in Seq(Letters) /\ Len(Append(old, char)) = Len(old) + 1
    OBVIOUS
  <2>2. Append(old, char) # <<>>
    OBVIOUS
  <2>3. QED
    BY <2>1, <2>2
<1>4. Len(old) \in Nat /\ Len(<<>>) = 0 /\ <<>> \in Seq(Letters)
  OBVIOUS
<1>5. Loaded(s.d) /\ s = [d |-> s.d, tmps |-> s.tmps]
  BY DEF Reading
<1>6. CASE byte = "LF"
  <2>1. PICK a : a = appendLine(s.d, old)
    OBVIOUS
  <2>2. Loaded(a) /\ a.count >= 1
    <3>1. Len(old) < MaxLineLength
      BY <1>1, <1>4
    <3>2. QED
      BY <1>5, <2>1, <3>1, AppendKeeps
  <2>3. e = [d |-> a, tmps |-> <<>>]
    BY <1>1, <1>6, <2>1 DEF ReadByte
  <2>4. QED
    BY <1>4, <2>2, <2>3 DEF Reading, Begun
<1>7. CASE byte = "CR"
  <2>1. e = s
    BY <1>7 DEF ReadByte
  <2>2. QED
    BY <1>7, <2>1
<1>8. CASE byte \notin {"LF", "CR"} /\ Len(tmps) = MaxLineLength - 1
  <2>1. PICK a : a = appendLine(s.d, tmps)
    OBVIOUS
  <2>2. Loaded(a) /\ a.count >= 1
    <3>1. Len(tmps) < MaxLineLength
      BY <1>8
    <3>2. QED
      BY <1>5, <2>1, <3>1, AppendKeeps
  <2>3. e = [d |-> a, tmps |-> <<>>]
    BY <1>1, <1>2, <1>3, <1>8, <2>1 DEF ReadByte
  <2>4. QED
    BY <1>4, <2>2, <2>3 DEF Reading, Begun
<1>9. CASE byte \notin {"LF", "CR"} /\ Len(tmps) # MaxLineLength - 1
  <2>1. e = [s EXCEPT !.tmps = tmps]
    BY <1>1, <1>2, <1>3, <1>9 DEF ReadByte
  <2>2. e = [d |-> s.d, tmps |-> tmps]
    BY <1>5, <2>1
  <2>3. Len(tmps) < MaxLineLength - 1
    BY <1>1, <1>3, <1>4, <1>9
  <2>4. QED
    BY <1>3, <1>5, <2>2, <2>3 DEF Reading, Begun
<1>10. QED
  BY <1>6, <1>7, <1>8, <1>9

\* What the bytes up to each one give is a function of their number.
Walk(f, first, bytes, length) ==
  f = [n \in 0 .. length |-> IF n = 0 THEN first ELSE ReadByte(f[n - 1], bytes[n])]

LEMMA WalkExists ==
  ASSUME NEW bytes, NEW first, NEW length \in Nat
  PROVE  \E f : Walk(f, first, bytes, length)
<1> DEFINE Following(f, n) == IF n = 0 THEN first ELSE ReadByte(f[n - 1], bytes[n])
           W(f, m) == f = [n \in 0 .. m |-> Following(f, n)]
           T == {m \in Nat : \E f : W(f, m)}
<1>1. 0 \in T
  <2> DEFINE f == [n \in 0 .. 0 |-> first]
  <2>1. \A n \in 0 .. 0 : Following(f, n) = first
    OBVIOUS
  <2>2. W(f, 0)
    <3> HIDE DEF Following
    <3>1. QED
      BY <2>1
  <2> HIDE DEF f, W
  <2>3. QED
    BY <2>2
<1>2. ASSUME NEW m \in Nat, m \in T
      PROVE  m + 1 \in T
  <2>1. PICK f : W(f, m)
    BY <1>2
  <2> DEFINE g == [n \in 0 .. m + 1 |-> IF n = m + 1 THEN ReadByte(f[m], bytes[m + 1]) ELSE f[n]]
  <2>2. ASSUME NEW n \in 0 .. m + 1
        PROVE  g[n] = Following(g, n)
    <3>1. CASE n = 0
      <4>1. f[0] = first /\ n # m + 1
        BY <2>1, <3>1
      <4>2. QED
        BY <3>1, <4>1
    <3>2. CASE n # 0 /\ n # m + 1
      <4>1. n \in 0 .. m /\ n - 1 \in 0 .. m + 1 /\ n - 1 # m + 1
        BY <3>2
      <4>2. g[n] = f[n] /\ g[n - 1] = f[n - 1]
        BY <3>2, <4>1
      <4>3. f[n] = ReadByte(f[n - 1], bytes[n])
        BY <2>1, <3>2, <4>1
      <4> HIDE DEF g
      <4>4. QED
        BY <3>2, <4>2, <4>3
    <3>3. CASE n = m + 1
      <4>1. g[n - 1] = f[m] /\ n # 0 /\ g[n] = ReadByte(f[m], bytes[m + 1])
        BY <3>3
      <4> HIDE DEF g
      <4>2. QED
        BY <3>3, <4>1
    <3>4. QED
      BY <3>1, <3>2, <3>3
  <2>3. W(g, m + 1)
    <3>1. g = [n \in 0 .. m + 1 |-> g[n]]
      OBVIOUS
    <3> HIDE DEF g, Following
    <3>2. QED
      BY <2>2, <3>1
  <2> HIDE DEF g, W
  <2>4. m + 1 \in Nat
    OBVIOUS
  <2>5. QED
    BY <2>3, <2>4
<1>3. Nat \subseteq T
  <2> HIDE DEF T
  <2>1. QED
    BY <1>1, <1>2, SetInduction
<1>4. \E f : W(f, length)
  <2> HIDE DEF W
  <2>1. QED
    BY <1>3
<1>5. QED
  BY <1>4 DEF Walk

LEMMA ReadingKeeps ==
  ASSUME NEW bytes \in Seq(Letters), NEW first, Reading(first),
         NEW read, Walk(read, first, bytes, Len(bytes))
  PROVE  /\ Reading(read[Len(bytes)])
         /\ (\E n \in DOMAIN bytes : bytes[n] # "CR") => Begun(read[Len(bytes)])
<1>1. PICK length \in Nat : length = Len(bytes) /\ DOMAIN bytes = 1 .. length
  OBVIOUS
<1>2. read[0] = first /\ \A n \in 1 .. length : read[n] = ReadByte(read[n - 1], bytes[n])
  <2> DEFINE Following(n) == IF n = 0 THEN first ELSE ReadByte(read[n - 1], bytes[n])
  <2> HIDE DEF Following
  <2>1. read = [n \in 0 .. length |-> Following(n)]
    BY <1>1 DEF Following, Walk
  <2>2. \A n \in 0 .. length : read[n] = Following(n)
    BY <2>1
  <2>3. 0 \in 0 .. length /\ \A n \in 1 .. length : n \in 0 .. length /\ n # 0
    OBVIOUS
  <2>4. QED
    BY <2>2, <2>3 DEF Following
<1> DEFINE Good(n) == /\ Reading(read[n])
                      /\ (\E k \in 1 .. n : bytes[k] # "CR") => Begun(read[n])
           T == {n \in Nat : n <= length => Good(n)}
<1>3. 0 \in T
  BY <1>2
<1>4. ASSUME NEW n \in Nat, n \in T
      PROVE  n + 1 \in T
  <2>1. SUFFICES ASSUME n + 1 <= length
                 PROVE  Good(n + 1)
    OBVIOUS
  <2>2. n + 1 \in 1 .. length /\ n <= length
    BY <2>1
  <2>3. Good(n)
    BY <1>4, <2>2
  <2>4. PICK byte \in Letters : byte = bytes[n + 1]
    <3>1. n + 1 \in DOMAIN bytes
      BY <1>1, <2>2
    <3>2. bytes[n + 1] \in Letters
      BY <3>1
    <3>3. QED
      BY <3>2
  <2>5. read[n + 1] = ReadByte(read[n], byte)
    BY <1>2, <2>2, <2>4
  <2>6. Reading(read[n + 1]) /\ (Begun(read[n]) \/ byte # "CR" => Begun(read[n + 1]))
    BY <2>3, <2>5, ReadByteKeeps
  <2>7. \A k \in 1 .. n + 1 : k = n + 1 \/ k \in 1 .. n
    OBVIOUS
  <2>8. QED
    BY <2>3, <2>4, <2>6, <2>7
<1>5. Nat \subseteq T
  <2> HIDE DEF T
  <2>1. QED
    BY <1>3, <1>4, SetInduction
<1>6. QED
  BY <1>1, <1>5

LEMMA ReadFileLoads ==
  ASSUME NEW bytes \in Documents, NEW fails \in BOOLEAN, NEW e, e = readFile(Empty, bytes, fails)
  PROVE  Loaded(e) /\ e.count >= 1
<1> USE EditorAssumption
<1> DEFINE first == [d |-> Empty, tmps |-> <<>>]
           read == CHOOSE f : Walk(f, first, bytes, Len(bytes))
           s == read[Len(bytes)]
<1>1. e = CASE fails -> appendLine(s.d, ReadFailed)
            [] ~fails /\ s.tmps # <<>> -> appendLine(s.d, s.tmps)
            [] ~fails /\ s.tmps = <<>> -> s.d
  BY DEF readFile, Walk
<1>2. bytes \in Seq(Letters) /\ Len(bytes) \in Nat /\ \E n \in DOMAIN bytes : bytes[n] # "CR"
  <2>1. bytes \in Seq(Letters)
    BY TextIsLetters
  <2>2. \E n \in DOMAIN bytes : bytes[n] # "CR"
    OBVIOUS
  <2>3. QED
    BY <2>1, <2>2
<1>3. Walk(read, first, bytes, Len(bytes))
  <2>1. \E f : Walk(f, first, bytes, Len(bytes))
    BY <1>2, WalkExists
  <2>2. QED
    BY <2>1
<1>4. Reading(first)
  <2>1. Len(<<>>) = 0 /\ <<>> \in Seq(Letters)
    OBVIOUS
  <2>2. QED
    BY <2>1, EmptyIsLoaded DEF Reading
<1> HIDE DEF read, first
<1>5. Reading(s) /\ Begun(s)
  BY <1>2, <1>3, <1>4, ReadingKeeps
<1> HIDE DEF s
<1>6. /\ Loaded(s.d) /\ s.tmps \in Seq(Letters) /\ Len(s.tmps) < MaxLineLength
      /\ s.d.count >= 1 \/ s.tmps # <<>>
  <2>1. Len(s.tmps) < MaxLineLength - 1 /\ Len(s.tmps) \in Nat
    BY <1>5 DEF Reading
  <2>2. QED
    BY <1>5, <2>1 DEF Reading, Begun
<1>7. CASE fails
  <2>1. e = appendLine(s.d, ReadFailed)
    BY <1>1, <1>7
  <2>2. QED
    BY <1>6, <2>1, AppendKeeps, TextIsLetters
<1>8. CASE ~fails /\ s.tmps # <<>>
  <2>1. e = appendLine(s.d, s.tmps)
    BY <1>1, <1>8
  <2>2. QED
    BY <1>6, <2>1, AppendKeeps
<1>9. CASE ~fails /\ s.tmps = <<>>
  BY <1>1, <1>6, <1>9
<1>10. QED
  BY <1>7, <1>8, <1>9

-----------------------------------------------------------------------------
(***************************************************************************)
(* What holds in every state.                                              *)
(***************************************************************************)
EditorInvariant == Sound(editor) /\ Tidy(editor) /\ InSlot(editor) /\ edits \in 0 .. Edits

\* When the file has been read the whole screen is drawn.
LEMMA StartsSound ==
  ASSUME Init
  PROVE  EditorInvariant
<1> USE EditorAssumption
<1>1. PICK bytes \in Documents, fails \in BOOLEAN :
        editor = Redrawn(readFile(Empty, bytes, fails), 1, LinesHeight)
  BY DEF Init
<1>2. PICK d : d = readFile(Empty, bytes, fails)
  OBVIOUS
<1>3. Loaded(d) /\ d.count >= 1
  BY <1>2, ReadFileLoads
<1>4. Sound(d)
  <2>1. d.count \in 1 .. MaxLines
    BY <1>3 DEF Loaded, Partition
  <2>2. /\ d.top \in Nat /\ d.row \in 0 .. LinesHeight - 1 /\ d.left \in Nat
        /\ Current(d) = 0
    BY <1>3 DEF Loaded, Current
  <2>3. Position(d)
    BY <2>1, <2>2 DEF Position
  <2>4. QED
    BY <1>3, <2>3 DEF Loaded, Sound
<1>5. ShowsBut(d, 1, LinesHeight)
  BY DEF ShowsBut
<1>6. IsData(editor) /\ SameText(d, editor) /\ SameCursor(d, editor) /\ Tidy(editor)
  <2>1. IsData(d) /\ 1 \in Int /\ LinesHeight \in Int /\ editor = Redrawn(d, 1, LinesHeight)
    BY <1>1, <1>2, <1>3 DEF Loaded
  <2>2. QED
    BY <1>5, <2>1, RedrawnTidies
<1>7. Sound(editor)
  BY <1>4, <1>6, RedrawnIsSound
<1>8. InSlot(editor)
  BY <1>3, <1>6 DEF Loaded, SameCursor, InSlot, Cursor
<1>9. edits \in 0 .. Edits
  BY DEF Init
<1>10. QED
  BY <1>6, <1>7, <1>8, <1>9 DEF EditorInvariant

LEMMA EditKeeps ==
  ASSUME EditorInvariant, NEW after, Sound(after) /\ Tidy(after), Edit(after)
  PROVE  EditorInvariant'
<1>1. editor' = after /\ InSlot(after) /\ edits < Edits /\ edits' = edits + 1
  BY DEF Edit
<1>2. (Sound(editor) /\ Tidy(editor) /\ InSlot(editor))'
  BY <1>1
<1>3. edits' \in 0 .. Edits
  <2>1. edits \in 0 .. Edits /\ Edits \in Nat
    BY EditorAssumption DEF EditorInvariant
  <2>2. edits + 1 \in 0 .. Edits
    BY <1>1, <2>1
  <2>3. QED
    BY <1>1, <2>2
<1>4. QED
  BY <1>2, <1>3 DEF EditorInvariant

LEMMA StaysSound ==
  ASSUME EditorInvariant, [Next]_vars
  PROVE  EditorInvariant'
<1>1. Sound(editor) /\ Tidy(editor) /\ InSlot(editor) /\ edits \in 0 .. Edits
  BY DEF EditorInvariant
<1>2. ASSUME NEW c \in Chars, TypeKey(c)
      PROVE  EditorInvariant'
  <2>1. PICK after : after = Character(editor, c)
    OBVIOUS
  <2>2. (Full(editor) \/ Cursor(editor) < MaxLineLength - 1) /\ Edit(after)
    BY <1>2, <2>1 DEF TypeKey
  <2>3. Sound(after) /\ Tidy(after)
    BY <1>1, <2>1, <2>2, CharacterKeeps
  <2>4. QED
    BY <2>2, <2>3, EditKeeps
<1>3. CASE EnterKey
  <2>1. PICK after : after = Enter(editor)
    OBVIOUS
  <2>2. Sound(after) /\ Tidy(after)
    BY <1>1, <2>1, EnterKeeps
  <2>3. QED
    BY <1>3, <2>1, <2>2, EditKeeps DEF EnterKey
<1>4. CASE DeleteKey
  <2>1. PICK after : after = Delete(editor)
    OBVIOUS
  <2>2. Sound(after) /\ Tidy(after)
    BY <1>1, <2>1, DeleteKeeps
  <2>3. QED
    BY <1>4, <2>1, <2>2, EditKeeps DEF DeleteKey
<1>5. CASE BackspaceKey
  <2>1. PICK after : after = Backspace(editor)
    OBVIOUS
  <2>2. Sound(after) /\ Tidy(after)
    BY <1>1, <2>1, BackspaceKeeps
  <2>3. QED
    BY <1>5, <2>1, <2>2, EditKeeps DEF BackspaceKey
<1>6. CASE MoveKey
  <2>1. PICK after \in {Up(editor), Down(editor), Left(editor), Right(editor),
                        Home(editor), End(editor)} : Move(after)
    BY <1>6 DEF MoveKey
  <2>2. Sound(after) /\ Tidy(after)
    <3>1. CASE after = Up(editor)
      BY <1>1, <3>1, UpKeeps
    <3>2. CASE after = Down(editor)
      BY <1>1, <3>2, DownKeeps
    <3>3. CASE after = Left(editor)
      BY <1>1, <3>3, LeftKeeps
    <3>4. CASE after = Right(editor)
      BY <1>1, <3>4, RightKeeps
    <3>5. CASE after = Home(editor)
      BY <1>1, <3>5, HomeKeeps
    <3>6. CASE after = End(editor)
      BY <1>1, <3>6, EndKeeps
    <3>7. QED
      BY <2>1, <3>1, <3>2, <3>3, <3>4, <3>5, <3>6
  <2>3. editor' = after /\ InSlot(after) /\ edits' = edits
    BY <2>1 DEF Move
  <2>4. (Sound(editor) /\ Tidy(editor) /\ InSlot(editor))'
    BY <2>2, <2>3
  <2>5. QED
    BY <1>1, <2>3, <2>4 DEF EditorInvariant
<1>7. CASE UNCHANGED vars
  <2>1. editor' = editor /\ edits' = edits
    BY <1>7 DEF vars
  <2>2. (Sound(editor) /\ Tidy(editor) /\ InSlot(editor))'
    BY <1>1, <2>1
  <2>3. QED
    BY <1>1, <2>1, <2>2 DEF EditorInvariant
<1>8. QED
  BY <1>2, <1>3, <1>4, <1>5, <1>6, <1>7 DEF Next

\* The text, the cursor and the screen stay consistent under every key (run).
THEOREM EditorStaysSound == Spec => []EditorInvariant
<1>1. Init => EditorInvariant
  BY StartsSound
<1>2. EditorInvariant /\ [Next]_vars => EditorInvariant'
  BY StaysSound
<1>3. QED
  BY <1>1, <1>2, PTL DEF Spec

-----------------------------------------------------------------------------
(***************************************************************************)
(* The properties of the editor.                                           *)
(***************************************************************************)

\* Every line ends within its slot, so that none runs into the next, and the
\* cursor is on a line of the text, never on the dummy line (addChar, both
\* joins, moveUp, moveDown, readFile).
THEOREM EditorTypes == Spec => []TypeOK
<1> USE EditorAssumption
<1>1. ASSUME EditorInvariant
      PROVE  TypeOK
  <2>1. PICK d : d = editor
    OBVIOUS
  <2>2. Sound(d) /\ InSlot(d) /\ edits \in 0 .. Edits
    BY <1>1, <2>1 DEF EditorInvariant
  <2>3. /\ d.freeSlots \in [Slots -> Slots] /\ d.index \in [Slots -> Slots \cup {NoSlot}]
        /\ \A slot \in Slots : Terminated(d.text[slot])
    BY <2>2 DEF Sound, IsData, AllTerminated
  <2>4. d.count \in 1 .. MaxLines /\ d.freeCount \in 0 .. MaxLines - 1
    <3>1. d.count \in 1 .. MaxLines /\ d.freeCount \in Int /\ d.count + d.freeCount = MaxLines
      BY <2>2 DEF Sound, Position, Partition, IsData
    <3>2. PICK count \in 1 .. MaxLines, free \in Int : count = d.count /\ free = d.freeCount
      BY <3>1
    <3>3. free = MaxLines - count
      BY <3>1, <3>2
    <3>4. QED
      BY <3>2, <3>3
  <2>5. /\ d.top \in 0 .. MaxLines - 1 /\ d.row \in 0 .. LinesHeight - 1
        /\ Current(d) < d.count
    <3>1. d.top \in Nat /\ d.row \in 0 .. LinesHeight - 1 /\ d.top + d.row < d.count
      BY <2>2 DEF Sound, Position, Current
    <3>2. PICK top \in Nat, row \in Nat, count \in 1 .. MaxLines :
            top = d.top /\ row = d.row /\ count = d.count
      BY <2>4, <3>1
    <3>3. top + row < count
      BY <3>1, <3>2
    <3>4. top \in 0 .. MaxLines - 1
      BY <3>3
    <3>5. QED
      BY <3>1, <3>2, <3>4 DEF Current
  <2>6. d.left \in 0 .. MaxLineLength - 1
    <3>1. d.left \in Nat /\ d.col \in Int /\ 0 <= d.col /\ d.left + d.col < MaxLineLength
      BY <2>2 DEF Sound, Position, IsData, InSlot, Cursor
    <3>2. PICK left \in Nat, col \in Nat : left = d.left /\ col = d.col
      BY <3>1
    <3>3. left + col < MaxLineLength
      BY <3>1, <3>2
    <3>4. left \in 0 .. MaxLineLength - 1
      BY <3>3
    <3>5. QED
      BY <3>2, <3>4
  <2>7. \A i \in Slots : d.index[i] \in Slots \cup {NoSlot} /\ d.freeSlots[i] \in Slots
    BY <2>3
  <2>8. QED
    BY <2>1, <2>2, <2>3, <2>4, <2>5, <2>6, <2>7 DEF TypeOK
<1>2. EditorInvariant => TypeOK
  BY <1>1
<1>3. QED
  BY <1>2, EditorStaysSound, PTL

\* No two lines share a slot, and none is lost (insertLineAtPos, freeSlot and
\* the loops over index in both joins).
THEOREM SlotsAreDivided == Spec => []SlotsPartition
<1>1. EditorInvariant => SlotsPartition
  BY DEF EditorInvariant, Sound, Partition, SlotsPartition
<1>2. QED
  BY <1>1, EditorStaysSound, PTL

\* What is on the screen is what is in the text, though each key draws only
\* the rows it changed and lets the terminal scroll the others (run).
THEOREM ScreenIsTrue == Spec => []ScreenShowsText
<1>1. EditorInvariant => ScreenShowsText
  BY DEF EditorInvariant, Tidy, Shows, ScreenShowsText
<1>2. QED
  BY <1>1, EditorStaysSound, PTL

-----------------------------------------------------------------------------
(***************************************************************************)
(* The text editor implements TextBuffer: a list of lines, a cursor, and   *)
(* keys that change the text at the cursor and nowhere else.               *)
(***************************************************************************)

-----------------------------------------------------------------------------
(***************************************************************************)
(* The text in a slot, and what an update of the slot makes of it.         *)
(***************************************************************************)
Clean(s) == \A k \in 1 .. Len(s) : s[k] # Nul

LEMMA SequencesEqual ==
  ASSUME NEW S, NEW s \in Seq(S), NEW t \in Seq(S), Len(s) = Len(t),
         \A i \in 1 .. Len(s) : s[i] = t[i]
  PROVE  s = t
OBVIOUS

LEMMA FrontIs ==
  ASSUME NEW S, NEW s \in Seq(S), NEW n \in 0 .. Len(s), NEW a, a = SubSeq(s, 1, n)
  PROVE  a \in Seq(S) /\ Len(a) = n /\ \A k \in 1 .. n : a[k] = s[k]
<1>1. a \in Seq(S) /\ Len(a) = n
  OBVIOUS
<1>2. ASSUME NEW k \in 1 .. n
      PROVE  a[k] = s[k]
  OBVIOUS
<1>3. QED
  BY <1>1, <1>2

LEMMA RestIs ==
  ASSUME NEW S, NEW s \in Seq(S), NEW n \in 0 .. Len(s), NEW a, a = SubSeq(s, n + 1, Len(s))
  PROVE  a \in Seq(S) /\ Len(a) = Len(s) - n /\ \A k \in 1 .. Len(s) - n : a[k] = s[n + k]
<1>1. a \in Seq(S) /\ Len(a) = Len(s) - n
  OBVIOUS
<1>2. ASSUME NEW k \in 1 .. Len(s) - n
      PROVE  a[k] = s[n + k]
  OBVIOUS
<1>3. QED
  BY <1>1, <1>2

\* One sequence after the other.
Follow(t, m, a, n, b) ==
  /\ Len(t) = m + n
  /\ \A k \in 1 .. m : t[k] = a[k]
  /\ \A k \in 1 .. n : t[m + k] = b[k]

LEMMA BothAre ==
  ASSUME NEW S, NEW a \in Seq(S), NEW b \in Seq(S), NEW t, t = a \o b,
         NEW m \in Nat, m = Len(a), NEW n \in Nat, n = Len(b)
  PROVE  t \in Seq(S) /\ Follow(t, m, a, n, b)
<1>1. t \in Seq(S) /\ Len(t) = m + n
  OBVIOUS
<1>2. ASSUME NEW k \in 1 .. m
      PROVE  t[k] = a[k]
  <2>1. k \in 1 .. m + n
    OBVIOUS
  <2>2. QED
    BY <2>1
<1>3. ASSUME NEW k \in 1 .. n
      PROVE  t[m + k] = b[k]
  <2>1. m + k \in 1 .. m + n /\ ~(m + k <= m) /\ (m + k) - m = k
    OBVIOUS
  <2>2. QED
    BY <2>1
<1>4. QED
  BY <1>1, <1>2, <1>3 DEF Follow

\* The text of a slot is what is before its first NUL.
LEMMA TextIs ==
  ASSUME NEW line \in Line, NEW s \in Seq(Letters), Len(s) < MaxLineLength,
         line[Len(s)] = Nul, Clean(s), \A k \in 1 .. Len(s) : s[k] = line[k - 1]
  PROVE  TextFrom(line, 0) = s /\ stringLen(line, 0) = Len(s)
<1> USE EditorAssumption
<1>1. PICK len \in Nat : len = Len(s)
  OBVIOUS
<1>2. \A j \in 0 .. len - 1 : line[0 + j] # Nul
  <2>1. \A j \in 0 .. len - 1 : j + 1 \in 1 .. len /\ (j + 1) - 1 = j /\ 0 + j = j
    OBVIOUS
  <2>2. QED
    BY <1>1, <2>1 DEF Clean
<1>3. stringLen(line, 0) = len
  <2>1. 0 \in 0 .. MaxLineLength /\ len \in 0 .. MaxLineLength - 0 /\ 0 + len = len
    BY <1>1
  <2>2. line[0 + len] = Nul
    BY <1>1, <2>1
  <2>3. QED
    BY <1>2, <2>1, <2>2, LengthIs
<1>4. /\ TextFrom(line, 0) \in Seq(Letters) /\ Len(TextFrom(line, 0)) = len
      /\ \A k \in 1 .. len : TextFrom(line, 0)[k] = line[0 + k - 1]
  <2>1. 0 \in 0 .. MaxLineLength
    OBVIOUS
  <2>2. QED
    BY <1>3, <2>1, TextFromIs
<1>5. \A k \in 1 .. len : TextFrom(line, 0)[k] = s[k]
  <2>1. \A k \in 1 .. len : 0 + k - 1 = k - 1
    OBVIOUS
  <2>2. QED
    BY <1>1, <1>4, <2>1
<1>6. TextFrom(line, 0) = s
  BY <1>1, <1>4, <1>5, SequencesEqual
<1>7. QED
  BY <1>1, <1>3, <1>6

\* What is in a slot that ends with a NUL.
Holds(line, s) ==
  /\ line \in Line /\ s \in Seq(Letters) /\ Clean(s) /\ Len(s) < MaxLineLength
  /\ line[Len(s)] = Nul /\ \A k \in 1 .. Len(s) : line[k - 1] = s[k]

LEMMA HoldsIs ==
  ASSUME NEW line, NEW s, Holds(line, s)
  PROVE  TextFrom(line, 0) = s /\ stringLen(line, 0) = Len(s)
<1>1. /\ line \in Line /\ s \in Seq(Letters) /\ Clean(s) /\ Len(s) < MaxLineLength
      /\ line[Len(s)] = Nul /\ \A k \in 1 .. Len(s) : line[k - 1] = s[k]
  BY DEF Holds
<1>2. QED
  BY <1>1, TextIs

LEMMA TextHolds ==
  ASSUME NEW line \in Line, Terminated(line)
  PROVE  /\ Holds(line, TextFrom(line, 0))
         /\ Len(TextFrom(line, 0)) = stringLen(line, 0) /\ stringLen(line, 0) \in Places
<1> USE EditorAssumption
<1>1. PICK len : len = stringLen(line, 0)
  OBVIOUS
<1>2. /\ len \in Places /\ line[len] = Nul
      /\ \A j \in 0 .. len - 1 : line[j] # Nul
  <2>1. 0 \in Places
    BY DEF Places
  <2>2. /\ len \in 0 .. MaxLineLength - 1 - 0 /\ 0 + len \in Places /\ line[0 + len] = Nul
        /\ \A j \in 0 .. len - 1 : line[0 + j] # Nul
    BY <1>1, <2>1, TerminatedLength
  <2>3. 0 + len = len /\ \A j \in 0 .. len - 1 : 0 + j = j
    BY <2>2
  <2>4. QED
    BY <2>2, <2>3
<1>3. PICK s : s = TextFrom(line, 0)
  OBVIOUS
<1>4. s \in Seq(Letters) /\ Len(s) = len /\ \A k \in 1 .. len : s[k] = line[0 + k - 1]
  <2>1. 0 \in 0 .. MaxLineLength
    OBVIOUS
  <2>2. QED
    BY <1>1, <1>3, <2>1, TextFromIs
<1>5. \A k \in 1 .. len : s[k] = line[k - 1] /\ s[k] # Nul
  <2>1. \A k \in 1 .. len : 0 + k - 1 = k - 1 /\ k - 1 \in 0 .. len - 1
    BY <1>2 DEF Places
  <2>2. QED
    BY <1>2, <1>4, <2>1
<1>6. Holds(line, s)
  BY <1>2, <1>4, <1>5 DEF Holds, Clean, Places
<1>7. QED
  BY <1>1, <1>2, <1>3, <1>4, <1>6

-----------------------------------------------------------------------------
(***************************************************************************)
(* A character put into a sequence, and one taken out.                     *)
(***************************************************************************)
With(s, cur, c) == SubSeq(s, 1, cur) \o <<c>> \o SubSeq(s, cur + 1, Len(s))
Without(s, cur) == SubSeq(s, 1, cur) \o SubSeq(s, cur + 2, Len(s))

Longer(t, s, len, cur, c) ==
  /\ Len(t) = len + 1
  /\ \A k \in 1 .. cur : t[k] = s[k]
  /\ t[cur + 1] = c
  /\ \A k \in cur + 2 .. len + 1 : t[k] = s[k - 1]

Shorter(t, s, len, cur) ==
  /\ Len(t) = len - 1
  /\ \A k \in 1 .. cur : t[k] = s[k]
  /\ \A k \in cur + 1 .. len - 1 : t[k] = s[k + 1]

LEMMA WithIs ==
  ASSUME NEW S, NEW s \in Seq(S), NEW len \in Nat, len = Len(s), NEW cur \in Nat, cur <= len,
         NEW c \in S, NEW t, t = With(s, cur, c)
  PROVE  t \in Seq(S) /\ Longer(t, s, len, cur, c)
<1>1. cur \in 0 .. Len(s)
  OBVIOUS
<1>2. PICK a, b, o, m : /\ a = SubSeq(s, 1, cur) /\ b = SubSeq(s, cur + 1, len)
                        /\ o = <<c>> /\ m = a \o o
  OBVIOUS
<1>3. a \in Seq(S) /\ Len(a) = cur /\ \A k \in 1 .. cur : a[k] = s[k]
  BY <1>1, <1>2, FrontIs
<1>4. b \in Seq(S) /\ Len(b) = len - cur /\ \A k \in 1 .. len - cur : b[k] = s[cur + k]
  BY <1>1, <1>2, RestIs
<1>5. o \in Seq(S) /\ Len(o) = 1 /\ o[1] = c
  BY <1>2
<1>6. /\ m \in Seq(S) /\ Len(m) = cur + 1
      /\ \A k \in 1 .. cur : m[k] = a[k]
      /\ m[cur + 1] = c
  <2>1. a \in Seq(S) /\ cur \in Nat /\ cur = Len(a) /\ o \in Seq(S) /\ 1 \in Nat /\ 1 = Len(o) /\ m = a \o o
    BY <1>1, <1>2, <1>3, <1>5
  <2>2. m \in Seq(S) /\ Follow(m, cur, a, 1, o)
    BY <2>1, BothAre
  <2>3. 1 \in 1 .. 1
    OBVIOUS
  <2>4. QED
    BY <1>5, <2>2, <2>3 DEF Follow
<1>7. t = m \o b
  BY <1>1, <1>2 DEF With
<1>8. t \in Seq(S) /\ Follow(t, cur + 1, m, len - cur, b)
  <2>1. /\ m \in Seq(S) /\ cur + 1 \in Nat /\ cur + 1 = Len(m)
        /\ b \in Seq(S) /\ len - cur \in Nat /\ len - cur = Len(b) /\ t = m \o b
    BY <1>1, <1>4, <1>6, <1>7
  <2>2. QED
    BY <2>1, BothAre
<1>9. \A k \in 1 .. cur : t[k] = s[k]
  <2>1. \A k \in 1 .. cur : k \in 1 .. cur + 1
    BY <1>1
  <2>2. QED
    BY <1>3, <1>6, <1>8, <2>1 DEF Follow
<1>10. t[cur + 1] = c
  <2>1. cur + 1 \in 1 .. cur + 1
    OBVIOUS
  <2>2. QED
    BY <1>6, <1>8, <2>1 DEF Follow
<1>11. ASSUME NEW k \in cur + 2 .. len + 1
       PROVE  t[k] = s[k - 1]
  <2>1. PICK j \in 1 .. len - cur : cur + 1 + j = k /\ cur + j = k - 1
    <3>1. k - cur - 1 \in 1 .. len - cur /\ cur + 1 + (k - cur - 1) = k /\ cur + (k - cur - 1) = k - 1
      BY <1>1
    <3>2. QED
      BY <3>1
  <2>2. QED
    BY <1>4, <1>8, <2>1 DEF Follow
<1>12. cur + 1 + (len - cur) = len + 1
  BY <1>1
<1>13. QED
  BY <1>8, <1>9, <1>10, <1>11, <1>12 DEF Follow, Longer

LEMMA WithoutIs ==
  ASSUME NEW S, NEW s \in Seq(S), NEW len \in Nat, len = Len(s), NEW cur \in Nat, cur < len,
         NEW t, t = Without(s, cur)
  PROVE  t \in Seq(S) /\ Shorter(t, s, len, cur)
<1>1. cur \in 0 .. Len(s) /\ cur + 1 \in 0 .. Len(s)
  OBVIOUS
<1>2. PICK a, b : a = SubSeq(s, 1, cur) /\ b = SubSeq(s, (cur + 1) + 1, len)
  OBVIOUS
<1>3. a \in Seq(S) /\ Len(a) = cur /\ \A k \in 1 .. cur : a[k] = s[k]
  BY <1>1, <1>2, FrontIs
<1>4. /\ b \in Seq(S) /\ Len(b) = len - (cur + 1)
      /\ \A k \in 1 .. len - (cur + 1) : b[k] = s[cur + 1 + k]
  BY <1>1, <1>2, RestIs
<1>5. t = a \o b
  <2>1. cur + 2 = (cur + 1) + 1
    OBVIOUS
  <2>2. QED
    BY <1>2, <2>1 DEF Without
<1>6. t \in Seq(S) /\ Follow(t, cur, a, len - (cur + 1), b)
  <2>1. len - (cur + 1) \in Nat
    OBVIOUS
  <2>2. QED
    BY <1>3, <1>4, <1>5, <2>1, BothAre
<1>7. ASSUME NEW k \in cur + 1 .. len - 1
      PROVE  t[k] = s[k + 1]
  <2>1. PICK j \in 1 .. len - (cur + 1) : cur + j = k /\ cur + 1 + j = k + 1
    <3>1. k - cur \in 1 .. len - (cur + 1) /\ cur + (k - cur) = k /\ cur + 1 + (k - cur) = k + 1
      OBVIOUS
    <3>2. QED
      BY <3>1
  <2>2. QED
    BY <1>4, <1>6, <2>1 DEF Follow
<1>8. cur + (len - (cur + 1)) = len - 1
  OBVIOUS
<1>9. \A k \in 1 .. cur : t[k] = s[k]
  BY <1>3, <1>6 DEF Follow
<1>10. QED
  BY <1>6, <1>7, <1>8, <1>9 DEF Follow, Shorter

-----------------------------------------------------------------------------
(***************************************************************************)
(* The updates of a slot: typed into, taken from, copied into, cut.        *)
(***************************************************************************)
LEMMA HoldsMore ==
  ASSUME NEW line, NEW s, Holds(line, s)
  PROVE  /\ DOMAIN line = Places /\ stringLen(line, 0) = Len(s) /\ Len(s) \in Places
         /\ line[Len(s)] = Nul /\ \A k \in 1 .. Len(s) : line[k - 1] = s[k] /\ s[k] # Nul
<1>1. stringLen(line, 0) = Len(s)
  BY HoldsIs
<1>2. Len(s) \in Places
  BY EditorAssumption DEF Holds, Places
<1>3. QED
  BY <1>1, <1>2 DEF Holds, Line, Clean

LEMMA OpenedHolds ==
  ASSUME NEW line, NEW s, Holds(line, s), Len(s) < MaxLineLength - 1,
         NEW cur \in 0 .. Len(s), NEW c \in Letters, c # Nul,
         NEW new \in Line, new = Opened(line, cur, c)
  PROVE  Holds(new, With(s, cur, c))
<1> USE EditorAssumption
<1>1. PICK len \in Nat : len = Len(s) /\ cur <= len /\ cur \in Nat /\ len < MaxLineLength - 1
  BY DEF Holds
<1>2. /\ DOMAIN line = Places /\ stringLen(line, 0) = len /\ line[len] = Nul
      /\ \A k \in 1 .. len : line[k - 1] = s[k] /\ s[k] # Nul
  BY <1>1, HoldsMore
<1>3. new = [k \in Places |-> IF k = cur THEN c
                              ELSE IF cur < k /\ k <= len + 1 THEN line[k - 1] ELSE line[k]]
  BY <1>2 DEF Opened
<1>4. PICK t : t = With(s, cur, c)
  OBVIOUS
<1>5. /\ t \in Seq(Letters) /\ Len(t) = len + 1
      /\ \A k \in 1 .. cur : t[k] = s[k]
      /\ t[cur + 1] = c
      /\ \A k \in cur + 2 .. len + 1 : t[k] = s[k - 1]
  <2>1. s \in Seq(Letters)
    BY DEF Holds
  <2>2. t \in Seq(Letters) /\ Longer(t, s, len, cur, c)
    BY <1>1, <1>4, <2>1, WithIs
  <2>3. QED
    BY <2>2 DEF Longer
<1>6. len + 1 < MaxLineLength /\ new[len + 1] = Nul
  <2>1. len + 1 \in Places /\ len + 1 # cur /\ cur < len + 1 /\ (len + 1) - 1 = len /\ len + 1 < MaxLineLength
    BY <1>1 DEF Places
  <2>2. QED
    BY <1>2, <1>3, <2>1
<1>7. ASSUME NEW k \in 1 .. len + 1
      PROVE  new[k - 1] = t[k] /\ t[k] # Nul
  <2>1. k - 1 \in Places
    BY <1>1 DEF Places
  <2>2. CASE k <= cur
    <3>1. k \in 1 .. len /\ k \in 1 .. cur /\ k - 1 # cur /\ ~(cur < k - 1)
      BY <1>1, <2>2
    <3>2. QED
      BY <1>2, <1>3, <1>5, <2>1, <3>1
  <2>3. CASE k = cur + 1
    <3>1. k - 1 = cur
      BY <1>1, <2>3
    <3>2. QED
      BY <1>3, <1>5, <2>1, <2>3, <3>1
  <2>4. CASE k > cur + 1
    <3>1. k - 1 \in 1 .. len /\ k \in cur + 2 .. len + 1 /\ k - 1 # cur /\ cur < k - 1 /\ k - 1 <= len + 1
      BY <1>1, <2>4
    <3>2. new[k - 1] = line[k - 1 - 1]
      BY <1>3, <2>1, <3>1
    <3>3. QED
      BY <1>2, <1>5, <3>1, <3>2
  <2>5. QED
    BY <1>1, <2>2, <2>3, <2>4
<1>8. QED
  BY <1>4, <1>5, <1>6, <1>7 DEF Holds, Clean

\* Past the end nothing is moved, and what is typed is not seen.
LEMMA OpenedPast ==
  ASSUME NEW line, NEW s, Holds(line, s), NEW cur \in Nat, cur > Len(s), NEW c,
         NEW new \in Line, new = Opened(line, cur, c)
  PROVE  Holds(new, s)
<1> USE EditorAssumption
<1>1. PICK len \in Nat : len = Len(s) /\ cur > len
  BY DEF Holds
<1>2. /\ DOMAIN line = Places /\ stringLen(line, 0) = len /\ len \in Places /\ line[len] = Nul
      /\ \A k \in 1 .. len : line[k - 1] = s[k] /\ s[k] # Nul
  BY <1>1, HoldsMore
<1>3. new = [k \in Places |-> IF k = cur THEN c
                              ELSE IF cur < k /\ k <= len + 1 THEN line[k - 1] ELSE line[k]]
  BY <1>2 DEF Opened
<1>4. ASSUME NEW k \in 0 .. len
      PROVE  new[k] = line[k]
  <2>1. k \in Places /\ k # cur /\ ~(cur < k)
    BY <1>1, <1>2 DEF Places
  <2>2. QED
    BY <1>3, <2>1
<1>5. new[len] = Nul /\ \A k \in 1 .. len : new[k - 1] = s[k]
  <2>1. len \in 0 .. len /\ \A k \in 1 .. len : k - 1 \in 0 .. len
    BY <1>1
  <2>2. QED
    BY <1>2, <1>4, <2>1
<1>6. QED
  BY <1>1, <1>5 DEF Holds

LEMMA ClosedHolds ==
  ASSUME NEW line, NEW s, Holds(line, s), NEW cur \in 0 .. Len(s) - 1,
         NEW new \in Line, new = Closed(line, cur)
  PROVE  Holds(new, Without(s, cur))
<1> USE EditorAssumption
<1>1. PICK len \in Nat : len = Len(s) /\ cur < len /\ cur \in Nat
  BY DEF Holds
<1>2. /\ DOMAIN line = Places /\ stringLen(line, 0) = len /\ len \in Places /\ line[len] = Nul
      /\ \A k \in 1 .. len : line[k - 1] = s[k] /\ s[k] # Nul
  BY <1>1, HoldsMore
<1>3. new = [k \in Places |-> IF cur <= k /\ k < len THEN line[k + 1] ELSE line[k]]
  BY <1>2 DEF Closed
<1>4. PICK t : t = Without(s, cur)
  OBVIOUS
<1>5. /\ t \in Seq(Letters) /\ Len(t) = len - 1
      /\ \A k \in 1 .. cur : t[k] = s[k]
      /\ \A k \in cur + 1 .. len - 1 : t[k] = s[k + 1]
  <2>1. s \in Seq(Letters)
    BY DEF Holds
  <2>2. t \in Seq(Letters) /\ Shorter(t, s, len, cur)
    BY <1>1, <1>4, <2>1, WithoutIs
  <2>3. QED
    BY <2>2 DEF Shorter
<1>6. len - 1 < MaxLineLength /\ new[len - 1] = Nul
  <2>1. len - 1 \in Places /\ cur <= len - 1 /\ len - 1 < len /\ (len - 1) + 1 = len /\ len - 1 < MaxLineLength
    BY <1>1, <1>2 DEF Places
  <2>2. QED
    BY <1>2, <1>3, <2>1
<1>7. ASSUME NEW k \in 1 .. len - 1
      PROVE  new[k - 1] = t[k] /\ t[k] # Nul
  <2>1. k - 1 \in Places /\ k - 1 < len /\ k - 1 + 1 = k
    BY <1>1, <1>2 DEF Places
  <2>2. CASE k <= cur
    <3>1. k \in 1 .. len /\ k \in 1 .. cur /\ ~(cur <= k - 1)
      BY <1>1, <2>2
    <3>2. QED
      BY <1>2, <1>3, <1>5, <2>1, <3>1
  <2>3. CASE k > cur
    <3>1. k + 1 \in 1 .. len /\ k \in cur + 1 .. len - 1 /\ cur <= k - 1 /\ (k + 1) - 1 = k
      BY <1>1, <2>3
    <3>2. new[k - 1] = line[k]
      BY <1>3, <2>1, <3>1
    <3>3. QED
      BY <1>2, <1>5, <3>1, <3>2
  <2>4. QED
    BY <1>1, <2>2, <2>3
<1>8. QED
  BY <1>4, <1>5, <1>6, <1>7 DEF Holds, Clean

\* At or past the end there is nothing to take out.
LEMMA ClosedPast ==
  ASSUME NEW line, NEW s, Holds(line, s), NEW cur \in Nat, cur >= Len(s)
  PROVE  Closed(line, cur) = line
<1>1. PICK len \in Nat : len = Len(s) /\ cur >= len
  BY DEF Holds
<1>2. DOMAIN line = Places /\ stringLen(line, 0) = len /\ line \in [Places -> Letters]
  BY <1>1, HoldsMore DEF Holds, Line
<1>3. Closed(line, cur) = [k \in Places |-> IF cur <= k /\ k < len THEN line[k + 1] ELSE line[k]]
  BY <1>2 DEF Closed
<1>4. \A k \in Places : ~(cur <= k /\ k < len)
  BY <1>1 DEF Places
<1>5. Closed(line, cur) = [k \in Places |-> line[k]]
  BY <1>3, <1>4
<1>6. QED
  BY <1>2, <1>5

\* A copy behind the first n letters.
LEMMA CopiedHolds ==
  ASSUME NEW line \in Line, NEW n \in Nat, NEW r, \A k \in 1 .. n : line[k - 1] = r[k] /\ r[k] # Nul,
         NEW s \in Seq(Letters), Clean(s), NEW m \in Nat, m = Len(s), n + m < MaxLineLength,
         NEW t \in Seq(Letters), Follow(t, n, r, m, s),
         NEW new \in Line, new = stringCopy(line, n, s)
  PROVE  Holds(new, t)
<1> USE EditorAssumption
<1>1. new = [k \in Places |-> IF k < n \/ k > n + m THEN line[k]
                              ELSE IF k = n + m THEN Nul ELSE s[k - n + 1]]
  BY DEF stringCopy, Line
<1>2. Len(t) = n + m
  BY DEF Follow
<1>3. new[n + m] = Nul
  <2>1. n + m \in Places /\ ~(n + m < n \/ n + m > n + m)
    BY DEF Places
  <2>2. QED
    BY <1>1, <2>1
<1>4. ASSUME NEW k \in 1 .. n + m
      PROVE  new[k - 1] = t[k] /\ t[k] # Nul
  <2>1. k - 1 \in Places
    BY DEF Places
  <2>2. CASE k <= n
    <3>1. k \in 1 .. n /\ k - 1 < n
      BY <2>2
    <3>2. QED
      BY <1>1, <2>1, <3>1 DEF Follow
  <2>3. CASE k > n
    <3>1. PICK j \in 1 .. m : n + j = k /\ j = (k - 1) - n + 1
      <4>1. (k - 1) - n + 1 \in 1 .. m /\ n + ((k - 1) - n + 1) = k
        BY <2>3
      <4>2. QED
        BY <4>1
    <3>2. ~(k - 1 < n \/ k - 1 > n + m) /\ k - 1 # n + m
      BY <2>3
    <3>3. new[k - 1] = s[j]
      BY <1>1, <2>1, <3>1, <3>2
    <3>4. t[k] = s[j] /\ s[j] # Nul
      BY <3>1 DEF Follow, Clean
    <3>5. QED
      BY <3>3, <3>4
  <2>4. QED
    BY <2>2, <2>3
<1>5. QED
  BY <1>2, <1>3, <1>4 DEF Holds, Clean

\* A line that is cut keeps what is before; past its end nothing changes.
LEMMA CutHolds ==
  ASSUME NEW line, NEW s, Holds(line, s), NEW cur \in Places,
         NEW new \in Line, new = [line EXCEPT ![cur] = Nul]
  PROVE  IF cur <= Len(s) THEN Holds(new, SubSeq(s, 1, cur)) ELSE Holds(new, s)
<1> USE EditorAssumption
<1>1. PICK len \in Nat : len = Len(s) /\ len < MaxLineLength
  BY DEF Holds
<1>2. /\ DOMAIN line = Places /\ len \in Places /\ line[len] = Nul
      /\ \A k \in 1 .. len : line[k - 1] = s[k] /\ s[k] # Nul
  BY <1>1, HoldsMore
<1>3. \A k \in Places : new[k] = IF k = cur THEN Nul ELSE line[k]
  BY <1>2
<1>4. cur \in Nat
  BY DEF Places
<1>5. CASE cur <= len
  <2>1. PICK t : t = SubSeq(s, 1, cur)
    OBVIOUS
  <2>2. t \in Seq(Letters) /\ Len(t) = cur /\ \A k \in 1 .. cur : t[k] = s[k]
    <3>1. s \in Seq(Letters) /\ cur \in 0 .. Len(s)
      BY <1>1, <1>4, <1>5 DEF Holds
    <3>2. QED
      BY <2>1, <3>1, FrontIs
  <2>3. ASSUME NEW k \in 1 .. cur
        PROVE  new[k - 1] = t[k] /\ t[k] # Nul
    <3>1. k \in 1 .. len /\ k - 1 \in Places /\ k - 1 # cur
      BY <1>1, <1>4, <1>5 DEF Places
    <3>2. QED
      BY <1>2, <1>3, <2>2, <3>1
  <2>4. new[cur] = Nul /\ cur < MaxLineLength
    BY <1>3 DEF Places
  <2>5. Holds(new, t)
    BY <2>2, <2>3, <2>4 DEF Holds, Clean
  <2>6. QED
    BY <1>1, <1>5, <2>1, <2>5
<1>6. CASE ~(cur <= len)
  <2>1. ASSUME NEW k \in 0 .. len
        PROVE  new[k] = line[k]
    <3>1. k \in Places /\ k # cur
      BY <1>1, <1>4, <1>6 DEF Places
    <3>2. QED
      BY <1>3, <3>1
  <2>2. new[len] = Nul /\ \A k \in 1 .. len : new[k - 1] = s[k]
    <3>1. len \in 0 .. len /\ \A k \in 1 .. len : k - 1 \in 0 .. len
      OBVIOUS
    <3>2. QED
      BY <1>2, <2>1, <3>1
  <2>3. Holds(new, s)
    BY <1>1, <2>2 DEF Holds
  <2>4. QED
    BY <1>1, <1>6, <2>3
<1>7. QED
  BY <1>5, <1>6

\* What is behind the cursor; past the end it is whatever was there before.
LEMMA BehindIs ==
  ASSUME NEW line, Terminated(line), NEW s, Holds(line, s), NEW cur \in Places,
         NEW t, t = TextFrom(line, cur)
  PROVE  /\ t \in Seq(Letters) /\ Clean(t) /\ Len(t) < MaxLineLength
         /\ cur <= Len(s) => t = SubSeq(s, cur + 1, Len(s))
<1> USE EditorAssumption
<1>1. PICK len \in Nat : len = Len(s) /\ len < MaxLineLength
  BY DEF Holds
<1>2. /\ line[len] = Nul /\ \A k \in 1 .. len : line[k - 1] = s[k] /\ s[k] # Nul
  BY <1>1, HoldsMore
<1>3. cur \in Nat /\ cur \in 0 .. MaxLineLength /\ cur < MaxLineLength
  BY DEF Places
<1>4. PICK m \in Nat : m = stringLen(line, cur) /\ m < MaxLineLength
                       /\ \A j \in 0 .. m - 1 : line[cur + j] # Nul
  <2>1. /\ stringLen(line, cur) \in 0 .. MaxLineLength - 1 - cur
        /\ \A j \in 0 .. stringLen(line, cur) - 1 : line[cur + j] # Nul
    BY TerminatedLength
  <2>2. stringLen(line, cur) \in Nat /\ stringLen(line, cur) < MaxLineLength
    BY <1>3, <2>1
  <2>3. QED
    BY <2>1, <2>2
<1>5. t \in Seq(Letters) /\ Len(t) = m /\ \A k \in 1 .. m : t[k] = line[cur + k - 1]
  <2>1. line \in Line
    BY DEF Holds
  <2>2. QED
    BY <1>3, <1>4, <2>1, TextFromIs
<1>6. Clean(t)
  <2>1. \A k \in 1 .. m : k - 1 \in 0 .. m - 1 /\ cur + k - 1 = cur + (k - 1)
    BY <1>3
  <2>2. QED
    BY <1>4, <1>5, <2>1 DEF Clean
<1>7. ASSUME cur <= len
      PROVE  t = SubSeq(s, cur + 1, Len(s))
  <2>1. PICK b : b = SubSeq(s, cur + 1, Len(s))
    OBVIOUS
  <2>2. b \in Seq(Letters) /\ Len(b) = len - cur /\ \A k \in 1 .. len - cur : b[k] = s[cur + k]
    <3>1. s \in Seq(Letters) /\ cur \in 0 .. Len(s)
      BY <1>1, <1>3, <1>7 DEF Holds
    <3>2. /\ b \in Seq(Letters) /\ Len(b) = Len(s) - cur
          /\ \A k \in 1 .. Len(s) - cur : b[k] = s[cur + k]
      BY <2>1, <3>1, RestIs
    <3>3. QED
      BY <1>1, <3>2
  <2>3. m = len - cur
    <3>1. len - cur \in 0 .. MaxLineLength - cur /\ cur + (len - cur) = len
      BY <1>1, <1>3, <1>7
    <3>2. ASSUME NEW j \in 0 .. (len - cur) - 1
          PROVE  line[cur + j] # Nul
      <4>1. PICK k \in 1 .. len : k - 1 = cur + j
        <5>1. cur + j + 1 \in 1 .. len /\ (cur + j + 1) - 1 = cur + j
          BY <1>1, <1>3, <1>7
        <5>2. QED
          BY <5>1
      <4>2. line[k - 1] # Nul
        BY <1>2
      <4>3. QED
        BY <4>1, <4>2
    <3>3. line[cur + (len - cur)] = Nul
      BY <1>2, <3>1
    <3>4. stringLen(line, cur) = len - cur
      BY <1>3, <3>1, <3>2, <3>3, LengthIs
    <3>5. QED
      BY <1>4, <3>4
  <2>4. ASSUME NEW k \in 1 .. m
        PROVE  t[k] = b[k]
    <3>1. cur + k \in 1 .. len /\ (cur + k) - 1 = cur + k - 1 /\ k \in 1 .. len - cur
      BY <1>1, <1>3, <2>3
    <3>2. t[k] = line[(cur + k) - 1]
      BY <1>5, <3>1
    <3>3. line[(cur + k) - 1] = s[cur + k]
      BY <1>2, <3>1
    <3>4. b[k] = s[cur + k]
      BY <2>2, <3>1
    <3>5. QED
      BY <3>2, <3>3, <3>4
  <2>5. t = b
    BY <1>5, <2>2, <2>3, <2>4, SequencesEqual
  <2>6. QED
    BY <2>1, <2>5
<1>8. QED
  BY <1>1, <1>4, <1>5, <1>6, <1>7

-----------------------------------------------------------------------------
(***************************************************************************)
(* The lines of the text, and what an update of the slots makes of them.   *)
(***************************************************************************)
LineTexts == Seq(Letters)

Represents(d, ls) ==
  /\ ls \in Seq(LineTexts) /\ Len(ls) = d.count
  /\ \A i \in 0 .. d.count - 1 : Holds(getLineAt(d, i), ls[i + 1])

LEMMA RepresentedIs ==
  ASSUME NEW d, d.count \in Nat, NEW ls, Represents(d, ls)
  PROVE  Lines(d) = ls
<1>1. PICK count \in Nat : count = d.count
  OBVIOUS
<1>2. ls \in Seq(LineTexts) /\ Len(ls) = count
  BY <1>1 DEF Represents
<1>3. ASSUME NEW i \in 1 .. count
      PROVE  TextFrom(getLineAt(d, i - 1), 0) = ls[i]
  <2>1. i - 1 \in 0 .. count - 1 /\ (i - 1) + 1 = i
    OBVIOUS
  <2>2. Holds(getLineAt(d, i - 1), ls[(i - 1) + 1])
    BY <1>1, <2>1 DEF Represents
  <2>3. Holds(getLineAt(d, i - 1), ls[i])
    BY <2>1, <2>2
  <2>4. QED
    BY <2>3, HoldsIs
<1> DEFINE f == [i \in 1 .. count |-> TextFrom(getLineAt(d, i - 1), 0)]
<1>4. f = [i \in 1 .. count |-> ls[i]]
  BY <1>3
<1>5. f = ls
  BY <1>2, <1>4
<1>6. Lines(d) = SubSeq(f, 1, count)
  BY <1>1 DEF Lines
<1>7. SubSeq(ls, 1, count) = ls
  BY <1>2
<1> HIDE DEF f
<1>8. QED
  BY <1>5, <1>6, <1>7

LEMMA SoundRepresents ==
  ASSUME NEW d, Sound(d)
  PROVE  Represents(d, Lines(d)) /\ d.count \in Nat
<1>1. PICK count \in Nat : count = d.count
  BY DEF Sound, Position
<1>2. ASSUME NEW i \in 0 .. count - 1
      PROVE  /\ Holds(getLineAt(d, i), TextFrom(getLineAt(d, i), 0))
             /\ TextFrom(getLineAt(d, i), 0) \in LineTexts
  <2>1. d.index[i] \in Slots
    BY <1>1 DEF Sound, Partition
  <2>2. getLineAt(d, i) \in Line /\ Terminated(getLineAt(d, i))
    BY <2>1 DEF Sound, IsData, AllTerminated, getLineAt
  <2>3. Holds(getLineAt(d, i), TextFrom(getLineAt(d, i), 0))
    BY <2>2, TextHolds
  <2>4. QED
    BY <2>3 DEF Holds, LineTexts
<1> DEFINE ls == [i \in 1 .. count |-> TextFrom(getLineAt(d, i - 1), 0)]
<1>3. \A i \in 1 .. count : ls[i] \in LineTexts
  <2>1. \A i \in 1 .. count : i - 1 \in 0 .. count - 1
    OBVIOUS
  <2>2. QED
    BY <1>2, <2>1
<1>4. ls \in Seq(LineTexts) /\ Len(ls) = count
  <2>1. ls \in [1 .. count -> LineTexts]
    BY <1>3
  <2> HIDE DEF ls
  <2>2. QED
    BY <2>1
<1>5. \A i \in 0 .. count - 1 : ls[i + 1] = TextFrom(getLineAt(d, i), 0)
  <2>1. \A i \in 0 .. count - 1 : i + 1 \in 1 .. count /\ (i + 1) - 1 = i
    OBVIOUS
  <2>2. QED
    BY <2>1
<1> HIDE DEF ls
<1>6. Represents(d, ls)
  BY <1>1, <1>2, <1>4, <1>5 DEF Represents
<1>7. QED
  BY <1>1, <1>6, RepresentedIs

LEMMA ChangedRepresents ==
  ASSUME NEW d, Sound(d), NEW ls, Represents(d, ls), NEW i \in 0 .. d.count - 1,
         NEW line, Terminated(line), NEW t, Holds(line, t), NEW e, Changed(d, e, i, line)
  PROVE  Represents(e, [ls EXCEPT ![i + 1] = t])
<1>1. PICK count \in Nat : count = d.count
  BY DEF Sound, Position
<1>2. /\ \A j \in 0 .. count - 1 : j # i => getLineAt(e, j) = getLineAt(d, j)
      /\ getLineAt(e, i) = line
  BY <1>1, ChangeKeeps DEF Holds
<1>3. e.count = count
  BY <1>1 DEF Changed, SameSlots
<1>4. PICK new : new = [ls EXCEPT ![i + 1] = t]
  OBVIOUS
<1>5. ls \in Seq(LineTexts) /\ Len(ls) = count /\ t \in LineTexts /\ i + 1 \in 1 .. count
  BY <1>1 DEF Represents, Holds, LineTexts
<1>6. new \in Seq(LineTexts) /\ Len(new) = count
  BY <1>4, <1>5
<1>7. ASSUME NEW j \in 0 .. count - 1
      PROVE  Holds(getLineAt(e, j), new[j + 1])
  <2>1. j + 1 \in 1 .. count
    OBVIOUS
  <2>2. CASE j = i
    <3>1. new[j + 1] = t
      BY <1>4, <1>5, <2>2
    <3>2. QED
      BY <1>2, <2>2, <3>1
  <2>3. CASE j # i
    <3>1. j + 1 # i + 1
      BY <1>1, <2>3
    <3>2. new[j + 1] = ls[j + 1]
      BY <1>4, <1>5, <2>1, <3>1
    <3>3. QED
      BY <1>1, <1>2, <2>3, <3>2 DEF Represents
  <2>4. QED
    BY <2>2, <2>3
<1>8. QED
  BY <1>3, <1>4, <1>6, <1>7 DEF Represents

LEMMA InsertedRepresents ==
  ASSUME NEW d, Sound(d), NEW ls, Represents(d, ls), NEW pos \in Nat, pos <= d.count,
         NEW s, NEW slot, slot = d.freeSlots[d.freeCount - 1],
         Holds(stringCopy(d.text[slot], 0, s), s), NEW e, Inserted(d, e, pos, slot, s),
         e.count <= MaxLines
  PROVE  Represents(e, With(ls, pos, s))
<1> USE EditorAssumption
<1>1. PICK count \in Nat : count = d.count /\ pos <= count
  BY DEF Sound, Position
<1>2. /\ slot \in Slots /\ e.count = count + 1 /\ count + 1 <= MaxLines
      /\ e.text = [d.text EXCEPT ![slot] = stringCopy(d.text[slot], 0, s)]
      /\ \A i \in Slots : e.index[i] =
           IF i = pos THEN slot
           ELSE IF pos < i /\ i <= count THEN d.index[i - 1] ELSE d.index[i]
  BY <1>1 DEF Inserted
<1>3. PICK new : new = With(ls, pos, s)
  OBVIOUS
<1>4. new \in Seq(LineTexts) /\ Longer(new, ls, count, pos, s)
  <2>1. ls \in Seq(LineTexts) /\ count = Len(ls) /\ s \in LineTexts
    BY <1>1 DEF Represents, Holds, LineTexts
  <2>2. QED
    BY <1>1, <1>3, <2>1, WithIs
<1>5. ASSUME NEW i \in 0 .. count - 1
      PROVE  d.index[i] \in Slots /\ e.text[d.index[i]] = getLineAt(d, i)
  <2>1. d.index[i] \in Slots /\ d.index[i] # slot
    <3>1. d.freeCount - 1 \in 0 .. d.freeCount - 1
      BY DEF Inserted
    <3>2. QED
      BY <1>1, <3>1 DEF Sound, Partition
  <2>2. d.text \in [Slots -> Line]
    BY DEF Sound, IsData
  <2>3. QED
    BY <1>2, <2>1, <2>2 DEF getLineAt
<1>6. ASSUME NEW j \in 0 .. count
      PROVE  Holds(getLineAt(e, j), new[j + 1])
  <2>1. j \in Slots
    BY <1>2 DEF Slots
  <2>2. CASE j = pos
    <3>1. e.index[j] = slot /\ new[j + 1] = s
      BY <1>2, <1>4, <2>1, <2>2 DEF Longer
    <3>2. e.text[slot] = stringCopy(d.text[slot], 0, s)
      <4>1. d.text \in [Slots -> Line]
        BY DEF Sound, IsData
      <4>2. QED
        BY <1>2, <4>1
    <3>3. QED
      BY <3>1, <3>2 DEF getLineAt
  <2>3. CASE j < pos
    <3>1. j + 1 \in 1 .. pos /\ j \in 0 .. count - 1 /\ j # pos /\ ~(pos < j)
      BY <1>1, <2>3
    <3>2. e.index[j] = d.index[j] /\ new[j + 1] = ls[j + 1]
      BY <1>2, <1>4, <2>1, <3>1 DEF Longer
    <3>3. QED
      BY <1>1, <1>5, <3>1, <3>2 DEF getLineAt, Represents
  <2>4. CASE pos < j
    <3>1. PICK k \in 0 .. count - 1 : k = j - 1 /\ k + 1 = j
      <4>1. j - 1 \in 0 .. count - 1 /\ (j - 1) + 1 = j
        BY <2>4
      <4>2. QED
        BY <4>1
    <3>2. j + 1 \in pos + 2 .. count + 1 /\ (j + 1) - 1 = j /\ j # pos /\ j <= count
      BY <1>1, <2>4
    <3>3. e.index[j] = d.index[k] /\ new[j + 1] = ls[k + 1]
      BY <1>2, <1>4, <2>1, <2>4, <3>1, <3>2 DEF Longer
    <3>4. getLineAt(e, j) = getLineAt(d, k)
      BY <1>5, <3>1, <3>3 DEF getLineAt
    <3>5. QED
      BY <1>1, <3>1, <3>3, <3>4 DEF Represents
  <2>5. QED
    BY <1>1, <2>2, <2>3, <2>4
<1>7. e.count - 1 = count /\ Len(new) = e.count
  BY <1>2, <1>4 DEF Longer
<1>8. QED
  BY <1>3, <1>4, <1>6, <1>7 DEF Represents

LEMMA RemovedRepresents ==
  ASSUME NEW d, Sound(d), NEW ls, Represents(d, ls), NEW pos \in 0 .. d.count - 1,
         NEW slot, slot = d.index[pos], NEW e, Removed(d, e, pos, slot)
  PROVE  Represents(e, Without(ls, pos))
<1> USE EditorAssumption
<1>1. PICK count \in Nat : count = d.count /\ pos < count /\ pos \in Nat /\ count <= MaxLines
  BY DEF Sound, Position
<1>2. /\ slot \in Slots /\ e.count = count - 1
      /\ e.text = [d.text EXCEPT ![slot] = [d.text[slot] EXCEPT ![0] = Nul]]
      /\ \A i \in Slots : e.index[i] = IF i = count - 1 THEN NoSlot
                            ELSE IF pos <= i /\ i < count - 1 THEN d.index[i + 1] ELSE d.index[i]
  BY <1>1 DEF Removed, IndexWithout
<1>3. PICK new : new = Without(ls, pos)
  OBVIOUS
<1>4. new \in Seq(LineTexts) /\ Shorter(new, ls, count, pos)
  <2>1. ls \in Seq(LineTexts) /\ count = Len(ls)
    BY <1>1 DEF Represents
  <2>2. QED
    BY <1>1, <1>3, <2>1, WithoutIs
<1>5. ASSUME NEW i \in 0 .. count - 1, i # pos
      PROVE  d.index[i] \in Slots /\ e.text[d.index[i]] = getLineAt(d, i)
  <2>1. d.index[i] \in Slots /\ d.index[i] # slot
    BY <1>1, <1>5 DEF Sound, Partition
  <2>2. d.text \in [Slots -> Line]
    BY DEF Sound, IsData
  <2>3. QED
    BY <1>2, <2>1, <2>2 DEF getLineAt
<1>6. ASSUME NEW j \in 0 .. count - 2
      PROVE  Holds(getLineAt(e, j), new[j + 1])
  <2>1. j \in Slots /\ j # count - 1
    BY <1>1 DEF Slots
  <2>2. CASE j < pos
    <3>1. j + 1 \in 1 .. pos /\ j \in 0 .. count - 1 /\ j # pos /\ ~(pos <= j)
      BY <1>1, <2>2
    <3>2. e.index[j] = d.index[j] /\ new[j + 1] = ls[j + 1]
      BY <1>2, <1>4, <2>1, <3>1 DEF Shorter
    <3>3. QED
      BY <1>1, <1>5, <3>1, <3>2 DEF getLineAt, Represents
  <2>3. CASE pos <= j
    <3>1. PICK k \in 0 .. count - 1 : k = j + 1 /\ k # pos
      <4>1. j + 1 \in 0 .. count - 1 /\ j + 1 # pos
        BY <1>1, <2>3
      <4>2. QED
        BY <4>1
    <3>2. j + 1 \in pos + 1 .. count - 1 /\ j < count - 1
      BY <1>1, <2>3
    <3>3. e.index[j] = d.index[k] /\ new[j + 1] = ls[k + 1]
      BY <1>2, <1>4, <2>1, <2>3, <3>1, <3>2 DEF Shorter
    <3>4. getLineAt(e, j) = getLineAt(d, k)
      BY <1>5, <3>1, <3>3 DEF getLineAt
    <3>5. QED
      BY <1>1, <3>1, <3>3, <3>4 DEF Represents
  <2>4. QED
    BY <1>1, <2>2, <2>3
<1>7. e.count - 1 = count - 2 /\ Len(new) = e.count
  BY <1>1, <1>2, <1>4 DEF Shorter
<1>8. QED
  BY <1>3, <1>4, <1>6, <1>7 DEF Represents

-----------------------------------------------------------------------------
(***************************************************************************)
(* What the keys do to the lines and the cursor.                           *)
(***************************************************************************)
\* The lines, the line the cursor is on and its column.
Shown(d, ls, i, cur) == Represents(d, ls) /\ Current(d) = i /\ Cursor(d) = cur

\* A state of the editor in which the cursor is in the slot of its line.
State(d, ls, i, cur, here) ==
  /\ Sound(d) /\ Tidy(d) /\ Shown(d, ls, i, cur)
  /\ i \in 0 .. d.count - 1 /\ i \in Nat /\ d.count = Len(ls) /\ d.count \in 1 .. MaxLines
  /\ cur \in Places /\ cur \in Nat /\ d.left \in Nat /\ d.col \in Nat /\ cur = d.left + d.col
  /\ here = ls[i + 1] /\ here \in Seq(Letters) /\ Clean(here) /\ Len(here) \in Places
  /\ Holds(getCurrentLine(d), here) /\ Terminated(getCurrentLine(d))
  /\ getCurrentLength(d) = Len(here)

LEMMA StateIs ==
  ASSUME NEW d, Sound(d), Tidy(d), InSlot(d), NEW ls, ls = Lines(d), NEW i, i = Current(d),
         NEW cur, cur = Cursor(d), NEW here, here = ls[i + 1]
  PROVE  State(d, ls, i, cur, here)
<1> USE EditorAssumption
<1>1. Represents(d, ls)
  BY SoundRepresents
<1>2. /\ i \in 0 .. d.count - 1 /\ getCurrentLine(d) \in Line /\ Terminated(getCurrentLine(d))
      /\ getCurrentLength(d) = stringLen(getCurrentLine(d), 0)
  BY CurrentLine
<1>3. i \in Nat /\ d.count = Len(ls) /\ d.count \in 1 .. MaxLines
  <2>1. d.count \in 1 .. MaxLines
    BY DEF Sound, Position
  <2>2. QED
    BY <1>1, <1>2, <2>1 DEF Represents
<1>4. d.left \in Nat /\ d.col \in Nat /\ cur = d.left + d.col
  <2>1. d.left \in Nat /\ d.col \in Int /\ 0 <= d.col
    BY DEF Sound, Position, IsData, InSlot
  <2>2. QED
    BY <2>1 DEF Cursor
<1>5. cur \in Places /\ cur \in Nat
  <2>1. 0 <= cur /\ cur < MaxLineLength
    BY DEF InSlot
  <2>2. cur \in Int
    BY <1>4
  <2>3. QED
    BY <2>1, <2>2 DEF Places
<1>6. Holds(getCurrentLine(d), here)
  BY <1>1, <1>2 DEF Represents, getCurrentLine
<1>7. /\ here \in Seq(Letters) /\ Clean(here) /\ Len(here) \in Places
      /\ getCurrentLength(d) = Len(here)
  <2>1. stringLen(getCurrentLine(d), 0) = Len(here) /\ Len(here) \in Places
    BY <1>6, HoldsMore
  <2>2. QED
    BY <1>2, <1>6, <2>1 DEF Holds
<1>8. QED
  BY <1>1, <1>2, <1>3, <1>4, <1>5, <1>6, <1>7 DEF State, Shown

LEMMA SameRepresents ==
  ASSUME NEW d, NEW e, SameText(d, e), NEW ls, Represents(d, ls)
  PROVE  Represents(e, ls)
BY DEF SameText, SameSlots, Represents, getLineAt

\* Drawing changes neither the text nor the cursor.
LEMMA RedrawnShows ==
  ASSUME NEW d, IsData(d), NEW first \in Int, NEW last \in Int, NEW e, e = Redrawn(d, first, last),
         NEW ls, NEW i, NEW cur, Shown(d, ls, i, cur)
  PROVE  Shown(e, ls, i, cur)
<1>1. PICK r : r = redrawLines(d, first, last)
  OBVIOUS
<1>2. Drawn(d, r, first, last)
  BY <1>1, RedrawIs
<1>3. Placed(r, e)
  BY <1>1, <1>2, StatusIs DEF Redrawn, Drawn
<1>4. SameText(d, e) /\ SameCursor(d, e)
  BY <1>2, <1>3 DEF Drawn, Placed, SameText, SameSlots, SameCursor
<1>5. QED
  BY <1>4, SameRepresents DEF Shown, SameCursor, Current, Cursor

LEMMA RedrawnIfShows ==
  ASSUME NEW d, IsData(d), NEW first \in Int, NEW last \in Int, NEW condition \in BOOLEAN,
         NEW e, e = RedrawnIf(condition, d, first, last),
         NEW ls, NEW i, NEW cur, Shown(d, ls, i, cur)
  PROVE  Shown(e, ls, i, cur)
<1>1. CASE condition
  BY <1>1, RedrawnShows DEF RedrawnIf, Redrawn
<1>2. CASE ~condition
  <2>1. Placed(d, e)
    BY <1>2, StatusIs DEF RedrawnIf
  <2>2. QED
    BY <2>1, SameRepresents DEF Placed, Shown, SameCursor, Current, Cursor
<1>3. QED
  BY <1>1, <1>2

LEMMA MovedShows ==
  ASSUME NEW d, NEW ls, NEW i, NEW cur, Shown(d, ls, i, cur), NEW left \in Int, NEW col \in Int,
         NEW m, Moved(d, m, d.top, d.row, left, col)
  PROVE  Shown(m, ls, i, left + col) /\ IsData(m)
BY SameRepresents DEF Moved, Shown, Current, Cursor

\* The cursor moves by one place, by scrolling or not.
LEMMA RightShows ==
  ASSUME NEW d, Sound(d), NEW ls, NEW i, NEW cur \in Int, Shown(d, ls, i, cur),
         cur # getCurrentLength(d), NEW m, m = moveRight(d)
  PROVE  Shown(m, ls, i, cur + 1) /\ IsData(m)
<1>1. PICK left \in Int, col \in Int : left = d.left /\ col = d.col /\ cur = left + col
  BY DEF Sound, IsData, Shown, Cursor
<1>2. IsData(d) /\ Cursor(d) # getCurrentLength(d)
  BY DEF Sound, Shown
<1>3. left + 1 \in Int /\ col + 1 \in Int /\ (left + 1) + col = cur + 1 /\ left + (col + 1) = cur + 1
  BY <1>1
<1>4. CASE d.col = Width - 1
  <2>1. m = [d EXCEPT !.left = left + 1]
    BY <1>1, <1>2, <1>4 DEF moveRight
  <2>2. Moved(d, m, d.top, d.row, left + 1, col)
    BY <1>1, <1>2, <1>3, <2>1, SetLeft
  <2>3. Shown(m, ls, i, (left + 1) + col) /\ IsData(m)
    BY <1>3, <2>2, MovedShows
  <2>4. QED
    BY <1>3, <2>3
<1>5. CASE d.col # Width - 1
  <2>1. m = [d EXCEPT !.col = col + 1]
    BY <1>1, <1>2, <1>5 DEF moveRight
  <2>2. Moved(d, m, d.top, d.row, left, col + 1)
    BY <1>1, <1>2, <1>3, <2>1, SetCol
  <2>3. Shown(m, ls, i, left + (col + 1)) /\ IsData(m)
    BY <1>1, <1>3, <2>2, MovedShows
  <2>4. QED
    BY <1>3, <2>3
<1>6. QED
  BY <1>4, <1>5

LEMMA LeftShows ==
  ASSUME NEW d, Sound(d), NEW ls, NEW i, NEW cur \in Int, Shown(d, ls, i, cur),
         cur # 0, NEW m, m = moveLeft(d)
  PROVE  Shown(m, ls, i, cur - 1) /\ IsData(m)
<1>1. PICK left \in Int, col \in Int : left = d.left /\ col = d.col /\ cur = left + col
  BY DEF Sound, IsData, Shown, Cursor
<1>2. IsData(d) /\ ~(d.col = 0 /\ d.left = 0)
  BY <1>1 DEF Sound
<1>3. left - 1 \in Int /\ col - 1 \in Int /\ (left - 1) + col = cur - 1 /\ left + (col - 1) = cur - 1
  BY <1>1
<1>4. CASE d.col = 0
  <2>1. m = [d EXCEPT !.left = left - 1]
    BY <1>1, <1>2, <1>4 DEF moveLeft
  <2>2. Moved(d, m, d.top, d.row, left - 1, col)
    BY <1>1, <1>2, <1>3, <2>1, SetLeft
  <2>3. Shown(m, ls, i, (left - 1) + col) /\ IsData(m)
    BY <1>1, <1>3, <2>2, MovedShows
  <2>4. QED
    BY <1>3, <2>3
<1>5. CASE d.col # 0
  <2>1. m = [d EXCEPT !.col = col - 1]
    BY <1>1, <1>2, <1>5 DEF moveLeft
  <2>2. Moved(d, m, d.top, d.row, left, col - 1)
    BY <1>1, <1>2, <1>3, <2>1, SetCol
  <2>3. Shown(m, ls, i, left + (col - 1)) /\ IsData(m)
    BY <1>1, <1>3, <2>2, MovedShows
  <2>4. QED
    BY <1>3, <2>3
<1>6. QED
  BY <1>4, <1>5

\* The current line is another one.
LEMMA RewriteShows ==
  ASSUME NEW d, NEW ls, NEW i, NEW cur, NEW here, State(d, ls, i, cur, here),
         NEW line, Terminated(line), NEW t, Holds(line, t), NEW w, w = Rewrite(d, line)
  PROVE  /\ Sound(w) /\ Shown(w, [ls EXCEPT ![i + 1] = t], i, cur)
         /\ getCurrentLength(w) = Len(t)
<1>1. /\ Sound(d) /\ Represents(d, ls) /\ Current(d) = i /\ Cursor(d) = cur
      /\ i \in 0 .. d.count - 1
  BY DEF State, Shown
<1>2. line \in Line /\ d.index[i] \in Slots /\ IsData(d)
  BY <1>1 DEF Holds, Sound, Partition
<1>3. Changed(d, w, i, line)
  <2>1. w = [d EXCEPT !.text[d.index[i]] = line]
    BY <1>1 DEF Rewrite
  <2>2. QED
    BY <1>2, <2>1, ChangeIs
<1>4. Sound(w) /\ getLineAt(w, i) = line
  BY <1>1, <1>2, <1>3, ChangeKeeps
<1>5. Represents(w, [ls EXCEPT ![i + 1] = t])
  BY <1>1, <1>3, ChangedRepresents
<1>6. Current(w) = i /\ Cursor(w) = cur
  BY <1>1, <1>3 DEF Changed, SameCursor, Current, Cursor
<1>7. getCurrentLength(w) = Len(t)
  <2>1. stringLen(line, 0) = Len(t)
    BY HoldsIs
  <2>2. QED
    BY <1>4, <1>6, <2>1 DEF getCurrentLength, getLineLength
<1>8. QED
  BY <1>4, <1>5, <1>6, <1>7 DEF Shown

-----------------------------------------------------------------------------
(***************************************************************************)
(* Keys that change one line.                                              *)
(***************************************************************************)
LEMMA CharacterShows ==
  ASSUME NEW d, NEW ls, NEW i, NEW cur, NEW here, State(d, ls, i, cur, here),
         ~Full(d), cur < MaxLineLength - 1, NEW c \in Chars, NEW e, e = Character(d, c),
         NEW t, t = IF cur <= Len(here) THEN With(here, cur, c) ELSE here
  PROVE  Shown(e, [ls EXCEPT ![i + 1] = t], i, cur + 1) /\ Len(here) + 1 < MaxLineLength
<1> USE EditorAssumption
<1>1. /\ Sound(d) /\ Tidy(d) /\ Current(d) = i /\ Cursor(d) = cur /\ cur \in Nat
      /\ here \in Seq(Letters) /\ Len(here) \in Places
      /\ Holds(getCurrentLine(d), here) /\ Terminated(getCurrentLine(d))
      /\ getCurrentLength(d) = Len(here)
  BY DEF State, Shown
<1>2. PICK len \in Nat : len = Len(here) /\ len < MaxLineLength - 1 /\ len + 1 < MaxLineLength
  <2>1. Len(here) \in Nat /\ Len(here) < MaxLineLength - 1
    BY <1>1 DEF Full, Places
  <2>2. QED
    BY <2>1
<1>3. PICK old \in Line : old = getCurrentLine(d) /\ Terminated(old) /\ Holds(old, here)
  BY <1>1 DEF Holds
<1>4. c \in Letters /\ c # Nul
  BY TextIsLetters
<1>5. PICK line : line = Opened(old, cur, c)
  OBVIOUS
<1>6. line \in Line /\ Terminated(line)
  <2>1. stringLen(old, 0) < MaxLineLength - 1
    BY <1>2, <1>3, HoldsIs
  <2>2. QED
    BY <1>1, <1>3, <1>4, <1>5, <2>1, OpenedIs
<1>7. Holds(line, t)
  <2>1. CASE cur <= len
    <3>1. cur \in 0 .. Len(here) /\ Len(here) < MaxLineLength - 1
      BY <1>1, <1>2, <2>1
    <3>2. Holds(line, With(here, cur, c))
      BY <1>3, <1>4, <1>5, <1>6, <3>1, OpenedHolds
    <3>3. QED
      BY <1>2, <2>1, <3>2
  <2>2. CASE ~(cur <= len)
    <3>1. cur > Len(here)
      BY <1>1, <1>2, <2>2
    <3>2. Holds(line, here)
      BY <1>1, <1>3, <1>5, <1>6, <3>1, OpenedPast
    <3>3. QED
      BY <1>2, <2>2, <3>2
  <2>3. QED
    BY <2>1, <2>2
<1>8. PICK w : w = Rewrite(d, line)
  OBVIOUS
<1>9. /\ Sound(w) /\ Shown(w, [ls EXCEPT ![i + 1] = t], i, cur)
      /\ getCurrentLength(w) = Len(t)
  BY <1>6, <1>7, <1>8, RewriteShows
<1>10. cur # Len(t)
  <2>1. CASE cur <= len
    <3>1. PICK u : u = With(here, cur, c)
      OBVIOUS
    <3>2. Longer(u, here, len, cur, c)
      BY <1>1, <1>2, <1>4, <2>1, <3>1, WithIs
    <3>3. Len(u) = len + 1 /\ t = u
      BY <1>2, <2>1, <3>1, <3>2 DEF Longer
    <3>4. QED
      BY <1>1, <2>1, <3>3
  <2>2. CASE ~(cur <= len)
    <3>1. Len(t) = len
      BY <1>2, <2>2
    <3>2. QED
      BY <1>1, <2>2, <3>1
  <2>3. QED
    BY <2>1, <2>2
<1>11. PICK m : m = moveRight(w)
  OBVIOUS
<1>12. Shown(m, [ls EXCEPT ![i + 1] = t], i, cur + 1) /\ IsData(m)
  BY <1>1, <1>9, <1>10, <1>11, RightShows
<1>13. e = Redrawn(m, d.row + 1, d.row + 1) /\ d.row + 1 \in Int
  <2>1. e = Redrawn(m, d.row + 1, d.row + 1)
    BY <1>1, <1>3, <1>5, <1>8, <1>11 DEF Character, addChar
  <2>2. d.row + 1 \in Int
    BY <1>1, DataNumbers DEF Sound
  <2>3. QED
    BY <2>1, <2>2
<1>14. QED
  BY <1>2, <1>12, <1>13, RedrawnShows

LEMMA ClosedShows ==
  ASSUME NEW d, NEW ls, NEW i, NEW cur, NEW here, State(d, ls, i, cur, here),
         NEW place \in Nat, NEW line, line = Closed(getCurrentLine(d), place),
         NEW t, t = IF place < Len(here) THEN Without(here, place) ELSE here,
         NEW w, w = Rewrite(d, line)
  PROVE  Sound(w) /\ Shown(w, [ls EXCEPT ![i + 1] = t], i, cur)
<1>1. /\ here \in Seq(Letters) /\ Len(here) \in Nat
      /\ Holds(getCurrentLine(d), here) /\ Terminated(getCurrentLine(d))
  BY DEF State
<1>2. PICK old \in Line : old = getCurrentLine(d) /\ Terminated(old) /\ Holds(old, here)
  BY <1>1 DEF Holds
<1>3. line \in Line /\ Terminated(line)
  <2>1. place \in Int /\ line = Closed(old, place)
    BY <1>2
  <2>2. QED
    BY <1>2, <2>1, ClosedIs
<1>4. Holds(line, t)
  <2>1. CASE place < Len(here)
    <3>1. place \in 0 .. Len(here) - 1
      BY <1>1, <2>1
    <3>2. Holds(line, Without(here, place))
      BY <1>2, <1>3, <3>1, ClosedHolds
    <3>3. QED
      BY <2>1, <3>2
  <2>2. CASE ~(place < Len(here))
    <3>1. place >= Len(here)
      BY <1>1, <2>2
    <3>2. line = old
      BY <1>2, <3>1, ClosedPast
    <3>3. QED
      BY <1>2, <2>2, <3>2
  <2>3. QED
    BY <2>1, <2>2
<1>5. QED
  BY <1>3, <1>4, RewriteShows

LEMMA DeleteShows ==
  ASSUME NEW d, NEW ls, NEW i, NEW cur, NEW here, State(d, ls, i, cur, here),
         cur # Len(here), NEW e, e = Delete(d),
         NEW t, t = IF cur < Len(here) THEN Without(here, cur) ELSE here
  PROVE  Shown(e, [ls EXCEPT ![i + 1] = t], i, cur)
<1>1. Sound(d) /\ Cursor(d) = cur /\ cur \in Nat /\ getCurrentLength(d) = Len(here)
  BY DEF State, Shown
<1>2. PICK line, w : line = Closed(getCurrentLine(d), cur) /\ w = Rewrite(d, line)
  OBVIOUS
<1>3. Sound(w) /\ Shown(w, [ls EXCEPT ![i + 1] = t], i, cur)
  BY <1>1, <1>2, ClosedShows
<1>4. e = Redrawn(w, d.row + 1, d.row + 1) /\ d.row + 1 \in Int /\ IsData(w)
  <2>1. e = Redrawn(w, d.row + 1, d.row + 1)
    BY <1>1, <1>2 DEF Delete, deleteChar
  <2>2. d.row + 1 \in Int
    BY <1>1, DataNumbers DEF Sound
  <2>3. IsData(w)
    BY <1>3 DEF Sound
  <2>4. QED
    BY <2>1, <2>2, <2>3
<1>5. QED
  BY <1>3, <1>4, RedrawnShows

LEMMA BackspaceShows ==
  ASSUME NEW d, NEW ls, NEW i, NEW cur, NEW here, State(d, ls, i, cur, here),
         cur # 0, NEW e, e = Backspace(d),
         NEW t, t = IF cur <= Len(here) THEN Without(here, cur - 1) ELSE here
  PROVE  Shown(e, [ls EXCEPT ![i + 1] = t], i, cur - 1)
<1>1. Sound(d) /\ Cursor(d) = cur /\ cur \in Nat /\ Len(here) \in Nat
  BY DEF State, Shown
<1>2. PICK place \in Nat : place = cur - 1
  <2>1. cur - 1 \in Nat
    BY <1>1
  <2>2. QED
    BY <2>1
<1>3. t = IF place < Len(here) THEN Without(here, place) ELSE here
  <2>1. place < Len(here) <=> cur <= Len(here)
    BY <1>1, <1>2
  <2>2. QED
    BY <1>2, <2>1
<1>4. PICK line, w, m : /\ line = Closed(getCurrentLine(d), place) /\ w = Rewrite(d, line)
                        /\ m = moveLeft(w)
  OBVIOUS
<1>5. Sound(w) /\ Shown(w, [ls EXCEPT ![i + 1] = t], i, cur)
  BY <1>3, <1>4, ClosedShows
<1>6. Shown(m, [ls EXCEPT ![i + 1] = t], i, cur - 1) /\ IsData(m)
  <2>1. cur \in Int
    BY <1>1
  <2>2. QED
    BY <1>4, <1>5, <2>1, LeftShows
<1>7. e = Redrawn(m, d.row + 1, d.row + 1) /\ d.row + 1 \in Int
  <2>1. e = Redrawn(m, d.row + 1, d.row + 1)
    BY <1>1, <1>2, <1>4 DEF Backspace, deleteLeftChar
  <2>2. d.row + 1 \in Int
    BY <1>1, DataNumbers DEF Sound
  <2>3. QED
    BY <2>1, <2>2
<1>8. QED
  BY <1>6, <1>7, RedrawnShows

-----------------------------------------------------------------------------
(***************************************************************************)
(* Keys that join two lines.                                               *)
(***************************************************************************)
JoinedTexts(ls, i) == Without([ls EXCEPT ![i + 1] = ls[i + 1] \o ls[i + 2]], i + 1)

\* Lines i and i + 1 become one.
JoinedAt(d, e, ls, i) ==
  /\ IsData(e) /\ SameCursor(d, e) /\ Represents(e, JoinedTexts(ls, i))
  /\ i + 1 < Len(ls) /\ Len(ls[i + 1]) + Len(ls[i + 2]) < MaxLineLength

LEMMA JoinShows ==
  ASSUME NEW d, Sound(d), NEW ls, Represents(d, ls), NEW i \in Nat, CanJoin(d, i),
         NEW e, e = RemoveLine(Concatenated(d, i), i + 1)
  PROVE  JoinedAt(d, e, ls, i)
<1> USE EditorAssumption
<1>1. PICK count \in Nat, next \in Nat : count = d.count /\ next = i + 1 /\ next < count /\ Len(ls) = count
  <2>1. d.count \in Nat
    BY DEF Sound, Position
  <2>2. PICK count \in Nat : count = d.count
    BY <2>1
  <2>3. i < count - 1
    BY <2>2 DEF CanJoin
  <2>4. i + 1 \in Nat /\ i + 1 < count
    BY <2>3
  <2>5. Len(ls) = count
    BY <2>2 DEF Represents
  <2>6. QED
    BY <2>2, <2>4, <2>5
<1>2. i \in 0 .. count - 1 /\ next \in 0 .. count - 1 /\ next + 1 = i + 2
  BY <1>1
<1>3. PICK r, s : r = ls[i + 1] /\ s = ls[next + 1]
  OBVIOUS
<1>4. Holds(getLineAt(d, i), r) /\ Holds(getLineAt(d, next), s)
  BY <1>1, <1>2, <1>3 DEF Represents
<1>5. d.index[i] \in Slots /\ Terminated(getLineAt(d, i))
  BY <1>1, <1>2 DEF Sound, Partition, AllTerminated, getLineAt
<1>6. PICK old \in Line, len \in Nat, m \in Nat :
        /\ old = getLineAt(d, i) /\ len = Len(r) /\ m = Len(s) /\ len + m < MaxLineLength
        /\ stringLen(old, 0) = len /\ r \in Seq(Letters) /\ s \in Seq(Letters) /\ Clean(s)
        /\ \A k \in 1 .. len : old[k - 1] = r[k] /\ r[k] # Nul
  <2>1. stringLen(getLineAt(d, i), 0) = Len(r) /\ stringLen(getLineAt(d, next), 0) = Len(s)
    BY <1>4, HoldsIs
  <2>2. Len(r) + Len(s) < MaxLineLength
    BY <1>1, <2>1 DEF CanJoin, getLineLength
  <2>3. \A k \in 1 .. Len(r) : getLineAt(d, i)[k - 1] = r[k] /\ r[k] # Nul
    BY <1>4, HoldsMore
  <2>4. getLineAt(d, i) \in Line /\ r \in Seq(Letters) /\ s \in Seq(Letters) /\ Clean(s)
    BY <1>4 DEF Holds
  <2>5. Len(r) \in Nat /\ Len(s) \in Nat
    BY <2>4
  <2>6. QED
    BY <2>1, <2>2, <2>3, <2>4, <2>5
<1>7. PICK line, t : line = stringCopy(old, len, s) /\ t = r \o s
  OBVIOUS
<1>8. line \in Line /\ Terminated(line)
  BY <1>5, <1>6, <1>7, CopyIs
<1>9. t \in Seq(Letters) /\ Follow(t, len, r, m, s)
  BY <1>6, <1>7, BothAre
<1>10. Holds(line, t)
  BY <1>6, <1>7, <1>8, <1>9, CopiedHolds
<1>11. PICK c : c = Concatenated(d, i)
  OBVIOUS
<1>12. Changed(d, c, i, line)
  <2>1. TextFrom(getLineAt(d, next), 0) = s
    BY <1>4, HoldsIs
  <2>2. c = [d EXCEPT !.text[d.index[i]] = line]
    BY <1>1, <1>6, <1>7, <1>11, <2>1 DEF Concatenated, getLineLength, getLineAt
  <2>3. IsData(d)
    BY DEF Sound
  <2>4. QED
    BY <1>5, <1>8, <2>2, <2>3, ChangeIs
<1>13. PICK new : new = [ls EXCEPT ![i + 1] = t]
  OBVIOUS
<1>14. Sound(c) /\ Represents(c, new) /\ SameCursor(d, c) /\ c.count = count
  <2>1. i \in 0 .. d.count - 1
    BY <1>1, <1>2
  <2>2. Represents(c, new)
    BY <1>8, <1>10, <1>12, <1>13, <2>1, ChangedRepresents
  <2>3. Sound(c)
    BY <1>8, <1>12, <2>1, ChangeKeeps
  <2>4. QED
    BY <1>1, <1>12, <2>2, <2>3 DEF Changed, SameSlots
<1>15. PICK slot : slot = c.index[next]
  OBVIOUS
<1>16. Removed(c, e, next, slot) /\ next \in 0 .. c.count - 1
  <2>1. next \in 0 .. c.count - 1 /\ e = RemoveLine(c, next) /\ IsData(c) /\ Partition(c)
    BY <1>1, <1>2, <1>11, <1>14 DEF Sound
  <2>2. QED
    BY <1>15, <2>1, RemoveIs
<1>17. Represents(e, Without(new, next))
  BY <1>14, <1>15, <1>16, RemovedRepresents
<1>18. Without(new, next) = JoinedTexts(ls, i)
  BY <1>1, <1>2, <1>3, <1>7, <1>13 DEF JoinedTexts
<1>19. IsData(e) /\ SameCursor(d, e)
  BY <1>14, <1>16 DEF Removed, SameCursor
<1>20. i + 1 < Len(ls) /\ Len(ls[i + 1]) + Len(ls[i + 2]) < MaxLineLength
  BY <1>1, <1>2, <1>3, <1>6
<1>21. QED
  BY <1>17, <1>18, <1>19, <1>20 DEF JoinedAt

\* At the end of a line Delete takes the next one in.
LEMMA DeleteJoins ==
  ASSUME NEW d, NEW ls, NEW i, NEW cur, NEW here, State(d, ls, i, cur, here),
         cur = Len(here), CanJoin(d, i), NEW e, e = Delete(d)
  PROVE  /\ Shown(e, JoinedTexts(ls, i), i, cur)
         /\ i + 1 < Len(ls) /\ Len(ls[i + 1]) + Len(ls[i + 2]) < MaxLineLength
<1>1. /\ Sound(d) /\ Represents(d, ls) /\ Current(d) = i /\ i \in Nat
      /\ Cursor(d) = cur /\ getCurrentLength(d) = Len(here)
  BY DEF State, Shown
<1>2. PICK j : j = joinWithNextLine(d)
  OBVIOUS
<1>3. JoinedAt(d, j, ls, i)
  <2>1. j = RemoveLine(Concatenated(d, i), i + 1)
    BY <1>1, <1>2 DEF joinWithNextLine
  <2>2. QED
    BY <1>1, <2>1, JoinShows
<1>4. Shown(j, JoinedTexts(ls, i), i, cur) /\ IsData(j)
  BY <1>1, <1>3 DEF JoinedAt, Shown, SameCursor, Current, Cursor
<1>5. e = Redrawn(j, d.row + 1, LinesHeight) /\ d.row + 1 \in Int /\ LinesHeight \in Int
  <2>1. e = Redrawn(j, d.row + 1, LinesHeight)
    BY <1>1, <1>2 DEF Delete
  <2>2. d.row + 1 \in Int /\ LinesHeight \in Int
    BY <1>1, DataNumbers, EditorAssumption DEF Sound
  <2>3. QED
    BY <2>1, <2>2
<1>6. Shown(e, JoinedTexts(ls, i), i, cur)
  BY <1>4, <1>5, RedrawnShows
<1>7. QED
  BY <1>3, <1>6 DEF JoinedAt

\* At the start of a line Backspace has the one above take it in, and the
\* cursor stays between them.
LEMMA BackspaceJoins ==
  ASSUME NEW d, NEW ls, NEW i, NEW cur, NEW here, State(d, ls, i, cur, here),
         cur = 0, CanJoin(d, i - 1), NEW e, e = Backspace(d)
  PROVE  /\ i - 1 \in Nat /\ Shown(e, JoinedTexts(ls, i - 1), i - 1, Len(ls[i]))
         /\ i < Len(ls) /\ Len(ls[i]) + Len(ls[i + 1]) < MaxLineLength
<1> USE EditorAssumption
<1>1. /\ Sound(d) /\ Tidy(d) /\ Represents(d, ls) /\ Current(d) = i /\ i \in Nat /\ Cursor(d) = 0
  BY DEF State, Shown
<1>2. PICK k \in Nat : k = i - 1 /\ k + 1 = i /\ k + 2 = i + 1 /\ CanJoin(d, k) /\ i # 0
  <2>1. i - 1 \in Nat /\ (i - 1) + 1 = i /\ (i - 1) + 2 = i + 1 /\ i # 0
    BY <1>1 DEF CanJoin
  <2>2. QED
    BY <2>1
<1>3. PICK u, m, j : u = moveUp(d) /\ m = moveEnd(u) /\ j = joinWithPreviousLine(d)
  OBVIOUS
<1>4. Sound(u) /\ SameText(d, u) /\ Current(u) = k
  <2>1. Current(d) # 0 /\ Current(d) - 1 = k
    BY <1>1, <1>2
  <2>2. QED
    BY <1>1, <1>3, <2>1, AboveTidies
<1>5. PICK left \in Nat, col \in Int :
        Moved(u, m, u.top, u.row, left, col) /\ left + col = getCurrentLength(u)
  BY <1>3, <1>4, EndMoves
<1>6. getCurrentLength(u) = Len(ls[k + 1])
  <2>1. Represents(u, ls)
    BY <1>1, <1>4, SameRepresents
  <2>2. k \in 0 .. u.count - 1
    BY <1>4, CurrentLine
  <2>3. Holds(getLineAt(u, k), ls[k + 1])
    BY <2>1, <2>2 DEF Represents
  <2>4. QED
    BY <1>4, <2>3, HoldsIs DEF getCurrentLength, getLineLength
<1>7. Shown(m, ls, k, Len(ls[k + 1]))
  <2>1. Shown(u, ls, k, Cursor(u))
    BY <1>1, <1>4, SameRepresents DEF Shown
  <2>2. left \in Int
    OBVIOUS
  <2>3. Shown(m, ls, k, left + col)
    BY <1>5, <2>1, <2>2, MovedShows
  <2>4. QED
    BY <1>5, <1>6, <2>3
<1>8. Sound(m) /\ CanJoin(m, k)
  <2>1. CanJoin(d, Current(d) - 1) /\ m = moveEnd(moveUp(d))
    BY <1>1, <1>2, <1>3
  <2>2. Sound(m) /\ CanJoin(m, Current(m))
    BY <1>1, <2>1, PreviousLine
  <2>3. QED
    BY <1>7, <2>2 DEF Shown
<1>9. JoinedAt(m, j, ls, k)
  <2>1. j = RemoveLine(Concatenated(m, k), k + 1)
    BY <1>1, <1>2, <1>3 DEF joinWithPreviousLine
  <2>2. Represents(m, ls)
    BY <1>7 DEF Shown
  <2>3. QED
    BY <1>8, <2>1, <2>2, JoinShows
<1>10. Shown(j, JoinedTexts(ls, k), k, Len(ls[k + 1])) /\ IsData(j)
  BY <1>7, <1>9 DEF JoinedAt, Shown, SameCursor, Current, Cursor
<1>11. e = Redrawn(j, j.row + 1, LinesHeight) /\ j.row + 1 \in Int /\ LinesHeight \in Int
  <2>1. j.row \in Int
    BY <1>10 DEF IsData
  <2>2. Cursor(d) = 0 /\ CanJoin(d, Current(d) - 1)
    BY <1>1, <1>2
  <2>3. QED
    BY <1>3, <2>1, <2>2 DEF Backspace
<1>12. Shown(e, JoinedTexts(ls, k), k, Len(ls[k + 1]))
  BY <1>10, <1>11, RedrawnShows
<1>13. QED
  BY <1>2, <1>9, <1>12 DEF JoinedAt

-----------------------------------------------------------------------------
(***************************************************************************)
(* Enter.                                                                  *)
(***************************************************************************)
\* A line can be changed before the next is put in, or after.
LEMMA WithCommutes ==
  ASSUME NEW ls \in Seq(LineTexts), NEW i \in Nat, i < Len(ls),
         NEW t \in LineTexts, NEW s \in LineTexts
  PROVE  [With(ls, i + 1, s) EXCEPT ![i + 1] = t] = With([ls EXCEPT ![i + 1] = t], i + 1, s)
<1>1. PICK len \in Nat, next \in Nat : len = Len(ls) /\ next = i + 1 /\ next <= len
  <2>1. Len(ls) \in Nat /\ i + 1 \in Nat /\ i + 1 <= Len(ls)
    OBVIOUS
  <2>2. QED
    BY <2>1
<1>2. PICK a, b, c : a = With(ls, next, s) /\ b = [ls EXCEPT ![next] = t] /\ c = With(b, next, s)
  OBVIOUS
<1>3. a \in Seq(LineTexts) /\ Longer(a, ls, len, next, s)
  BY <1>1, <1>2, WithIs
<1>4. b \in Seq(LineTexts) /\ len = Len(b) /\ \A k \in 1 .. len : b[k] = IF k = next THEN t ELSE ls[k]
  BY <1>1, <1>2
<1>5. c \in Seq(LineTexts) /\ Longer(c, b, len, next, s)
  BY <1>1, <1>2, <1>4, WithIs
<1>6. PICK z : z = [a EXCEPT ![next] = t]
  OBVIOUS
<1>7. Len(a) = len + 1 /\ Len(c) = len + 1
  BY <1>3, <1>5 DEF Longer
<1>8. /\ z \in Seq(LineTexts) /\ Len(z) = len + 1
      /\ \A k \in 1 .. len + 1 : z[k] = IF k = next THEN t ELSE a[k]
  <2>1. PICK n \in Nat : n = len + 1 /\ n = Len(a) /\ a \in Seq(LineTexts)
    BY <1>3, <1>7
  <2>2. z \in Seq(LineTexts) /\ Len(z) = n /\ \A k \in 1 .. n : z[k] = IF k = next THEN t ELSE a[k]
    <3>1. next \in 1 .. n
      BY <1>1, <2>1
    <3>2. z \in Seq(LineTexts) /\ Len(z) = n
      BY <1>6, <2>1, <3>1
    <3>3. \A k \in 1 .. n : z[k] = IF k = next THEN t ELSE a[k]
      BY <1>6, <2>1, <3>1
    <3>4. QED
      BY <3>2, <3>3
  <2>3. QED
    BY <2>1, <2>2
<1>9. ASSUME NEW k \in 1 .. len + 1
      PROVE  z[k] = c[k]
  <2>1. CASE k <= next
    <3>1. k \in 1 .. next /\ k \in 1 .. len
      BY <1>1, <2>1
    <3>2. a[k] = ls[k] /\ c[k] = b[k]
      BY <1>3, <1>5, <3>1 DEF Longer
    <3>3. QED
      BY <1>4, <1>8, <3>1, <3>2
  <2>2. CASE k = next + 1
    <3>1. a[k] = s /\ c[k] = s /\ k # next
      BY <1>1, <1>3, <1>5, <2>2 DEF Longer
    <3>2. QED
      BY <1>8, <3>1
  <2>3. CASE k > next + 1
    <3>1. k \in next + 2 .. len + 1 /\ k # next /\ k - 1 \in 1 .. len /\ k - 1 # next
      BY <1>1, <2>3
    <3>2. a[k] = ls[k - 1] /\ c[k] = b[k - 1]
      BY <1>3, <1>5, <3>1 DEF Longer
    <3>3. QED
      BY <1>4, <1>8, <3>1, <3>2
  <2>4. QED
    BY <1>1, <2>1, <2>2, <2>3
<1>10. z = c
  BY <1>5, <1>7, <1>8, <1>9, SequencesEqual
<1>11. QED
  BY <1>1, <1>2, <1>6, <1>10

\* What Enter puts into the new line, and what it leaves in the old one.
EnterTexts(here, cur, s, t) ==
  /\ s \in Seq(Letters) /\ t \in Seq(Letters)
  /\ IF cur <= Len(here)
     THEN s = SubSeq(here, cur + 1, Len(here)) /\ t = SubSeq(here, 1, cur)
     ELSE t = here

LEMMA SplitShows ==
  ASSUME NEW d, NEW ls, NEW i, NEW cur, NEW here, State(d, ls, i, cur, here), InSlot(d),
         d.count < MaxLines, NEW e, e = splitLine(d)
  PROVE  \E s, t : /\ EnterTexts(here, cur, s, t)
                   /\ Represents(e, With([ls EXCEPT ![i + 1] = t], i + 1, s))
<1> USE EditorAssumption
<1>1. /\ Sound(d) /\ Represents(d, ls) /\ Current(d) = i /\ i \in Nat /\ cur \in Places
      /\ Cursor(d) = cur /\ d.count = Len(ls) /\ i \in 0 .. d.count - 1
      /\ Terminated(getLineAt(d, i)) /\ Holds(getLineAt(d, i), here) /\ here \in Seq(Letters)
  BY DEF State, Shown, getCurrentLine
<1>2. PICK b, i1, pos, slot, s, line : Divided(d, e, b, i1, pos, slot, s, line)
  BY <1>1, SplitDivides
<1>3. /\ i1 = i /\ pos = i + 1 /\ pos \in 0 .. d.count
      /\ s = TextFrom(getLineAt(d, i), cur) /\ s \in Seq(Letters) /\ Len(s) < MaxLineLength
      /\ slot = d.freeSlots[d.freeCount - 1]
      /\ Inserted(d, b, pos, slot, s) /\ Sound(b)
      /\ line = [getLineAt(d, i) EXCEPT ![cur] = Nul]
      /\ line \in Line /\ Terminated(line) /\ Changed(b, e, i, line)
  BY <1>1, <1>2 DEF Divided
<1>4. Clean(s) /\ (cur <= Len(here) => s = SubSeq(here, cur + 1, Len(here)))
  BY <1>1, <1>3, BehindIs
<1>5. Holds(stringCopy(d.text[slot], 0, s), s)
  <2>1. PICK old \in Line, n \in Nat : old = d.text[slot] /\ n = Len(s) /\ 0 + n < MaxLineLength
    <3>1. d.text[slot] \in Line
      <4>1. slot \in Slots /\ d.text \in [Slots -> Line]
        BY <1>1, <1>3 DEF Inserted, Sound, IsData
      <4>2. QED
        BY <4>1
    <3>2. Len(s) \in Nat /\ 0 + Len(s) = Len(s)
      BY <1>3
    <3>3. QED
      BY <1>3, <3>1, <3>2
  <2>2. PICK new : new = stringCopy(old, 0, s)
    OBVIOUS
  <2>3. new \in Line /\ 0 \in Nat
    BY <1>3, <2>2, CopyIs
  <2>4. Follow(s, 0, s, n, s)
    BY <2>1 DEF Follow
  <2>5. \A k \in 1 .. 0 : old[k - 1] = s[k] /\ s[k] # Nul
    OBVIOUS
  <2>6. Holds(new, s)
    BY <1>3, <1>4, <2>1, <2>2, <2>3, <2>4, <2>5, CopiedHolds
  <2>7. QED
    BY <2>1, <2>2, <2>6
<1>6. Represents(b, With(ls, pos, s))
  <2>1. pos \in Nat /\ pos <= d.count /\ b.count <= MaxLines
    BY <1>1, <1>3 DEF Sound, Position
  <2>2. QED
    BY <1>1, <1>3, <1>5, <2>1, InsertedRepresents
<1>7. PICK t : t = IF cur <= Len(here) THEN SubSeq(here, 1, cur) ELSE here
  OBVIOUS
<1>8. Holds(line, t)
  BY <1>1, <1>3, <1>7, CutHolds
<1>9. Represents(e, [With(ls, pos, s) EXCEPT ![i + 1] = t])
  <2>1. i \in 0 .. b.count - 1
    <3>1. PICK count \in Nat : count = d.count /\ i \in 0 .. count - 1
      BY <1>1 DEF Sound, Position
    <3>2. b.count - 1 = count
      BY <1>3, <3>1 DEF Inserted
    <3>3. QED
      BY <3>1, <3>2
  <2>2. QED
    BY <1>3, <1>6, <1>8, <2>1, ChangedRepresents
<1>10. [With(ls, pos, s) EXCEPT ![i + 1] = t] = With([ls EXCEPT ![i + 1] = t], i + 1, s)
  <2>1. ls \in Seq(LineTexts) /\ t \in LineTexts /\ s \in LineTexts
    BY <1>1, <1>3, <1>8 DEF Represents, Holds, LineTexts
  <2>2. i < Len(ls)
    BY <1>1
  <2>3. QED
    BY <1>1, <1>3, <2>1, <2>2, WithCommutes
<1>11. EnterTexts(here, cur, s, t)
  BY <1>3, <1>4, <1>7, <1>8 DEF EnterTexts, Holds
<1>12. QED
  BY <1>9, <1>10, <1>11

LEMMA EnterShows ==
  ASSUME NEW d, NEW ls, NEW i, NEW cur, NEW here, State(d, ls, i, cur, here), InSlot(d),
         d.count < MaxLines, NEW e, e = Enter(d)
  PROVE  \E s, t : /\ EnterTexts(here, cur, s, t)
                   /\ Shown(e, With([ls EXCEPT ![i + 1] = t], i + 1, s), i + 1, 0)
<1> USE EditorAssumption
<1>1. /\ Sound(d) /\ Tidy(d) /\ Current(d) = i /\ i \in Nat
      /\ d.count \in Nat /\ i < d.count /\ d.terminalRow = d.row + 1
  BY DEF State, Shown, Tidy
<1>2. PICK split : split = splitLine(d)
  OBVIOUS
<1>3. PICK s, t : /\ EnterTexts(here, cur, s, t)
                  /\ Represents(split, With([ls EXCEPT ![i + 1] = t], i + 1, s))
  BY <1>2, SplitShows
<1>4. PICK new : new = With([ls EXCEPT ![i + 1] = t], i + 1, s)
  OBVIOUS
<1>5. Sound(split) /\ SameCursor(d, split) /\ SameScreen(d, split) /\ split.count = d.count + 1
  <2>1. Split(d, split, Current(d))
    BY <1>1, <1>2, SplitIs
  <2>2. QED
    BY <2>1 DEF Split
<1>6. PICK start : start = [split EXCEPT !.left = 0, !.col = 0]
  OBVIOUS
<1>7. Moved(split, start, split.top, split.row, 0, 0)
  <2>1. IsData(split) /\ 0 \in Int
    BY <1>5 DEF Sound
  <2>2. QED
    BY <1>6, <2>1, SetLeftCol
<1>8. /\ IsData(start) /\ start.left = 0 /\ start.col = 0 /\ start.terminalRow = start.row + 1
      /\ Current(start) = i /\ start.count = d.count + 1 /\ Represents(start, new)
  <2>1. IsData(start) /\ SameText(split, start) /\ start.left = 0 /\ start.col = 0
    BY <1>7 DEF Moved
  <2>2. Represents(start, new)
    BY <1>3, <1>4, <2>1, SameRepresents
  <2>3. Current(start) = i
    BY <1>1, <1>5, <1>7 DEF Moved, SameCursor, Current
  <2>4. start.terminalRow = start.row + 1 /\ start.count = d.count + 1
    BY <1>1, <1>5, <1>7 DEF Moved, SameCursor, SameScreen, SameText, SameSlots
  <2>5. QED
    BY <2>1, <2>2, <2>3, <2>4
<1>9. PICK below : below = moveDown(start)
  OBVIOUS
<1>10. below = LineBelow(start)
  <2>1. Current(start) # start.count - 1
    BY <1>1, <1>8
  <2>2. QED
    BY <1>9, <2>1 DEF moveDown
<1>11. /\ IsData(below) /\ SameText(start, below) /\ below.left = 0 /\ below.col = 0
       /\ Current(below) = i + 1
  <2>1. IF start.row = LinesHeight - 1
        THEN Stepped(start, below, start.top + 1, start.row, RaisedScreen(start), start.terminalRow)
        ELSE Stepped(start, below, start.top, start.row + 1, start.screen, start.terminalRow)
    BY <1>8, <1>10, BelowIs
  <2>2. start.top \in Int /\ start.row \in Int /\ i = start.top + start.row
    <3>1. IsData(start) /\ i = Current(start)
      BY <1>8
    <3>2. start.top \in Int /\ start.row \in Int
      BY <3>1, DataNumbers
    <3>3. i = start.top + start.row
      BY <3>1 DEF Current
    <3>4. QED
      BY <3>2, <3>3
  <2>3. Current(below) = i + 1
    <3>1. PICK top \in Int, row \in Int : top = start.top /\ row = start.row /\ i = top + row
      BY <2>2
    <3>2. (top + 1) + row = i + 1 /\ top + (row + 1) = i + 1
      <4>1. (top + 1) + row = (top + row) + 1 /\ top + (row + 1) = (top + row) + 1
        OBVIOUS
      <4>2. QED
        BY <3>1, <4>1
    <3>3. CASE row = LinesHeight - 1
      <4>1. below.top = top + 1 /\ below.row = row
        BY <2>1, <3>1, <3>3 DEF Stepped
      <4>2. QED
        BY <3>2, <4>1 DEF Current
    <3>4. CASE row # LinesHeight - 1
      <4>1. below.top = top /\ below.row = row + 1
        BY <2>1, <3>1, <3>4 DEF Stepped
      <4>2. QED
        BY <3>2, <4>1 DEF Current
    <3>5. QED
      BY <3>3, <3>4
  <2>4. QED
    BY <1>8, <2>1, <2>3 DEF Stepped
<1>12. Shown(below, new, i + 1, 0)
  BY <1>8, <1>11, SameRepresents DEF Shown, Cursor
<1>13. PICK first \in Int : e = Redrawn(below, first, LinesHeight)
  <2>1. e = Redrawn(below, IF below.top > d.top THEN LinesHeight - 1 ELSE below.row, LinesHeight)
    <3>1. ~(d.count >= MaxLines)
      BY <1>1
    <3>2. QED
      BY <1>2, <1>6, <1>9, <3>1 DEF Enter
  <2>2. LinesHeight - 1 \in Int /\ below.row \in Int
    BY <1>11 DEF IsData
  <2>3. QED
    BY <2>1, <2>2
<1>14. Shown(e, new, i + 1, 0)
  BY <1>11, <1>12, <1>13, RedrawnShows
<1>15. QED
  BY <1>3, <1>4, <1>14

-----------------------------------------------------------------------------
(***************************************************************************)
(* The keys that move the cursor.                                          *)
(***************************************************************************)
Vertically(ls, i, cur, i2, cur2) ==
  i2 \in {i - 1, i + 1} /\ i2 \in 0 .. Len(ls) - 1 /\ cur2 <= cur

Horizontally(here, i, cur, i2, cur2) ==
  /\ i2 = i
  /\ \/ cur2 = cur - 1 /\ cur > 0
     \/ cur2 = cur + 1 /\ cur # Len(here)
     \/ cur2 = 0
     \/ cur2 = Len(here)

\* A key that moves the cursor up or down, along its line, or not at all.
Wanders(ls, here, i, cur, i2, cur2) ==
  \/ i2 = i /\ cur2 = cur
  \/ Vertically(ls, i, cur, i2, cur2)
  \/ Horizontally(here, i, cur, i2, cur2)

LEMMA UpShows ==
  ASSUME NEW d, NEW ls, NEW i, NEW cur, NEW here, State(d, ls, i, cur, here), NEW e, e = Up(d)
  PROVE  \E i2, cur2 : Shown(e, ls, i2, cur2) /\ Wanders(ls, here, i, cur, i2, cur2)
<1>1. /\ Sound(d) /\ Tidy(d) /\ Shown(d, ls, i, cur) /\ Represents(d, ls) /\ Current(d) = i
      /\ i \in Nat /\ i \in 0 .. d.count - 1 /\ d.count = Len(ls) /\ Len(ls) \in Nat
      /\ d.left \in Nat /\ d.col \in Nat /\ cur = d.left + d.col
  BY DEF State, Shown
<1>2. PICK m : m = moveUp(d)
  OBVIOUS
<1>3. PICK condition \in BOOLEAN, first \in Int : e = RedrawnIf(condition, m, first, first)
  <2>1. (m.top # d.top) \in BOOLEAN /\ e = RedrawnIf(m.top # d.top, m, 1, 1)
    BY <1>2 DEF Up
  <2>2. PICK first \in Int : first = 1
    OBVIOUS
  <2>3. QED
    BY <2>1, <2>2
<1>4. CASE i = 0
  <2>1. m = d
    BY <1>1, <1>2, <1>4 DEF moveUp
  <2>2. Shown(e, ls, i, cur)
    <3>1. IsData(m) /\ Shown(m, ls, i, cur)
      BY <1>1, <2>1 DEF Sound
    <3>2. QED
      BY <1>1, <1>3, <3>1, RedrawnIfShows
  <2>3. QED
    BY <2>2 DEF Wanders
<1>5. CASE i # 0
  <2>1. /\ Sound(m) /\ SameText(d, m) /\ m.left = 0 /\ m.col = d.col /\ Current(m) = i - 1
    BY <1>1, <1>2, <1>5, AboveTidies
  <2>2. Cursor(m) = d.col /\ d.col <= cur
    BY <1>1, <2>1 DEF Cursor
  <2>3. Shown(m, ls, i - 1, d.col)
    BY <1>1, <2>1, <2>2, SameRepresents DEF Shown
  <2>4. Shown(e, ls, i - 1, d.col)
    BY <1>3, <2>1, <2>3, RedrawnIfShows DEF Sound
  <2>5. i - 1 \in 0 .. Len(ls) - 1
    BY <1>1, <1>5
  <2>6. Wanders(ls, here, i, cur, i - 1, d.col)
    BY <2>2, <2>5 DEF Wanders, Vertically
  <2>7. QED
    BY <2>4, <2>6
<1>6. QED
  BY <1>4, <1>5

LEMMA DownShows ==
  ASSUME NEW d, NEW ls, NEW i, NEW cur, NEW here, State(d, ls, i, cur, here), NEW e, e = Down(d)
  PROVE  \E i2, cur2 : Shown(e, ls, i2, cur2) /\ Wanders(ls, here, i, cur, i2, cur2)
<1>1. /\ Sound(d) /\ Tidy(d) /\ Shown(d, ls, i, cur) /\ Represents(d, ls) /\ Current(d) = i
      /\ i \in Nat /\ i \in 0 .. d.count - 1 /\ d.count = Len(ls) /\ Len(ls) \in Nat
      /\ d.left \in Nat /\ d.col \in Nat /\ cur = d.left + d.col
  BY DEF State, Shown
<1>2. PICK m : m = moveDown(d)
  OBVIOUS
<1>3. PICK condition \in BOOLEAN :
        e = RedrawnIf(condition, m, LinesHeight, LinesHeight) /\ LinesHeight \in Int
  <2>1. /\ (m.top # d.top) \in BOOLEAN /\ LinesHeight \in Int
        /\ e = RedrawnIf(m.top # d.top, m, LinesHeight, LinesHeight)
    BY <1>2, EditorAssumption DEF Down
  <2>2. QED
    BY <2>1
<1>4. CASE i = d.count - 1
  <2>1. m = d
    BY <1>1, <1>2, <1>4 DEF moveDown
  <2>2. Shown(e, ls, i, cur)
    <3>1. IsData(m) /\ Shown(m, ls, i, cur)
      BY <1>1, <2>1 DEF Sound
    <3>2. QED
      BY <1>1, <1>3, <3>1, RedrawnIfShows
  <2>3. QED
    BY <2>2 DEF Wanders
<1>5. CASE i # d.count - 1
  <2>1. m = LineBelow(d)
    BY <1>1, <1>2, <1>5 DEF moveDown
  <2>2. /\ Sound(m) /\ SameText(d, m) /\ m.left = 0 /\ m.col = d.col /\ Current(m) = i + 1
    BY <1>1, <1>5, <2>1, BelowTidies
  <2>3. Cursor(m) = d.col /\ d.col <= cur
    BY <1>1, <2>2 DEF Cursor
  <2>4. Shown(m, ls, i + 1, d.col)
    BY <1>1, <2>2, <2>3, SameRepresents DEF Shown
  <2>5. Shown(e, ls, i + 1, d.col)
    BY <1>3, <2>2, <2>4, RedrawnIfShows DEF Sound
  <2>6. i + 1 \in 0 .. Len(ls) - 1
    BY <1>1, <1>5
  <2>7. Wanders(ls, here, i, cur, i + 1, d.col)
    BY <2>3, <2>6 DEF Wanders, Vertically
  <2>8. QED
    BY <2>5, <2>7
<1>6. QED
  BY <1>4, <1>5

LEMMA LeftKeyShows ==
  ASSUME NEW d, NEW ls, NEW i, NEW cur, NEW here, State(d, ls, i, cur, here), NEW e, e = Left(d)
  PROVE  \E i2, cur2 : Shown(e, ls, i2, cur2) /\ Wanders(ls, here, i, cur, i2, cur2)
<1>1. /\ Sound(d) /\ Shown(d, ls, i, cur) /\ cur \in Nat /\ d.row + 1 \in Int
      /\ d.left \in Nat /\ d.col \in Nat /\ cur = d.left + d.col
  BY DataNumbers DEF State, Sound
<1>2. PICK m : m = moveLeft(d)
  OBVIOUS
<1>3. PICK condition \in BOOLEAN : e = RedrawnIf(condition, m, d.row + 1, d.row + 1)
  <2>1. (m.left # d.left) \in BOOLEAN /\ e = RedrawnIf(m.left # d.left, m, d.row + 1, d.row + 1)
    BY <1>2 DEF Left
  <2>2. QED
    BY <2>1
<1>4. CASE cur = 0
  <2>1. d.left = 0 /\ d.col = 0
    BY <1>1, <1>4
  <2>2. m = d
    BY <1>2, <2>1 DEF moveLeft
  <2>3. Shown(e, ls, i, cur)
    <3>1. IsData(m) /\ Shown(m, ls, i, cur)
      BY <1>1, <2>2 DEF Sound
    <3>2. QED
      BY <1>1, <1>3, <3>1, RedrawnIfShows
  <2>4. QED
    BY <2>3 DEF Wanders
<1>5. CASE cur # 0
  <2>1. cur \in Int /\ cur > 0
    BY <1>1, <1>5
  <2>2. Shown(m, ls, i, cur - 1) /\ IsData(m)
    BY <1>1, <1>2, <1>5, <2>1, LeftShows
  <2>3. Shown(e, ls, i, cur - 1)
    BY <1>1, <1>3, <2>2, RedrawnIfShows
  <2>4. QED
    BY <2>1, <2>3 DEF Wanders, Horizontally
<1>6. QED
  BY <1>4, <1>5

LEMMA RightKeyShows ==
  ASSUME NEW d, NEW ls, NEW i, NEW cur, NEW here, State(d, ls, i, cur, here), NEW e, e = Right(d)
  PROVE  \E i2, cur2 : Shown(e, ls, i2, cur2) /\ Wanders(ls, here, i, cur, i2, cur2)
<1>1. /\ Sound(d) /\ Shown(d, ls, i, cur) /\ cur \in Int /\ d.row + 1 \in Int
      /\ Cursor(d) = cur /\ getCurrentLength(d) = Len(here)
  <2>1. Sound(d) /\ Shown(d, ls, i, cur) /\ cur \in Nat /\ getCurrentLength(d) = Len(here)
    BY DEF State
  <2>2. d.row + 1 \in Int
    BY <2>1, DataNumbers DEF Sound
  <2>3. QED
    BY <2>1, <2>2 DEF Shown
<1>2. PICK m : m = moveRight(d)
  OBVIOUS
<1>3. PICK condition \in BOOLEAN : e = RedrawnIf(condition, m, d.row + 1, d.row + 1)
  <2>1. (m.left # d.left) \in BOOLEAN /\ e = RedrawnIf(m.left # d.left, m, d.row + 1, d.row + 1)
    BY <1>2 DEF Right
  <2>2. QED
    BY <2>1
<1>4. CASE cur = Len(here)
  <2>1. m = d
    BY <1>1, <1>2, <1>4 DEF moveRight
  <2>2. Shown(e, ls, i, cur)
    <3>1. IsData(m) /\ Shown(m, ls, i, cur)
      BY <1>1, <2>1 DEF Sound
    <3>2. QED
      BY <1>1, <1>3, <3>1, RedrawnIfShows
  <2>3. QED
    BY <2>2 DEF Wanders
<1>5. CASE cur # Len(here)
  <2>1. Shown(m, ls, i, cur + 1) /\ IsData(m)
    BY <1>1, <1>2, <1>5, RightShows
  <2>2. Shown(e, ls, i, cur + 1)
    BY <1>1, <1>3, <2>1, RedrawnIfShows
  <2>3. QED
    BY <1>5, <2>2 DEF Wanders, Horizontally
<1>6. QED
  BY <1>4, <1>5

LEMMA HomeShows ==
  ASSUME NEW d, NEW ls, NEW i, NEW cur, NEW here, State(d, ls, i, cur, here), NEW e, e = Home(d)
  PROVE  \E i2, cur2 : Shown(e, ls, i2, cur2) /\ Wanders(ls, here, i, cur, i2, cur2)
<1>1. IsData(d) /\ Shown(d, ls, i, cur) /\ d.row + 1 \in Int
  BY DataNumbers DEF State, Sound
<1>2. PICK m : m = [d EXCEPT !.left = 0, !.col = 0]
  OBVIOUS
<1>3. PICK condition \in BOOLEAN : e = RedrawnIf(condition, m, d.row + 1, d.row + 1)
  <2>1. (Cursor(d) > 0) \in BOOLEAN /\ e = RedrawnIf(Cursor(d) > 0, m, d.row + 1, d.row + 1)
    BY <1>2 DEF Home
  <2>2. QED
    BY <2>1
<1>4. PICK zero \in Int : zero = 0
  OBVIOUS
<1>5. Moved(d, m, d.top, d.row, zero, zero)
  <2>1. m = [d EXCEPT !.left = zero, !.col = zero]
    BY <1>2, <1>4
  <2>2. QED
    BY <1>1, <2>1, SetLeftCol
<1>6. Shown(m, ls, i, zero + zero) /\ IsData(m)
  BY <1>1, <1>5, MovedShows
<1>7. Shown(m, ls, i, 0)
  <2>1. zero + zero = 0
    BY <1>4
  <2>2. QED
    BY <1>6, <2>1
<1>8. Shown(e, ls, i, 0)
  BY <1>1, <1>3, <1>6, <1>7, RedrawnIfShows
<1>9. QED
  BY <1>8 DEF Wanders, Horizontally

LEMMA EndShows ==
  ASSUME NEW d, NEW ls, NEW i, NEW cur, NEW here, State(d, ls, i, cur, here), NEW e, e = End(d)
  PROVE  \E i2, cur2 : Shown(e, ls, i2, cur2) /\ Wanders(ls, here, i, cur, i2, cur2)
<1>1. /\ Sound(d) /\ Shown(d, ls, i, cur) /\ d.row + 1 \in Int /\ getCurrentLength(d) = Len(here)
  BY DataNumbers DEF State, Sound
<1>2. PICK m, condition :
        /\ m = moveEnd(d)
        /\ condition = (Cursor(d) # getCurrentLength(d) /\ getCurrentLength(d) >= d.left + Width)
  OBVIOUS
<1>3. e = RedrawnIf(condition, m, d.row + 1, d.row + 1) /\ condition \in BOOLEAN
  BY <1>2 DEF End
<1>4. PICK left \in Nat, col \in Int :
        Moved(d, m, d.top, d.row, left, col) /\ left + col = getCurrentLength(d)
  BY <1>1, <1>2, EndMoves
<1>5. Shown(m, ls, i, left + col) /\ IsData(m)
  <2>1. left \in Int
    OBVIOUS
  <2>2. QED
    BY <1>1, <1>4, <2>1, MovedShows
<1>6. Shown(m, ls, i, Len(here))
  BY <1>1, <1>4, <1>5
<1>7. Shown(e, ls, i, Len(here))
  BY <1>1, <1>3, <1>5, <1>6, RedrawnIfShows
<1>8. QED
  BY <1>7 DEF Wanders, Horizontally

-----------------------------------------------------------------------------
(***************************************************************************)
(* The refinement: each key is an action of TextBuffer, or a stutter.      *)
(***************************************************************************)
LEMMA ShownIs ==
  ASSUME NEW d, NEW ls, NEW i, NEW cur, Shown(d, ls, i, cur)
  PROVE  Lines(d) = ls /\ Current(d) = i /\ Cursor(d) = cur
<1>1. Represents(d, ls) /\ Current(d) = i /\ Cursor(d) = cur
  BY DEF Shown
<1>2. ls \in Seq(LineTexts) /\ Len(ls) = d.count
  BY <1>1 DEF Represents
<1>3. d.count \in Nat
  BY <1>2
<1>4. QED
  BY <1>1, <1>3, RepresentedIs

\* What TextBuffer sees of the editor.
Sees(ls, i, cur) == Lines(editor) = ls /\ Current(editor) = i /\ Cursor(editor) = cur

LEMMA SameLineIs ==
  ASSUME NEW ls \in Seq(LineTexts), NEW k \in 1 .. Len(ls), NEW t, t = ls[k]
  PROVE  [ls EXCEPT ![k] = t] = ls
OBVIOUS

LEMMA TypeIs ==
  ASSUME NEW ls \in Seq(LineTexts), NEW i \in Nat, i + 1 \in 1 .. Len(ls), NEW cur \in Nat,
         NEW here \in Seq(Letters), here = ls[i + 1], NEW c \in Letters,
         Len(here) + 1 < MaxLineLength,
         NEW t, t = IF cur <= Len(here) THEN With(here, cur, c) ELSE here,
         NEW ls2, ls2 = [ls EXCEPT ![i + 1] = t],
         Sees(ls, i, cur), Sees(ls2, i, cur + 1)'
  PROVE  Text!Type(c)
<1>1. cur + 1 + 0 = cur + 1 /\ Len(Append(here, c)) = Len(here) + 1
  OBVIOUS
<1>2. ls2 = IF cur <= Len(here) THEN [ls EXCEPT ![i + 1] = With(here, cur, c)] ELSE ls
  BY SameLineIs
<1>3. /\ Lines(editor) = ls /\ Current(editor) + 1 = i + 1 /\ Cursor(editor) = cur
      /\ Lines(editor)' = ls2 /\ (Current(editor) + 1)' = i + 1 /\ Cursor(editor)' = cur + 1
  BY DEF Sees
<1>4. QED
  BY <1>1, <1>2, <1>3
  DEF Text!Type, Text!Fits, Text!Here, Text!Before, Text!Behind, Text!ReplaceAt, With

LEMMA InsertAtIs ==
  ASSUME NEW s, NEW n \in Nat, NEW e
  PROVE  Text!InsertAt(s, n + 1, e) = With(s, n, e)
<1>1. PICK m : m = n + 1
  OBVIOUS
<1>2. m - 1 = n
  BY <1>1
<1>3. Text!InsertAt(s, m, e) = SubSeq(s, 1, n) \o <<e>> \o SubSeq(s, m, Len(s))
  BY <1>2 DEF Text!InsertAt
<1>4. QED
  BY <1>1, <1>3 DEF With

LEMMA RemoveAtIs ==
  ASSUME NEW s, NEW n \in Nat
  PROVE  Text!RemoveAt(s, n + 1) = Without(s, n)
<1>1. PICK m : m = n + 1
  OBVIOUS
<1>2. m - 1 = n /\ m + 1 = n + 2
  BY <1>1
<1>3. Text!RemoveAt(s, m) = SubSeq(s, 1, n) \o SubSeq(s, n + 2, Len(s))
  BY <1>2 DEF Text!RemoveAt
<1>4. QED
  BY <1>1, <1>3 DEF Without

LEMMA EnterIs ==
  ASSUME NEW ls \in Seq(LineTexts), NEW i \in Nat, i + 1 \in 1 .. Len(ls), NEW cur \in Nat,
         NEW here \in Seq(Letters), here = ls[i + 1], Len(ls) < MaxLines,
         NEW s, NEW t, EnterTexts(here, cur, s, t),
         NEW ls2, ls2 = With([ls EXCEPT ![i + 1] = t], i + 1, s),
         Sees(ls, i, cur), Sees(ls2, i + 1, 0)'
  PROVE  Text!Enter
<1>1. PICK next \in Nat, len \in Nat, last \in Nat :
        /\ next = i + 1 /\ next \in 1 .. len /\ len = Len(ls) /\ last = Len(here)
  OBVIOUS
<1>2. s \in LineTexts /\ t \in LineTexts
  BY DEF EnterTexts, LineTexts
<1>3. PICK old : old = [ls EXCEPT ![next] = t]
  OBVIOUS
<1>4. old \in Seq(LineTexts) /\ Len(old) = len
  BY <1>1, <1>2, <1>3
<1>5. ls2 = With(old, next, s)
  BY <1>1, <1>3
<1>6. Longer(ls2, old, len, next, s)
  <2>1. next <= len
    BY <1>1
  <2>2. QED
    BY <1>2, <1>4, <1>5, <2>1, WithIs
<1>7. Len(ls2) = len + 1 /\ ls2[next + 1] = s
  BY <1>6 DEF Longer
<1>8. /\ Lines(editor) = ls /\ Current(editor) + 1 = next /\ Cursor(editor) = cur
      /\ Lines(editor)' = ls2 /\ (Current(editor) + 1)' = next + 1 /\ Cursor(editor)' = 0
  BY <1>1 DEF Sees
<1>9. Text!Here = here
  BY <1>1, <1>8 DEF Text!Here
<1>10. Text!InsertAt(old, next + 1, s) = ls2
  BY <1>5, InsertAtIs
<1>11. CASE cur <= Len(here)
  <2>1. Text!Before = t /\ Text!Behind(0) = s
    <3>1. cur + 1 + 0 = cur + 1
      OBVIOUS
    <3>2. QED
      BY <1>8, <1>9, <1>11, <3>1 DEF Text!Before, Text!Behind, EnterTexts
  <2>2. Text!ReplaceAt(ls, next, t) = old
    BY <1>3 DEF Text!ReplaceAt
  <2>3. QED
    BY <1>1, <1>7, <1>8, <1>9, <1>10, <1>11, <2>1, <2>2 DEF Text!Enter
<1>12. CASE ~(cur <= Len(here))
  <2>1. old = ls
    <3>1. t = ls[next] /\ next \in 1 .. Len(ls)
      BY <1>1, <1>12 DEF EnterTexts
    <3>2. QED
      BY <1>3, <3>1, SameLineIs
  <2>2. QED
    BY <1>1, <1>7, <1>8, <1>9, <1>10, <1>12, <2>1 DEF Text!Enter
<1>13. QED
  BY <1>11, <1>12

LEMMA JoinTextIs ==
  ASSUME NEW ls \in Seq(LineTexts), NEW i \in Nat, i + 1 < Len(ls),
         Len(ls[i + 1]) + Len(ls[i + 2]) < MaxLineLength, Lines(editor) = ls
  PROVE  Text!CanJoin(i + 1) /\ Text!Joined(i + 1) = JoinedTexts(ls, i)
<1>1. i + 1 + 1 = i + 2 /\ i + 2 - 1 = i + 1 /\ i + 2 + 1 = i + 1 + 2
  OBVIOUS
<1>2. i + 1 \in 1 .. Len(ls) - 1 /\ i + 1 \in 1 .. Len(ls) /\ i + 2 \in 1 .. Len(ls)
  OBVIOUS
<1>3. PICK r \in Seq(Letters), s \in Seq(Letters) : r = ls[i + 1] /\ s = ls[i + 2]
  BY <1>2 DEF LineTexts
<1>4. Len(r \o s) = Len(r) + Len(s)
  OBVIOUS
<1>5. Text!CanJoin(i + 1)
  BY <1>1, <1>2, <1>3, <1>4 DEF Text!CanJoin, Text!Fits
<1>6. Text!Joined(i + 1) = JoinedTexts(ls, i)
  <2>1. PICK next \in Nat : next = i + 1 /\ next + 1 = i + 2
    OBVIOUS
  <2>2. PICK new : new = [ls EXCEPT ![next] = ls[next] \o ls[next + 1]]
    OBVIOUS
  <2>3. JoinedTexts(ls, i) = Without(new, next)
    BY <2>1, <2>2 DEF JoinedTexts
  <2>4. Text!Joined(next) = Text!RemoveAt(new, next + 1)
    BY <2>2 DEF Text!Joined, Text!ReplaceAt
  <2>5. QED
    BY <2>1, <2>3, <2>4, RemoveAtIs
<1>7. QED
  BY <1>5, <1>6

LEMMA DeleteIs ==
  ASSUME NEW ls \in Seq(LineTexts), NEW i \in Nat, i + 1 \in 1 .. Len(ls), NEW cur \in Nat,
         NEW here \in Seq(Letters), here = ls[i + 1], cur # Len(here),
         NEW t, t = IF cur < Len(here) THEN Without(here, cur) ELSE here,
         NEW ls2, ls2 = [ls EXCEPT ![i + 1] = t],
         Sees(ls, i, cur), Sees(ls2, i, cur)'
  PROVE  Text!Delete
<1>1. /\ Lines(editor) = ls /\ Current(editor) + 1 = i + 1 /\ Cursor(editor) = cur
      /\ Lines(editor)' = ls2 /\ (Current(editor) + 1)' = i + 1 /\ Cursor(editor)' = cur
  BY DEF Sees
<1>2. Text!Here = here
  BY <1>1 DEF Text!Here
<1>3. PICK len \in Nat : len = Len(here)
  OBVIOUS
<1>4. CASE cur < len
  <2>1. cur + 1 + 1 = cur + 2 /\ ~(cur = len) /\ ~(cur > len)
    BY <1>4
  <2>2. Text!Before \o Text!Behind(1) = t
    BY <1>1, <1>2, <1>3, <1>4, <2>1 DEF Text!Before, Text!Behind, Without
  <2>3. Text!ReplaceAt(ls, i + 1, t) = ls2
    BY DEF Text!ReplaceAt
  <2>4. QED
    BY <1>1, <1>2, <1>3, <1>4, <2>1, <2>2, <2>3 DEF Text!Delete
<1>5. CASE cur > len
  <2>1. ~(cur = len) /\ ~(cur < len)
    BY <1>5
  <2>2. ls2 = ls
    BY <1>3, <2>1, SameLineIs
  <2>3. QED
    BY <1>1, <1>2, <1>3, <1>5, <2>1, <2>2 DEF Text!Delete
<1>6. QED
  BY <1>3, <1>4, <1>5

LEMMA BackspaceIs ==
  ASSUME NEW ls \in Seq(LineTexts), NEW i \in Nat, i + 1 \in 1 .. Len(ls), NEW cur \in Nat,
         NEW here \in Seq(Letters), here = ls[i + 1], cur # 0,
         NEW t, t = IF cur <= Len(here) THEN Without(here, cur - 1) ELSE here,
         NEW ls2, ls2 = [ls EXCEPT ![i + 1] = t],
         Sees(ls, i, cur), Sees(ls2, i, cur - 1)'
  PROVE  Text!Backspace
<1>1. /\ Lines(editor) = ls /\ Current(editor) + 1 = i + 1 /\ Cursor(editor) = cur
      /\ Lines(editor)' = ls2 /\ (Current(editor) + 1)' = i + 1 /\ Cursor(editor)' = cur - 1
  BY DEF Sees
<1>2. Text!Here = here /\ cur > 0
  BY <1>1 DEF Text!Here
<1>3. CASE cur <= Len(here)
  <2>1. cur - 1 + 2 = cur + 1 + 0
    OBVIOUS
  <2>2. SubSeq(here, 1, cur - 1) \o Text!Behind(0) = t
    BY <1>1, <1>2, <1>3, <2>1 DEF Text!Behind, Without
  <2>3. Text!ReplaceAt(ls, i + 1, t) = ls2
    BY DEF Text!ReplaceAt
  <2>4. QED
    BY <1>1, <1>2, <1>3, <2>2, <2>3 DEF Text!Backspace
<1>4. CASE ~(cur <= Len(here))
  <2>1. ls2 = ls
    BY <1>4, SameLineIs
  <2>2. QED
    BY <1>1, <1>2, <1>4, <2>1 DEF Text!Backspace
<1>5. QED
  BY <1>3, <1>4

LEMMA DeleteJoinIs ==
  ASSUME NEW ls \in Seq(LineTexts), NEW i \in Nat, i + 1 \in 1 .. Len(ls), NEW cur \in Nat,
         NEW here \in Seq(Letters), here = ls[i + 1], cur = Len(here),
         i + 1 < Len(ls), Len(ls[i + 1]) + Len(ls[i + 2]) < MaxLineLength,
         Sees(ls, i, cur), Sees(JoinedTexts(ls, i), i, cur)'
  PROVE  Text!Delete
<1>1. /\ Lines(editor) = ls /\ Current(editor) + 1 = i + 1 /\ Cursor(editor) = cur
      /\ Lines(editor)' = JoinedTexts(ls, i) /\ (Current(editor) + 1)' = i + 1
      /\ Cursor(editor)' = cur
  BY DEF Sees
<1>2. Text!Here = here
  BY <1>1 DEF Text!Here
<1>3. Text!CanJoin(i + 1) /\ Text!Joined(i + 1) = JoinedTexts(ls, i)
  BY <1>1, JoinTextIs
<1>4. ~(cur < Len(here)) /\ ~(cur > Len(here))
  OBVIOUS
<1>5. QED
  BY <1>1, <1>2, <1>3, <1>4 DEF Text!Delete

LEMMA BackspaceJoinIs ==
  ASSUME NEW ls \in Seq(LineTexts), NEW i \in Nat, NEW k \in Nat, i = k + 1, i < Len(ls),
         Len(ls[i]) + Len(ls[i + 1]) < MaxLineLength,
         Sees(ls, i, 0), Sees(JoinedTexts(ls, k), k, Len(ls[i]))'
  PROVE  Text!Backspace
<1>1. k + 2 = i + 1 /\ i + 1 - 1 = i
  OBVIOUS
<1>2. /\ Lines(editor) = ls /\ Current(editor) + 1 = i + 1 /\ Cursor(editor) = 0
      /\ Lines(editor)' = JoinedTexts(ls, k) /\ (Current(editor) + 1)' = i
      /\ Cursor(editor)' = Len(ls[i])
  BY DEF Sees
<1>3. Text!CanJoin(i) /\ Text!Joined(i) = JoinedTexts(ls, k)
  <2>1. k + 1 < Len(ls) /\ Len(ls[k + 1]) + Len(ls[k + 2]) < MaxLineLength
    BY <1>1
  <2>2. Text!CanJoin(k + 1) /\ Text!Joined(k + 1) = JoinedTexts(ls, k)
    BY <1>2, <2>1, JoinTextIs
  <2>3. QED
    BY <2>2
<1>4. QED
  BY <1>1, <1>2, <1>3 DEF Text!Backspace

LEMMA WanderIs ==
  ASSUME NEW ls \in Seq(LineTexts), NEW i \in Nat, i + 1 \in 1 .. Len(ls), NEW cur \in Nat,
         NEW here \in Seq(Letters), here = ls[i + 1], NEW i2, NEW cur2,
         Wanders(ls, here, i, cur, i2, cur2), Sees(ls, i, cur), Sees(ls, i2, cur2)'
  PROVE  Text!Vertical \/ Text!Horizontal \/ UNCHANGED Text!text
<1>1. /\ Lines(editor) = ls /\ Current(editor) + 1 = i + 1 /\ Cursor(editor) = cur
      /\ Lines(editor)' = ls /\ (Current(editor) + 1)' = i2 + 1 /\ Cursor(editor)' = cur2
  BY DEF Sees
<1>2. Text!Here = here
  BY <1>1 DEF Text!Here
<1>3. CASE i2 = i /\ cur2 = cur
  BY <1>1, <1>3 DEF Text!text
<1>4. CASE Vertically(ls, i, cur, i2, cur2)
  <2>1. i2 \in {i - 1, i + 1} /\ i2 \in 0 .. Len(ls) - 1 /\ cur2 <= cur
    BY <1>4 DEF Vertically
  <2>2. i2 + 1 \in {i + 1 - 1, i + 1 + 1} /\ i2 + 1 \in 1 .. Len(ls) /\ DOMAIN ls = 1 .. Len(ls)
    BY <2>1
  <2>3. QED
    BY <1>1, <2>1, <2>2 DEF Text!Vertical
<1>5. CASE Horizontally(here, i, cur, i2, cur2)
  <2>1. /\ i2 = i
        /\ \/ cur2 = cur - 1 /\ cur > 0
           \/ cur2 = cur + 1 /\ cur # Len(here)
           \/ cur2 = 0
           \/ cur2 = Len(here)
    BY <1>5 DEF Horizontally
  <2>2. /\ cur2 \in {cur - 1, cur + 1, 0, Len(here)}
        /\ cur2 = cur - 1 => cur > 0
        /\ cur2 = cur + 1 => cur # Len(here)
    BY <2>1
  <2>3. QED
    BY <1>1, <1>2, <2>1, <2>2 DEF Text!Horizontal
<1>6. QED
  BY <1>3, <1>4, <1>5 DEF Wanders

-----------------------------------------------------------------------------
(***************************************************************************)
(* A behaviour of the editor is one of TextBuffer.                         *)
(***************************************************************************)
LEMMA TextStarts ==
  ASSUME Init
  PROVE  Text!Init
<1> USE EditorAssumption
<1>1. Sound(editor) /\ Tidy(editor) /\ InSlot(editor)
  BY StartsSound DEF EditorInvariant
<1>2. editor.top = 0 /\ editor.row = 0 /\ editor.left = 0 /\ editor.col = 0
  <2>1. PICK bytes \in Documents, fails \in BOOLEAN :
          editor = Redrawn(readFile(Empty, bytes, fails), 1, LinesHeight)
    BY DEF Init
  <2>2. PICK d : d = readFile(Empty, bytes, fails)
    OBVIOUS
  <2>3. Loaded(d)
    BY <2>2, ReadFileLoads
  <2>4. ShowsBut(d, 1, LinesHeight)
    BY DEF ShowsBut
  <2>5. IsData(d) /\ 1 \in Int /\ LinesHeight \in Int /\ editor = Redrawn(d, 1, LinesHeight)
    BY <2>1, <2>2, <2>3 DEF Loaded
  <2>6. SameCursor(d, editor)
    BY <2>4, <2>5, RedrawnTidies
  <2>7. QED
    BY <2>3, <2>6 DEF Loaded, SameCursor
<1>3. Current(editor) = 0 /\ Cursor(editor) = 0
  BY <1>2 DEF Current, Cursor
<1>4. PICK ls : ls = Lines(editor)
  OBVIOUS
<1>5. Represents(editor, ls) /\ editor.count \in 1 .. MaxLines
  BY <1>1, <1>4, SoundRepresents DEF Sound, Position
<1>6. PICK count \in Nat : count = editor.count /\ count \in 1 .. MaxLines
  BY <1>5
<1>7. ls \in Seq(LineTexts) /\ Len(ls) = count
  BY <1>5, <1>6 DEF Represents
<1>8. ls # <<>> /\ Len(ls) <= MaxLines
  BY <1>6, <1>7
<1>9. ASSUME NEW l \in DOMAIN ls
      PROVE  Text!Fits(ls[l])
  <2>1. l \in 1 .. count
    BY <1>7
  <2>2. PICK i \in 0 .. count - 1 : i + 1 = l
    <3>1. l - 1 \in 0 .. count - 1 /\ (l - 1) + 1 = l
      BY <1>6, <2>1
    <3>2. QED
      BY <3>1
  <2>3. Holds(getLineAt(editor, i), ls[l])
    BY <1>5, <1>6, <2>2 DEF Represents
  <2>4. QED
    BY <2>3 DEF Holds, Text!Fits
<1>10. QED
  BY <1>3, <1>4, <1>8, <1>9 DEF Text!Init

\* What TextBuffer is in a state, and after a key.
LEMMA SeesIs ==
  ASSUME NEW ls, NEW i, NEW cur, NEW here, State(editor, ls, i, cur, here)
  PROVE  /\ Sees(ls, i, cur)
         /\ ls \in Seq(LineTexts) /\ i \in Nat /\ i + 1 \in 1 .. Len(ls) /\ cur \in Nat
         /\ here \in Seq(Letters) /\ here = ls[i + 1]
<1>1. /\ Shown(editor, ls, i, cur) /\ i \in 0 .. editor.count - 1 /\ i \in Nat
      /\ editor.count = Len(ls) /\ cur \in Nat /\ here \in Seq(Letters) /\ here = ls[i + 1]
  BY DEF State
<1>2. ls \in Seq(LineTexts)
  BY <1>1 DEF Shown, Represents
<1>3. Len(ls) \in Nat /\ i \in 0 .. Len(ls) - 1
  BY <1>1, <1>2
<1>4. i + 1 \in 1 .. Len(ls)
  BY <1>3
<1>5. Sees(ls, i, cur)
  BY <1>1, ShownIs DEF Sees
<1>6. QED
  BY <1>1, <1>2, <1>4, <1>5

LEMMA SeenNext ==
  ASSUME NEW ls, NEW i, NEW cur, NEW e, Shown(e, ls, i, cur), editor' = e
  PROVE  Sees(ls, i, cur)'
<1>1. Lines(e) = ls /\ Current(e) = i /\ Cursor(e) = cur
  BY ShownIs
<1>2. QED
  BY <1>1 DEF Sees

LEMMA TypeImplements ==
  ASSUME NEW ls, NEW i, NEW cur, NEW here, State(editor, ls, i, cur, here),
         NEW c \in Chars, TypeKey(c)
  PROVE  Text!Next \/ UNCHANGED Text!text
<1>1. PICK e : e = Character(editor, c) /\ editor' = e
  BY DEF TypeKey, Edit
<1>2. CASE Full(editor)
  <2>1. editor' = editor
    BY <1>1, <1>2 DEF Character
  <2>2. QED
    BY <2>1 DEF Text!text
<1>3. CASE ~Full(editor)
  <2>1. cur < MaxLineLength - 1
    <3>1. Cursor(editor) < MaxLineLength - 1
      BY <1>3 DEF TypeKey
    <3>2. QED
      BY <3>1 DEF State, Shown
  <2>2. PICK t, ls2, cur2 : /\ t = IF cur <= Len(here) THEN With(here, cur, c) ELSE here
                            /\ ls2 = [ls EXCEPT ![i + 1] = t] /\ cur2 = cur + 1
    OBVIOUS
  <2>3. Shown(e, ls2, i, cur2) /\ Len(here) + 1 < MaxLineLength
    BY <1>1, <1>3, <2>1, <2>2, CharacterShows
  <2>4. Sees(ls2, i, cur2)'
    BY <1>1, <2>3, SeenNext
  <2>5. c \in Letters
    BY TextIsLetters
  <2>6. Text!Type(c)
    BY <2>2, <2>3, <2>4, <2>5, SeesIs, TypeIs
  <2>7. QED
    BY <2>6 DEF Text!Next
<1>4. QED
  BY <1>2, <1>3

LEMMA EnterImplements ==
  ASSUME NEW ls, NEW i, NEW cur, NEW here, State(editor, ls, i, cur, here), InSlot(editor),
         EnterKey
  PROVE  Text!Next \/ UNCHANGED Text!text
<1>1. PICK e : e = Enter(editor) /\ editor' = e
  BY DEF EnterKey, Edit
<1>2. PICK count \in Nat : count = editor.count /\ count = Len(ls) /\ MaxLines \in Nat
  <2>1. editor.count = Len(ls) /\ Len(ls) \in Nat
    BY SeesIs DEF State
  <2>2. MaxLines \in Nat
    BY EditorAssumption
  <2>3. QED
    BY <2>1, <2>2
<1>3. CASE count >= MaxLines
  <2>1. editor' = editor
    BY <1>1, <1>2, <1>3 DEF Enter
  <2>2. QED
    BY <2>1 DEF Text!text
<1>4. CASE count < MaxLines
  <2>0. editor.count < MaxLines
    BY <1>2, <1>4
  <2>1. PICK s, t : /\ EnterTexts(here, cur, s, t)
                    /\ Shown(e, With([ls EXCEPT ![i + 1] = t], i + 1, s), i + 1, 0)
    BY <1>1, <2>0, EnterShows
  <2>2. PICK ls2, i2, cur2 : /\ ls2 = With([ls EXCEPT ![i + 1] = t], i + 1, s)
                             /\ i2 = i + 1 /\ cur2 = 0
    OBVIOUS
  <2>3. Sees(ls2, i2, cur2)'
    BY <1>1, <2>1, <2>2, SeenNext
  <2>4. /\ Sees(ls, i, cur) /\ Sees(ls2, i + 1, 0)' /\ Len(ls) < MaxLines
        /\ ls \in Seq(LineTexts) /\ i \in Nat /\ i + 1 \in 1 .. Len(ls) /\ cur \in Nat
        /\ here \in Seq(Letters) /\ here = ls[i + 1]
    BY <1>2, <1>4, <2>2, <2>3, SeesIs
  <2>5. Text!Enter
    BY <2>1, <2>2, <2>4, EnterIs
  <2>6. QED
    BY <2>5 DEF Text!Next
<1>5. QED
  BY <1>2, <1>3, <1>4

LEMMA DeleteImplements ==
  ASSUME NEW ls, NEW i, NEW cur, NEW here, State(editor, ls, i, cur, here), DeleteKey
  PROVE  Text!Next \/ UNCHANGED Text!text
<1>1. PICK e : e = Delete(editor) /\ editor' = e
  BY DEF DeleteKey, Edit
<1>2. Current(editor) = i /\ Cursor(editor) = cur /\ getCurrentLength(editor) = Len(here)
  BY DEF State, Shown
<1>3. CASE cur # Len(here)
  <2>1. PICK t, ls2 : /\ t = IF cur < Len(here) THEN Without(here, cur) ELSE here
                      /\ ls2 = [ls EXCEPT ![i + 1] = t]
    OBVIOUS
  <2>2. Shown(e, ls2, i, cur)
    BY <1>1, <1>3, <2>1, DeleteShows
  <2>3. Sees(ls2, i, cur)'
    BY <1>1, <2>2, SeenNext
  <2>4. /\ Sees(ls, i, cur)
        /\ ls \in Seq(LineTexts) /\ i \in Nat /\ i + 1 \in 1 .. Len(ls) /\ cur \in Nat
        /\ here \in Seq(Letters) /\ here = ls[i + 1]
    BY SeesIs
  <2>5. Text!Delete
    BY <1>3, <2>1, <2>3, <2>4, DeleteIs
  <2>6. QED
    BY <2>5 DEF Text!Next
<1>4. CASE cur = Len(here) /\ CanJoin(editor, i)
  <2>1. PICK ls2 : ls2 = JoinedTexts(ls, i)
    OBVIOUS
  <2>2. /\ Shown(e, ls2, i, cur)
        /\ i + 1 < Len(ls) /\ Len(ls[i + 1]) + Len(ls[i + 2]) < MaxLineLength
    BY <1>1, <1>4, <2>1, DeleteJoins
  <2>3. Sees(ls2, i, cur)'
    BY <1>1, <2>2, SeenNext
  <2>4. Text!Delete
    BY <1>4, <2>1, <2>2, <2>3, SeesIs, DeleteJoinIs
  <2>5. QED
    BY <2>4 DEF Text!Next
<1>5. CASE cur = Len(here) /\ ~CanJoin(editor, i)
  <2>1. editor' = editor
    BY <1>1, <1>2, <1>5 DEF Delete
  <2>2. QED
    BY <2>1 DEF Text!text
<1>6. QED
  BY <1>3, <1>4, <1>5

LEMMA BackspaceImplements ==
  ASSUME NEW ls, NEW i, NEW cur, NEW here, State(editor, ls, i, cur, here), BackspaceKey
  PROVE  Text!Next \/ UNCHANGED Text!text
<1>1. PICK e : e = Backspace(editor) /\ editor' = e
  BY DEF BackspaceKey, Edit
<1>2. Current(editor) = i /\ Cursor(editor) = cur
  BY DEF State, Shown
<1>3. CASE cur # 0
  <2>1. PICK t, ls2, cur2 : /\ t = IF cur <= Len(here) THEN Without(here, cur - 1) ELSE here
                            /\ ls2 = [ls EXCEPT ![i + 1] = t] /\ cur2 = cur - 1
    OBVIOUS
  <2>2. Shown(e, ls2, i, cur2)
    BY <1>1, <1>3, <2>1, BackspaceShows
  <2>3. Sees(ls2, i, cur2)'
    BY <1>1, <2>2, SeenNext
  <2>4. Text!Backspace
    BY <1>3, <2>1, <2>3, SeesIs, BackspaceIs
  <2>5. QED
    BY <2>4 DEF Text!Next
<1>4. CASE cur = 0 /\ CanJoin(editor, i - 1)
  <2>1. PICK k, ls2, cur2 : k = i - 1 /\ ls2 = JoinedTexts(ls, k) /\ cur2 = Len(ls[i])
    OBVIOUS
  <2>2. /\ k \in Nat /\ Shown(e, ls2, k, cur2)
        /\ i < Len(ls) /\ Len(ls[i]) + Len(ls[i + 1]) < MaxLineLength
    BY <1>1, <1>4, <2>1, BackspaceJoins
  <2>3. Sees(ls2, k, cur2)'
    BY <1>1, <2>2, SeenNext
  <2>4. i \in Nat /\ i = k + 1
    <3>1. i \in Nat
      BY SeesIs
    <3>2. QED
      BY <2>1, <3>1
  <2>5. Sees(ls, i, 0) /\ ls \in Seq(LineTexts)
    BY <1>4, SeesIs
  <2>6. Text!Backspace
    BY <2>1, <2>2, <2>3, <2>4, <2>5, BackspaceJoinIs
  <2>7. QED
    BY <2>6 DEF Text!Next
<1>5. CASE cur = 0 /\ ~CanJoin(editor, i - 1)
  <2>1. editor' = editor
    BY <1>1, <1>2, <1>5 DEF Backspace
  <2>2. QED
    BY <2>1 DEF Text!text
<1>6. QED
  BY <1>3, <1>4, <1>5

LEMMA MoveImplements ==
  ASSUME NEW ls, NEW i, NEW cur, NEW here, State(editor, ls, i, cur, here), MoveKey
  PROVE  Text!Next \/ UNCHANGED Text!text
<1>1. PICK e \in {Up(editor), Down(editor), Left(editor), Right(editor),
                  Home(editor), End(editor)} : editor' = e
  BY DEF MoveKey, Move
<1>2. PICK i2, cur2 : Shown(e, ls, i2, cur2) /\ Wanders(ls, here, i, cur, i2, cur2)
  <2>1. CASE e = Up(editor)
    BY <2>1, UpShows
  <2>2. CASE e = Down(editor)
    BY <2>2, DownShows
  <2>3. CASE e = Left(editor)
    BY <2>3, LeftKeyShows
  <2>4. CASE e = Right(editor)
    BY <2>4, RightKeyShows
  <2>5. CASE e = Home(editor)
    BY <2>5, HomeShows
  <2>6. CASE e = End(editor)
    BY <2>6, EndShows
  <2>7. QED
    BY <1>1, <2>1, <2>2, <2>3, <2>4, <2>5, <2>6
<1>3. Sees(ls, i2, cur2)'
  BY <1>1, <1>2, SeenNext
<1>4. Text!Vertical \/ Text!Horizontal \/ UNCHANGED Text!text
  BY <1>2, <1>3, SeesIs, WanderIs
<1>5. QED
  BY <1>4 DEF Text!Next

LEMMA TextSteps ==
  ASSUME EditorInvariant, [Next]_vars
  PROVE  Text!Next \/ UNCHANGED Text!text
<1>1. PICK ls, i, cur : ls = Lines(editor) /\ i = Current(editor) /\ cur = Cursor(editor)
  OBVIOUS
<1>2. PICK here : here = ls[i + 1]
  OBVIOUS
<1>3. Sound(editor) /\ Tidy(editor) /\ InSlot(editor)
  BY DEF EditorInvariant
<1>4. State(editor, ls, i, cur, here)
  BY <1>1, <1>2, <1>3, StateIs
<1>5. ASSUME NEW c \in Chars, TypeKey(c)
      PROVE  Text!Next \/ UNCHANGED Text!text
  BY <1>4, <1>5, TypeImplements
<1>6. CASE EnterKey
  BY <1>3, <1>4, <1>6, EnterImplements
<1>7. CASE DeleteKey
  BY <1>4, <1>7, DeleteImplements
<1>8. CASE BackspaceKey
  BY <1>4, <1>8, BackspaceImplements
<1>9. CASE MoveKey
  BY <1>4, <1>9, MoveImplements
<1>10. CASE UNCHANGED vars
  <2>1. editor' = editor
    BY <1>10 DEF vars
  <2>2. QED
    BY <2>1 DEF Text!text
<1>11. QED
  BY <1>5, <1>6, <1>7, <1>8, <1>9, <1>10 DEF Next

\* To the user the editor is a list of lines and a cursor: every key of run
\* changes the text at the cursor and nowhere else, or does nothing, however
\* the slots, the index and the scrolling lie (addChar, splitLine, both joins,
\* deleteChar, moveUp, moveDown).
THEOREM EditorImplementsText == Spec => ImplementsText
<1>1. Init => Text!Init
  BY TextStarts
<1>2. EditorInvariant /\ [Next]_vars => [Text!Next]_(Text!text)
  BY TextSteps
<1>3. QED
  BY <1>1, <1>2, EditorStaysSound, PTL DEF Spec, ImplementsText, Text!Spec
=============================================================================
