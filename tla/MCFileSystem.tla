---------------------------- MODULE MCFileSystem ----------------------------
EXTENDS FileSystem, TLC

\* Boot sector 0, FAT in sectors 1-4, root directory in 5-6, data from 7:
\* cluster n has sectors 7 + 2 (n - 2) and the next.
NoEntries == [i \in 0 .. 2 |-> Closed]
File(name, block, size) == [kind |-> "file", name |-> name, block |-> block, size |-> size]
Dir(name, block) == [kind |-> "dir", name |-> name, block |-> block, size |-> 0]
Other(kind) == [Closed EXCEPT !.kind = kind]
Sector(a, b, d) == [i \in 0 .. 2 |-> <<a, b, d>>[i + 1]]

MCNames == {".", "..", "A", "B", "D", "E", "X"}
MCFat == [k \in 0 .. 5 |-> IF k = 4 THEN 2 ELSE 0]
MCEntries ==
  [s \in 0 .. 14 |->
     CASE s = 5 -> Sector(Other("skipped"), File("A", 4, 10), Other("deleted"))
       [] s = 6 -> Sector(Dir("D", 3), File("E", 0, 0), Other("end"))
       [] s = 9 -> Sector(Dir(".", 3), Dir("..", 0), File("B", 5, 6))
       [] OTHER -> NoEntries]
Path(absolute, names) == [absolute |-> absolute, names |-> names, behind |-> <<>>]
GoesOn(p, names) == [p EXCEPT !.behind = names]
MCPaths ==
  {Path(TRUE, <<>>), Path(TRUE, <<"A">>), Path(FALSE, <<"D">>), Path(TRUE, <<"D", "B">>),
   Path(FALSE, <<"D", "..", ".", "E">>), Path(FALSE, <<".", "B">>), Path(FALSE, <<"..">>),
   Path(TRUE, <<"X">>), Path(TRUE, <<Invalid>>),
   GoesOn(Path(FALSE, <<"..">>), <<"D", "B">>), GoesOn(Path(FALSE, <<".">>), <<"E">>),
   GoesOn(Path(TRUE, <<"D">>), <<"B">>)}
=============================================================================
