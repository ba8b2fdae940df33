CONSTANTS
  MaxLines = 4
  MaxLineLength = 4
  Width = 2
  LinesHeight = 2
  Chars = {"x"}
  Nul = "NUL"
  Documents <- MCDocuments
  ReadFailed <- MCReadFailed
  Edits = 3
SPECIFICATION Spec
INVARIANTS
  TypeOK
  SlotsPartition
  ScreenShowsText
PROPERTIES
  ImplementsText
