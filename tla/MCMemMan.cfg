CONSTANTS
  Word = 64
  SIZEOF = 2
  Ceiling = 20
  LoadEnds = {1}
  FirstRequests = {1, 16, 30}
  Requests = {1, 3, 6}
  WrongPointers = {0, 8}
  MaxBoots = 1
SPECIFICATION Spec
INVARIANTS
  TypeOK
  HeldIsLinked
  AnswersAreExact
  GrantIsRam
PROPERTIES
  DataIsKept
  CallsReturn
  Allocates
