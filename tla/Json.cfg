SPECIFICATION JsonSpec
CONSTANTS
  MaxItems = 5
  Names <- MCNames
  Strings <- MCStrings
  Numbers <- MCNumbers
  BufferSize = 4
  NestingLimit = 3
INVARIANTS
  TypeOK
  WellLinked
  NothingLost
  PrintsInside
  PrintedIsDocument
  ParsesBack
  ParsesWholeOrNot
  NbtReadsBack
PROPERTIES
  ImplementsDocument
