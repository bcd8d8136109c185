\* Varints: two-bit segments, five-bit ints: every int, every received
\* sequence of up to four bytes.  Fields: two-bit bytes, so that x and z
\* have six bits and y has four.
SPECIFICATION MCSpec
CONSTANTS
  Continue = 4
  IntRange = 32
  MAX_VARINT_LEN = 3
  Values <- AllInts
  Received <- AllReceived
  NoInput = NoInput
  FieldValues <- BoundaryValues
  Byte = 4
  XZ = 64
  Y = 16
  MaxFields = 2
INVARIANTS
  RoundTrip
  EncodingAccepted
  Shortest
  ReaderBounded
  FieldsUnderstood
  ReplyOnTheWire
