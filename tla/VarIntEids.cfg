\* Seven-bit segments, sixteen-bit ints, every entity id.
SPECIFICATION Spec
CONSTANTS
  Continue = 128
  IntRange = 65536
  MAX_VARINT_LEN = 3
  Values <- AllInts
  Received = {}
  NoInput = NoInput
INVARIANTS
  EveryEidEncodable
