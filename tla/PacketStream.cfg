SPECIFICATION FairSpec
CONSTANTS
  Continue = 2
  MaxSize = 4
  Prefix <- MCPrefix
  Payloads <- MCPayloads
  Garbage = 9
  ReadSize = 4
  MaxPackets = 3
  MaxClients = 2
INVARIANTS
  InOrder
  NoneWithheld
  WritesInside
PROPERTIES
  ImplementsChannel
  AllDelivered
