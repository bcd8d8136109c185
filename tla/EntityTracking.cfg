SPECIFICATION Spec
CONSTANTS
  Observers = {o1, o2}
  Q = 3
  Half = 2
  Spawn = 0
  Positions <- MCPositions
  MaxMoves = 3
INVARIANTS
  DriftBounded
  ObserversAgree
