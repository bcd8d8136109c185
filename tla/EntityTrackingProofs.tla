------------------------- MODULE EntityTrackingProofs -------------------------
(***************************************************************************)
(* How far observers are off, for every number of units to a step, every   *)
(* history of moves and every order of joining.                            *)
(***************************************************************************)
EXTENDS EntityTracking, TLAPS

TypeOK ==
  /\ pos \in Int
  /\ joined \subseteq Observers
  /\ view \in [Observers -> Int]
  /\ moves \in [Observers -> Nat]

Tracked == TypeOK /\ DriftBounded /\ ObserversAgree

(* What the conversion to i16 cuts off is less than a step.                *)
LEMMA TruncatedNear ==
  ASSUME NEW d \in Int
  PROVE  /\ Truncated(d) \in Int
         /\ Near(Q * Truncated(d), d, Q - 1)
<1>1. ASSUME NEW n \in Nat
      PROVE  n \div Q \in Nat /\ 0 <= n - Q * (n \div Q) /\ n - Q * (n \div Q) <= Q - 1
  BY SMT, TrackingAssumption
<1>2. CASE d >= 0
  <2>1. d \in Nat /\ Truncated(d) = d \div Q
    BY SMT, <1>2 DEF Truncated
  <2>2. QED
    BY SMT, <1>1, <2>1, TrackingAssumption DEF Near
<1>3. CASE ~(d >= 0)
  <2>1. -d \in Nat /\ Truncated(d) = -((-d) \div Q)
    BY SMT, <1>3 DEF Truncated
  <2> DEFINE n == (-d) \div Q
  <2>2. n \in Nat /\ 0 <= (-d) - Q * n /\ (-d) - Q * n <= Q - 1
    BY <1>1, <2>1
  <2> HIDE DEF n
  <2>3. Truncated(d) = -n
    BY <2>1 DEF n
  <2>4. QED
    BY SMT, <2>2, <2>3, TrackingAssumption DEF Near
<1>4. QED
  BY <1>2, <1>3

LEMMA FixedInt ==
  ASSUME NEW m \in Int, NEW d \in Fixed(m)
  PROVE  /\ d \in Int
         /\ Fits(m) => d = Truncated(m)
BY SMT, TruncatedNear, TrackingAssumption DEF Fixed

(* One more move is one more loss.                                         *)
LEMMA OneMore ==
  ASSUME NEW a \in Int, NEW b \in Int, NEW c \in Int, NEW e \in Int, NEW n \in Nat,
         Near(a, b, n * (Q - 1)), Near(c, e, Q - 1)
  PROVE  Near(a + c, b + e, (n + 1) * (Q - 1))
BY SMT, TrackingAssumption DEF Near

LEMMA TrackedInit ==
  ASSUME Init
  PROVE  Tracked
<1>1. TypeOK
  BY SMT, TrackingAssumption DEF Init, TypeOK
<1>2. DriftBounded /\ ObserversAgree
  BY SMT, TrackingAssumption DEF Init, DriftBounded, ObserversAgree, Near
<1>3. QED
  BY <1>1, <1>2 DEF Tracked

LEMMA TrackedMove ==
  ASSUME Tracked, NEW new \in Positions, MovePlayerPos(new)
  PROVE  Tracked'
<1>1. PICK d \in Fixed(new - pos) :
        view' = [o \in Observers |-> IF o \in joined THEN view[o] + Q * d ELSE view[o]]
  BY DEF MovePlayerPos
<1>2. new \in Int /\ pos \in Int /\ pos' = new /\ joined' = joined /\ new - pos \in Int
  BY SMT, TrackingAssumption DEF MovePlayerPos, NewPos, Tracked, TypeOK
<1>3. d \in Int /\ (Fits(new - pos) => d = Truncated(new - pos))
  BY <1>1, <1>2, FixedInt
<1>4. Q * d \in Int
  BY SMT, <1>3, TrackingAssumption
<1>5. TypeOK'
  BY SMT, <1>1, <1>2, <1>4 DEF MovePlayerPos, Tracked, TypeOK
<1>6. ASSUME NEW o \in joined
      PROVE  /\ view[o] \in Int /\ view'[o] = view[o] + Q * d
             /\ moves[o] \in Nat /\ moves'[o] = moves[o] + 1
  BY <1>1, <1>6 DEF MovePlayerPos, Tracked, TypeOK
<1>7. ASSUME NEW o \in joined', o \notin jumped'
      PROVE  o \in joined \ jumped /\ Fits(new - pos)
  BY <1>2, <1>7 DEF MovePlayerPos
<1>8. DriftBounded'
  <2> SUFFICES ASSUME NEW o \in joined' \ jumped'
               PROVE  Near(view'[o], pos', moves'[o] * (Q - 1))
    BY DEF DriftBounded, Near
  <2>1. o \in joined \ jumped /\ d = Truncated(new - pos)
    BY <1>3, <1>7
  <2>2. Near(view[o], pos, moves[o] * (Q - 1))
    BY <2>1 DEF Tracked, DriftBounded
  <2>3. Near(Q * d, new - pos, Q - 1)
    BY <1>2, <2>1, TruncatedNear
  <2>4. Near(view[o] + Q * d, pos + (new - pos), (moves[o] + 1) * (Q - 1))
    BY <1>2, <1>4, <1>6, <2>1, <2>2, <2>3, OneMore
  <2>5. pos + (new - pos) = new
    BY SMT, <1>2
  <2>6. QED
    BY <1>2, <1>6, <2>1, <2>4, <2>5
<1>9. ObserversAgree'
  <2> SUFFICES ASSUME NEW o \in joined' \ jumped', NEW p \in joined' \ jumped',
                      moves'[o] >= moves'[p]
               PROVE  Near(view'[o], view'[p], (moves'[o] - moves'[p]) * (Q - 1))
    BY DEF ObserversAgree, Near
  <2>1. o \in joined \ jumped /\ p \in joined \ jumped
    BY <1>7
  <2>2. /\ moves[o] >= moves[p]
        /\ moves'[o] - moves'[p] = moves[o] - moves[p]
    BY SMT, <1>6, <2>1
  <2>3. Near(view[o], view[p], (moves[o] - moves[p]) * (Q - 1))
    BY <2>1, <2>2 DEF Tracked, ObserversAgree
  <2>4. view'[o] - view'[p] = view[o] - view[p]
    BY SMT, <1>4, <1>6, <2>1
  <2>5. QED
    BY <2>2, <2>3, <2>4 DEF Near
<1>10. QED
  BY <1>5, <1>8, <1>9 DEF Tracked

LEMMA TrackedJoin ==
  ASSUME Tracked, NEW q \in Observers, Join(q)
  PROVE  Tracked'
<1>1. TypeOK'
  BY SMT DEF Join, Announced, Tracked, TypeOK
<1>2. /\ view'[q] = pos /\ moves'[q] = 0 /\ pos' = pos
      /\ \A o \in Observers \ {q} : view'[o] = view[o] /\ moves'[o] = moves[o]
      /\ joined' \ jumped' = (joined \ jumped) \cup {q}
  BY DEF Join, Announced, Tracked, TypeOK
<1>3. \A o \in joined \ jumped : o \in Observers \ {q}
  BY DEF Join, Tracked, TypeOK
<1>4. /\ pos \in Int
      /\ \A o \in Observers : view[o] \in Int /\ moves[o] \in Nat
  BY DEF Tracked, TypeOK
<1>5. /\ 0 * (Q - 1) = 0 /\ (0 - 0) * (Q - 1) = 0
      /\ Near(pos, pos, 0)
      /\ \A n \in Nat : n - 0 = n
  BY SMT, <1>4, TrackingAssumption DEF Near
<1>6. \A o \in joined \ jumped : Near(view[o], pos, moves[o] * (Q - 1))
  BY DEF Tracked, DriftBounded
<1>7. DriftBounded'
  <2> SUFFICES ASSUME NEW o \in joined' \ jumped'
               PROVE  Near(view'[o], pos', moves'[o] * (Q - 1))
    BY DEF DriftBounded, Near
  <2>1. CASE o = q
    BY <1>2, <1>5, <2>1
  <2>2. CASE o \in joined \ jumped
    BY <1>2, <1>3, <1>6, <2>2
  <2>3. QED
    BY <1>2, <2>1, <2>2
<1>8. ObserversAgree'
  <2> SUFFICES ASSUME NEW o \in joined' \ jumped', NEW p \in joined' \ jumped',
                      moves'[o] >= moves'[p]
               PROVE  Near(view'[o], view'[p], (moves'[o] - moves'[p]) * (Q - 1))
    BY DEF ObserversAgree, Near
  <2>1. CASE o = q /\ p = q
    BY <1>2, <1>5, <2>1
  <2>2. CASE o # q /\ p = q
    <3>1. o \in joined \ jumped
      BY <1>2, <2>2
    <3>2. QED
      BY <1>2, <1>3, <1>4, <1>5, <1>6, <2>2, <3>1
  <2>3. CASE o = q /\ p # q
    <3>1. p \in joined \ jumped /\ p \in Observers \ {q}
      BY <1>2, <1>3, <2>3
    <3>2. moves[p] = 0
      BY SMT, <1>2, <1>4, <2>3, <3>1
    <3>3. Near(view[p], pos, 0)
      BY <1>5, <1>6, <3>1, <3>2
    <3>4. Near(pos, view[p], 0)
      BY SMT, <1>4, <3>1, <3>3 DEF Near
    <3>5. QED
      BY <1>2, <1>5, <2>3, <3>1, <3>2, <3>4
  <2>4. CASE o # q /\ p # q
    <3>1. o \in joined \ jumped /\ p \in joined \ jumped
      BY <1>2, <2>4
    <3>2. QED
      BY <1>2, <1>3, <3>1 DEF Tracked, ObserversAgree
  <2>5. QED
    BY <2>1, <2>2, <2>3, <2>4
<1>9. QED
  BY <1>1, <1>7, <1>8 DEF Tracked

LEMMA TrackedNext ==
  ASSUME Tracked, [Next]_vars
  PROVE  Tracked'
<1>1. ASSUME NEW o \in Observers, Leave(o)
      PROVE  Tracked'
  BY <1>1 DEF Leave, Tracked, TypeOK, DriftBounded, ObserversAgree, Near
<1>2. CASE UNCHANGED vars
  BY <1>2 DEF vars, Tracked, TypeOK, DriftBounded, ObserversAgree, Near
<1>3. QED
  BY <1>1, <1>2, TrackedMove, TrackedJoin DEF Next

LEMMA TrackingInvariant == Spec => []Tracked
<1>1. Init => Tracked
  BY TrackedInit
<1>2. Tracked /\ [Next]_vars => Tracked'
  BY TrackedNext
<1>3. QED
  BY <1>1, <1>2, PTL DEF Spec

(* An observer is off by less than one step for every move it has seen.    *)
THEOREM DriftIsBounded == Spec => []DriftBounded
<1>1. Tracked => DriftBounded
  BY DEF Tracked
<1>2. QED
  BY <1>1, TrackingInvariant, PTL

(* Two observers disagree by less than one step for every move that only   *)
(* one of them has seen.                                                   *)
THEOREM ObserversStayClose == Spec => []ObserversAgree
<1>1. Tracked => ObserversAgree
  BY DEF Tracked
<1>2. QED
  BY <1>1, TrackingInvariant, PTL
=============================================================================
