---------------------------- MODULE EntityTracking ----------------------------
(***************************************************************************)
(* Where the other clients see a player: add_entity tells a position, and  *)
(* move_player_pos tells differences, cut to 1/4096 of a block and stored  *)
(* in an i16.  One axis; the three are alike.  Positions are in units of   *)
(* 1/(4096 * Q) block.                                                     *)
(***************************************************************************)
EXTENDS Integers

CONSTANTS
  Observers,   \* the other clients
  Q,           \* units of a position to one of a difference
  Half,        \* half the range of an i16, 2^15
  Spawn,       \* where a player joins
  Positions,   \* positions a client sends
  MaxMoves     \* bound: moves that an observer sees

ASSUME TrackingAssumption ==
  /\ Q \in Nat /\ Q > 0
  /\ Half \in Nat /\ Half > 0
  /\ Spawn \in Int /\ Positions \subseteq Int
  /\ MaxMoves \in Nat

VARIABLES
  pos,      \* client->player.pos
  joined,   \* observers who have been told of the player
  view,     \* where an observer sees the player
  moves,    \* moves an observer has seen
  jumped    \* observers who have seen a move that no i16 holds

vars == <<pos, joined, view, moves, jumped>>

(* finish_configuration of the player: announced to those who are there.   *)
Init ==
  /\ pos = Spawn
  /\ joined \in SUBSET Observers
  /\ view = [o \in Observers |-> Spawn]
  /\ moves = [o \in Observers |-> 0]
  /\ jumped = {}

(* The conversion to i16 rounds towards zero.                              *)
Truncated(d) == IF d >= 0 THEN d \div Q ELSE -((-d) \div Q)

Fits(d) == Truncated(d) \in -Half .. Half - 1

(* Out of the range of i16 the conversion of a double is undefined.        *)
Fixed(d) == IF Fits(d) THEN {Truncated(d)} ELSE -Half .. Half - 1

(* Mutant: the position of the player stays at the spawn.                  *)
NewPos_Kept(new) == pos

NewPos(new) == new

(* move_player_pos and the position of move_player_pos_rot.                *)
MovePlayerPos(new) ==
  /\ \A o \in joined : moves[o] < MaxMoves
  /\ pos' = NewPos(new)
  /\ \E d \in Fixed(new - pos) :
       view' = [o \in Observers |-> IF o \in joined THEN view[o] + Q * d ELSE view[o]]
  /\ moves' = [o \in Observers |-> IF o \in joined THEN moves[o] + 1 ELSE moves[o]]
  /\ jumped' = IF Fits(new - pos) THEN jumped ELSE jumped \cup joined
  /\ UNCHANGED joined

(* Mutant: a newcomer is told of the spawn position of the others.         *)
Announced_Spawn == Spawn

Announced == pos

(* finish_configuration of an observer: add_entity with the position of    *)
(* the player.                                                             *)
Join(o) ==
  /\ o \notin joined
  /\ joined' = joined \cup {o}
  /\ view' = [view EXCEPT ![o] = Announced]
  /\ moves' = [moves EXCEPT ![o] = 0]
  /\ jumped' = jumped \ {o}
  /\ UNCHANGED pos

Leave(o) ==
  /\ o \in joined
  /\ joined' = joined \ {o}
  /\ UNCHANGED <<pos, view, moves, jumped>>

Next ==
  \/ \E new \in Positions : MovePlayerPos(new)
  \/ \E o \in Observers : Join(o) \/ Leave(o)

Spec == Init /\ [][Next]_vars

-----------------------------------------------------------------------------
(* Properties.                                                             *)

Near(a, b, n) == -n <= a - b /\ a - b <= n

(* As the differences are taken between true positions and not between     *)
(* those that were told, what each one loses adds up: an observer is off   *)
(* by less than 1/4096 of a block for every move it has seen, whatever     *)
(* moves there were and whenever it joined, unless one was so long that it *)
(* did not fit.                                                            *)
DriftBounded ==
  \A o \in joined \ jumped : Near(view[o], pos, moves[o] * (Q - 1))

(* Observers who joined at different times disagree, but only by what was  *)
(* lost in the moves that one saw and the other did not: the moves that    *)
(* both see keep them as far apart as they were.                           *)
ObserversAgree ==
  \A o, p \in joined \ jumped :
    moves[o] >= moves[p] => Near(view[o], view[p], (moves[o] - moves[p]) * (Q - 1))
=============================================================================
