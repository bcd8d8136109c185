---------------------------- MODULE MCPacketStream ----------------------------
(* PacketStream with bytes of two bits: a length up to 1 takes one byte,   *)
(* one up to 3 two, one up to 7 three.  Payload bytes look like lengths.   *)
EXTENDS PacketStream

MCPrefix[n \in 0 .. MaxSize] ==
  IF n < Continue THEN <<n>>
  ELSE <<(n % Continue) + Continue>> \o MCPrefix[n \div Continue]

MCPayloads == {<<>>, <<3>>, <<1>>, <<2, 1>>, <<3, 1, 0, 2>>}
=============================================================================
