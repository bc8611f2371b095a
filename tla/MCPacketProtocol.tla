-------------------------- MODULE MCPacketProtocol --------------------------
(* Small instances of PacketProtocol for TLC. *)
EXTENDS PacketProtocol

(* An empty message, and one of a whole packet and a bit *)
ShortAndLong == {0, 3}

(* Two messages one way *)
TwoOneWay == [e \in Ends |-> IF e = "client" THEN 2 ELSE 0]

=============================================================================
