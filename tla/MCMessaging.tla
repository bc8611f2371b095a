----------------------------- MODULE MCMessaging -----------------------------
(* Small instances of Messaging for TLC. *)
EXTENDS Messaging

CONSTANTS p1, o1, o2, o3, o4

OnePeer == {p1}
TwoMessages == 1..2
FourObjects == {o1, o2, o3, o4}

=============================================================================
