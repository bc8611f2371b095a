---------------------------- MODULE MCRoomClient ----------------------------
(* Small instances of RoomClient for TLC. *)
EXTENDS RoomClient

CONSTANTS r1, r2

OneRequest == {r1}
TwoRequests == {r1, r2}

=============================================================================
