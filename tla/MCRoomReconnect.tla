--------------------------- MODULE MCRoomReconnect ---------------------------
(* RoomClient for TLC with the two values of reconnect_timeout that set no  *)
(* deadline, in one run: none (the room dials for ever) and zero (it never  *)
(* dials again).                                                            *)
EXTENDS MCRoomClient

VARIABLE limit    \* the reconnect_timeout of the behaviour: "none" or "zero"

Zero == INSTANCE RoomClient WITH ReconnectTimeout <- "zero"

ReconnectInit == limit \in {"none", "zero"} /\ Init

ReconnectNext ==
    \/ limit = "none" /\ Next /\ UNCHANGED limit
    \/ limit = "zero" /\ Zero!Next /\ UNCHANGED limit

ReconnectSpec == ReconnectInit /\ [][ReconnectNext]_<<limit, vars>>

(* With reconnect_timeout=0 the room never dials a second time. *)
NoSecondDial == limit = "zero" => Zero!NoReconnectAtZero

=============================================================================
