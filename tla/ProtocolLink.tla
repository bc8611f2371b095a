---------------------------- MODULE ProtocolLink ----------------------------
(***************************************************************************)
(* What the owner of a Protocol (meshagent/api/protocol.py) may rely on:   *)
(* it opens at most once and never again after it has closed; messages     *)
(* arrive only while it is open; what has arrived is still handled after   *)
(* it has closed; and the kind of its close is decided once.  RoomClient   *)
(* assumes this of its links, PacketProtocol keeps it.                     *)
(***************************************************************************)
EXTENDS Naturals

VARIABLES stage, kind, waiting

vars == <<stage, kind, waiting>>

Init == stage = "unopened" /\ kind = "none" /\ waiting = 0

Open == stage = "unopened" /\ stage' = "open" /\ UNCHANGED <<kind, waiting>>

Arrive == stage = "open" /\ waiting' = waiting + 1 /\ UNCHANGED <<stage, kind>>

Handle == waiting > 0 /\ waiting' = waiting - 1 /\ UNCHANGED <<stage, kind>>

Close ==
    /\ stage # "closed" /\ stage' = "closed"
    /\ kind = "none" /\ kind' \in {"client", "server", "error"}
    /\ UNCHANGED waiting

Next == Open \/ Arrive \/ Handle \/ Close

Spec == Init /\ [][Next]_vars

=============================================================================
