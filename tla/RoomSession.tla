----------------------------- MODULE RoomSession -----------------------------
(***************************************************************************)
(* What a RoomClient promises its callers.  The room is online or not, and *)
(* is over for good at some point.  A call is accepted only while the room *)
(* is online; it ends with its own answer, with an error, or because its   *)
(* caller cancels it; and whoever waits when the room goes offline gets an *)
(* error in that very step, so that no call outlives a connection.         *)
(***************************************************************************)
CONSTANT Requests

VARIABLES online, over, call

vars == <<online, over, call>>

TypeOK ==
    /\ online \in BOOLEAN
    /\ over \in BOOLEAN
    /\ call \in [Requests -> {"idle", "pending", "answered", "failed", "cancelled"}]

Init == online = FALSE /\ over = FALSE /\ call = [r \in Requests |-> "idle"]

(* The first connection, or the one that follows an outage *)
GoOnline == ~online /\ ~over /\ online' = TRUE /\ UNCHANGED <<over, call>>

Issue(r) ==
    /\ online /\ call[r] = "idle"
    /\ call' = [call EXCEPT ![r] = "pending"]
    /\ UNCHANGED <<online, over>>

Answer(r) ==
    /\ online /\ call[r] = "pending"
    /\ call' = [call EXCEPT ![r] = "answered"]
    /\ UNCHANGED <<online, over>>

Cancel(r) ==
    /\ online /\ call[r] = "pending"
    /\ call' = [call EXCEPT ![r] = "cancelled"]
    /\ UNCHANGED <<online, over>>

(* The connection is lost, perhaps for good; every waiting call fails. *)
GoOffline ==
    /\ online /\ online' = FALSE
    /\ over' \in {over, TRUE}
    /\ call' = [r \in Requests |-> IF call[r] = "pending" THEN "failed" ELSE call[r]]

(* An outage, or the start, ends with the end of the room. *)
GiveUp == ~online /\ ~over /\ over' = TRUE /\ UNCHANGED <<online, call>>

Next ==
    \/ GoOnline \/ GoOffline \/ GiveUp
    \/ \E r \in Requests : Issue(r) \/ Answer(r) \/ Cancel(r)

Spec == Init /\ [][Next]_vars

=============================================================================
