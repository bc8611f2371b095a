---------------------------- MODULE SqliteTransfer ----------------------------
(***************************************************************************)
(* sqlite_transfer.py: whole databases are moved over a tool call that     *)
(* streams both ways.  In a backup the client pulls and the server sends   *)
(* data; in a restore it is the other way round.  The side that sends ends *)
(* with the size and the digest of all it sent; the client compares, in a  *)
(* backup with what it received and in a restore with what the server      *)
(* acknowledges.                                                           *)
(*                                                                         *)
(* A chunk is a byte here, and the digest of data the data itself.  The    *)
(* server may lose or alter a chunk, or break off.                         *)
(***************************************************************************)
EXTENDS Naturals, Sequences

CONSTANTS
    Bytes,       \* the chunks there may be
    MaxChunks,   \* how many of them a database has at most
    MaxFaults    \* how often the server may go wrong

VARIABLES
    kind,        \* "backup" or "restore"
    source,      \* the database that is to be moved
    input,       \* _TransferInput: see Init
    client,      \* backup() or restore(): what it has yielded, and how it ended
    server,      \* what it has received or sent, and what it has stored
    up, down     \* messages on their way

vars == <<kind, source, input, client, server, up, down>>

Message(m, data) == [kind |-> m, data |-> data]
Nothing == Message("none", <<>>)

Databases == UNION {[1..n -> Bytes] : n \in 0..MaxChunks}

(* The start goes out by itself; a backup has asked for its first chunk *)
Init ==
    /\ kind \in {"backup", "restore"}
    /\ source \in Databases
    /\ input = [pulls |-> IF kind = "backup" THEN 1 ELSE 0, closed |-> FALSE,
                sent |-> 0, complete |-> Nothing, error |-> FALSE, over |-> FALSE]
    /\ client = [got |-> <<>>, outcome |-> ""]
    /\ server = [at |-> 0, data |-> <<>>, stored |-> FALSE, faults |-> 0,
               over |-> FALSE]
    /\ up = <<Message("start", <<>>)>> /\ down = <<>>

-----------------------------------------------------------------------------
(* _TransferInput.__anext__, run by the pump of the call: one pull, one chunk *)
Send(m) == up' = Append(up, m)

Pumps ==
    /\ input.pulls > 0 /\ ~input.over

Close ==
    /\ Pumps /\ input.closed
    /\ input' = [input EXCEPT !.over = TRUE]
    /\ Send(Message("end", <<>>))
    /\ UNCHANGED <<kind, source, client, server, down>>

SendPull ==
    /\ Pumps /\ ~input.closed /\ kind = "backup"
    /\ input' = [input EXCEPT !.pulls = @ - 1]
    /\ Send(Message("pull", <<>>))
    /\ UNCHANGED <<kind, source, client, server, down>>

SendData ==
    /\ Pumps /\ ~input.closed /\ kind = "restore" /\ input.complete = Nothing
    /\ input.sent < Len(source)
    /\ input' = [input EXCEPT !.pulls = @ - 1, !.sent = @ + 1]
    /\ Send(Message("data", <<source[input.sent + 1]>>))
    /\ UNCHANGED <<kind, source, client, server, down>>

SendComplete ==
    /\ Pumps /\ ~input.closed /\ kind = "restore" /\ input.complete = Nothing
    /\ input.sent = Len(source)
    /\ input' = [input EXCEPT !.pulls = @ - 1, !.complete = Message("complete", source)]
    /\ Send(Message("complete", source))
    /\ UNCHANGED <<kind, source, client, server, down>>

(* The source raises, or brings a chunk that is empty or too long *)
SendAbort ==
    /\ Pumps /\ ~input.closed /\ kind = "restore" /\ input.complete = Nothing
    /\ input' = [input EXCEPT !.pulls = @ - 1, !.error = TRUE]
    /\ Send(Message("abort", <<>>))
    /\ UNCHANGED <<kind, source, client, server, down>>

(* A pull after the end: the pump raises, which ends the call's stream *)
RefusePull ==
    /\ Pumps /\ ~input.closed /\ kind = "restore" /\ input.complete # Nothing
    /\ input' = [input EXCEPT !.over = TRUE]
    /\ Send(Message("end", <<>>))
    /\ client' = IF client.outcome = "" THEN [client EXCEPT !.outcome = "RoomException"]
                 ELSE client
    /\ UNCHANGED <<kind, source, server, down>>

-----------------------------------------------------------------------------
(* The server: it sends the database a chunk per pull, or pulls it; data may be
   lost or altered on the way *)
Tell(m) == down' = Append(down, m)
Heard(m) == up # <<>> /\ Head(up).kind = m /\ up' = Tail(up) /\ ~server.over

Faulty(after, fault) ==
    /\ fault => server.faults < MaxFaults
    /\ server' = [after EXCEPT !.faults = IF fault THEN @ + 1 ELSE @]

Damages(data) == {data} \cup {<<>>} \cup {<<b>> : b \in Bytes}

ServerSends ==
    /\ Heard("pull")
    /\ IF server.at < Len(source)
       THEN \E data \in Damages(<<source[server.at + 1]>>) :
                /\ IF data = <<>> THEN UNCHANGED down ELSE Tell(Message("data", data))
                /\ Faulty([server EXCEPT !.at = @ + 1], data # <<source[server.at + 1]>>)
       ELSE Tell(Message("complete", source)) /\ UNCHANGED server
    /\ UNCHANGED <<kind, source, input, client>>

ServerStarts ==
    /\ Heard("start")
    /\ IF kind = "restore" THEN Tell(Message("pull", <<>>)) ELSE UNCHANGED down
    /\ UNCHANGED <<kind, source, input, client, server>>

ServerReceives ==
    /\ Heard("data")
    /\ \E data \in Damages(Head(up).data) :
           Faulty([server EXCEPT !.data = @ \o data], data # Head(up).data)
    /\ Tell(Message("pull", <<>>))
    /\ UNCHANGED <<kind, source, input, client>>

ServerStores ==
    /\ Heard("complete")
    /\ server' = [server EXCEPT !.stored = TRUE]
    /\ Tell(Message("complete", server.data))
    /\ UNCHANGED <<kind, source, input, client>>

ServerHearsEnd ==
    /\ Heard("end") \/ Heard("abort")
    /\ server' = [server EXCEPT !.over = TRUE]
    /\ Tell(Message("end", <<>>))
    /\ UNCHANGED <<kind, source, input, client>>

(* It breaks off, pulls when it should not, takes a backup to be complete, or
   acknowledges a restore with what it has got of it, which is not all *)
ServerErrs(m) ==
    /\ ~server.over
    /\ m = "complete" /\ kind = "restore" => server.data # source
    /\ Faulty([server EXCEPT !.over = m \in {"end", "error"}], TRUE)
    /\ Tell(Message(m, IF m # "complete" THEN <<>>
                       ELSE IF kind = "backup" THEN source ELSE server.data))
    /\ UNCHANGED <<kind, source, input, client, up>>

LinkLost ==
    /\ client.outcome = ""
    /\ client' = [client EXCEPT !.outcome = "RoomException"]
    /\ input' = [input EXCEPT !.over = TRUE]
    /\ server' = [server EXCEPT !.over = TRUE]
    /\ up' = <<>> /\ down' = <<>>
    /\ UNCHANGED <<kind, source>>

-----------------------------------------------------------------------------
(* What arrives is taken while the call is open; the finally closes the input *)
Comes(m) == down # <<>> /\ Head(down).kind \in m /\ client.outcome = "" /\ down' = Tail(down)

Ends(outcome) ==
    /\ client' = [client EXCEPT !.outcome = outcome]
    /\ input' = [input EXCEPT !.closed = TRUE, !.pulls = @ + 1]

(* backup: data is yielded, and the next chunk asked for when its user comes back *)
Yield ==
    /\ kind = "backup" /\ Comes({"data"})
    /\ client' = [client EXCEPT !.got = @ \o Head(down).data]
    /\ input' = [input EXCEPT !.pulls = @ + 1]
    /\ UNCHANGED <<kind, source, server, up>>

(* (mutant of Verified: the size alone is compared) *)
SameSize(data) == Len(data) = Len(client.got)

Verified(data) == data = client.got

BackupCompletes ==
    /\ kind = "backup" /\ Comes({"complete"})
    /\ Ends(IF Verified(Head(down).data) THEN "done" ELSE "RoomException")
    /\ UNCHANGED <<kind, source, server, up>>

BackupFails ==
    /\ kind = "backup" /\ Comes({"pull", "error", "end"})
    /\ Ends("RoomException")
    /\ UNCHANGED <<kind, source, server, up>>

(* restore: an error of the source goes before whatever the server says *)
SourceFailed ==
    /\ kind = "restore" /\ input.error /\ Comes({"pull", "data", "complete", "error"})
    /\ Ends("source's error")
    /\ UNCHANGED <<kind, source, server, up>>

Pulled ==
    /\ kind = "restore" /\ ~input.error /\ Comes({"pull"})
    /\ input' = [input EXCEPT !.pulls = @ + 1]
    /\ UNCHANGED <<kind, source, client, server, up>>

(* (mutant of Acknowledged: any acknowledgement will do) *)
AcknowledgedAtAll(data) == TRUE

Acknowledged(data) == input.complete = Message("complete", data)

RestoreCompletes ==
    /\ kind = "restore" /\ ~input.error /\ Comes({"complete"})
    /\ Ends(IF Acknowledged(Head(down).data) THEN "done" ELSE "RoomException")
    /\ UNCHANGED <<kind, source, server, up>>

RestoreFails ==
    /\ kind = "restore"
    /\ \/ ~input.error /\ Comes({"data", "error"})
       \/ Comes({"end"})
    /\ Ends("RoomException")
    /\ UNCHANGED <<kind, source, server, up>>

(* Its caller gives up *)
Abandon ==
    /\ client.outcome = "" /\ Ends("abandoned")
    /\ UNCHANGED <<kind, source, server, up, down>>

-----------------------------------------------------------------------------
Next ==
    \/ Close \/ SendPull \/ SendData \/ SendComplete \/ SendAbort \/ RefusePull
    \/ ServerSends \/ ServerStarts \/ ServerReceives \/ ServerStores \/ ServerHearsEnd
    \/ \E m \in {"pull", "complete", "error", "end"} : ServerErrs(m)
    \/ LinkLost \/ Yield \/ BackupCompletes \/ BackupFails \/ SourceFailed \/ Pulled
    \/ RestoreCompletes \/ RestoreFails \/ Abandon

Spec == Init /\ [][Next]_vars

-----------------------------------------------------------------------------
(* Properties *)

TypeOK ==
    /\ client.outcome \in {"", "done", "RoomException", "source's error", "abandoned"}
    /\ input.pulls \in Nat /\ input.sent \in 0..Len(source)

(* A backup that comes to its end has yielded the database, whole and unaltered,
   and a restore that does has had it stored so, although the server may lose or
   alter what it is sent and may say too soon that it is done.  (A server that has
   got all of a restore acknowledges it when it has stored it: it is taken at its
   word.) *)
TransferredWhole ==
    client.outcome = "done" =>
        IF kind = "backup" THEN client.got = source
        ELSE server.stored /\ server.data = source

(* A source that raises is never taken for a database that ends there *)
AbortIsNoEnd == input.error => client.outcome # "done" /\ ~server.stored

=============================================================================
