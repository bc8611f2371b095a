--------------------------- MODULE PacketProtocol ---------------------------
(***************************************************************************)
(* Protocol (meshagent/api/protocol.py) over a websocket: the two ends,    *)
(* WebSocketClientProtocol and WebSocketServerProtocol, cut messages into  *)
(* packets, put them together again, and end together.                     *)
(*                                                                         *)
(* Each end has three tasks: the sender and the receiver of Protocol._main *)
(* and the reader of the socket (_ws_recv).  The websocket itself          *)
(* (aiohttp) is external: packets arrive in order, and a connection is     *)
(* closed by one end or lost with what is under way.                       *)
(***************************************************************************)
EXTENDS Naturals, Sequences, SequencesExt

CONSTANTS
    ChunkSize,  \* bytes in one data packet (1024 in the code)
    Lengths,    \* the lengths of the messages sent
    Budget      \* bound: the messages each end sends

ASSUME PacketAssumption ==
    /\ ChunkSize \in Nat \ {0}
    /\ Lengths \subseteq Nat
    /\ Budget \in [{"client", "server"} -> Nat]

Ends == {"client", "server"}
Peer(e) == IF e = "client" THEN "server" ELSE "client"

VARIABLES
    state,    \* "new", "open" or "closed": _open, and both channels with it
    kind,     \* _close_kind
    sendCh,   \* _send_ch: messages not sent yet
    sending,  \* the message the sender is in, and its next packet
    recvCh,   \* _recv_ch: messages not handled yet
    asm,      \* the recv_* fields
    sender, receiver,
              \* the tasks of _main: "idle", "running" or "ended"
    reader,   \* _ws_recv_task: "idle", "running", "ended" or "raised"
    exit,     \* where __aexit__ stands
    sock,     \* the socket: "open", "eof" (closed by the peer), "lost", "closed"
    wire,     \* packets on their way to an end
    sent, handled
              \* what send_nowait accepted and what the handlers got

tasks == <<sender, receiver, reader, exit>>
vars == <<state, kind, sendCh, sending, recvCh, asm, tasks, sock, wire, sent, handled>>

-----------------------------------------------------------------------------
(* Packets *)

Payload(id, n) == [k \in 1..n |-> <<id, k>>]
Message == [id: Nat, data: Seq(Nat \X Nat)]

(* (mutant of Packets: the last, shorter packet forgotten) *)
PacketsFloor(data) == Len(data) \div ChunkSize

(* compute_packets *)
Packets(data) == (Len(data) + ChunkSize - 1) \div ChunkSize

Chunk(data, i) ==
    SubSeq(data, (i - 1) * ChunkSize + 1,
           IF i * ChunkSize < Len(data) THEN i * ChunkSize ELSE Len(data))

(* (mutant of Packet: the data packets count from 0 like the loop) *)
PacketFromZero(m, i) ==
    [id |-> m.id, no |-> IF i = 0 THEN 0 ELSE i - 1,
     total |-> IF i = 0 THEN Packets(m.data) ELSE 0,
     body |-> IF i = 0 THEN <<>> ELSE Chunk(m.data, i)]

(* Packet 0 is the header; the data packets count from 1. *)
Packet(m, i) ==
    [id |-> m.id, no |-> i,
     total |-> IF i = 0 THEN Packets(m.data) ELSE 0,
     body |-> IF i = 0 THEN <<>> ELSE Chunk(m.data, i)]

Ready == [state |-> "ready", next |-> 0, total |-> 0, id |-> 0, data |-> <<>>]

(* (mutant of MarkReady: the received packets are kept) *)
KeepPackets(a) == [a EXCEPT !.state = "ready", !.next = 0, !.id = 0]

(* mark_ready *)
MarkReady(a) == [a EXCEPT !.state = "ready", !.next = 0, !.id = 0, !.data = <<>>]

OutOfStep(a) == [a EXCEPT !.state = "error", !.next = 0]

(* receive_packet: the new state of the receiver, and the message, if any, *)
(* it puts into _recv_ch.                                                  *)
Receive(a, p) ==
    LET data == a.data \o p.body
        Only(b) == [asm |-> b, out |-> <<>>]
        Whole == [asm |-> MarkReady(a), out |-> <<[id |-> p.id, data |-> data]>>]
    IN  CASE p.no # a.next \/ (p.no > 0) # (a.state = "processing") ->
               Only(OutOfStep(a))
          [] p.no = 0 /\ p.total > 0 ->
               Only([a EXCEPT !.state = "processing", !.next = 1,
                              !.total = p.total, !.id = p.id])
          [] p.no > 0 /\ p.id # a.id ->
               Only([a EXCEPT !.state = "error"])
          [] p.no > 0 /\ p.no < a.total ->
               Only([a EXCEPT !.next = @ + 1, !.data = data])
          [] OTHER -> Whole

-----------------------------------------------------------------------------
Idle == [msg |-> [id |-> 0, data |-> <<>>], next |-> 0]

Init ==
    /\ state = [e \in Ends |-> "new"] /\ kind = [e \in Ends |-> "none"]
    /\ sendCh = [e \in Ends |-> <<>>] /\ sending = [e \in Ends |-> Idle]
    /\ recvCh = [e \in Ends |-> <<>>] /\ asm = [e \in Ends |-> Ready]
    /\ sender = [e \in Ends |-> "idle"] /\ receiver = [e \in Ends |-> "idle"]
    /\ reader = [e \in Ends |-> "idle"] /\ exit = [e \in Ends |-> "no"]
    /\ sock = [e \in Ends |-> "open"] /\ wire = [e \in Ends |-> <<>>]
    /\ sent = [e \in Ends |-> <<>>] /\ handled = [e \in Ends |-> <<>>]

(* (mutants of Shutdown: the channels stay open; no close kind is set) *)
ShutdownNothing(e, k) ==
    /\ UNCHANGED state
    /\ kind' = [kind EXCEPT ![e] = IF @ = "none" THEN k ELSE @]

ShutdownKindless(e, k) ==
    /\ state' = [state EXCEPT ![e] = "closed"]
    /\ UNCHANGED kind

(* _set_close_state and _shutdown: the first kind wins, both channels are  *)
(* closed.                                                                 *)
Shutdown(e, k) ==
    /\ state' = [state EXCEPT ![e] = "closed"]
    /\ kind' = [kind EXCEPT ![e] = IF @ = "none" THEN k ELSE @]

(* __aenter__, once the socket is there: all tasks start. *)
Enter(e) ==
    /\ state[e] = "new"
    /\ e = "server" => state["client"] # "new"
    /\ state' = [state EXCEPT ![e] = "open"]
    /\ sender' = [sender EXCEPT ![e] = "running"]
    /\ receiver' = [receiver EXCEPT ![e] = "running"]
    /\ reader' = [reader EXCEPT ![e] = "running"]
    /\ UNCHANGED <<kind, sendCh, sending, recvCh, asm, exit, sock, wire, sent, handled>>

(* next_message_id and send_nowait *)
SendNowait(e) ==
    /\ state[e] # "closed" /\ Len(sent[e]) < Budget[e]
    /\ \E n \in Lengths :
         LET m == [id |-> Len(sent[e]) + 1, data |-> Payload(Len(sent[e]) + 1, n)]
         IN  /\ sendCh' = [sendCh EXCEPT ![e] = Append(@, m)]
             /\ sent' = [sent EXCEPT ![e] = Append(@, m)]
    /\ UNCHANGED <<state, kind, sending, recvCh, asm, tasks, sock, wire, handled>>

(* What a send failure says of the close *)
SendFailure(e) == IF e = "client" THEN "server" ELSE "client"

(* send_packet.  A socket whose peer has closed it may still swallow what  *)
(* is sent; a lost one raises ConnectionResetError.                        *)
SendPacket(e, p) ==
    \/ /\ state[e] = "open" /\ sock[e] = "open"
       /\ wire' = [wire EXCEPT ![Peer(e)] = Append(@, p)]
       /\ UNCHANGED <<state, kind>>
    \/ /\ state[e] = "open" /\ sock[e] = "eof"
       /\ UNCHANGED <<state, kind, wire>>
    \/ /\ state[e] # "open" \/ sock[e] # "open"
       /\ Shutdown(e, SendFailure(e))
       /\ UNCHANGED wire

(* _send_message: the header, and then the payload unless there is none or *)
(* the protocol has closed                                                 *)
SendHeader(e) ==
    /\ sender[e] = "running" /\ sending[e] = Idle /\ sendCh[e] # <<>>
    /\ LET m == Head(sendCh[e]) IN
         /\ SendPacket(e, Packet(m, 0))
         /\ sending' = [sending EXCEPT ![e] =
              IF state'[e] = "open" /\ Packets(m.data) > 0
              THEN [msg |-> m, next |-> 1] ELSE Idle]
    /\ sendCh' = [sendCh EXCEPT ![e] = Tail(@)]
    /\ UNCHANGED <<recvCh, asm, tasks, sock, sent, handled>>

(* _send_payload *)
SendData(e) ==
    /\ sending[e] # Idle
    /\ LET m == sending[e].msg
           i == sending[e].next
       IN  IF state[e] = "open"
           THEN /\ SendPacket(e, Packet(m, i))
                /\ sending' = [sending EXCEPT ![e] =
                     IF i = Packets(m.data) THEN Idle ELSE [@ EXCEPT !.next = i + 1]]
           ELSE /\ sending' = [sending EXCEPT ![e] = Idle]
                /\ UNCHANGED <<state, kind, wire>>
    /\ UNCHANGED <<sendCh, recvCh, asm, tasks, sock, sent, handled>>

SenderEnds(e) ==
    /\ sender[e] = "running" /\ sending[e] = Idle
    /\ state[e] = "closed" /\ sendCh[e] = <<>>
    /\ sender' = [sender EXCEPT ![e] = "ended"]
    /\ UNCHANGED <<state, kind, sendCh, sending, recvCh, asm, receiver, reader, exit,
                   sock, wire, sent, handled>>

(* _recv_task: one message after the other, whether or not its handler     *)
(* raises; what was received before the close is still handled.            *)
HandleMessage(e) ==
    /\ receiver[e] = "running" /\ recvCh[e] # <<>>
    /\ handled' = [handled EXCEPT ![e] = Append(@, Head(recvCh[e]))]
    /\ recvCh' = [recvCh EXCEPT ![e] = Tail(@)]
    /\ UNCHANGED <<state, kind, sendCh, sending, asm, tasks, sock, wire, sent>>

(* (mutant of ReceiverEnds: the receive channel is closed by __aexit__ only) *)
ReceiverEndsAtExit(e) ==
    /\ receiver[e] = "running" /\ exit[e] # "no" /\ recvCh[e] = <<>>
    /\ receiver' = [receiver EXCEPT ![e] = "ended"]
    /\ UNCHANGED <<state, kind, sendCh, sending, recvCh, asm, sender, reader, exit,
                   sock, wire, sent, handled>>

ReceiverEnds(e) ==
    /\ receiver[e] = "running" /\ state[e] = "closed" /\ recvCh[e] = <<>>
    /\ receiver' = [receiver EXCEPT ![e] = "ended"]
    /\ UNCHANGED <<state, kind, sendCh, sending, recvCh, asm, sender, reader, exit,
                   sock, wire, sent, handled>>

(* _ws_recv with the next packet.  A message completed after the channels  *)
(* were closed raises ChanClosed, which ends the reader.                   *)
ReadPacket(e) ==
    /\ reader[e] = "running" /\ sock[e] # "closed" /\ wire[e] # <<>>
    /\ wire' = [wire EXCEPT ![e] = Tail(@)]
    /\ LET r == Receive(asm[e], Head(wire[e])) IN
         IF r.out # <<>> /\ state[e] = "closed"
         THEN /\ reader' = [reader EXCEPT ![e] = "raised"]
              /\ UNCHANGED <<recvCh, asm>>
         ELSE /\ asm' = [asm EXCEPT ![e] = r.asm]
              /\ recvCh' = [recvCh EXCEPT ![e] = @ \o r.out]
              /\ UNCHANGED reader
    /\ UNCHANGED <<state, kind, sendCh, sending, sender, receiver, exit, sock, sent, handled>>

(* _ws_recv sees the end of the socket: an exception makes it an ERROR,    *)
(* anything else SERVER, a close of our own included.                      *)
ReaderEnds(e) ==
    /\ reader[e] = "running"
    /\ sock[e] = "closed" \/ (sock[e] # "open" /\ wire[e] = <<>>)
    /\ \E k \in {"server"} \cup (IF sock[e] = "lost" THEN {"error"} ELSE {}) :
         Shutdown(e, k)
    /\ reader' = [reader EXCEPT ![e] = "ended"]
    /\ sock' = [sock EXCEPT ![e] = "closed"]
    /\ UNCHANGED <<sendCh, sending, recvCh, asm, sender, receiver, exit, wire, sent, handled>>

-----------------------------------------------------------------------------
(* __aexit__ closes the socket first *)
Exit(e) ==
    /\ exit[e] = "no" /\ state[e] # "new"
    /\ exit' = [exit EXCEPT ![e] = "reader"]
    /\ sock' = [sock EXCEPT ![e] = "closed",
                            ![Peer(e)] = IF @ = "open" THEN "eof" ELSE @]
    /\ wire' = [wire EXCEPT ![e] = <<>>]
    /\ UNCHANGED <<state, kind, sendCh, sending, recvCh, asm, sender, receiver, reader,
                   sent, handled>>

(* The client then waits for its reader, whose exception it passes on and  *)
(* leaves the session open; the server cancels its reader.                 *)
ExitLeavesReader(e) ==
    /\ exit[e] = "reader"
    /\ e = "client" => reader[e] # "running"
    /\ IF e = "client" /\ reader[e] = "raised"
       THEN /\ exit' = [exit EXCEPT ![e] = "raised"]
            /\ UNCHANGED <<state, kind, reader>>
       ELSE /\ exit' = [exit EXCEPT ![e] = "tasks"]
            /\ reader' = [reader EXCEPT ![e] = "ended"]
            /\ Shutdown(e, "client")
    /\ UNCHANGED <<sendCh, sending, recvCh, asm, sender, receiver, sock, wire, sent, handled>>

(* Protocol._main and with it __aexit__ is over when both its tasks are. *)
Done(e) == sender[e] = "ended" /\ receiver[e] = "ended"

ExitReturns(e) ==
    /\ exit[e] = "tasks" /\ Done(e)
    /\ exit' = [exit EXCEPT ![e] = "done"]
    /\ UNCHANGED <<state, kind, sendCh, sending, recvCh, asm, sender, receiver, reader,
                   sock, wire, sent, handled>>

(* The network: the connection is lost, and the tail of what is under way. *)
ConnectionLost ==
    /\ state["client"] # "new" /\ sock["client"] = "open" /\ sock["server"] = "open"
    /\ sock' = [e \in Ends |-> "lost"]
    /\ \E c \in 0..Len(wire["client"]), s \in 0..Len(wire["server"]) :
         wire' = [e \in Ends |-> SubSeq(wire[e], 1, IF e = "client" THEN c ELSE s)]
    /\ UNCHANGED <<state, kind, sendCh, sending, recvCh, asm, tasks, sent, handled>>

-----------------------------------------------------------------------------
Sending(e) == SendHeader(e) \/ SendData(e) \/ SenderEnds(e)
Receiving(e) == HandleMessage(e) \/ ReceiverEnds(e)
Reading(e) == ReadPacket(e) \/ ReaderEnds(e)
Exiting(e) == ExitLeavesReader(e) \/ ExitReturns(e)

(* Once both ends are being left nothing new begins (that they do get to   *)
(* their end is LeavingEndsBoth).                                          *)
Terminated ==
    /\ \A e \in Ends : exit[e] # "no"
    /\ UNCHANGED vars

Next == \/ \E e \in Ends : \/ Sending(e) \/ Receiving(e) \/ Reading(e) \/ Exiting(e)
                           \/ Enter(e) \/ SendNowait(e) \/ Exit(e)
        \/ ConnectionLost \/ Terminated

Spec == Init /\ [][Next]_vars

(* The event loops of both ends run every task that can go on.  Nobody has *)
(* to send, to leave or to lose the connection.                            *)
Fairness == \A e \in Ends : /\ WF_vars(Sending(e)) /\ WF_vars(Receiving(e))
                            /\ WF_vars(Reading(e)) /\ WF_vars(Exiting(e))

FairSpec == Spec /\ Fairness

-----------------------------------------------------------------------------
Assembly == [state: {"ready", "processing", "error"}, next: Nat, total: Nat,
             id: Nat, data: Seq(Nat \X Nat)]

PacketRecord == [id: Nat, no: Nat, total: Nat, body: Seq(Nat \X Nat)]

(* Types: the domain of every variable, and a close kind exactly for what  *)
(* is closed.                                                              *)
CloseOK ==
    /\ state \in [Ends -> {"new", "open", "closed"}]
    /\ kind \in [Ends -> {"none", "client", "server", "error"}]
    /\ \A e \in Ends : kind[e] = "none" <=> state[e] # "closed"

TasksOK ==
    /\ sender \in [Ends -> {"idle", "running", "ended"}]
    /\ receiver \in [Ends -> {"idle", "running", "ended"}]
    /\ reader \in [Ends -> {"idle", "running", "ended", "raised"}]
    /\ exit \in [Ends -> {"no", "reader", "tasks", "done", "raised"}]
    /\ sock \in [Ends -> {"open", "eof", "lost", "closed"}]

MessagesOK ==
    /\ sendCh \in [Ends -> Seq(Message)]
    /\ sending \in [Ends -> [msg: Message, next: Nat]]
    /\ recvCh \in [Ends -> Seq(Message)]
    /\ asm \in [Ends -> Assembly]
    /\ wire \in [Ends -> Seq(PacketRecord)]
    /\ sent \in [Ends -> Seq(Message)]
    /\ handled \in [Ends -> Seq(Message)]

TypeOK == CloseOK /\ TasksOK /\ MessagesOK

(* What the handlers of one end get is what the other end sent: whole,     *)
(* unchanged and in order, however the messages were cut into packets and  *)
(* wherever the connection broke (_send_message, receive_packet).          *)
InOrder == \A e \in Ends : IsPrefix(handled[e] \o recvCh[e], sent[Peer(e)])

(* While both ends stay open every message is handled in the end.          *)
EverythingArrives ==
    \A e \in Ends : \A n \in 1..Budget[e] :
        (Len(sent[e]) >= n /\ \A x \in Ends : state[x] = "open")
            ~> (Len(handled[Peer(e)]) >= n \/ \E x \in Ends : state[x] # "open")

(* wait_for_close returns once a protocol has closed, for whatever reason: *)
(* both tasks of _main end.                                                *)
ClosedIsDone == \A e \in Ends : state[e] = "closed" ~> Done(e)

(* When one end leaves, the other one closes too, and __aexit__ returns.   *)
LeavingEndsBoth ==
    \A e \in Ends : exit[e] = "reader" ~> /\ exit[e] \in {"done", "raised"}
                                          /\ state[Peer(e)] # "open"

(* __aexit__ of the client gives the socket and the session back.          *)
ExitReleases == exit["client"] # "raised"

-----------------------------------------------------------------------------
(* Each end keeps the promise of ProtocolLink.                             *)
Link(e) == INSTANCE ProtocolLink WITH
    stage <- IF state[e] = "new" THEN "unopened" ELSE state[e],
    kind <- kind[e],
    waiting <- Len(recvCh[e])

(* PacketProtocol implements ProtocolLink at both ends.                    *)
ImplementsLink ==
    /\ \A e \in Ends : Link(e)!Init
    /\ [][\A e \in Ends : Link(e)!Next \/ UNCHANGED Link(e)!vars]_vars

=============================================================================
