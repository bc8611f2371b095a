------------------------ MODULE PacketProtocolProofs ------------------------
(***************************************************************************)
(* Theorems about PacketProtocol: its types, and that each end implements  *)
(* ProtocolLink, for every chunk size, message and budget.                 *)
(***************************************************************************)
EXTENDS PacketProtocol, TLAPS

-----------------------------------------------------------------------------
(* Cutting messages *)

(* The number of packets is a natural number. *)
LEMMA PacketsType ==
    ASSUME NEW n \in Nat
    PROVE  (n + ChunkSize - 1) \div ChunkSize \in Nat
  BY PacketAssumption

LEMMA ChunkType ==
    ASSUME NEW S, NEW data \in Seq(S), NEW i \in Nat \ {0}
    PROVE  Chunk(data, i) \in Seq(S)
  BY PacketAssumption DEF Chunk

(* packets are packets *)
LEMMA PacketType ==
    ASSUME NEW m \in Message, NEW i \in Nat
    PROVE  Packet(m, i) \in PacketRecord
  BY PacketsType, ChunkType DEF Packet, PacketRecord, Message, Packets

(* what receive_packet makes of a packet *)
LEMMA ReceiveType ==
    ASSUME NEW a \in Assembly, NEW p \in PacketRecord
    PROVE  /\ Receive(a, p).asm \in Assembly
           /\ Receive(a, p).out \in Seq(Message)
           /\ Len(Receive(a, p).out) \in {0, 1}
<1> DEFINE data == a.data \o p.body
           Whole == [asm |-> MarkReady(a), out |-> <<[id |-> p.id, data |-> data]>>]
<1>1. data \in Seq(Nat \X Nat)
  BY DEF Assembly, PacketRecord
<1>2. /\ a.next + 1 \in Nat /\ p.total \in Nat /\ p.id \in Nat
  BY DEF Assembly, PacketRecord
<1>3. /\ OutOfStep(a) \in Assembly /\ MarkReady(a) \in Assembly
      /\ [a EXCEPT !.state = "error"] \in Assembly
      /\ [a EXCEPT !.state = "processing", !.next = 1, !.total = p.total, !.id = p.id]
            \in Assembly
  <2>1. OutOfStep(a) \in Assembly
    BY DEF OutOfStep, Assembly
  <2>2. MarkReady(a) \in Assembly
    <3>1. <<>> \in Seq(Nat \X Nat)
      OBVIOUS
    <3> QED
      BY <3>1 DEF MarkReady, Assembly
  <2>3. [a EXCEPT !.state = "error"] \in Assembly
    BY DEF Assembly
  <2>4. [a EXCEPT !.state = "processing", !.next = 1, !.total = p.total, !.id = p.id]
            \in Assembly
    BY <1>2 DEF Assembly
  <2> QED
    BY <2>1, <2>2, <2>3, <2>4
<1>4. [a EXCEPT !.next = @ + 1, !.data = data] \in Assembly
  BY <1>1, <1>2 DEF Assembly
<1>5. [id |-> p.id, data |-> data] \in Message
  BY <1>1, <1>2 DEF Message
<1> QED
  BY <1>3, <1>4, <1>5 DEF Receive

LEMMA AppendType ==
    ASSUME NEW S, NEW T, NEW f \in [S -> Seq(T)], NEW e \in S, NEW x \in T
    PROVE  [f EXCEPT ![e] = Append(@, x)] \in [S -> Seq(T)]
  OBVIOUS

LEMMA ConcatType ==
    ASSUME NEW S, NEW T, NEW f \in [S -> Seq(T)], NEW e \in S, NEW s \in Seq(T)
    PROVE  [f EXCEPT ![e] = @ \o s] \in [S -> Seq(T)]
  OBVIOUS

LEMMA TailType ==
    ASSUME NEW S, NEW T, NEW f \in [S -> Seq(T)], NEW e \in S, f[e] # <<>>
    PROVE  /\ [f EXCEPT ![e] = Tail(@)] \in [S -> Seq(T)]
           /\ Head(f[e]) \in T
  OBVIOUS

-----------------------------------------------------------------------------
(* Types *)

LEMMA InitTypes == Init => TypeOK
  BY DEF Init, TypeOK, CloseOK, TasksOK, MessagesOK, Message, Assembly, Idle, Ready

(* A packet is sent, vanishes or closes its sender. *)
LEMMA SendPacketTypes ==
    ASSUME TypeOK, NEW e \in Ends, NEW p \in PacketRecord, SendPacket(e, p)
    PROVE  CloseOK' /\ wire' \in [Ends -> Seq(PacketRecord)]
<1> Peer(e) \in Ends
  BY DEF Ends, Peer
<1> USE DEF TypeOK, CloseOK, MessagesOK
<1>1. CASE /\ wire' = [wire EXCEPT ![Peer(e)] = Append(@, p)]
           /\ UNCHANGED <<state, kind>>
  BY <1>1, AppendType
<1>2. CASE UNCHANGED <<state, kind, wire>>
  BY <1>2
<1>3. CASE Shutdown(e, SendFailure(e)) /\ UNCHANGED wire
  BY <1>3 DEF Shutdown, SendFailure
<1> QED
  BY <1>1, <1>2, <1>3 DEF SendPacket

LEMMA CloseTypes == TypeOK /\ [Next]_vars => CloseOK'
<1> SUFFICES ASSUME TypeOK, [Next]_vars
             PROVE  CloseOK'
  OBVIOUS
<1>1. ASSUME NEW e \in Ends, SendHeader(e)
      PROVE  CloseOK'
  <2> Head(sendCh[e]) \in Message
    BY <1>1 DEF TypeOK, MessagesOK, SendHeader
  <2> QED
    BY <1>1, PacketType, SendPacketTypes DEF SendHeader
<1>2. ASSUME NEW e \in Ends, SendData(e)
      PROVE  CloseOK'
  <2> sending[e].msg \in Message /\ sending[e].next \in Nat
    BY DEF TypeOK, MessagesOK
  <2>1. CASE state[e] = "open"
    BY <1>2, <2>1, PacketType, SendPacketTypes DEF SendData
  <2>2. CASE state[e] # "open"
    BY <1>2, <2>2 DEF SendData, TypeOK, CloseOK
  <2> QED
    BY <2>1, <2>2
<1>3. ASSUME NEW e \in Ends, ReaderEnds(e) \/ ExitLeavesReader(e) \/ Enter(e)
      PROVE  CloseOK'
  BY <1>3 DEF TypeOK, CloseOK, ReaderEnds, ExitLeavesReader, Shutdown, Enter
<1>4. CASE UNCHANGED <<state, kind>>
  BY <1>4 DEF TypeOK, CloseOK
<1> QED
  BY <1>1, <1>2, <1>3, <1>4 DEF Next, Sending, Receiving, Reading, Exiting, SenderEnds,
     HandleMessage, ReceiverEnds, ReadPacket, ExitReturns, SendNowait, Exit,
     ConnectionLost, Terminated, vars

LEMMA TaskTypes == TypeOK /\ [Next]_vars => TasksOK'
<1> SUFFICES ASSUME TasksOK, [Next]_vars
             PROVE  TasksOK'
  BY DEF TypeOK
<1> USE DEF TasksOK
<1>1. ASSUME NEW e \in Ends, ReadPacket(e) \/ ReaderEnds(e)
      PROVE  TasksOK'
  BY <1>1 DEF ReadPacket, ReaderEnds
<1>2. ASSUME NEW e \in Ends, ExitLeavesReader(e) \/ ExitReturns(e) \/ Enter(e)
      PROVE  TasksOK'
  BY <1>2 DEF ExitLeavesReader, ExitReturns, Enter
<1>3. ASSUME NEW e \in Ends, SenderEnds(e) \/ ReceiverEnds(e)
      PROVE  TasksOK'
  BY <1>3 DEF SenderEnds, ReceiverEnds
<1>4. ASSUME NEW e \in Ends, Exit(e)
      PROVE  TasksOK'
  BY <1>4 DEF Exit, Peer, Ends
<1>5. CASE ConnectionLost
  BY <1>5 DEF ConnectionLost, tasks
<1>6. CASE UNCHANGED <<tasks, sock>>
  BY <1>6 DEF tasks
<1> QED
  BY <1>1, <1>2, <1>3, <1>4, <1>5, <1>6 DEF Next, Sending, Receiving, Reading, Exiting,
     SendHeader, SendData, HandleMessage, SendNowait, Terminated, vars

LEMMA MessageTypes == TypeOK /\ [Next]_vars => MessagesOK'
<1> SUFFICES ASSUME TypeOK, [Next]_vars
             PROVE  MessagesOK'
  OBVIOUS
<1> MessagesOK
  BY DEF TypeOK
<1>1. ASSUME NEW e \in Ends, SendHeader(e)
      PROVE  MessagesOK'
  <2> DEFINE m == Head(sendCh[e])
  <2>1. m \in Message /\ sendCh' \in [Ends -> Seq(Message)]
    BY <1>1, TailType DEF MessagesOK, SendHeader
  <2>2. wire' \in [Ends -> Seq(PacketRecord)]
    BY <1>1, <2>1, PacketType, SendPacketTypes DEF SendHeader
  <2>3. sending' \in [Ends -> [msg: Message, next: Nat]]
    <3> Idle \in [msg: Message, next: Nat] /\ [msg |-> m, next |-> 1] \in [msg: Message, next: Nat]
      BY <2>1 DEF Idle, Message
    <3> QED
      BY <1>1 DEF SendHeader, MessagesOK
  <2> QED
    BY <1>1, <2>1, <2>2, <2>3 DEF SendHeader, MessagesOK
<1>2. ASSUME NEW e \in Ends, SendData(e)
      PROVE  MessagesOK'
  <2>1. sending[e].msg \in Message /\ sending[e].next \in Nat
    BY DEF MessagesOK
  <2>2. wire' \in [Ends -> Seq(PacketRecord)]
    <3>1. CASE state[e] = "open"
      BY <1>2, <2>1, <3>1, PacketType, SendPacketTypes DEF SendData
    <3>2. CASE state[e] # "open"
      BY <1>2, <3>2 DEF SendData, MessagesOK
    <3> QED
      BY <3>1, <3>2
  <2>3. sending' \in [Ends -> [msg: Message, next: Nat]]
    <3>1. Idle \in [msg: Message, next: Nat]
      BY DEF Idle, Message
    <3>2. ASSUME NEW x \in [msg: Message, next: Nat], NEW i \in Nat
          PROVE  [x EXCEPT !.next = i + 1] \in [msg: Message, next: Nat]
      OBVIOUS
    <3>3. sending[e] \in [msg: Message, next: Nat]
      BY DEF MessagesOK
    <3>4. \/ sending' = [sending EXCEPT ![e] = Idle]
          \/ sending' = [sending EXCEPT ![e] =
                 [sending[e] EXCEPT !.next = sending[e].next + 1]]
      BY <1>2 DEF SendData, MessagesOK
    <3> QED
      BY <2>1, <3>1, <3>2, <3>3, <3>4 DEF MessagesOK
  <2> QED
    BY <1>2, <2>2, <2>3 DEF SendData, MessagesOK
<1>3. ASSUME NEW e \in Ends, HandleMessage(e)
      PROVE  MessagesOK'
  BY <1>3, TailType, AppendType DEF HandleMessage, MessagesOK
<1>4. ASSUME NEW e \in Ends, ReadPacket(e)
      PROVE  MessagesOK'
  <2> DEFINE p == Head(wire[e])
             r == Receive(asm[e], p)
  <2>1. p \in PacketRecord /\ wire' \in [Ends -> Seq(PacketRecord)] /\ asm[e] \in Assembly
    BY <1>4, TailType DEF ReadPacket, MessagesOK
  <2>2. r.asm \in Assembly /\ r.out \in Seq(Message)
    BY <2>1, ReceiveType
  <2>3. [recvCh EXCEPT ![e] = @ \o r.out] \in [Ends -> Seq(Message)]
    BY <2>2, ConcatType DEF MessagesOK
  <2> QED
    BY <1>4, <2>1, <2>2, <2>3 DEF ReadPacket, MessagesOK
<1>5. ASSUME NEW e \in Ends, SendNowait(e)
      PROVE  MessagesOK'
  <2>1. PICK n \in Lengths :
          LET m == [id |-> Len(sent[e]) + 1, data |-> Payload(Len(sent[e]) + 1, n)]
          IN  /\ sendCh' = [sendCh EXCEPT ![e] = Append(@, m)]
              /\ sent' = [sent EXCEPT ![e] = Append(@, m)]
    BY <1>5 DEF SendNowait
  <2> DEFINE id == Len(sent[e]) + 1
  <2>2. id \in Nat /\ n \in Nat
    BY PacketAssumption DEF MessagesOK
  <2>3. Payload(id, n) \in Seq(Nat \X Nat)
    BY <2>2 DEF Payload
  <2>4. [id |-> id, data |-> Payload(id, n)] \in Message
    BY <2>2, <2>3 DEF Message
  <2> QED
    BY <1>5, <2>1, <2>4, AppendType DEF SendNowait, MessagesOK
<1>6. ASSUME NEW e \in Ends, Exit(e)
      PROVE  MessagesOK'
  BY <1>6 DEF Exit, MessagesOK
<1>7. CASE ConnectionLost
  <2>1. PICK c \in 0..Len(wire["client"]), s \in 0..Len(wire["server"]) :
          wire' = [e \in Ends |-> SubSeq(wire[e], 1, IF e = "client" THEN c ELSE s)]
    BY <1>7 DEF ConnectionLost
  <2>2. ASSUME NEW e \in Ends
        PROVE  SubSeq(wire[e], 1, IF e = "client" THEN c ELSE s) \in Seq(PacketRecord)
    BY DEF MessagesOK, Ends
  <2> QED
    BY <1>7, <2>1, <2>2 DEF ConnectionLost, MessagesOK
<1>8. CASE UNCHANGED <<sendCh, sending, recvCh, asm, wire, sent, handled>>
  BY <1>8 DEF MessagesOK
<1> QED
  BY <1>1, <1>2, <1>3, <1>4, <1>5, <1>6, <1>7, <1>8 DEF Next, Sending, Receiving, Reading,
     Exiting, SenderEnds, ReceiverEnds, ReaderEnds, ExitLeavesReader, ExitReturns, Enter,
     Terminated, vars

(* Every variable of both ends keeps its type, and an end has a close kind *)
(* exactly when it is closed (_set_close_state and _shutdown go together). *)
THEOREM TypeCorrect == Spec => []TypeOK
<1>1. TypeOK /\ [Next]_vars => TypeOK'
  BY CloseTypes, TaskTypes, MessageTypes DEF TypeOK
<1> QED
  BY <1>1, InitTypes, PTL DEF Spec

-----------------------------------------------------------------------------
(* The refinement of ProtocolLink *)

(* What a step may do to an end, in the terms of ProtocolLink *)
LinkStep(e) ==
    \/ state[e] = "new" /\ state'[e] = "open" /\ kind'[e] = kind[e] /\ recvCh'[e] = recvCh[e]
    \/ /\ state[e] = "open" /\ state'[e] = "open" /\ kind'[e] = kind[e]
       /\ \E out \in Seq(Message) : Len(out) \in {0, 1} /\ recvCh'[e] = recvCh[e] \o out
    \/ state'[e] = state[e] /\ kind'[e] = kind[e] /\ recvCh[e] # <<>> /\ recvCh'[e] = Tail(recvCh[e])
    \/ /\ state[e] = "open" /\ state'[e] = "closed" /\ kind[e] = "none"
       /\ kind'[e] \in {"client", "server", "error"} /\ recvCh'[e] = recvCh[e]
    \/ state'[e] = state[e] /\ kind'[e] = kind[e] /\ recvCh'[e] = recvCh[e]

LEMMA AtMostOneMore ==
    ASSUME NEW T, NEW s \in Seq(T), NEW out \in Seq(T), Len(out) \in {0, 1}
    PROVE  Len(s \o out) \in {Len(s), Len(s) + 1}
<1>1. Len(s \o out) = Len(s) + Len(out) /\ Len(s) \in Nat
  OBVIOUS
<1>2. CASE Len(out) = 0
  BY <1>1, <1>2
<1>3. CASE Len(out) = 1
  BY <1>1, <1>3
<1> QED
  BY <1>2, <1>3

LEMMA LinkStepRefines ==
    ASSUME TypeOK, NEW e \in Ends, LinkStep(e)
    PROVE  Link(e)!Next \/ UNCHANGED Link(e)!vars
<1>1. recvCh[e] \in Seq(Message) /\ state[e] \in {"new", "open", "closed"}
  BY DEF TypeOK, MessagesOK, CloseOK
<1>2. CASE state[e] = "new" /\ state'[e] = "open" /\ kind'[e] = kind[e] /\ recvCh'[e] = recvCh[e]
  BY <1>2 DEF Link!Next, Link!Open
<1>3. CASE state[e] = "open" /\ state'[e] = "closed" /\ kind[e] = "none"
           /\ kind'[e] \in {"client", "server", "error"} /\ recvCh'[e] = recvCh[e]
  BY <1>3 DEF Link!Next, Link!Close
<1>4. CASE state'[e] = state[e] /\ kind'[e] = kind[e] /\ recvCh'[e] = recvCh[e]
  BY <1>4 DEF Link!vars
<1>5. CASE state'[e] = state[e] /\ kind'[e] = kind[e]
           /\ recvCh[e] # <<>> /\ recvCh'[e] = Tail(recvCh[e])
  <2> Len(recvCh[e]) > 0 /\ Len(recvCh'[e]) = Len(recvCh[e]) - 1
    BY <1>1, <1>5
  <2> QED
    BY <1>5 DEF Link!Next, Link!Handle
<1>6. ASSUME state[e] = "open", state'[e] = "open", kind'[e] = kind[e],
             NEW out \in Seq(Message), Len(out) \in {0, 1}, recvCh'[e] = recvCh[e] \o out
      PROVE  Link(e)!Next \/ UNCHANGED Link(e)!vars
  <2>1. Len(recvCh'[e]) \in {Len(recvCh[e]), Len(recvCh[e]) + 1}
    BY <1>1, <1>6, AtMostOneMore
  <2>2. CASE Len(recvCh'[e]) = Len(recvCh[e])
    BY <1>6, <2>2 DEF Link!vars
  <2>3. CASE Len(recvCh'[e]) = Len(recvCh[e]) + 1
    BY <1>6, <2>3 DEF Link!Next, Link!Arrive
  <2> QED
    BY <2>1, <2>2, <2>3
<1> QED
  BY <1>2, <1>3, <1>4, <1>5, <1>6 DEF LinkStep

LEMMA ShutdownStep ==
    ASSUME TypeOK, NEW x \in Ends, NEW k \in {"client", "server", "error"}, Shutdown(x, k),
           UNCHANGED recvCh, state[x] # "new", NEW e \in Ends
    PROVE  LinkStep(e)
  BY DEF TypeOK, CloseOK, Shutdown, LinkStep

LEMMA SendPacketStep ==
    ASSUME TypeOK, NEW x \in Ends, NEW p, SendPacket(x, p), UNCHANGED recvCh,
           state[x] # "new", NEW e \in Ends
    PROVE  LinkStep(e)
<1>1. CASE UNCHANGED <<state, kind>>
  BY <1>1 DEF LinkStep
<1>2. CASE Shutdown(x, SendFailure(x))
  BY <1>2, ShutdownStep DEF SendFailure
<1> QED
  BY <1>1, <1>2 DEF SendPacket

(* An end that has not been entered has no tasks. *)
NewIsIdle ==
    \A e \in Ends : state[e] = "new" =>
        /\ sender[e] = "idle" /\ receiver[e] = "idle" /\ reader[e] = "idle"
        /\ exit[e] = "no" /\ sending[e] = Idle

LEMMA NextIdle == TypeOK /\ NewIsIdle /\ [Next]_vars => NewIsIdle'
<1> SUFFICES ASSUME TypeOK, NewIsIdle, [Next]_vars, NEW e \in Ends, state'[e] = "new"
             PROVE  /\ sender'[e] = "idle" /\ receiver'[e] = "idle" /\ reader'[e] = "idle"
                    /\ exit'[e] = "no" /\ sending'[e] = Idle
  BY DEF NewIsIdle
<1> USE DEF TypeOK, CloseOK, TasksOK, MessagesOK
<1>1. ASSUME NEW x \in Ends, SendHeader(x) \/ SendData(x)
      PROVE  /\ state[e] = "new" /\ UNCHANGED tasks /\ sending'[e] = sending[e]
  BY <1>1 DEF SendHeader, SendData, SendPacket, Shutdown, NewIsIdle
<1>2. ASSUME NEW x \in Ends, ReaderEnds(x) \/ ExitLeavesReader(x) \/ Enter(x)
      PROVE  /\ state[e] = "new" /\ x # e
             /\ sender'[e] = sender[e] /\ receiver'[e] = receiver[e] /\ reader'[e] = reader[e]
             /\ exit'[e] = exit[e] /\ sending'[e] = sending[e]
  BY <1>2 DEF ReaderEnds, ExitLeavesReader, Enter, Shutdown, NewIsIdle
<1>3. ASSUME NEW x \in Ends,
             SenderEnds(x) \/ ReceiverEnds(x) \/ ReadPacket(x) \/ ExitReturns(x) \/ Exit(x)
      PROVE  /\ state[e] = "new" /\ x # e
             /\ sender'[e] = sender[e] /\ receiver'[e] = receiver[e] /\ reader'[e] = reader[e]
             /\ exit'[e] = exit[e] /\ sending'[e] = sending[e]
  BY <1>3 DEF SenderEnds, ReceiverEnds, ReadPacket, ExitReturns, Exit, NewIsIdle
<1>4. CASE UNCHANGED <<state, tasks, sending>>
  BY <1>4 DEF tasks, NewIsIdle
<1> QED
  BY <1>1, <1>2, <1>3, <1>4 DEF Next, Sending, Receiving, Reading, Exiting, HandleMessage,
     SendNowait, ConnectionLost, Terminated, tasks, vars, NewIsIdle

LEMMA NextLinkStep ==
    ASSUME TypeOK, NewIsIdle, [Next]_vars, NEW e \in Ends
    PROVE  LinkStep(e)
<1> USE DEF TypeOK, CloseOK, TasksOK, MessagesOK
<1>1. ASSUME NEW x \in Ends, SendHeader(x)
      PROVE  LinkStep(e)
  BY <1>1, SendPacketStep DEF SendHeader, NewIsIdle
<1>2. ASSUME NEW x \in Ends, SendData(x)
      PROVE  LinkStep(e)
  <2> state[x] # "new"
    BY <1>2 DEF SendData, NewIsIdle
  <2>1. CASE state[x] = "open"
    BY <1>2, <2>1, SendPacketStep DEF SendData
  <2>2. CASE state[x] # "open"
    BY <1>2, <2>2 DEF SendData, LinkStep
  <2> QED
    BY <2>1, <2>2
<1>3. ASSUME NEW x \in Ends, HandleMessage(x)
      PROVE  LinkStep(e)
  BY <1>3 DEF HandleMessage, LinkStep
<1>4. ASSUME NEW x \in Ends, ReadPacket(x)
      PROVE  LinkStep(e)
  <2> DEFINE r == Receive(asm[x], Head(wire[x]))
  <2>1. /\ r.out \in Seq(Message) /\ Len(r.out) \in {0, 1}
        /\ UNCHANGED <<state, kind>> /\ state[x] \in {"open", "closed"}
    <3> Head(wire[x]) \in PacketRecord /\ asm[x] \in Assembly
      BY <1>4, TailType DEF ReadPacket
    <3> QED
      BY <1>4, ReceiveType DEF ReadPacket, NewIsIdle
  <2>2. CASE UNCHANGED recvCh
    BY <2>1, <2>2 DEF LinkStep
  <2>3. CASE r.out = <<>> /\ recvCh' = [recvCh EXCEPT ![x] = @ \o r.out]
    <3> recvCh[x] \o <<>> = recvCh[x]
      OBVIOUS
    <3> recvCh'[e] = recvCh[e]
      BY <2>3
    <3> QED
      BY <2>1 DEF LinkStep
  <2>4. CASE state[x] = "open" /\ recvCh' = [recvCh EXCEPT ![x] = @ \o r.out]
    <3>1. CASE e = x
      BY <2>1, <2>4, <3>1 DEF LinkStep
    <3>2. CASE e # x
      BY <2>1, <2>4, <3>2 DEF LinkStep
    <3> QED
      BY <3>1, <3>2
  <2> QED
    BY <1>4, <2>1, <2>2, <2>3, <2>4 DEF ReadPacket
<1>5. ASSUME NEW x \in Ends, ReaderEnds(x)
      PROVE  LinkStep(e)
  <2>1. state[x] # "new" /\ UNCHANGED recvCh
    BY <1>5 DEF ReaderEnds, NewIsIdle
  <2>2. \E k \in {"server", "error"} : Shutdown(x, k)
    BY <1>5 DEF ReaderEnds
  <2> QED
    BY <2>1, <2>2, ShutdownStep
<1>6. ASSUME NEW x \in Ends, ExitLeavesReader(x)
      PROVE  LinkStep(e)
  <2>1. CASE Shutdown(x, "client")
    BY <1>6, <2>1, ShutdownStep DEF ExitLeavesReader, NewIsIdle
  <2>2. CASE UNCHANGED <<state, kind>>
    BY <1>6, <2>2 DEF ExitLeavesReader, LinkStep
  <2> QED
    BY <1>6, <2>1, <2>2 DEF ExitLeavesReader
<1>7. ASSUME NEW x \in Ends, Enter(x)
      PROVE  LinkStep(e)
  BY <1>7 DEF Enter, LinkStep
<1>8. CASE UNCHANGED <<state, kind, recvCh>>
  BY <1>8 DEF LinkStep
<1> QED
  BY <1>1, <1>2, <1>3, <1>4, <1>5, <1>6, <1>7, <1>8 DEF Next, Sending, Receiving, Reading,
     Exiting, SenderEnds, ReceiverEnds, ExitReturns, SendNowait, Exit, ConnectionLost,
     Terminated, vars

(* Each end of a websocket is the ProtocolLink its owner takes it for: it  *)
(* opens once, closes with one verdict, receives only while it is open and *)
(* hands on what it has received afterwards.                               *)
THEOREM LinkImplemented == Spec => ImplementsLink
<1>1. Init => TypeOK /\ NewIsIdle /\ \A e \in Ends : Link(e)!Init
  <2> SUFFICES ASSUME Init PROVE NewIsIdle /\ \A e \in Ends : Link(e)!Init
    BY InitTypes
  <2>1. NewIsIdle
    BY DEF Init, NewIsIdle
  <2>2. ASSUME NEW e \in Ends PROVE Link(e)!Init
    BY DEF Init, Link!Init
  <2> QED
    BY <2>1, <2>2
<1>2. TypeOK /\ NewIsIdle /\ [Next]_vars => TypeOK' /\ NewIsIdle'
  BY CloseTypes, TaskTypes, MessageTypes, NextIdle DEF TypeOK
<1>3. TypeOK /\ NewIsIdle /\ [Next]_vars
        => [\A e \in Ends : Link(e)!Next \/ UNCHANGED Link(e)!vars]_vars
  BY NextLinkStep, LinkStepRefines
<1> QED
  BY <1>1, <1>2, <1>3, PTL DEF Spec, ImplementsLink

=============================================================================
