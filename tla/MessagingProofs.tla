--------------------------- MODULE MessagingProofs ---------------------------
(***************************************************************************)
(* Theorems about Messaging: its types, that no waiting message is         *)
(* forgotten, that messages reach the server in the order of the calls,    *)
(* and that client and server agree on who is online and who is there,     *)
(* for any number of peers and messages.                                   *)
(***************************************************************************)
EXTENDS Messaging, FiniteSetTheorems, TLAPS

States == {"queued", "held", "starting", "asked", "ok", "missing", "error"} \cup Settled

(* Messages that have not been dispatched, and those that have, or failed *)
Before == {"new", "queued", "held", "starting"}
Behind == {"asked", "ok", "missing", "error", "sent", "unsent"}

MessageMap == [Messages -> MessageRecord]

(* Calls are made in order, ... *)
CallsInOrder ==
    \A k, m \in Messages : k < m /\ msg[k].state = "new" => msg[m].state = "new"

(* ... queued in order, ... *)
QueueInOrder ==
    /\ \A i \in 1..Len(queue) : msg[queue[i]].state = "queued"
    /\ \A i, j \in 1..Len(queue) : i < j => queue[i] < queue[j]
    /\ \A m \in Messages : msg[m].state = "queued" => \E i \in 1..Len(queue) : queue[i] = m

(* ... taken one at a time, and the one that is taken was the first; ... *)
SenderInOrder ==
    /\ \A m \in Messages :
        /\ msg[m].state = "held" <=> sender.at \in {"connect", "online"} /\ sender.message = m
        /\ msg[m].state = "starting" <=> sender.at = "dispatch" /\ sender.message = m
        /\ msg[m].state \in {"held", "starting"} => \A i \in 1..Len(queue) : m < queue[i]

(* ... what is on its way to the server comes after what has arrived, and  *)
(* before everything that has yet to be dispatched.                        *)
LineInOrder ==
    /\ \A i \in 1..Len(up) : up[i].type = "send" =>
        /\ msg[up[i].message].state \in Behind
        /\ \A m \in Messages : msg[m].state \in Before => up[i].message < m
        /\ \A k \in arrived : k < up[i].message
        /\ \A j \in 1..Len(up) : i < j /\ up[j].type = "send" => up[i].message < up[j].message
    /\ \A k \in arrived, m \in Messages : msg[m].state \in Before => k < m

Asking == \A m \in Messages : msg[m].state = "asked" => Connected

(* The task that sends is made when the room is up. *)
Started == room = "starting" => sender.at = "none"

Order == CallsInOrder /\ QueueInOrder /\ SenderInOrder /\ LineInOrder

IInv == TypeOK /\ Order /\ Asking /\ Started

-----------------------------------------------------------------------------
(* Messages, and what the helpers of Messaging do to them *)

LEMMA MessagesAreNaturals == Messages \subseteq Nat
<1>1. Cardinality(Messages) \in Nat
  BY MessagingAssumption, FS_CardinalityType
<1> QED
  BY <1>1, MessagingAssumption

LEMMA RecordStates ==
    ASSUME NEW r \in MessageRecord
    PROVE  /\ r.state \in {"new"} \cup States
           /\ r.state # "new" => r.to \in Peers /\ r.object \in Objects \cup {Plain, Gone}
  BY DEF MessageRecord, States, Settled

LEMMA RecordUpdate ==
    ASSUME NEW r \in MessageRecord, r.state # "new", NEW s \in States
    PROVE  /\ [r EXCEPT !.state = s] \in MessageRecord /\ [r EXCEPT !.state = s].state = s
           /\ [r EXCEPT !.object = Gone] \in MessageRecord
           /\ [r EXCEPT !.object = Gone].state = r.state
  BY DEF MessageRecord, States, Settled

(* A message that is not new gets another state. *)
Restated(ms, m, s) == [ms EXCEPT ![m].state = s]

LEMMA Restate ==
    ASSUME NEW ms \in MessageMap, NEW m \in Messages, ms[m].state # "new", NEW s \in States
    PROVE  /\ Restated(ms, m, s) \in MessageMap
           /\ \A k \in Messages :
                Restated(ms, m, s)[k].state = IF k = m THEN s ELSE ms[k].state
<1>1. ms[m] \in MessageRecord
  BY DEF MessageMap
<1> DEFINE r == [ms[m] EXCEPT !.state = s]
<1>2. r \in MessageRecord /\ r.state = s
  BY <1>1, RecordUpdate
<1>3. Restated(ms, m, s) = [ms EXCEPT ![m] = r]
  BY DEF Restated
<1> HIDE DEF r
<1> QED
  BY <1>2, <1>3 DEF MessageMap

LEMMA SetOfflineKeeps ==
    ASSUME NEW ms \in MessageMap, NEW p \in Peers, NEW O
    PROVE  /\ SetOffline(p, O, ms) \in MessageMap
           /\ \A k \in Messages : SetOffline(p, O, ms)[k].state = ms[k].state
<1> SUFFICES ASSUME NEW k \in Messages
             PROVE  /\ SetOffline(p, O, ms)[k] \in MessageRecord
                    /\ SetOffline(p, O, ms)[k].state = ms[k].state
  BY DEF SetOffline, MessageMap
<1>1. ms[k] \in MessageRecord
  BY DEF MessageMap
<1>2. CASE k \in Referring(p, O, ms)
  <2>1. ms[k].state # "new" /\ SetOffline(p, O, ms)[k] = [ms[k] EXCEPT !.object = Gone]
    BY <1>2 DEF Referring, SetOffline
  <2> QED
    BY <1>1, <2>1, RecordUpdate DEF States
<1>3. CASE k \notin Referring(p, O, ms)
  BY <1>1, <1>3 DEF SetOffline
<1> QED
  BY <1>2, <1>3

LEMMA AllOfflineKeeps ==
    ASSUME NEW ms \in MessageMap
    PROVE  /\ AllOffline(ms) \in MessageMap
           /\ \A k \in Messages : AllOffline(ms)[k].state = ms[k].state
<1> SUFFICES ASSUME NEW k \in Messages
             PROVE  /\ AllOffline(ms)[k] \in MessageRecord
                    /\ AllOffline(ms)[k].state = ms[k].state
  BY DEF AllOffline, MessageMap
<1>1. ms[k] \in MessageRecord
  BY DEF MessageMap
<1>2. CASE \E p \in Peers : k \in Referring(p, {roster[p]} \cap Objects, ms)
  <2>1. ms[k].state # "new" /\ AllOffline(ms)[k] = [ms[k] EXCEPT !.object = Gone]
    BY <1>2 DEF Referring, AllOffline
  <2> QED
    BY <1>1, <2>1, RecordUpdate DEF States
<1>3. CASE ~\E p \in Peers : k \in Referring(p, {roster[p]} \cap Objects, ms)
  BY <1>1, <1>3 DEF AllOffline
<1> QED
  BY <1>2, <1>3

LEMMA PendingFailedKeeps ==
    ASSUME msg \in MessageMap
    PROVE  /\ PendingFailed \in MessageMap
           /\ \A k \in Messages :
                PendingFailed[k].state = IF msg[k].state = "asked" THEN "error" ELSE msg[k].state
<1> SUFFICES ASSUME NEW k \in Messages
             PROVE  /\ PendingFailed[k] \in MessageRecord
                    /\ PendingFailed[k].state =
                            IF msg[k].state = "asked" THEN "error" ELSE msg[k].state
  BY DEF PendingFailed, MessageMap
<1>1. msg[k] \in MessageRecord /\ "error" \in States
  BY DEF MessageMap, States
<1> QED
  BY <1>1, RecordUpdate DEF PendingFailed

LEMMA DrainedKeeps ==
    ASSUME NEW ms \in MessageMap
    PROVE  /\ Drained(ms) \in MessageMap
           /\ \A k \in Messages :
                Drained(ms)[k].state = IF ms[k].state = "queued" THEN "unsent" ELSE ms[k].state
<1> SUFFICES ASSUME NEW k \in Messages
             PROVE  /\ Drained(ms)[k] \in MessageRecord
                    /\ Drained(ms)[k].state =
                            IF ms[k].state = "queued" THEN "unsent" ELSE ms[k].state
  BY DEF Drained, MessageMap
<1>1. ms[k] \in MessageRecord /\ "unsent" \in States
  BY DEF MessageMap, States, Settled
<1> QED
  BY <1>1, RecordUpdate DEF Drained

(* There is an object that nothing refers to: one is in the table, and     *)
(* every message refers to one at most.                                    *)
LEMMA UnusedType ==
    ASSUME NEW p \in Peers
    PROVE  /\ Unused(p) \in Objects /\ Unused(p) # roster[p]
<1> DEFINE S == Objects \ {roster[p]}
           n == Cardinality(Messages)
<1>1. /\ IsFiniteSet(Messages) /\ n \in Nat
      /\ IsFiniteSet(S) /\ Cardinality(S) \in Nat /\ Cardinality(S) > n
  <2>1. IsFiniteSet(S) /\ Cardinality(S) >= Cardinality(Objects) - 1
    <3>1. /\ IsFiniteSet(S)
          /\ Cardinality(S) = IF roster[p] \in Objects THEN Cardinality(Objects) - 1
                              ELSE Cardinality(Objects)
      BY MessagingAssumption, FS_RemoveElement, Zenon
    <3>2. Cardinality(Objects) \in Nat
      BY MessagingAssumption, FS_CardinalityType
    <3> QED
      BY <3>1, <3>2
  <2>2. Cardinality(S) \in Nat /\ n \in Nat /\ Cardinality(Objects) \in Nat
    BY <2>1, MessagingAssumption, FS_CardinalityType
  <2> QED
    BY <2>1, <2>2, MessagingAssumption
<1>2. \E o \in S : Referring(p, {o}, msg) = {}
  <2> SUFFICES ASSUME \A o \in S : Referring(p, {o}, msg) # {}
               PROVE  FALSE
    OBVIOUS
  <2> DEFINE f == [o \in S |-> CHOOSE m \in Messages : m \in Referring(p, {o}, msg)]
  <2>1. \A o \in S : f[o] \in Messages /\ msg[f[o]].object = o
    <3> TAKE o \in S
    <3>1. \E m \in Messages : m \in Referring(p, {o}, msg)
      BY DEF Referring
    <3>2. f[o] \in Referring(p, {o}, msg)
      BY <3>1
    <3> QED
      BY <3>2 DEF Referring
  <2>2. f \in Injection(S, Messages)
    <3> HIDE DEF f
    <3>1. f \in [S -> Messages]
      BY <2>1 DEF f
    <3>2. \A a, b \in S : f[a] = f[b] => a = b
      BY <2>1
    <3> QED
      BY <3>1, <3>2 DEF Injection, IsInjective
  <2>3. Cardinality(S) <= n
    BY <1>1, <2>2, FS_Injection
  <2> QED
    BY <1>1, <2>3
<1> QED
  BY <1>2 DEF Unused

(* What travels *)
LEMMA RequestFields ==
    /\ Enable \in Request /\ Disable \in Request
    /\ Enable.type = "enable" /\ Disable.type = "disable"
    /\ \A m \in Messages :
        Send(m) \in Request /\ Send(m).type = "send" /\ Send(m).message = m
    /\ \A r \in Request : r.type = "send" => r.message \in Messages
<1>1. /\ Enable \in Request /\ Disable \in Request
      /\ Enable.type = "enable" /\ Disable.type = "disable"
  BY DEF Request, Enable, Disable
<1>2. ASSUME NEW m \in Messages
      PROVE  Send(m) \in Request /\ Send(m).type = "send" /\ Send(m).message = m
  BY DEF Request, Send
<1>3. ASSUME NEW r \in Request, r.type = "send"
      PROVE  r.message \in Messages
  <2>1. r = Enable \/ r = Disable \/ \E m \in Messages : r = Send(m)
    BY DEF Request
  <2> QED
    BY <1>1, <1>2, <1>3, <2>1
<1> QED
  BY <1>1, <1>2, <1>3

LEMMA NoticeFields ==
    /\ \A S \in SUBSET Peers : Enabled(S) \in Notice
    /\ \A p \in Peers : Joined(p) \in Notice /\ Left(p) \in Notice
    /\ \A m \in Messages : Reply(m, "ok") \in Notice /\ Reply(m, "missing") \in Notice
    /\ \A n \in Notice :
        /\ n.type = "enabled" => n.peers \in SUBSET Peers
        /\ n.type \in {"joined", "left"} => n.peer \in Peers
        /\ n.type = "reply" => n.message \in Messages /\ n.result \in {"ok", "missing"}
<1>1. ASSUME NEW S \in SUBSET Peers
      PROVE  Enabled(S) \in Notice /\ Enabled(S).type = "enabled" /\ Enabled(S).peers = S
  BY DEF Notice, Enabled
<1>2. ASSUME NEW p \in Peers
      PROVE  /\ Joined(p) \in Notice /\ Joined(p).type = "joined" /\ Joined(p).peer = p
             /\ Left(p) \in Notice /\ Left(p).type = "left" /\ Left(p).peer = p
  BY DEF Notice, Joined, Left
<1>3. ASSUME NEW m \in Messages, NEW r \in {"ok", "missing"}
      PROVE  /\ Reply(m, r) \in Notice /\ Reply(m, r).type = "reply"
             /\ Reply(m, r).message = m /\ Reply(m, r).result = r
  BY DEF Notice, Reply
<1>4. ASSUME NEW n \in Notice
      PROVE  /\ n.type = "enabled" => n.peers \in SUBSET Peers
             /\ n.type \in {"joined", "left"} => n.peer \in Peers
             /\ n.type = "reply" => n.message \in Messages /\ n.result \in {"ok", "missing"}
  <2>1. \/ \E S \in SUBSET Peers : n = Enabled(S)
        \/ \E p \in Peers : n = Joined(p) \/ n = Left(p)
        \/ \E m \in Messages, r \in {"ok", "missing"} : n = Reply(m, r)
    BY DEF Notice
  <2>2. CASE \E S \in SUBSET Peers : n = Enabled(S)
    BY <1>1, <2>2
  <2>3. CASE \E p \in Peers : n = Joined(p) \/ n = Left(p)
    BY <1>2, <2>3
  <2>4. CASE \E m \in Messages, r \in {"ok", "missing"} : n = Reply(m, r)
    BY <1>3, <2>4
  <2> QED
    BY <2>1, <2>2, <2>3, <2>4
<1> QED
  BY <1>1, <1>2, <1>3, <1>4

(* Sequences *)
LEMMA AppendFacts ==
    ASSUME NEW T, NEW s \in Seq(T), NEW x \in T
    PROVE  /\ Append(s, x) \in Seq(T) /\ Len(Append(s, x)) = Len(s) + 1
           /\ \A i \in 1..Len(s) : Append(s, x)[i] = s[i]
           /\ Append(s, x)[Len(s) + 1] = x
  OBVIOUS

LEMMA TailFacts ==
    ASSUME NEW T, NEW s \in Seq(T), s # <<>>
    PROVE  /\ Len(s) \in Nat /\ Len(s) >= 1
           /\ Head(s) = s[1] /\ Head(s) \in T
           /\ Tail(s) \in Seq(T) /\ Len(Tail(s)) = Len(s) - 1
           /\ \A i \in 1..Len(Tail(s)) : Tail(s)[i] = s[i + 1]
  OBVIOUS

-----------------------------------------------------------------------------
(* The type invariant, in parts *)

FlagsOK ==
    /\ room \in {"starting", "up", "lost", "offline", "ended", "exiting", "stopping", "left"}
    /\ desired \in BOOLEAN /\ online \in BOOLEAN /\ inFlight \in BOOLEAN
    /\ queueOpen \in BOOLEAN /\ known \in BOOLEAN /\ refused \in BOOLEAN
    /\ present \in SUBSET Peers /\ missed \in SUBSET Peers

RosterOK == roster \in [Peers -> Objects \cup {None}]

Waiting == [at: {"none", "receive", "done"}]
Busy == [at: {"connect", "online", "dispatch"}, message: Messages]

QueueOK == queue \in Seq(Messages) /\ sender \in Waiting \cup Busy

LineOK == up \in Seq(Request) /\ down \in Seq(Notice) /\ arrived \in SUBSET Messages

LEMMA TypeParts ==
    TypeOK <=> FlagsOK /\ RosterOK /\ QueueOK /\ LineOK /\ msg \in MessageMap
  BY DEF TypeOK, FlagsOK, RosterOK, QueueOK, LineOK, MessageMap, Waiting, Busy

LEMMA TypePartsNext ==
    FlagsOK' /\ RosterOK' /\ QueueOK' /\ LineOK' /\ msg' \in MessageMap => TypeOK'
  BY DEF TypeOK, FlagsOK, RosterOK, QueueOK, LineOK, MessageMap, Waiting, Busy

LEMMA SenderFields ==
    ASSUME NEW x \in Waiting \cup Busy
    PROVE  /\ x.at \in {"none", "receive", "done", "connect", "online", "dispatch"}
           /\ x.at \in {"connect", "online", "dispatch"} => x.message \in Messages
           /\ x.at = "connect" => /\ [x EXCEPT !.at = "online"] \in Busy
                                  /\ [x EXCEPT !.at = "online"].at = "online"
                                  /\ [x EXCEPT !.at = "online"].message = x.message
  BY DEF Waiting, Busy

(* A message under way to the server has an addressee. *)
LEMMA UnderWay ==
    ASSUME msg \in MessageMap, LineOK, LineInOrder, Asked("send")
    PROVE  /\ up # <<>> /\ Head(up) = up[1] /\ 1 \in 1..Len(up) /\ Head(up) \in Request
           /\ Head(up).message \in Messages
           /\ msg[Head(up).message].state \in Behind
           /\ msg[Head(up).message].to \in Peers
<1>1. /\ up # <<>> /\ Head(up) = up[1] /\ 1 \in 1..Len(up) /\ Head(up) \in Request
      /\ Head(up).type = "send"
  BY TailFacts DEF Asked, LineOK
<1>2. Head(up).message \in Messages /\ msg[Head(up).message].state \in Behind
  BY <1>1, RequestFields DEF LineInOrder
<1>3. msg[Head(up).message] \in MessageRecord
  BY <1>2 DEF MessageMap
<1> QED
  BY <1>1, <1>2, <1>3, RecordStates DEF Behind

LEMMA FlagsStep == TypeOK /\ LineInOrder /\ [Next]_vars => FlagsOK'
<1> SUFFICES ASSUME FlagsOK, LineOK, msg \in MessageMap, LineInOrder, [Next]_vars
             PROVE  FlagsOK'
  BY TypeParts
<1> USE DEF FlagsOK
<1>1. CASE Room
  BY <1>1 DEF Room, Start, Reconnect, EnableAnew, LinkLost, Disconnected, GiveUp, Exit, Stop,
     Leave, Clear, flagVars, taskVars, serverVars
<1>2. CASE UserEnables
  BY <1>2 DEF UserEnables, AskToEnable, taskVars, serverVars
<1>3. CASE UserDisables
  BY <1>3 DEF UserDisables, Clear, taskVars, serverVars
<1>4. CASE UserSends
  BY <1>4 DEF UserSends, flagVars, serverVars
<1>5. CASE Sender
  BY <1>5 DEF Sender, Take, SenderEnds, SenderConnected, SenderOnline, SenderFails, Dispatch,
     Resume, flagVars, taskVars, serverVars
<1>6. CASE Handler
  BY <1>6 DEF Handler, HandleEnabled, HandleJoined, HandleLeft, HandleReply, flagVars, taskVars,
     serverVars
<1>7. CASE ServerReceives
  <2>1. msg[Head(up).message].to \in Peers
    BY <1>7, UnderWay DEF ServerReceives
  <2>2. /\ missed' \in {missed, missed \cup {msg[Head(up).message].to}}
        /\ UNCHANGED <<room, flagVars, taskVars, known, refused, present>>
    BY <1>7 DEF ServerReceives
  <2> QED
    BY <2>1, <2>2 DEF flagVars, taskVars
<1>8. CASE Server /\ ~ServerReceives
  BY <1>8 DEF Server, ServerEnables, ServerRefuses, ServerDisables, PeerJoins, PeerLeaves,
     flagVars, taskVars
<1>9. CASE UNCHANGED vars
  BY <1>9 DEF vars, flagVars, taskVars, serverVars
<1> QED
  BY <1>1, <1>2, <1>3, <1>4, <1>5, <1>6, <1>7, <1>8, <1>9 DEF Next, User

LEMMA RosterStep == TypeOK /\ [Next]_vars => RosterOK'
<1> SUFFICES ASSUME RosterOK, LineOK, [Next]_vars PROVE RosterOK'
  BY TypeParts
<1> USE DEF RosterOK
<1>1. CASE UNCHANGED roster
  BY <1>1
<1>2. CASE Clear(msg) \/ Clear(PendingFailed)
  BY <1>2 DEF Clear
<1>3. CASE HandleEnabled
  <2>1. ASSUME NEW p \in Peers PROVE Unused(p) \in Objects
    BY UnusedType
  <2> QED
    BY <1>3, <2>1 DEF HandleEnabled
<1>4. CASE HandleJoined \/ HandleLeft
  <2>1. Head(down).peer \in Peers
    BY <1>4, NoticeFields, TailFacts DEF HandleJoined, HandleLeft, Told, LineOK
  <2> QED
    BY <1>4, <2>1, UnusedType DEF HandleJoined, HandleLeft
<1>5. ASSUME NEW m \in Messages, Resume(m) PROVE RosterOK'
  BY <1>5 DEF Resume
<1> QED
  BY <1>1, <1>2, <1>3, <1>4, <1>5 DEF Next, Room, User, Sender, Handler, Server, vars, Start,
     Reconnect, LinkLost, Disconnected, GiveUp, Exit, Stop, Leave, UserEnables, UserDisables,
     UserSends, Take, SenderEnds, SenderConnected, SenderOnline, SenderFails, Dispatch,
     HandleReply, ServerEnables, ServerRefuses, ServerDisables, ServerReceives, PeerJoins,
     PeerLeaves

LEMMA QueueStep == TypeOK /\ [Next]_vars => QueueOK'
<1> SUFFICES ASSUME QueueOK, [Next]_vars PROVE QueueOK'
  BY TypeParts
<1> USE DEF QueueOK
<1>1. CASE UNCHANGED <<queue, sender>>
  BY <1>1
<1>2. CASE UserSends
  BY <1>2, AppendFacts DEF UserSends
<1>3. CASE Take
  <2>1. Head(queue) \in Messages /\ Tail(queue) \in Seq(Messages)
    BY <1>3, TailFacts DEF Take
  <2>2. [at |-> "connect", message |-> Head(queue)] \in Busy
    BY <2>1 DEF Busy
  <2> QED
    BY <1>3, <2>1, <2>2 DEF Take
<1>4. CASE SenderConnected \/ SenderOnline
  <2>1. sender.at \in {"connect", "online"} /\ UNCHANGED queue
    BY <1>4 DEF SenderConnected, SenderOnline
  <2>2. sender.message \in Messages
    BY <2>1, SenderFields
  <2>3. /\ [at |-> "dispatch", message |-> sender.message] \in Busy
        /\ [at |-> "receive"] \in Waiting
    BY <2>2 DEF Busy, Waiting
  <2>4. sender.at = "connect" => [sender EXCEPT !.at = "online"] \in Busy
    BY SenderFields
  <2> QED
    BY <1>4, <2>1, <2>3, <2>4 DEF SenderConnected, SenderOnline, DispatchNext
<1>5. CASE Start \/ SenderEnds \/ SenderFails \/ Stop \/ \E m \in Messages : Dispatch(m)
  <2>1. /\ [at |-> "receive"] \in Waiting /\ [at |-> "done"] \in Waiting
        /\ <<>> \in Seq(Messages)
    BY DEF Waiting
  <2> QED
    BY <1>5, <2>1 DEF Start, SenderEnds, SenderFails, Stop, Dispatch
<1> QED
  BY <1>1, <1>2, <1>3, <1>4, <1>5 DEF Next, Room, User, Sender, Handler, Server, vars, taskVars,
     Reconnect, LinkLost, Disconnected, GiveUp, Exit, Leave, UserEnables, UserDisables, Resume,
     HandleEnabled, HandleJoined, HandleLeft, HandleReply, ServerEnables, ServerRefuses,
     ServerDisables, ServerReceives, PeerJoins, PeerLeaves

LEMMA LineStep == TypeOK /\ LineInOrder /\ [Next]_vars => LineOK'
<1> SUFFICES ASSUME LineOK, FlagsOK, msg \in MessageMap, LineInOrder, [Next]_vars
             PROVE  LineOK'
  BY TypeParts
<1> USE DEF LineOK
<1>1. ASSUME NEW r \in Request, Queue(r)
      PROVE  up' \in Seq(Request)
  BY <1>1, AppendFacts DEF Queue
<1>2. ASSUME NEW n \in Notice
      PROVE  Append(down, n) \in Seq(Notice)
  BY <1>2, AppendFacts
<1>3. CASE UNCHANGED <<up, down, arrived>>
  BY <1>3
<1>4. CASE Start \/ Reconnect \/ Exit
  <2>1. <<>> \in Seq(Request) /\ <<Enable>> \in Seq(Request) /\ <<>> \in Seq(Notice)
    BY RequestFields
  <2> QED
    BY <1>4, <2>1 DEF Start, Reconnect, EnableAnew, Exit
<1>5. CASE LinkLost
  <2>1. <<>> \in Seq(Request) /\ \A k \in 0..Len(down) : SubSeq(down, 1, k) \in Seq(Notice)
    OBVIOUS
  <2> QED
    BY <1>5, <2>1 DEF LinkLost
<1>6. CASE UserEnables
  BY <1>6, <1>1, RequestFields DEF UserEnables, AskToEnable, serverVars
<1>7. CASE UserDisables
  BY <1>7, <1>1, RequestFields DEF UserDisables, serverVars
<1>8. ASSUME NEW m \in Messages, Dispatch(m) PROVE LineOK'
  BY <1>8, <1>1, RequestFields DEF Dispatch, serverVars
<1>9. CASE Handler
  <2>1. down # <<>> /\ down' = Tail(down) /\ Tail(down) \in Seq(Notice) /\ arrived' = arrived
    BY <1>9, TailFacts DEF Handler, HandleEnabled, HandleJoined, HandleLeft, HandleReply, Told,
       serverVars
  <2>2. up' \in Seq(Request)
    BY <1>9, <1>1, RequestFields DEF Handler, HandleEnabled, HandleJoined, HandleLeft, HandleReply
  <2> QED
    BY <2>1, <2>2
<1>10. CASE ServerEnables \/ ServerRefuses \/ ServerDisables
  <2>1. Tail(up) \in Seq(Request) /\ Append(down, Enabled(present)) \in Seq(Notice)
    BY <1>10, <1>2, TailFacts, NoticeFields DEF ServerEnables, ServerRefuses, ServerDisables,
       Asked, FlagsOK
  <2> QED
    BY <1>10, <2>1 DEF ServerEnables, ServerRefuses, ServerDisables, Asked
<1>11. CASE ServerReceives
  <2> DEFINE m == Head(up).message
             r == IF msg[m].to \in present THEN "ok" ELSE "missing"
  <2>1. m \in Messages /\ Tail(up) \in Seq(Request)
    BY <1>11, UnderWay, TailFacts DEF ServerReceives
  <2>2. Append(down, Reply(m, r)) \in Seq(Notice)
    BY <2>1, <1>2, NoticeFields
  <2> QED
    BY <1>11, <2>1, <2>2 DEF ServerReceives, Asked
<1>12. ASSUME NEW p \in Peers, PeerJoins(p) \/ PeerLeaves(p) PROVE LineOK'
  BY <1>12, <1>2, NoticeFields DEF PeerJoins, PeerLeaves
<1> QED
  BY <1>3, <1>4, <1>5, <1>6, <1>7, <1>8, <1>9, <1>10, <1>11, <1>12 DEF Next, Room, User,
     Sender, Server, vars, serverVars, Disconnected, GiveUp, Stop, Leave, UserSends, Take,
     SenderEnds, SenderConnected, SenderOnline, SenderFails, Resume

-----------------------------------------------------------------------------
(* What every action does to the states of the messages *)

(* Nothing, but for messages that have been dispatched *)
Harmless ==
    /\ msg' \in MessageMap
    /\ \A k \in Messages :
        \/ msg'[k].state = msg[k].state
        \/ msg[k].state \in Behind /\ msg'[k].state \in Behind

(* ... and none of them comes to be asked *)
Settling == \A k \in Messages : msg'[k].state = "asked" => msg[k].state = "asked"

LEMMA SameMessages ==
    ASSUME msg \in MessageMap, UNCHANGED msg
    PROVE  Harmless /\ Settling
  BY DEF Harmless, Settling

LEMMA ClearStep ==
    ASSUME msg \in MessageMap, Clear(msg)
    PROVE  Harmless /\ Settling
  BY AllOfflineKeeps DEF Clear, Harmless, Settling

LEMMA DisconnectedStep ==
    ASSUME msg \in MessageMap, Clear(PendingFailed) \/ msg' = PendingFailed
    PROVE  Harmless /\ \A k \in Messages : msg'[k].state # "asked"
<1>1. /\ PendingFailed \in MessageMap
      /\ \A k \in Messages :
            PendingFailed[k].state = IF msg[k].state = "asked" THEN "error" ELSE msg[k].state
  BY PendingFailedKeeps
<1>2. /\ msg' \in MessageMap
      /\ \A k \in Messages : msg'[k].state = PendingFailed[k].state
  BY <1>1, AllOfflineKeeps DEF Clear
<1> QED
  BY <1>1, <1>2 DEF Harmless, Behind

LEMMA ResumeStep ==
    ASSUME msg \in MessageMap, NEW m \in Messages, Resume(m)
    PROVE  Harmless /\ Settling
<1> DEFINE s == IF msg[m].state = "ok" THEN "sent" ELSE "unsent"
           ended == Restated(msg, m, s)
           p == msg[m].to
<1>1. /\ msg[m].state \in {"ok", "missing", "error"} /\ s \in {"sent", "unsent"}
      /\ msg[m] \in MessageRecord
  BY DEF Resume, MessageMap
<1>2. p \in Peers
  BY <1>1, RecordStates
<1>3. /\ ended \in MessageMap
      /\ \A k \in Messages : ended[k].state = IF k = m THEN s ELSE msg[k].state
  <2>1. s \in States /\ msg[m].state # "new"
    BY <1>1 DEF States, Settled
  <2> HIDE DEF s
  <2> QED
    BY <2>1, Restate
<1>4. msg' = ended \/ msg' = SetOffline(p, {roster[p], msg[m].object}, ended)
  <2>1. ended = [msg EXCEPT ![m].state = IF @ = "ok" THEN "sent" ELSE "unsent"]
    BY DEF MessageMap, Restated
  <2> HIDE DEF ended
  <2> QED
    BY <2>1 DEF Resume
<1> HIDE DEF ended
<1>5. msg' \in MessageMap /\ \A k \in Messages : msg'[k].state = ended[k].state
  BY <1>2, <1>3, <1>4, SetOfflineKeeps
<1> QED
  BY <1>1, <1>3, <1>5 DEF Harmless, Settling, Behind

LEMMA HandlerStep ==
    ASSUME TypeOK, Handler
    PROVE  Harmless /\ Settling
<1>1. msg \in MessageMap /\ down \in Seq(Notice)
  BY TypeParts DEF LineOK
<1>2. CASE HandleEnabled \/ HandleJoined
  BY <1>1, <1>2, SameMessages DEF HandleEnabled, HandleJoined
<1>3. CASE HandleLeft
  <2>1. Head(down).peer \in Peers
    BY <1>1, <1>3, NoticeFields, TailFacts DEF HandleLeft, Told
  <2> QED
    BY <1>1, <1>3, <2>1, SetOfflineKeeps DEF HandleLeft, Harmless, Settling
<1>4. CASE HandleReply
  <2> DEFINE r == Head(down)
  <2>1. r.message \in Messages /\ r.result \in {"ok", "missing"}
    BY <1>1, <1>4, NoticeFields, TailFacts DEF HandleReply, Told
  <2>2. CASE msg[r.message].state = "asked"
    <3>1. msg' = Restated(msg, r.message, r.result)
      BY <1>4, <2>2 DEF HandleReply, Restated
    <3>2. r.result \in States /\ r.result # "asked"
      BY <2>1 DEF States
    <3>3. /\ msg' \in MessageMap
          /\ \A k \in Messages :
                msg'[k].state = IF k = r.message THEN r.result ELSE msg[k].state
      <4> HIDE DEF r
      <4> QED
        BY <1>1, <2>1, <2>2, <3>1, <3>2, Restate
    <3> QED
      BY <2>1, <2>2, <3>3 DEF Harmless, Settling, Behind
  <2>3. CASE msg[r.message].state # "asked"
    BY <1>1, <1>4, <2>3, SameMessages DEF HandleReply
  <2> QED
    BY <2>2, <2>3
<1> QED
  BY <1>2, <1>3, <1>4 DEF Handler

LEMMA UserSendsStep ==
    ASSUME msg \in MessageMap, RosterOK, UserSends
    PROVE  \E m \in Messages :
            /\ msg[m].state = "new" /\ \A k \in Messages : k < m => msg[k].state # "new"
            /\ queue' = Append(queue, m)
            /\ UNCHANGED <<sender, up, arrived, room>>
            /\ msg' \in MessageMap
            /\ \A k \in Messages :
                msg'[k].state = IF k = m THEN "queued" ELSE msg[k].state
<1>1. PICK m \in Messages, p \in Peers, o \in Objects \cup {Plain, Gone} :
        /\ msg[m].state = "new" /\ \A k \in Messages : k < m => msg[k].state # "new"
        /\ msg' = [msg EXCEPT ![m] = [state |-> "queued", to |-> p, object |-> o]]
        /\ queue' = Append(queue, m)
        /\ UNCHANGED <<sender, up, arrived, room>>
  BY DEF UserSends, serverVars
<1> DEFINE r == [state |-> "queued", to |-> p, object |-> o]
<1>2. r \in MessageRecord /\ r.state = "queued"
  BY DEF MessageRecord
<1> HIDE DEF r
<1>3. msg' = [msg EXCEPT ![m] = r]
  BY <1>1 DEF r
<1>4. /\ msg' \in MessageMap
      /\ \A k \in Messages : msg'[k].state = IF k = m THEN "queued" ELSE msg[k].state
  BY <1>2, <1>3 DEF MessageMap
<1> QED
  BY <1>1, <1>4

LEMMA TakeStep ==
    ASSUME msg \in MessageMap, QueueOK, QueueInOrder, Take
    PROVE  /\ msg' \in MessageMap /\ Head(queue) \in Messages
           /\ msg[Head(queue)].state = "queued"
           /\ \A k \in Messages :
                msg'[k].state = IF k = Head(queue) THEN "held" ELSE msg[k].state
<1>1. Head(queue) \in Messages /\ Head(queue) = queue[1] /\ 1 \in 1..Len(queue)
  BY TailFacts DEF Take, QueueOK
<1>2. msg[Head(queue)].state = "queued"
  BY <1>1 DEF QueueInOrder
<1>3. "held" \in States /\ msg' = Restated(msg, Head(queue), "held")
  BY DEF Take, States, Restated
<1> QED
  BY <1>1, <1>2, <1>3, Restate

LEMMA DispatchNextStep ==
    ASSUME msg \in MessageMap, NEW m \in Messages, msg[m].state = "held", DispatchNext(m)
    PROVE  /\ msg' \in MessageMap
           /\ \A k \in Messages : k # m => msg'[k].state = msg[k].state
           /\ \/ msg'[m].state = "starting" /\ sender' = [at |-> "dispatch", message |-> m]
              \/ msg'[m].state = "unsent" /\ sender' = [at |-> "receive"]
<1>1. "starting" \in States /\ "unsent" \in States
  BY DEF States, Settled
<1>2. \/ /\ msg' = Restated(msg, m, "starting")
         /\ sender' = [at |-> "dispatch", message |-> m]
      \/ msg' = Restated(msg, m, "unsent") /\ sender' = [at |-> "receive"]
  BY DEF DispatchNext, Restated
<1> QED
  BY <1>1, <1>2, Restate

LEMMA SenderFailsStep ==
    ASSUME msg \in MessageMap, sender.message \in Messages, msg[sender.message].state = "held",
           SenderFails
    PROVE  /\ msg' \in MessageMap
           /\ \A k \in Messages :
                msg'[k].state = IF k = sender.message \/ msg[k].state = "queued" THEN "unsent"
                                ELSE msg[k].state
<1> DEFINE ms == Restated(msg, sender.message, "unsent")
<1>1. /\ ms \in MessageMap
      /\ \A k \in Messages :
            ms[k].state = IF k = sender.message THEN "unsent" ELSE msg[k].state
  <2>1. "unsent" \in States
    BY DEF States, Settled
  <2> QED
    BY <2>1, Restate
<1>2. msg' = Drained(ms)
  BY DEF SenderFails, Restated
<1> HIDE DEF ms
<1> QED
  BY <1>1, <1>2, DrainedKeeps

LEMMA DispatchStep ==
    ASSUME msg \in MessageMap, NEW m \in Messages, Dispatch(m)
    PROVE  /\ msg' \in MessageMap /\ msg[m].state = "starting"
           /\ \A k \in Messages : k # m => msg'[k].state = msg[k].state
           /\ msg'[m].state = IF room = "up" THEN "asked" ELSE "unsent"
<1> DEFINE s == IF room = "up" THEN "asked" ELSE "unsent"
<1>1. s \in States /\ msg[m].state = "starting" /\ msg' = Restated(msg, m, s)
  BY DEF States, Settled, Dispatch, Restated
<1> HIDE DEF s
<1>2. /\ msg' \in MessageMap
      /\ \A k \in Messages : msg'[k].state = IF k = m THEN s ELSE msg[k].state
  BY <1>1, Restate
<1> QED
  BY <1>1, <1>2 DEF s

-----------------------------------------------------------------------------
(* The invariant is kept: the line to the server *)

(* No message goes back to be dispatched again. *)
Onward ==
    \A k \in Messages :
        /\ msg'[k].state \in Before => msg[k].state \in Before
        /\ msg[k].state \in Behind => msg'[k].state \in Behind

(* Nothing but enable and disable is added to the line. *)
LineStill ==
    /\ arrived' = arrived
    /\ \/ up' \in {up, <<>>, <<Enable>>, Append(up, Enable), Append(up, Disable)}
       \/ up # <<>> /\ up' = Tail(up)

LEMMA HarmlessOnward == ASSUME Harmless PROVE Onward
  BY DEF Harmless, Onward, Behind, Before

LEMMA StillLine ==
    ASSUME LineOK, LineInOrder, Onward, LineStill
    PROVE  LineInOrder'
<1>1. \A k \in arrived', m \in Messages : msg'[m].state \in Before => k < m
  BY DEF LineInOrder, Onward, LineStill
<1> DEFINE Fine(i) ==
        up'[i].type = "send" =>
            /\ msg'[up'[i].message].state \in Behind
            /\ \A m \in Messages : msg'[m].state \in Before => up'[i].message < m
            /\ \A k \in arrived' : k < up'[i].message
            /\ \A j \in 1..Len(up') : i < j /\ up'[j].type = "send" =>
                    up'[i].message < up'[j].message
<1>2. ASSUME NEW i \in 1..Len(up), up[i].type = "send"
      PROVE  up[i].message \in Messages
  BY <1>2, RequestFields DEF LineOK
<1>3. CASE up' = up
  <2>1. ASSUME NEW i \in 1..Len(up'), up'[i].type = "send" PROVE Fine(i)
    BY <1>2, <1>3, <2>1 DEF LineInOrder, Onward, LineStill
  <2> QED
    BY <1>1, <2>1 DEF LineInOrder
<1>4. CASE up' = <<>>
  BY <1>1, <1>4 DEF LineInOrder
<1>5. CASE up' = <<Enable>>
  <2>1. Len(up') = 1 /\ up'[1].type = "enable"
    BY <1>5, RequestFields
  <2> QED
    BY <1>1, <2>1 DEF LineInOrder
<1>6. ASSUME NEW r \in Request, r.type # "send", up' = Append(up, r) PROVE LineInOrder'
  <2>1. /\ Len(up) \in Nat /\ Len(up') = Len(up) + 1 /\ up'[Len(up) + 1] = r
        /\ \A i \in 1..Len(up) : up'[i] = up[i]
    BY <1>6, AppendFacts DEF LineOK
  <2>2. ASSUME NEW i \in 1..Len(up'), up'[i].type = "send"
        PROVE  i \in 1..Len(up) /\ up'[i] = up[i]
    BY <1>6, <2>1, <2>2
  <2>3. ASSUME NEW i \in 1..Len(up'), up'[i].type = "send" PROVE Fine(i)
    <3>1. i \in 1..Len(up) /\ up'[i] = up[i] /\ up[i].message \in Messages
      BY <1>2, <2>2, <2>3
    <3>2. \A j \in 1..Len(up') : i < j /\ up'[j].type = "send" =>
                up'[i].message < up'[j].message
      BY <2>2, <2>3, <3>1 DEF LineInOrder
    <3> QED
      BY <2>3, <3>1, <3>2 DEF LineInOrder, Onward, LineStill
  <2> QED
    BY <1>1, <2>3 DEF LineInOrder
<1>7. CASE up # <<>> /\ up' = Tail(up)
  <2>1. /\ Len(up) \in Nat /\ Len(up') = Len(up) - 1
        /\ \A i \in 1..Len(up') : i + 1 \in 1..Len(up) /\ up'[i] = up[i + 1]
    BY <1>7, TailFacts DEF LineOK
  <2>2. ASSUME NEW i \in 1..Len(up'), up'[i].type = "send" PROVE Fine(i)
    <3>1. i + 1 \in 1..Len(up) /\ up'[i] = up[i + 1] /\ up[i + 1].message \in Messages
      BY <1>2, <2>1, <2>2
    <3>2. ASSUME NEW j \in 1..Len(up'), i < j, up'[j].type = "send"
          PROVE  up'[i].message < up'[j].message
      <4>1. j + 1 \in 1..Len(up) /\ up'[j] = up[j + 1] /\ i + 1 < j + 1
        BY <2>1, <3>2
      <4> QED
        BY <2>2, <3>1, <3>2, <4>1 DEF LineInOrder
    <3> QED
      BY <2>2, <3>1, <3>2 DEF LineInOrder, Onward, LineStill
  <2> QED
    BY <1>1, <2>2 DEF LineInOrder
<1> QED
  BY <1>3, <1>4, <1>5, <1>6, <1>7, RequestFields DEF LineStill

(* The server gets the first message of the line. *)
LEMMA ReceivesLine ==
    ASSUME TypeOK, LineInOrder, ServerReceives
    PROVE  /\ arrived' = arrived \cup {Head(up).message} /\ Head(up).message \in Messages
           /\ \A k \in arrived : k < Head(up).message
           /\ LineInOrder'
<1> msg \in MessageMap /\ LineOK
  BY TypeParts
<1>1. /\ up # <<>> /\ Head(up) = up[1] /\ 1 \in 1..Len(up) /\ up[1].type = "send"
      /\ up[1].message \in Messages /\ msg[up[1].message].state \in Behind
      /\ arrived' = arrived \cup {up[1].message} /\ up' = Tail(up) /\ msg' = msg
  BY UnderWay DEF ServerReceives, Asked
<1>2. /\ Len(up) \in Nat /\ Len(up') = Len(up) - 1
      /\ \A i \in 1..Len(up') : i + 1 \in 1..Len(up) /\ up'[i] = up[i + 1]
  BY <1>1, TailFacts DEF LineOK
<1>3. \A k \in arrived', m \in Messages : msg'[m].state \in Before => k < m
  BY <1>1 DEF LineInOrder
<1>4. ASSUME NEW i \in 1..Len(up'), up'[i].type = "send"
      PROVE  /\ msg'[up'[i].message].state \in Behind
             /\ \A m \in Messages : msg'[m].state \in Before => up'[i].message < m
             /\ \A k \in arrived' : k < up'[i].message
             /\ \A j \in 1..Len(up') : i < j /\ up'[j].type = "send" =>
                    up'[i].message < up'[j].message
  <2>1. i + 1 \in 1..Len(up) /\ up'[i] = up[i + 1] /\ 1 < i + 1
    BY <1>2, <1>4
  <2>2. \A k \in arrived' : k < up'[i].message
    BY <1>1, <1>4, <2>1 DEF LineInOrder
  <2>3. ASSUME NEW j \in 1..Len(up'), i < j, up'[j].type = "send"
        PROVE  up'[i].message < up'[j].message
    <3>1. j + 1 \in 1..Len(up) /\ up'[j] = up[j + 1] /\ i + 1 < j + 1
      BY <1>2, <2>3
    <3> QED
      BY <1>4, <2>1, <2>3, <3>1 DEF LineInOrder
  <2> QED
    BY <1>1, <1>4, <2>1, <2>2, <2>3 DEF LineInOrder
<1> QED
  BY <1>1, <1>3, <1>4 DEF LineInOrder

(* A message is sent: everything before it has been dispatched. *)
LEMMA DispatchLine ==
    ASSUME TypeOK, Order, NEW m \in Messages, Dispatch(m)
    PROVE  LineInOrder'
<1> msg \in MessageMap /\ LineOK /\ QueueOK
  BY TypeParts
<1> USE MessagesAreNaturals
<1>1. /\ msg' \in MessageMap /\ msg[m].state = "starting"
      /\ \A k \in Messages : k # m => msg'[k].state = msg[k].state
      /\ msg'[m].state \in {"asked", "unsent"}
  BY DispatchStep
<1>2. Onward
  BY <1>1 DEF Onward, Before, Behind
<1>3. sender.at = "dispatch" /\ sender.message = m
  BY <1>1 DEF Order, SenderInOrder
<1>4. ASSUME NEW k \in Messages, msg'[k].state \in Before
      PROVE  m < k
  <2>1. k # m /\ msg[k].state \in Before
    BY <1>1, <1>4 DEF Before
  <2>2. CASE msg[k].state = "new"
    BY <1>1, <2>1, <2>2 DEF Order, CallsInOrder
  <2>3. CASE msg[k].state = "queued"
    BY <1>1, <2>3 DEF Order, QueueInOrder, SenderInOrder
  <2>4. CASE msg[k].state \in {"held", "starting"}
    BY <1>3, <2>1, <2>4 DEF Order, SenderInOrder
  <2> QED
    BY <2>1, <2>2, <2>3, <2>4 DEF Before
<1>5. CASE room # "up"
  BY <1>2, <1>5, StillLine DEF Dispatch, Queue, LineStill, Order, serverVars
<1>6. CASE room = "up"
  <2>1. Send(m) \in Request /\ Send(m).type = "send" /\ Send(m).message = m
    BY RequestFields
  <2>2. up' = Append(up, Send(m)) /\ arrived' = arrived
    BY <1>6 DEF Dispatch, Queue, serverVars
  <2>3. /\ Len(up) \in Nat /\ Len(up') = Len(up) + 1 /\ up'[Len(up) + 1] = Send(m)
        /\ \A i \in 1..Len(up) : up'[i] = up[i]
    BY <2>1, <2>2, AppendFacts DEF LineOK
  <2>4. \A k \in arrived', n \in Messages : msg'[n].state \in Before => k < n
    BY <1>2, <2>2 DEF LineInOrder, Onward, Order
  <2>5. msg[m].state \in Before /\ msg'[m].state \in Behind
    BY <1>1 DEF Before, Behind
  <2>6. ASSUME NEW i \in 1..Len(up'), up'[i].type = "send"
        PROVE  /\ msg'[up'[i].message].state \in Behind
               /\ \A n \in Messages : msg'[n].state \in Before => up'[i].message < n
               /\ \A k \in arrived' : k < up'[i].message
               /\ \A j \in 1..Len(up') : i < j /\ up'[j].type = "send" =>
                    up'[i].message < up'[j].message
    <3>1. CASE i = Len(up) + 1
      <4>1. up'[i].message = m /\ ~\E j \in 1..Len(up') : i < j
        BY <2>1, <2>3, <3>1
      <4> QED
        BY <1>4, <2>2, <2>5, <4>1 DEF Order, LineInOrder
    <3>2. CASE i \in 1..Len(up)
      <4>1. up'[i] = up[i] /\ up[i].type = "send" /\ up[i].message \in Messages
        BY <2>3, <2>6, <3>2, RequestFields DEF LineOK
      <4>2. ASSUME NEW j \in 1..Len(up'), i < j, up'[j].type = "send"
            PROVE  up'[i].message < up'[j].message
        <5>1. CASE j = Len(up) + 1
          BY <2>1, <2>3, <2>5, <3>2, <4>1, <5>1 DEF Order, LineInOrder
        <5>2. CASE j \in 1..Len(up)
          BY <2>3, <3>2, <4>1, <4>2, <5>2 DEF Order, LineInOrder
        <5> QED
          BY <2>3, <5>1, <5>2
      <4> QED
        BY <1>2, <2>2, <3>2, <4>1, <4>2 DEF Order, LineInOrder, Onward
    <3> QED
      BY <2>3, <3>1, <3>2
  <2> QED
    BY <2>4, <2>6 DEF LineInOrder
<1> QED
  BY <1>5, <1>6

-----------------------------------------------------------------------------
(* The invariant is kept: the queue and the task that sends *)

Hands == CallsInOrder /\ QueueInOrder /\ SenderInOrder

(* The task that sends has no message before the step and none after it. *)
SenderStill ==
    \/ sender' = sender
    \/ /\ sender.at \notin {"connect", "online", "dispatch"}
       /\ sender'.at \notin {"connect", "online", "dispatch"}

LEMMA HarmlessHands ==
    ASSUME Hands, QueueOK, Harmless, SenderStill, queue' = queue
    PROVE  Hands'
<1>1. \A k \in Messages, st \in {"new", "queued", "held", "starting"} :
        msg'[k].state = st <=> msg[k].state = st
  BY DEF Harmless, Behind
<1>2. CallsInOrder'
  BY <1>1 DEF Hands, CallsInOrder
<1>3. QueueInOrder'
  BY <1>1 DEF Hands, QueueInOrder, QueueOK
<1>4. SenderInOrder'
  <2>1. CASE sender' = sender
    BY <1>1, <2>1 DEF Hands, SenderInOrder
  <2>2. CASE sender' # sender
    BY <1>1, <2>2 DEF Hands, SenderInOrder, SenderStill
  <2> QED
    BY <2>1, <2>2
<1> QED
  BY <1>2, <1>3, <1>4 DEF Hands

LEMMA UserSendsHands ==
    ASSUME TypeOK, Hands, UserSends
    PROVE  Hands' /\ Onward /\ LineStill /\ Settling /\ msg' \in MessageMap /\ room' = room
<1> msg \in MessageMap /\ QueueOK /\ RosterOK
  BY TypeParts
<1> USE MessagesAreNaturals
<1>1. PICK m \in Messages :
        /\ msg[m].state = "new" /\ \A k \in Messages : k < m => msg[k].state # "new"
        /\ queue' = Append(queue, m)
        /\ UNCHANGED <<sender, up, arrived, room>>
        /\ msg' \in MessageMap
        /\ \A k \in Messages : msg'[k].state = IF k = m THEN "queued" ELSE msg[k].state
  BY UserSendsStep
<1>2. /\ Len(queue) \in Nat /\ Len(queue') = Len(queue) + 1 /\ queue'[Len(queue) + 1] = m
      /\ \A i \in 1..Len(queue) : queue'[i] = queue[i] /\ queue[i] \in Messages
  BY <1>1, AppendFacts DEF QueueOK
<1>3. \A k \in Messages : msg[k].state # "new" => k < m
  BY <1>1 DEF Hands, CallsInOrder
<1>4. \A i \in 1..Len(queue) : queue[i] < m /\ msg'[queue[i]].state = "queued"
  BY <1>1, <1>2, <1>3 DEF Hands, QueueInOrder
<1>5. CallsInOrder'
  BY <1>1 DEF Hands, CallsInOrder
<1>6. QueueInOrder'
  <2>1. \A i \in 1..Len(queue') : msg'[queue'[i]].state = "queued"
    BY <1>1, <1>2, <1>4
  <2>2. ASSUME NEW i \in 1..Len(queue'), NEW j \in 1..Len(queue'), i < j
        PROVE  queue'[i] < queue'[j]
    BY <1>2, <1>4, <2>2 DEF Hands, QueueInOrder
  <2>3. ASSUME NEW k \in Messages, msg'[k].state = "queued"
        PROVE  \E i \in 1..Len(queue') : queue'[i] = k
    <3>1. CASE k = m
      BY <1>2, <3>1
    <3>2. CASE k # m
      <4>1. PICK i \in 1..Len(queue) : queue[i] = k
        BY <1>1, <2>3, <3>2 DEF Hands, QueueInOrder
      <4> QED
        BY <1>2, <4>1
    <3> QED
      BY <3>1, <3>2
  <2> QED
    BY <2>1, <2>2, <2>3 DEF QueueInOrder
<1>7. SenderInOrder'
  <2>1. ASSUME NEW k \in Messages
        PROVE  /\ msg'[k].state = "held" <=> sender'.at \in {"connect", "online"} /\ sender'.message = k
               /\ msg'[k].state = "starting" <=> sender'.at = "dispatch" /\ sender'.message = k
    BY <1>1 DEF Hands, SenderInOrder
  <2>2. ASSUME NEW k \in Messages, msg'[k].state \in {"held", "starting"}, NEW i \in 1..Len(queue')
        PROVE  k < queue'[i]
    BY <1>1, <1>2, <1>3, <2>2 DEF Hands, SenderInOrder
  <2> QED
    BY <2>1, <2>2 DEF SenderInOrder
<1>8. Onward /\ LineStill /\ Settling
  BY <1>1 DEF Onward, LineStill, Settling, Before, Behind
<1> QED
  BY <1>1, <1>5, <1>6, <1>7, <1>8 DEF Hands

LEMMA TakeHands ==
    ASSUME TypeOK, Hands, Take
    PROVE  Hands' /\ Onward /\ LineStill /\ Settling /\ msg' \in MessageMap /\ room' = room
<1> msg \in MessageMap /\ QueueOK
  BY TypeParts
<1> USE MessagesAreNaturals
<1> DEFINE m == Head(queue)
<1>1. /\ msg' \in MessageMap /\ m \in Messages /\ msg[m].state = "queued"
      /\ \A k \in Messages : msg'[k].state = IF k = m THEN "held" ELSE msg[k].state
  BY TakeStep DEF Hands
<1>2. /\ sender.at = "receive" /\ queue # <<>> /\ queue' = Tail(queue)
      /\ sender'.at = "connect" /\ sender'.message = m
      /\ UNCHANGED <<up, arrived, room>>
  BY DEF Take, serverVars
<1>3. /\ Len(queue) \in Nat /\ Len(queue') = Len(queue) - 1 /\ m = queue[1] /\ Len(queue) >= 1
      /\ \A i \in 1..Len(queue') : i + 1 \in 1..Len(queue) /\ queue'[i] = queue[i + 1]
  BY <1>2, TailFacts DEF QueueOK
<1> HIDE DEF m
<1>4. \A i \in 1..Len(queue') : m < queue'[i] /\ queue'[i] \in Messages
  <2> TAKE i \in 1..Len(queue')
  <2>1. i + 1 \in 1..Len(queue) /\ 1 \in 1..Len(queue) /\ 1 < i + 1 /\ queue'[i] = queue[i + 1]
    BY <1>3
  <2> QED
    BY <1>3, <2>1 DEF Hands, QueueInOrder, QueueOK
<1>5. CallsInOrder'
  BY <1>1 DEF Hands, CallsInOrder
<1>6. QueueInOrder'
  <2>1. \A i \in 1..Len(queue') : msg'[queue'[i]].state = "queued"
    <3> TAKE i \in 1..Len(queue')
    <3>1. i + 1 \in 1..Len(queue) /\ queue'[i] = queue[i + 1]
      BY <1>3
    <3>2. msg[queue'[i]].state = "queued"
      BY <3>1 DEF Hands, QueueInOrder
    <3>3. queue'[i] # m /\ queue'[i] \in Messages
      BY <1>1, <1>4
    <3> QED
      BY <1>1, <3>2, <3>3
  <2>2. \A i, j \in 1..Len(queue') : i < j => queue'[i] < queue'[j]
    BY <1>3 DEF Hands, QueueInOrder
  <2>3. ASSUME NEW k \in Messages, msg'[k].state = "queued"
        PROVE  \E i \in 1..Len(queue') : queue'[i] = k
    <3>1. k # m /\ msg[k].state = "queued"
      BY <1>1, <2>3
    <3>2. PICK i \in 1..Len(queue) : queue[i] = k
      BY <3>1 DEF Hands, QueueInOrder
    <3>3. i # 1
      BY <1>3, <3>1, <3>2
    <3>4. i - 1 \in 1..Len(queue') /\ (i - 1) + 1 = i
      BY <1>3, <3>3
    <3>5. queue'[i - 1] = queue[(i - 1) + 1]
      BY <1>3, <3>4
    <3> QED
      BY <3>2, <3>4, <3>5
  <2> QED
    BY <2>1, <2>2, <2>3 DEF QueueInOrder
<1>7. SenderInOrder'
  BY <1>1, <1>2, <1>4 DEF Hands, SenderInOrder
<1>8. Onward /\ LineStill /\ Settling
  BY <1>1, <1>2 DEF Onward, LineStill, Settling, Before, Behind
<1> QED
  BY <1>1, <1>2, <1>5, <1>6, <1>7, <1>8 DEF Hands

(* The message in the hands of the task that sends is let go of. *)
LEMMA DispatchNextHands ==
    ASSUME TypeOK, Hands, sender.at \in {"connect", "online"}, DispatchNext(sender.message),
           UNCHANGED <<queue, up, arrived>>
    PROVE  Hands' /\ Onward /\ LineStill /\ Settling /\ msg' \in MessageMap
<1> msg \in MessageMap /\ QueueOK
  BY TypeParts
<1> DEFINE m == sender.message
<1>1. m \in Messages
  BY SenderFields DEF QueueOK
<1>2. msg[m].state = "held"
  BY <1>1 DEF Hands, SenderInOrder
<1>3. /\ msg' \in MessageMap
      /\ \A k \in Messages : k # m => msg'[k].state = msg[k].state
      /\ \/ msg'[m].state = "starting" /\ sender' = [at |-> "dispatch", message |-> m]
         \/ msg'[m].state = "unsent" /\ sender' = [at |-> "receive"]
  BY <1>1, <1>2, DispatchNextStep
<1> HIDE DEF m
<1>4. \/ msg'[m].state = "starting" /\ sender'.at = "dispatch" /\ sender'.message = m
      \/ msg'[m].state = "unsent" /\ sender'.at = "receive"
  BY <1>3
<1>5. \A k \in Messages : k # m => msg[k].state \notin {"held", "starting"}
  BY DEF Hands, SenderInOrder, m
<1>6. CallsInOrder' /\ QueueInOrder'
  BY <1>1, <1>2, <1>3, <1>4 DEF Hands, CallsInOrder, QueueInOrder, QueueOK
<1>7. SenderInOrder'
  BY <1>1, <1>2, <1>3, <1>4, <1>5 DEF Hands, SenderInOrder
<1>8. Onward /\ LineStill /\ Settling
  BY <1>1, <1>2, <1>3, <1>4 DEF Onward, LineStill, Settling, Before, Behind
<1> QED
  BY <1>3, <1>6, <1>7, <1>8 DEF Hands

(* It goes on waiting for the room: to be online, now. *)
LEMMA WaitHands ==
    ASSUME TypeOK, Hands, sender.at = "connect", sender' = [sender EXCEPT !.at = "online"],
           UNCHANGED <<queue, msg>>
    PROVE  Hands'
<1>1. sender'.at = "online" /\ sender'.message = sender.message
  BY TypeParts, SenderFields DEF QueueOK
<1> QED
  BY <1>1 DEF Hands, CallsInOrder, QueueInOrder, SenderInOrder

LEMMA SenderFailsHands ==
    ASSUME TypeOK, Hands, SenderFails
    PROVE  Hands' /\ Onward /\ LineStill /\ Settling /\ msg' \in MessageMap /\ room' = room
<1> msg \in MessageMap /\ QueueOK
  BY TypeParts
<1> DEFINE m == sender.message
<1>1. sender.at \in {"connect", "online"} /\ m \in Messages
  BY SenderFields DEF QueueOK, SenderFails
<1>2. msg[m].state = "held"
  BY <1>1 DEF Hands, SenderInOrder
<1>3. /\ msg' \in MessageMap
      /\ \A k \in Messages :
            msg'[k].state = IF k = m \/ msg[k].state = "queued" THEN "unsent" ELSE msg[k].state
  BY <1>1, <1>2, SenderFailsStep
<1>4. queue' = <<>> /\ sender'.at = "done" /\ UNCHANGED <<up, arrived, room>>
  BY DEF SenderFails, serverVars
<1>5. \A k \in Messages : k # m => msg[k].state \notin {"held", "starting"}
  BY <1>1 DEF Hands, SenderInOrder
<1> HIDE DEF m
<1>6. CallsInOrder' /\ QueueInOrder'
  BY <1>1, <1>2, <1>3, <1>4 DEF Hands, CallsInOrder, QueueInOrder
<1>7. SenderInOrder'
  BY <1>3, <1>4, <1>5 DEF SenderInOrder
<1>8. Onward /\ LineStill /\ Settling
  BY <1>1, <1>2, <1>3, <1>4 DEF Onward, LineStill, Settling, Before, Behind
<1> QED
  BY <1>3, <1>4, <1>6, <1>7, <1>8 DEF Hands

LEMMA StopHands ==
    ASSUME TypeOK, Hands, Stop
    PROVE  Hands' /\ Onward /\ LineStill /\ Settling /\ msg' \in MessageMap
<1> msg \in MessageMap /\ QueueOK
  BY TypeParts
<1>1. /\ msg' \in MessageMap
      /\ \A k \in Messages :
            msg'[k].state = IF msg[k].state = "queued" THEN "unsent" ELSE msg[k].state
  BY DrainedKeeps DEF Stop
<1>2. queue' = <<>> /\ UNCHANGED <<sender, up, arrived>>
  BY DEF Stop, serverVars
<1>3. CallsInOrder' /\ QueueInOrder'
  BY <1>1, <1>2 DEF Hands, CallsInOrder, QueueInOrder
<1>4. SenderInOrder'
  BY <1>1, <1>2 DEF Hands, SenderInOrder
<1>5. Onward /\ LineStill /\ Settling
  BY <1>1, <1>2 DEF Onward, LineStill, Settling, Before, Behind
<1> QED
  BY <1>1, <1>3, <1>4, <1>5 DEF Hands

LEMMA DispatchHands ==
    ASSUME TypeOK, Hands, NEW m \in Messages, Dispatch(m)
    PROVE  Hands'
<1> msg \in MessageMap /\ QueueOK
  BY TypeParts
<1>1. /\ msg[m].state = "starting" /\ msg'[m].state \in {"asked", "unsent"}
      /\ \A k \in Messages : k # m => msg'[k].state = msg[k].state
  BY DispatchStep
<1>2. sender.at = "dispatch" /\ sender.message = m
  BY <1>1 DEF Hands, SenderInOrder
<1>3. sender'.at = "receive" /\ queue' = queue
  BY <1>2 DEF Dispatch
<1>4. \A k \in Messages : k # m => msg[k].state \notin {"held", "starting"}
  BY <1>2 DEF Hands, SenderInOrder
<1>5. CallsInOrder' /\ QueueInOrder'
  BY <1>1, <1>3 DEF Hands, CallsInOrder, QueueInOrder, QueueOK
<1>6. SenderInOrder'
  BY <1>1, <1>3, <1>4 DEF SenderInOrder
<1> QED
  BY <1>5, <1>6 DEF Hands

-----------------------------------------------------------------------------
(* The invariant is kept *)

LEMMA InitOrder == Init => IInv
<1> SUFFICES ASSUME Init PROVE IInv
  OBVIOUS
<1>1. TypeOK
  <2>1. msg \in MessageMap
    <3>1. [state |-> "new"] \in MessageRecord
      BY DEF MessageRecord
    <3> QED
      BY <3>1 DEF Init, MessageMap
  <2>2. FlagsOK /\ RosterOK
    BY DEF Init, FlagsOK, RosterOK
  <2>3. [at |-> "none"] \in Waiting /\ queue \in Seq(Messages)
    BY DEF Init, Waiting
  <2>4. LineOK
    BY DEF Init, LineOK
  <2> QED
    BY <2>1, <2>2, <2>3, <2>4, TypeParts DEF Init, QueueOK
<1>2. /\ \A m \in Messages : msg[m].state = "new"
      /\ queue = <<>> /\ up = <<>> /\ arrived = {} /\ sender.at = "none"
  BY DEF Init
<1>3. Order /\ Asking
  BY <1>2 DEF Order, CallsInOrder, QueueInOrder, SenderInOrder, LineInOrder, Asking
<1> QED
  BY <1>1, <1>2, <1>3 DEF IInv, Started

(* Hands and the types of the messages *)
LEMMA HandsStep == IInv /\ [Next]_vars => Hands' /\ msg' \in MessageMap
<1> SUFFICES ASSUME IInv, [Next]_vars PROVE Hands' /\ msg' \in MessageMap
  OBVIOUS
<1> TypeOK /\ Hands /\ msg \in MessageMap /\ QueueOK
  BY TypeParts DEF IInv, Order, Hands
<1>1. ASSUME Harmless, SenderStill, queue' = queue PROVE Hands' /\ msg' \in MessageMap
  BY <1>1, HarmlessHands DEF Harmless
<1>2. CASE Start \/ SenderEnds
  <2>1. SenderStill /\ queue' = queue /\ msg' = msg
    <3>1. CASE SenderEnds
      BY <3>1 DEF SenderEnds, SenderStill
    <3>2. CASE Start
      BY <3>2 DEF IInv, Started, Start, SenderStill
    <3> QED
      BY <1>2, <3>1, <3>2
  <2> QED
    BY <1>1, <2>1, SameMessages
<1>3. CASE Reconnect \/ LinkLost \/ GiveUp \/ UserEnables \/ Server \/ UNCHANGED vars
  <2>1. UNCHANGED <<sender, queue, msg>>
    BY <1>3 DEF Reconnect, LinkLost, GiveUp, UserEnables, Server, ServerEnables, ServerRefuses,
       ServerDisables, ServerReceives, PeerJoins, PeerLeaves, taskVars, vars
  <2> QED
    BY <1>1, <2>1, SameMessages DEF SenderStill
<1>4. CASE Disconnected \/ Exit
  BY <1>1, <1>4, DisconnectedStep DEF Disconnected, Exit, taskVars, SenderStill
<1>5. CASE Leave \/ UserDisables
  BY <1>1, <1>5, ClearStep DEF Leave, UserDisables, taskVars, SenderStill
<1>6. CASE Handler
  <2>1. UNCHANGED <<sender, queue>>
    BY <1>6 DEF Handler, HandleEnabled, HandleJoined, HandleLeft, HandleReply, taskVars
  <2> QED
    BY <1>1, <1>6, <2>1, HandlerStep DEF SenderStill
<1>7. ASSUME NEW m \in Messages, Resume(m) PROVE Hands' /\ msg' \in MessageMap
  BY <1>1, <1>7, ResumeStep DEF Resume, taskVars, SenderStill
<1>8. ASSUME NEW m \in Messages, Dispatch(m) PROVE Hands' /\ msg' \in MessageMap
  BY <1>8, DispatchHands, DispatchStep
<1>9. CASE UserSends \/ Take \/ SenderFails \/ Stop
  BY <1>9, UserSendsHands, TakeHands, SenderFailsHands, StopHands
<1>10. CASE SenderConnected \/ SenderOnline
  <2>1. CASE DispatchNext(sender.message)
    <3>1. sender.at \in {"connect", "online"} /\ UNCHANGED <<queue, up, arrived>>
      BY <1>10 DEF SenderConnected, SenderOnline, serverVars
    <3> QED
      BY <2>1, <3>1, DispatchNextHands
  <2>2. CASE ~DispatchNext(sender.message)
    <3>1. /\ sender.at = "connect" /\ sender' = [sender EXCEPT !.at = "online"]
          /\ UNCHANGED <<queue, msg>>
      BY <1>10, <2>2 DEF SenderConnected, SenderOnline
    <3> QED
      BY <3>1, WaitHands
  <2> QED
    BY <2>1, <2>2
<1> QED
  BY <1>2, <1>3, <1>4, <1>5, <1>6, <1>7, <1>8, <1>9, <1>10 DEF Next, Room, User, Sender

LEMMA LineOrderStep == IInv /\ [Next]_vars => LineInOrder'
<1> SUFFICES ASSUME IInv, [Next]_vars PROVE LineInOrder'
  OBVIOUS
<1> TypeOK /\ Hands /\ LineInOrder /\ msg \in MessageMap /\ LineOK
  BY TypeParts DEF IInv, Order, Hands
<1>1. ASSUME Harmless, LineStill PROVE LineInOrder'
  BY <1>1, HarmlessOnward, StillLine
<1>2. CASE \/ Start \/ Reconnect \/ LinkLost \/ GiveUp \/ UserEnables \/ SenderEnds
           \/ (Server /\ ~ServerReceives) \/ UNCHANGED vars
  <2>1. UNCHANGED msg /\ LineStill
    BY <1>2 DEF LineStill, Start, Reconnect, EnableAnew, LinkLost, GiveUp, UserEnables,
       AskToEnable, Queue, SenderEnds, Server, ServerEnables, ServerRefuses, ServerDisables,
       PeerJoins, PeerLeaves, Asked, serverVars, vars
  <2> QED
    BY <1>1, <2>1, SameMessages
<1>3. CASE Disconnected \/ Exit
  <2>1. LineStill
    BY <1>3 DEF LineStill, Disconnected, Exit, serverVars
  <2> QED
    BY <1>1, <1>3, <2>1, DisconnectedStep DEF Disconnected, Exit
<1>4. CASE Leave \/ UserDisables
  <2>1. LineStill
    BY <1>4 DEF LineStill, Leave, UserDisables, Queue, serverVars
  <2> QED
    BY <1>1, <1>4, <2>1, ClearStep DEF Leave, UserDisables
<1>5. CASE Handler
  <2>1. LineStill
    BY <1>5 DEF LineStill, Handler, HandleEnabled, HandleJoined, HandleLeft, HandleReply, Queue,
       serverVars
  <2> QED
    BY <1>1, <1>5, <2>1, HandlerStep
<1>6. ASSUME NEW m \in Messages, Resume(m) PROVE LineInOrder'
  <2>1. LineStill
    BY <1>6 DEF LineStill, Resume, serverVars
  <2> QED
    BY <1>1, <1>6, <2>1, ResumeStep
<1>7. ASSUME NEW m \in Messages, Dispatch(m) PROVE LineInOrder'
  BY <1>7, DispatchLine DEF IInv
<1>8. CASE ServerReceives
  BY <1>8, ReceivesLine
<1>9. CASE UserSends \/ Take \/ SenderFails \/ Stop
  BY <1>9, UserSendsHands, TakeHands, SenderFailsHands, StopHands, StillLine
<1>10. CASE SenderConnected \/ SenderOnline
  <2>1. UNCHANGED <<queue, up, arrived>> /\ sender.at \in {"connect", "online"}
    BY <1>10 DEF SenderConnected, SenderOnline, serverVars
  <2>2. CASE DispatchNext(sender.message)
    BY <2>1, <2>2, DispatchNextHands, StillLine
  <2>3. CASE UNCHANGED msg
    BY <1>1, <2>1, <2>3, SameMessages DEF LineStill
  <2> QED
    BY <1>10, <2>2, <2>3 DEF SenderConnected, SenderOnline
<1> QED
  BY <1>2, <1>3, <1>4, <1>5, <1>6, <1>7, <1>8, <1>9, <1>10 DEF Next, Room, User, Sender

LEMMA AskingStep == IInv /\ [Next]_vars => Asking' /\ Started'
<1> SUFFICES ASSUME IInv, [Next]_vars PROVE Asking' /\ Started'
  OBVIOUS
<1> TypeOK /\ Hands /\ msg \in MessageMap /\ QueueOK /\ Asking /\ Started
  BY TypeParts DEF IInv, Order, Hands
<1> USE DEF Asking, Started
<1>1. ASSUME Settling, Connected => Connected',
             UNCHANGED sender \/ room # "starting", room' = "starting" => room = "starting"
      PROVE  Asking' /\ Started'
  BY <1>1 DEF Settling
<1>2. CASE \/ Start \/ Reconnect \/ LinkLost \/ GiveUp
  BY <1>2, <1>1, SameMessages DEF Start, Reconnect, EnableAnew, LinkLost, GiveUp, Connected,
     taskVars
<1>3. CASE UserEnables \/ Server \/ UNCHANGED vars
  <2>1. UNCHANGED <<room, sender, msg>>
    BY <1>3 DEF UserEnables, Server, ServerEnables, ServerRefuses, ServerDisables,
       ServerReceives, PeerJoins, PeerLeaves, taskVars, vars
  <2> QED
    BY <1>1, <2>1, SameMessages DEF Connected
<1>4. CASE SenderEnds
  BY <1>4 DEF SenderEnds, Connected
<1>5. CASE Disconnected \/ Exit
  BY <1>5, DisconnectedStep DEF Disconnected, Exit, taskVars
<1>6. CASE Leave
  BY <1>1, <1>6, ClearStep DEF Leave, taskVars, Connected
<1>7. CASE UserDisables
  BY <1>1, <1>7, ClearStep DEF UserDisables, taskVars, Connected
<1>8. CASE Handler
  <2>1. UNCHANGED <<room, sender>>
    BY <1>8 DEF Handler, HandleEnabled, HandleJoined, HandleLeft, HandleReply, taskVars
  <2> QED
    BY <1>1, <1>8, <2>1, HandlerStep DEF Connected
<1>9. ASSUME NEW m \in Messages, Resume(m) PROVE Asking' /\ Started'
  BY <1>1, <1>9, ResumeStep DEF Resume, taskVars, Connected
<1>10. ASSUME NEW m \in Messages, Dispatch(m) PROVE Asking' /\ Started'
  <2>1. msg[m].state = "starting" /\ room' = room
    BY <1>10 DEF Dispatch
  <2>2. sender.at = "dispatch"
    BY <2>1 DEF Hands, SenderInOrder
  <2>3. \A k \in Messages : msg'[k].state = "asked" => msg[k].state = "asked" \/ room = "up"
    BY <1>10, DispatchStep
  <2> QED
    BY <2>1, <2>2, <2>3 DEF Connected
<1>11. CASE UserSends \/ Take \/ SenderFails \/ Stop
  <2>1. Settling
    BY <1>11, UserSendsHands, TakeHands, SenderFailsHands, StopHands
  <2>2. /\ Connected => Connected'
        /\ UNCHANGED sender \/ sender.at # "none"
        /\ room' = "starting" => room = "starting"
    BY <1>11 DEF UserSends, Take, SenderFails, Stop, Connected
  <2> QED
    BY <1>1, <2>1, <2>2
<1>12. CASE SenderConnected \/ SenderOnline
  <2>1. sender.at \in {"connect", "online"} /\ UNCHANGED <<room, queue, up, arrived>>
    BY <1>12 DEF SenderConnected, SenderOnline, serverVars
  <2>2. CASE DispatchNext(sender.message)
    BY <1>1, <2>1, <2>2, DispatchNextHands DEF Connected
  <2>3. CASE UNCHANGED msg
    BY <1>1, <2>1, <2>3, SameMessages DEF Connected
  <2> QED
    BY <1>12, <2>2, <2>3 DEF SenderConnected, SenderOnline
<1> QED
  BY <1>2, <1>3, <1>4, <1>5, <1>6, <1>7, <1>8, <1>9, <1>10, <1>11, <1>12 DEF Next, Room, User,
     Sender

LEMMA Inductive == IInv /\ [Next]_vars => IInv'
<1> SUFFICES ASSUME IInv, [Next]_vars PROVE IInv'
  OBVIOUS
<1>1. TypeOK /\ LineInOrder
  BY DEF IInv, Order
<1>2. FlagsOK' /\ RosterOK' /\ QueueOK' /\ LineOK'
  BY <1>1, FlagsStep, RosterStep, QueueStep, LineStep
<1>3. Hands' /\ msg' \in MessageMap
  BY HandsStep
<1>4. TypeOK'
  BY <1>2, <1>3, TypePartsNext
<1> QED
  BY <1>3, <1>4, LineOrderStep, AskingStep DEF IInv, Order, Hands

LEMMA Invariant == Spec => []IInv
  BY InitOrder, Inductive, PTL DEF Spec

-----------------------------------------------------------------------------
(* Every variable keeps its type; what is under way to the server has an   *)
(* addressee.                                                              *)
THEOREM TypeCorrect == Spec => []TypeOK
<1>1. IInv => TypeOK
  BY DEF IInv
<1> QED
  BY <1>1, Invariant, PTL

(* A message that is waited for is in the queue, in the hands of the task  *)
(* that sends, or asked on a connection that is not given up; and that     *)
(* task waits for a dispatch only while one is due.                        *)
THEOREM NobodyIsForgotten == Spec => []NobodyForgotten
<1>1. IInv => NobodyForgotten
  <2> SUFFICES ASSUME IInv PROVE NobodyForgotten
    OBVIOUS
  <2>1. QueueOK
    BY TypeParts DEF IInv
  <2>2. sender.at = "dispatch" => sender.message \in Messages
    BY <2>1, SenderFields DEF QueueOK
  <2> QED
    BY <2>2 DEF NobodyForgotten, IInv, Order, QueueInOrder, SenderInOrder, Asking
<1> QED
  BY <1>1, Invariant, PTL

(* Messages reach the server in the order of the calls that sent them.     *)
THEOREM MessagesSentInOrder == Spec => SentInOrder
<1>1. IInv /\ [Next]_vars =>
        [\A m \in arrived' : m \notin arrived => \A k \in arrived : k < m]_vars
  <2> SUFFICES ASSUME IInv, Next
               PROVE  \A m \in arrived' : m \notin arrived => \A k \in arrived : k < m
    OBVIOUS
  <2>1. CASE ServerReceives
    BY <2>1, ReceivesLine DEF IInv, Order
  <2>2. CASE ~ServerReceives
    <3>1. arrived' = arrived
      BY <2>2 DEF Next, Room, User, Sender, Handler, Server, serverVars, Start, Reconnect,
         LinkLost, Disconnected, GiveUp, Exit, Stop, Leave, UserEnables, UserDisables, UserSends,
         Take, SenderEnds, SenderConnected, SenderOnline, SenderFails, Dispatch, Resume,
         HandleEnabled, HandleJoined, HandleLeft, HandleReply, ServerEnables, ServerRefuses,
         ServerDisables, PeerJoins, PeerLeaves
    <3> QED
      BY <3>1
  <2> QED
    BY <2>1, <2>2
<1> QED
  BY <1>1, Invariant, PTL DEF Spec, SentInOrder

-----------------------------------------------------------------------------
(* What the server will hold of messaging once all that is on its way to   *)
(* it has arrived: k now, and the last of enabling and disabling in q.     *)
Has(q, t) == \E i \in 1..Len(q) : q[i].type = t

WillKnow(k, q) ==
    \/ k /\ ~Has(q, "disable")
    \/ \E i \in 1..Len(q) :
          q[i].type = "enable" /\ \A j \in 1..Len(q) : i < j => q[j].type # "disable"

(* The client is about to be told that messaging is enabled. *)
Coming == Has(up, "enable") \/ Has(down, "enabled")

(* On every connection messaging begins offline.  Unless the server has    *)
(* refused, whoever wants it is online or has asked; what has been asked   *)
(* is answered; and the last thing said to the server is what the client   *)
(* holds of itself, but for an answer that is still to come.               *)
WishInv ==
    /\ room \in {"starting", "offline"} => ~online /\ ~inFlight
    /\ room = "up" /\ ~refused =>
          /\ desired => online \/ inFlight
          /\ online => desired
          /\ inFlight => Coming
          /\ online \/ inFlight => WillKnow(known, up)
          /\ WillKnow(known, up) => online \/ Coming

LEMMA HasAppend ==
    ASSUME NEW T, NEW q \in Seq(T), NEW x \in T, NEW t
    PROVE  Has(Append(q, x), t) <=> Has(q, t) \/ x.type = t
<1> DEFINE p == Append(q, x)
           n == Len(q)
<1>1. n \in Nat /\ Len(p) = n + 1 /\ (\A i \in 1..n : p[i] = q[i]) /\ p[n + 1] = x
  BY AppendFacts
<1> HIDE DEF p, n
<1>2. ASSUME Has(p, t) PROVE Has(q, t) \/ x.type = t
  <2>1. PICK i \in 1..(n + 1) : p[i].type = t
    BY <1>1, <1>2 DEF Has
  <2>2. CASE i = n + 1
    BY <1>1, <2>1, <2>2
  <2>3. CASE i # n + 1
    <3>1. i \in 1..n
      BY <1>1, <2>3
    <3> QED
      BY <1>1, <2>1, <3>1 DEF Has, n
  <2> QED
    BY <2>2, <2>3
<1>3. ASSUME Has(q, t) PROVE Has(p, t)
  <2>1. PICK i \in 1..n : q[i].type = t
    BY <1>3 DEF Has, n
  <2>2. i \in 1..Len(p) /\ p[i] = q[i]
    BY <1>1, <2>1
  <2> QED
    BY <2>1, <2>2 DEF Has
<1>4. ASSUME x.type = t PROVE Has(p, t)
  <2>1. n + 1 \in 1..Len(p)
    BY <1>1
  <2> QED
    BY <1>1, <1>4, <2>1 DEF Has
<1> QED
  BY <1>2, <1>3, <1>4 DEF p

LEMMA HasTail ==
    ASSUME NEW T, NEW q \in Seq(T), q # <<>>, NEW t
    PROVE  Has(q, t) <=> Head(q).type = t \/ Has(Tail(q), t)
<1> DEFINE p == Tail(q)
           n == Len(q)
           h == Head(q)
<1>1. n \in Nat /\ n >= 1 /\ Len(p) = n - 1 /\ (\A i \in 1..Len(p) : p[i] = q[i + 1]) /\ h = q[1]
  BY TailFacts
<1> HIDE DEF p, n, h
<1>2. ASSUME Has(q, t) PROVE h.type = t \/ Has(p, t)
  <2>1. PICK i \in 1..n : q[i].type = t
    BY <1>2 DEF Has, n
  <2>2. CASE i = 1
    BY <1>1, <2>1, <2>2
  <2>3. CASE i # 1
    <3>1. i - 1 \in 1..Len(p) /\ p[i - 1] = q[i - 1 + 1] /\ i - 1 + 1 = i
      BY <1>1, <2>1, <2>3
    <3> QED
      BY <2>1, <3>1 DEF Has
  <2> QED
    BY <2>2, <2>3
<1>3. ASSUME Has(p, t) PROVE Has(q, t)
  <2>1. PICK i \in 1..Len(p) : p[i].type = t
    BY <1>3 DEF Has
  <2>2. i + 1 \in 1..n /\ p[i] = q[i + 1]
    BY <1>1, <2>1
  <2> QED
    BY <2>1, <2>2 DEF Has, n
<1>4. ASSUME h.type = t PROVE Has(q, t)
  <2>1. 1 \in 1..n
    BY <1>1
  <2> QED
    BY <1>1, <1>4, <2>1 DEF Has, n
<1> QED
  BY <1>2, <1>3, <1>4 DEF p, h

LEMMA WillAppend ==
    ASSUME NEW T, NEW q \in Seq(T), NEW x \in T, NEW k \in BOOLEAN
    PROVE  /\ x.type = "enable" => WillKnow(k, Append(q, x))
           /\ x.type = "disable" => ~WillKnow(k, Append(q, x))
           /\ x.type = "send" => (WillKnow(k, Append(q, x)) <=> WillKnow(k, q))
<1> DEFINE p == Append(q, x)
           n == Len(q)
<1>1. n \in Nat /\ Len(p) = n + 1 /\ (\A i \in 1..n : p[i] = q[i]) /\ p[n + 1] = x
  BY AppendFacts
<1>2. Has(p, "disable") <=> Has(q, "disable") \/ x.type = "disable"
  BY HasAppend
<1> HIDE DEF p, n
<1>3. ASSUME x.type = "enable" PROVE WillKnow(k, p)
  <2>1. n + 1 \in 1..Len(p) /\ \A j \in 1..Len(p) : ~(n + 1 < j)
    BY <1>1
  <2> QED
    BY <1>1, <1>3, <2>1 DEF WillKnow
<1>4. ASSUME x.type = "disable" PROVE ~WillKnow(k, p)
  <2>1. Has(p, "disable")
    BY <1>2, <1>4
  <2>2. ASSUME NEW i \in 1..Len(p), p[i].type = "enable",
               \A j \in 1..Len(p) : i < j => p[j].type # "disable"
        PROVE  FALSE
    <3>1. n + 1 \in 1..Len(p) /\ (i < n + 1 \/ i = n + 1)
      BY <1>1
    <3> QED
      BY <1>1, <1>4, <2>2, <3>1
  <2> QED
    BY <2>1, <2>2 DEF WillKnow
<1>5. ASSUME x.type = "send" PROVE WillKnow(k, p) <=> WillKnow(k, q)
  <2>1. Has(p, "disable") <=> Has(q, "disable")
    BY <1>2, <1>5
  <2>2. ASSUME NEW i \in 1..Len(p), p[i].type = "enable",
               \A j \in 1..Len(p) : i < j => p[j].type # "disable"
        PROVE  WillKnow(k, q)
    <3>1. i # n + 1
      BY <1>1, <1>5, <2>2
    <3>2. i \in 1..n /\ \A j \in 1..n : j \in 1..Len(p) /\ p[j] = q[j]
      BY <1>1, <3>1
    <3>3. q[i].type = "enable" /\ \A j \in 1..n : i < j => q[j].type # "disable"
      BY <2>2, <3>2
    <3> QED
      BY <3>2, <3>3 DEF WillKnow, n
  <2>3. ASSUME NEW i \in 1..n, q[i].type = "enable",
               \A j \in 1..n : i < j => q[j].type # "disable"
        PROVE  WillKnow(k, p)
    <3>1. i \in 1..Len(p) /\ p[i].type = "enable"
      BY <1>1, <2>3
    <3>2. ASSUME NEW j \in 1..Len(p), i < j PROVE p[j].type # "disable"
      <4>1. CASE j = n + 1
        BY <1>1, <1>5, <4>1
      <4>2. CASE j # n + 1
        <5>1. j \in 1..n
          BY <1>1, <4>2
        <5> QED
          BY <1>1, <2>3, <3>2, <5>1
      <4> QED
        BY <4>1, <4>2
    <3> QED
      BY <3>1, <3>2 DEF WillKnow
  <2> QED
    BY <2>1, <2>2, <2>3 DEF WillKnow, n
<1> QED
  BY <1>3, <1>4, <1>5 DEF p

LEMMA WillTail ==
    ASSUME NEW T, NEW q \in Seq(T), q # <<>>, NEW k \in BOOLEAN
    PROVE  /\ Head(q).type = "enable" => (WillKnow(TRUE, Tail(q)) <=> WillKnow(k, q))
           /\ Head(q).type = "disable" => (WillKnow(FALSE, Tail(q)) <=> WillKnow(k, q))
           /\ Head(q).type = "send" => (WillKnow(k, Tail(q)) <=> WillKnow(k, q))
<1> DEFINE p == Tail(q)
           n == Len(q)
           h == Head(q)
           Last(s, i) == s[i].type = "enable" /\ \A j \in 1..Len(s) : i < j => s[j].type # "disable"
<1>1. n \in Nat /\ n >= 1 /\ Len(p) = n - 1 /\ (\A i \in 1..Len(p) : p[i] = q[i + 1]) /\ h = q[1]
  BY TailFacts
<1>2. Has(q, "disable") <=> h.type = "disable" \/ Has(p, "disable")
  BY HasTail
<1> HIDE DEF p, n, h
<1>3. ASSUME NEW i \in 1..Len(p) PROVE Last(p, i) <=> Last(q, i + 1)
  <2>1. p[i] = q[i + 1]
    BY <1>1
  <2>2. ASSUME Last(p, i), NEW j \in 1..n, i + 1 < j PROVE q[j].type # "disable"
    <3>1. j - 1 \in 1..Len(p) /\ i < j - 1 /\ p[j - 1] = q[j - 1 + 1] /\ j - 1 + 1 = j
      BY <1>1, <2>2
    <3> QED
      BY <2>2, <3>1
  <2>3. ASSUME Last(q, i + 1), NEW j \in 1..Len(p), i < j PROVE p[j].type # "disable"
    <3>1. j + 1 \in 1..n /\ i + 1 < j + 1 /\ p[j] = q[j + 1]
      BY <1>1, <2>3
    <3> QED
      BY <2>3, <3>1 DEF n
  <2> QED
    BY <2>1, <2>2, <2>3 DEF n
<1>4. (\E i \in 1..n : Last(q, i)) <=> Last(q, 1) \/ \E i \in 1..Len(p) : Last(p, i)
  <2> HIDE DEF Last
  <2>1. ASSUME NEW i \in 1..n, Last(q, i), i # 1 PROVE \E j \in 1..Len(p) : Last(p, j)
    <3>1. i - 1 \in 1..Len(p) /\ i - 1 + 1 = i
      BY <1>1, <2>1
    <3> QED
      BY <1>3, <2>1, <3>1
  <2>2. ASSUME NEW i \in 1..Len(p), Last(p, i) PROVE \E j \in 1..n : Last(q, j)
    <3>1. i + 1 \in 1..n
      BY <1>1
    <3> QED
      BY <1>3, <2>2, <3>1
  <2>3. 1 \in 1..n
    BY <1>1
  <2> QED
    BY <2>1, <2>2, <2>3
<1>5. Last(q, 1) <=> h.type = "enable" /\ ~Has(p, "disable")
  <2>1. ASSUME Last(q, 1), NEW i \in 1..Len(p) PROVE p[i].type # "disable"
    <3>1. i + 1 \in 1..n /\ 1 < i + 1 /\ p[i] = q[i + 1]
      BY <1>1
    <3> QED
      BY <2>1, <3>1 DEF n
  <2>2. ASSUME ~Has(p, "disable"), NEW j \in 1..n, 1 < j PROVE q[j].type # "disable"
    <3>1. j - 1 \in 1..Len(p) /\ p[j - 1] = q[j - 1 + 1] /\ j - 1 + 1 = j
      BY <1>1, <2>2
    <3> QED
      BY <2>2, <3>1 DEF Has
  <2> QED
    BY <1>1, <2>1, <2>2 DEF n, Has
<1>6. \A b : /\ WillKnow(b, q) <=> (b /\ ~Has(q, "disable")) \/ \E i \in 1..n : Last(q, i)
             /\ WillKnow(b, p) <=> (b /\ ~Has(p, "disable")) \/ \E i \in 1..Len(p) : Last(p, i)
  BY DEF WillKnow, n
<1> HIDE DEF Last
<1>7. h.type = "enable" => (WillKnow(TRUE, p) <=> WillKnow(k, q))
  BY <1>2, <1>4, <1>5, <1>6
<1>8. h.type = "disable" => (WillKnow(FALSE, p) <=> WillKnow(k, q))
  BY <1>2, <1>4, <1>5, <1>6
<1>9. h.type = "send" => (WillKnow(k, p) <=> WillKnow(k, q))
  BY <1>2, <1>4, <1>5, <1>6
<1> QED
  BY <1>7, <1>8, <1>9 DEF p, h

(* Nothing of it changes but what is under way. *)
LEMMA WishStays ==
    ASSUME WishInv, UNCHANGED <<room, flagVars, refused>>,
           room = "up" => (Coming' <=> Coming) /\ (WillKnow(known', up') <=> WillKnow(known, up))
    PROVE  WishInv'
  BY DEF WishInv, flagVars

LEMMA UpAndDown ==
    ASSUME TypeOK
    PROVE  /\ up \in Seq(Request) /\ down \in Seq(Notice)
           /\ known \in BOOLEAN /\ online \in BOOLEAN /\ inFlight \in BOOLEAN
           /\ desired \in BOOLEAN /\ refused \in BOOLEAN
  BY TypeParts DEF LineOK, FlagsOK

LEMMA NewWish ==
    ASSUME EnableAnew, desired' = desired, online' = online, ~online, desired \in BOOLEAN
    PROVE  WishInv'
<1> DEFINE q == <<Enable>>
           e == <<>>
<1>1. Has(q, "enable") /\ WillKnow(FALSE, q)
  <2>1. Len(q) = 1 /\ q[1].type = "enable"
    BY RequestFields
  <2> HIDE DEF q
  <2> QED
    BY <2>1 DEF Has, WillKnow
<1>2. ~Has(e, "enable") /\ ~Has(e, "enabled") /\ ~WillKnow(FALSE, e)
  BY DEF Has, WillKnow
<1> HIDE DEF q, e
<1>3. /\ room' = "up" /\ inFlight' = desired /\ up' = IF desired THEN q ELSE e
      /\ down' = e /\ known' = FALSE
  BY DEF EnableAnew, q, e
<1>4. CASE desired
  <2>1. up' = q /\ Coming' /\ WillKnow(known', up')
    BY <1>1, <1>3, <1>4 DEF Coming
  <2> QED
    BY <1>3, <1>4, <2>1 DEF WishInv
<1>5. CASE ~desired
  <2>1. up' = e /\ ~WillKnow(known', up')
    BY <1>2, <1>3, <1>5
  <2> QED
    BY <1>3, <1>5, <2>1 DEF WishInv
<1> QED
  BY <1>4, <1>5

LEMMA UserEnablesWish ==
    ASSUME TypeOK, WishInv, UserEnables
    PROVE  WishInv'
<1> USE UpAndDown
<1>1. /\ desired' = TRUE /\ UNCHANGED <<room, online, down, known, refused>>
      /\ IF Connected THEN AskToEnable ELSE UNCHANGED <<inFlight, up>>
  BY DEF UserEnables, serverVars
<1>2. CASE ~Connected
  BY <1>1, <1>2 DEF WishInv, Connected
<1>3. CASE Connected /\ (online \/ inFlight)
  <2>1. UNCHANGED <<inFlight, up>>
    BY <1>1, <1>3 DEF AskToEnable
  <2>2. (Coming' <=> Coming) /\ (WillKnow(known', up') <=> WillKnow(known, up))
    BY <1>1, <2>1 DEF Coming
  <2> QED
    BY <1>1, <1>3, <2>1, <2>2 DEF WishInv, Connected
<1>4. CASE Connected /\ ~online /\ ~inFlight
  <2>1. inFlight' = TRUE /\ Queue(Enable)
    BY <1>1, <1>4 DEF AskToEnable
  <2>2. room = "up" => Coming' /\ WillKnow(known', up')
    <3> SUFFICES ASSUME room = "up" PROVE Coming' /\ WillKnow(known', up')
      OBVIOUS
    <3>1. up' = Append(up, Enable) /\ known' = known
      BY <1>1, <2>1 DEF Queue
    <3>2. Has(Append(up, Enable), "enable") /\ WillKnow(known, Append(up, Enable))
      BY RequestFields, HasAppend, WillAppend
    <3> QED
      BY <3>1, <3>2 DEF Coming
  <2> QED
    BY <1>1, <1>4, <2>1, <2>2 DEF WishInv, Connected
<1> QED
  BY <1>2, <1>3, <1>4

LEMMA UserDisablesWish ==
    ASSUME TypeOK, WishInv, UserDisables
    PROVE  WishInv'
<1> USE UpAndDown
<1>1. /\ ~desired' /\ ~online' /\ ~inFlight'
      /\ UNCHANGED <<room, down, known, refused>>
      /\ IF Connected /\ online THEN Queue(Disable) ELSE UNCHANGED up
  BY DEF UserDisables, Clear, serverVars
<1>2. CASE room = "up" /\ online
  <2>1. up' = Append(up, Disable)
    BY <1>1, <1>2 DEF Connected, Queue
  <2>2. ~WillKnow(known', up')
    BY <1>1, <2>1, RequestFields, WillAppend
  <2> QED
    BY <1>1, <1>2, <2>2 DEF WishInv
<1>3. CASE room = "up" /\ ~online
  <2>1. up' = up
    BY <1>1, <1>3
  <2>2. (Coming' <=> Coming) /\ (WillKnow(known', up') <=> WillKnow(known, up))
    BY <1>1, <2>1 DEF Coming
  <2> QED
    BY <1>1, <1>3, <2>2 DEF WishInv
<1>4. CASE room # "up"
  BY <1>1, <1>4 DEF WishInv
<1> QED
  BY <1>2, <1>3, <1>4

LEMMA HandleEnabledWish ==
    ASSUME TypeOK, WishInv, HandleEnabled
    PROVE  WishInv'
<1> USE UpAndDown
<1>1. /\ ~inFlight' /\ UNCHANGED <<room, desired, known, refused>>
      /\ online' = desired /\ room \notin {"starting", "offline"}
      /\ desired => up' = up
      /\ ~desired => Queue(Disable)
  BY DEF HandleEnabled, Told, Handling, serverVars
<1>2. CASE room = "up" /\ ~desired
  <2>1. up' = Append(up, Disable)
    BY <1>1, <1>2 DEF Queue
  <2>2. ~WillKnow(known', up')
    BY <1>1, <2>1, RequestFields, WillAppend
  <2> QED
    BY <1>1, <1>2, <2>2 DEF WishInv
<1>3. CASE room = "up" /\ desired
  <2>1. WillKnow(known', up') <=> WillKnow(known, up)
    BY <1>1, <1>3
  <2> QED
    BY <1>1, <1>3, <2>1 DEF WishInv
<1>4. CASE room # "up"
  BY <1>1, <1>4 DEF WishInv
<1> QED
  BY <1>2, <1>3, <1>4

(* A notice that says nothing of it comes or is handled. *)
LEMMA NewsWish ==
    ASSUME TypeOK, WishInv, UNCHANGED <<room, flagVars, refused, known, up>>,
           \/ down # <<>> /\ Head(down).type # "enabled" /\ down' = Tail(down)
           \/ \E n \in Notice : n.type # "enabled" /\ down' = Append(down, n)
           \/ down' = down
    PROVE  WishInv'
<1>1. Has(down', "enabled") <=> Has(down, "enabled")
  <2>1. CASE down # <<>> /\ Head(down).type # "enabled" /\ down' = Tail(down)
    BY <2>1, UpAndDown, HasTail
  <2>2. CASE \E n \in Notice : n.type # "enabled" /\ down' = Append(down, n)
    <3>1. PICK n \in Notice : n.type # "enabled" /\ down' = Append(down, n)
      BY <2>2
    <3> QED
      BY <3>1, UpAndDown, HasAppend
  <2> QED
    BY <2>1, <2>2
<1>2. (Coming' <=> Coming) /\ (WillKnow(known', up') <=> WillKnow(known, up))
  BY <1>1 DEF Coming
<1> QED
  BY <1>2, WishStays

LEMMA ServerWish ==
    ASSUME TypeOK, WishInv, LineInOrder, Server
    PROVE  WishInv'
<1> USE UpAndDown
<1>1. CASE ServerRefuses
  BY <1>1 DEF ServerRefuses, Asked, WishInv, flagVars
<1>2. CASE ServerEnables
  <2>1. /\ up # <<>> /\ Head(up).type = "enable" /\ up' = Tail(up) /\ known' = TRUE
        /\ down' = Append(down, Enabled(present)) /\ UNCHANGED <<room, flagVars, refused>>
    BY <1>2 DEF ServerEnables, Asked
  <2>2. Has(up, "enable") /\ (WillKnow(known', up') <=> WillKnow(known, up))
    BY <2>1, HasTail, WillTail
  <2>3. Has(down', "enabled")
    <3>1. Enabled(present) \in Notice /\ Enabled(present).type = "enabled"
      BY NoticeFields, TypeParts DEF FlagsOK, Enabled
    <3> QED
      BY <2>1, <3>1, HasAppend
  <2>4. Coming' <=> Coming
    BY <2>2, <2>3 DEF Coming
  <2> QED
    BY <2>1, <2>2, <2>4, WishStays
<1>3. CASE ServerDisables
  <2>1. /\ up # <<>> /\ Head(up).type = "disable" /\ up' = Tail(up) /\ known' = FALSE
        /\ down' = down /\ UNCHANGED <<room, flagVars, refused>>
    BY <1>3 DEF ServerDisables, Asked
  <2>2. (Has(up', "enable") <=> Has(up, "enable")) /\ (WillKnow(known', up') <=> WillKnow(known, up))
    BY <2>1, HasTail, WillTail
  <2>3. Coming' <=> Coming
    BY <2>1, <2>2 DEF Coming
  <2> QED
    BY <2>1, <2>2, <2>3, WishStays
<1>4. CASE ServerReceives
  <2> DEFINE m == Head(up).message
             r == Reply(m, IF msg[m].to \in present THEN "ok" ELSE "missing")
  <2>1. /\ up # <<>> /\ Head(up).type = "send" /\ up' = Tail(up)
        /\ down' = Append(down, r) /\ UNCHANGED <<room, flagVars, refused, known>>
    BY <1>4 DEF ServerReceives, Asked
  <2>2. (Has(up', "enable") <=> Has(up, "enable")) /\ (WillKnow(known', up') <=> WillKnow(known, up))
    BY <2>1, HasTail, WillTail
  <2>3. m \in Messages
    BY <1>4, UnderWay, TypeParts DEF ServerReceives
  <2>4. r \in Notice /\ r.type # "enabled"
    BY <2>3, NoticeFields DEF Reply
  <2> HIDE DEF r
  <2>5. Has(down', "enabled") <=> Has(down, "enabled")
    BY <2>1, <2>4, HasAppend
  <2>6. Coming' <=> Coming
    BY <2>2, <2>5 DEF Coming
  <2> QED
    BY <2>1, <2>2, <2>6, WishStays
<1>5. ASSUME NEW p \in Peers, PeerJoins(p) \/ PeerLeaves(p) PROVE WishInv'
  <2>1. /\ Joined(p) \in Notice /\ Left(p) \in Notice
        /\ Joined(p).type # "enabled" /\ Left(p).type # "enabled"
    BY NoticeFields DEF Joined, Left
  <2>2. \/ down' = down
        \/ \E n \in Notice : n.type # "enabled" /\ down' = Append(down, n)
    BY <1>5, <2>1 DEF PeerJoins, PeerLeaves
  <2>3. UNCHANGED <<room, flagVars, refused, known, up>>
    BY <1>5 DEF PeerJoins, PeerLeaves
  <2> QED
    BY <2>2, <2>3, NewsWish
<1> QED
  BY <1>1, <1>2, <1>3, <1>4, <1>5 DEF Server

LEMMA NextWish ==
    ASSUME TypeOK, WishInv, LineInOrder, [Next]_vars
    PROVE  WishInv'
<1> USE UpAndDown
<1>1. CASE Start \/ Reconnect
  <2>1. EnableAnew /\ desired' = desired /\ online' = online /\ ~online
    BY <1>1 DEF Start, Reconnect, WishInv
  <2> QED
    BY <2>1, NewWish
<1>2. CASE Disconnected \/ Leave
  BY <1>2 DEF Disconnected, Leave, Clear, WishInv
<1>3. CASE LinkLost \/ GiveUp \/ Exit \/ Stop
  <2>1. room' \notin {"starting", "offline", "up"}
    BY <1>3 DEF LinkLost, GiveUp, Exit, Stop
  <2> QED
    BY <2>1 DEF WishInv
<1>4. CASE UserEnables \/ UserDisables
  BY <1>4, UserEnablesWish, UserDisablesWish
<1>5. CASE UserSends \/ Take \/ SenderEnds \/ SenderConnected \/ SenderOnline \/ SenderFails
           \/ (\E m \in Messages : Resume(m)) \/ UNCHANGED vars
  <2>1. UNCHANGED <<room, flagVars, refused, known, up, down>>
    BY <1>5 DEF UserSends, Take, SenderEnds, SenderConnected, SenderOnline, SenderFails, Resume,
       vars, serverVars
  <2> QED
    BY <2>1, NewsWish
<1>6. ASSUME NEW m \in Messages, Dispatch(m) PROVE WishInv'
  <2>1. Queue(Send(m)) /\ UNCHANGED <<room, flagVars, refused, known, down>>
    BY <1>6 DEF Dispatch, serverVars
  <2>2. CASE room = "up"
    <3>1. up' = Append(up, Send(m)) /\ Send(m) \in Request /\ Send(m).type = "send"
      BY <2>1, <2>2, RequestFields DEF Queue
    <3>2. /\ Has(Append(up, Send(m)), "enable") <=> Has(up, "enable")
          /\ WillKnow(known, Append(up, Send(m))) <=> WillKnow(known, up)
      BY <3>1, HasAppend, WillAppend
    <3>3. (Coming' <=> Coming) /\ (WillKnow(known', up') <=> WillKnow(known, up))
      BY <2>1, <3>1, <3>2 DEF Coming
    <3> QED
      BY <2>1, <3>3, WishStays
  <2>3. CASE room # "up"
    BY <2>1, <2>3, WishStays
  <2> QED
    BY <2>2, <2>3
<1>7. CASE HandleEnabled
  BY <1>7, HandleEnabledWish
<1>8. CASE HandleJoined \/ HandleLeft \/ HandleReply
  <2>1. /\ down # <<>> /\ Head(down).type # "enabled" /\ down' = Tail(down)
        /\ UNCHANGED <<room, flagVars, refused, known, up>>
    BY <1>8 DEF HandleJoined, HandleLeft, HandleReply, Told, serverVars
  <2> QED
    BY <2>1, NewsWish
<1>9. CASE Server
  BY <1>9, ServerWish
<1> QED
  BY <1>1, <1>2, <1>3, <1>4, <1>5, <1>6, <1>7, <1>8, <1>9 DEF Next, Room, User, Sender, Handler

(* However enabling, disabling and their answers have crossed each other,  *)
(* once nothing is under way the client is online exactly if the user      *)
(* wants it, and the server agrees, unless it has refused (enable,         *)
(* disable, _on_messaging_enabled).                                        *)
THEOREM WishIsFulfilled == Spec => []WishFulfilled
<1>1. Init => WishInv
  BY DEF Init, WishInv
<1>2. IInv => TypeOK /\ LineInOrder
  BY DEF IInv, Order
<1>3. WishInv /\ IInv => WishFulfilled
  <2> SUFFICES ASSUME WishInv, IInv, AtRest, ~refused
               PROVE  online = desired /\ online = known /\ ~inFlight
    BY DEF WishFulfilled
  <2> DEFINE e == <<>>
  <2>1. \A t : ~Has(e, t)
    BY DEF Has
  <2>2. known \in BOOLEAN /\ online \in BOOLEAN /\ desired \in BOOLEAN
    BY <1>2, UpAndDown
  <2>3. WillKnow(known, e) <=> known
    BY <2>1, <2>2 DEF WillKnow
  <2> HIDE DEF e
  <2>4. room = "up" /\ up = e /\ down = e
    BY DEF AtRest, e
  <2>5. ~Coming /\ (WillKnow(known, up) <=> known)
    BY <2>1, <2>3, <2>4 DEF Coming
  <2> QED
    BY <2>2, <2>4, <2>5 DEF WishInv
<1> QED
  BY <1>1, <1>2, <1>3, NextWish, Invariant, PTL DEF Spec

-----------------------------------------------------------------------------
(* The notices that speak of p, and what they say: is it there? *)
Tells(n, p) == n.type = "enabled" \/ (n.type \in {"joined", "left"} /\ n.peer = p)
Says(n, p) == n.type = "joined" \/ (n.type = "enabled" /\ p \in n.peers)

Silent(q, p) == \A i \in 1..Len(q) : ~Tells(q[i], p)

(* The last notice of q that speaks of p says the truth, S. *)
Truthful(q, p, S) ==
    \A i \in 1..Len(q) :
        Tells(q[i], p) /\ (\A j \in 1..Len(q) : i < j => ~Tells(q[j], p))
            => (Says(q[i], p) <=> p \in S)

Agrees(p) == (roster[p] # None => p \in present) /\ (p \in present \ missed => roster[p] # None)

(* A server that has enabled messaging keeps the client informed, ... *)
NewsInv == known => \A p \in Peers : Truthful(down, p, present)

(* ... so an online client that has nothing more to hear of a peer knows   *)
(* whether it is there, ...                                                *)
RosterInv == known /\ online => \A p \in Peers : Silent(down, p) => Agrees(p)

(* ... unless the task of a message takes it out of the table: the server  *)
(* has not found it.                                                       *)
MissedMessages == \A m \in Messages : msg[m].state = "missing" => msg[m].to \in missed

Replied(n, ms, S) ==
    n.type = "reply" => /\ ms[n.message].state # "new"
                        /\ n.result = "missing" => ms[n.message].to \in S

MissedReplies == \A i \in 1..Len(down) : Replied(down[i], msg, missed)

MissedInv == MissedMessages /\ MissedReplies

LEMMA TellAppend ==
    ASSUME NEW T, NEW q \in Seq(T), NEW x \in T, NEW p, NEW S
    PROVE  /\ Tells(x, p) /\ (Says(x, p) <=> p \in S) =>
                Truthful(Append(q, x), p, S) /\ ~Silent(Append(q, x), p)
           /\ ~Tells(x, p) /\ Truthful(q, p, S) => Truthful(Append(q, x), p, S)
           /\ Silent(Append(q, x), p) => Silent(q, p)
<1> DEFINE r == Append(q, x)
           n == Len(q)
<1>1. n \in Nat /\ Len(r) = n + 1 /\ (\A i \in 1..n : r[i] = q[i]) /\ r[n + 1] = x
      /\ n + 1 \in 1..Len(r) /\ (\A i \in 1..n : i \in 1..Len(r) /\ i < n + 1)
      /\ (\A i \in 1..Len(r) : i \in 1..n \/ i = n + 1)
  BY AppendFacts
<1> HIDE DEF r, n
<1>2. ASSUME Tells(x, p), Says(x, p) <=> p \in S
      PROVE  Truthful(r, p, S) /\ ~Silent(r, p)
  <2>1. ASSUME NEW i \in 1..Len(r), \A j \in 1..Len(r) : i < j => ~Tells(r[j], p)
        PROVE  r[i] = x
    BY <1>1, <1>2, <2>1
  <2> QED
    BY <1>1, <1>2, <2>1 DEF Truthful, Silent
<1>3. ASSUME ~Tells(x, p), Truthful(q, p, S)
      PROVE  Truthful(r, p, S)
  <2> SUFFICES ASSUME NEW i \in 1..Len(r), Tells(r[i], p),
                      \A j \in 1..Len(r) : i < j => ~Tells(r[j], p)
               PROVE  Says(r[i], p) <=> p \in S
    BY DEF Truthful
  <2>1. i \in 1..n /\ r[i] = q[i]
    BY <1>1, <1>3
  <2>2. \A j \in 1..n : i < j => ~Tells(q[j], p)
    BY <1>1
  <2> QED
    BY <1>3, <2>1, <2>2 DEF Truthful, n
<1>4. ASSUME Silent(r, p) PROVE Silent(q, p)
  BY <1>1, <1>4 DEF Silent, n
<1> QED
  BY <1>2, <1>3, <1>4 DEF r

LEMMA TellTail ==
    ASSUME NEW T, NEW q \in Seq(T), q # <<>>, NEW p, NEW S, Truthful(q, p, S)
    PROVE  /\ Truthful(Tail(q), p, S)
           /\ Silent(Tail(q), p) /\ Tells(Head(q), p) => (Says(Head(q), p) <=> p \in S)
           /\ Silent(Tail(q), p) /\ ~Tells(Head(q), p) => Silent(q, p)
<1> DEFINE r == Tail(q)
           n == Len(q)
           h == Head(q)
<1>1. n \in Nat /\ n >= 1 /\ Len(r) = n - 1 /\ (\A i \in 1..Len(r) : r[i] = q[i + 1]) /\ h = q[1]
  BY TailFacts
<1> HIDE DEF r, n, h
<1>2. \A i \in 1..n : i = 1 \/ (i - 1 \in 1..Len(r) /\ r[i - 1] = q[i])
  <2> TAKE i \in 1..n
  <2>1. i # 1 => i - 1 \in 1..Len(r) /\ i - 1 + 1 = i
    BY <1>1
  <2> QED
    BY <1>1, <2>1
<1>3. Truthful(r, p, S)
  <2> SUFFICES ASSUME NEW i \in 1..Len(r), Tells(r[i], p),
                      \A j \in 1..Len(r) : i < j => ~Tells(r[j], p)
               PROVE  Says(r[i], p) <=> p \in S
    BY DEF Truthful
  <2>1. i + 1 \in 1..n /\ r[i] = q[i + 1]
    BY <1>1
  <2>2. ASSUME NEW j \in 1..n, i + 1 < j PROVE ~Tells(q[j], p)
    <3>1. j - 1 \in 1..Len(r) /\ r[j - 1] = q[j] /\ i < j - 1
      BY <1>1, <1>2, <2>2
    <3> QED
      BY <3>1
  <2> QED
    BY <2>1, <2>2 DEF Truthful, n
<1>4. ASSUME Silent(r, p), NEW i \in 1..n, i # 1 PROVE ~Tells(q[i], p)
  BY <1>2, <1>4 DEF Silent
<1>5. ASSUME Silent(r, p), Tells(h, p) PROVE Says(h, p) <=> p \in S
  <2>1. 1 \in 1..n /\ \A j \in 1..n : 1 < j => ~Tells(q[j], p)
    BY <1>1, <1>4, <1>5
  <2> QED
    BY <1>1, <1>5, <2>1 DEF Truthful, n
<1>6. ASSUME Silent(r, p), ~Tells(h, p) PROVE Silent(q, p)
  BY <1>1, <1>4, <1>6 DEF Silent, n
<1> QED
  BY <1>3, <1>5, <1>6 DEF r, h

(* What the notices of the server say of p *)
LEMMA NoticesTell ==
    ASSUME NEW p
    PROVE  /\ \A S : Tells(Enabled(S), p) /\ (Says(Enabled(S), p) <=> p \in S)
           /\ \A q : /\ Tells(Joined(q), p) <=> q = p
                     /\ Says(Joined(q), p)
                     /\ Tells(Left(q), p) <=> q = p
                     /\ ~Says(Left(q), p)
           /\ \A m, r : ~Tells(Reply(m, r), p)
  BY DEF Tells, Says, Enabled, Joined, Left, Reply

LEMMA HandlerTakes ==
    ASSUME TypeOK, Handler
    PROVE  /\ down \in Seq(Notice) /\ down # <<>> /\ down' = Tail(down)
           /\ UNCHANGED <<known, present, missed>>
<1>1. down # <<>> /\ down' = Tail(down) /\ UNCHANGED serverVars
  BY DEF Handler, HandleEnabled, HandleJoined, HandleLeft, HandleReply, Told
<1> QED
  BY <1>1, UpAndDown DEF serverVars

(* The server tells the client who comes and who goes. *)
LEMMA PeerTells ==
    ASSUME TypeOK, NewsInv, known, NEW q \in Peers, PeerJoins(q) \/ PeerLeaves(q), NEW p \in Peers
    PROVE  /\ Truthful(down', p, present')
           /\ Silent(down', p) => Silent(down, p) /\ (p \in present' <=> p \in present)
<1> DEFINE n == IF PeerJoins(q) THEN Joined(q) ELSE Left(q)
<1>1. n \in Notice /\ (Tells(n, p) <=> q = p)
  BY NoticeFields, NoticesTell
<1>2. /\ p \in present' <=> IF p = q THEN PeerJoins(q) ELSE p \in present
      /\ down' = Append(down, n)
  BY DEF PeerJoins, PeerLeaves
<1>3. Says(n, p) <=> PeerJoins(q)
  BY NoticesTell
<1> HIDE DEF n
<1>4. down \in Seq(Notice) /\ Truthful(down, p, present)
  BY UpAndDown DEF NewsInv
<1>5. CASE p = q
  <2>1. Tells(n, p) /\ (Says(n, p) <=> p \in present')
    BY <1>1, <1>2, <1>3, <1>5
  <2> QED
    BY <1>1, <1>2, <1>4, <2>1, TellAppend
<1>6. CASE p # q
  <2>1. ~Tells(n, p) /\ (p \in present' <=> p \in present)
    BY <1>1, <1>2, <1>6
  <2>2. Truthful(down, p, present')
    BY <1>4, <2>1 DEF Truthful
  <2> QED
    BY <1>1, <1>2, <1>4, <2>1, <2>2, TellAppend
<1> QED
  BY <1>5, <1>6

(* ... and whether it has found the receiver of a message *)
LEMMA ServerReplies ==
    ASSUME TypeOK, LineInOrder, ServerReceives
    PROVE  \E m \in Messages, r \in {"ok", "missing"} :
              /\ msg[m].state # "new" /\ msg[m].to \in Peers
              /\ Reply(m, r) \in Notice
              /\ down' = Append(down, Reply(m, r))
              /\ missed \subseteq missed' /\ (r = "missing" => msg[m].to \in missed')
              /\ UNCHANGED <<room, flagVars, roster, msg, known, present>>
<1> DEFINE m == Head(up).message
           r == IF msg[m].to \in present THEN "ok" ELSE "missing"
<1>1. m \in Messages /\ msg[m].state \in Behind /\ msg[m].to \in Peers
  BY UnderWay, TypeParts DEF ServerReceives
<1>2. /\ down' = Append(down, Reply(m, r))
      /\ missed' = IF msg[m].to \in present THEN missed ELSE missed \cup {msg[m].to}
      /\ UNCHANGED <<room, flagVars, roster, msg, known, present>>
  BY DEF ServerReceives
<1>3. Reply(m, r) \in Notice /\ r \in {"ok", "missing"}
  BY <1>1, NoticeFields
<1>4. missed \subseteq missed' /\ (r = "missing" => msg[m].to \in missed')
  BY <1>2
<1> HIDE DEF m, r
<1> QED
  BY <1>1, <1>2, <1>3, <1>4 DEF Behind

LEMMA NextNews ==
    ASSUME TypeOK, LineInOrder, NewsInv, [Next]_vars
    PROVE  NewsInv'
<1>1. CASE ~known'
  BY <1>1 DEF NewsInv
<1>2. CASE UNCHANGED <<known, down, present>>
  BY <1>2 DEF NewsInv
<1>3. CASE Handler
  <2> SUFFICES ASSUME known', NEW p \in Peers PROVE Truthful(down', p, present')
    BY DEF NewsInv
  <2>1. /\ down \in Seq(Notice) /\ down # <<>> /\ down' = Tail(down)
        /\ UNCHANGED <<known, present>>
    BY <1>3, HandlerTakes
  <2>2. Truthful(down, p, present)
    BY <2>1 DEF NewsInv
  <2> QED
    BY <2>1, <2>2, TellTail
<1>4. CASE ServerEnables
  <2> SUFFICES ASSUME NEW p \in Peers PROVE Truthful(down', p, present')
    BY DEF NewsInv
  <2> DEFINE n == Enabled(present)
  <2>1. n \in Notice /\ Tells(n, p) /\ (Says(n, p) <=> p \in present)
    BY NoticeFields, NoticesTell, TypeParts DEF FlagsOK
  <2>2. down \in Seq(Notice) /\ down' = Append(down, n) /\ present' = present
    BY <1>4, UpAndDown DEF ServerEnables
  <2> HIDE DEF n
  <2> QED
    BY <2>1, <2>2, TellAppend
<1>5. CASE ServerReceives
  <2> SUFFICES ASSUME known', NEW p \in Peers PROVE Truthful(down', p, present')
    BY DEF NewsInv
  <2>1. PICK m \in Messages, r \in {"ok", "missing"} :
            /\ Reply(m, r) \in Notice /\ down' = Append(down, Reply(m, r))
            /\ UNCHANGED <<known, present>>
    BY <1>5, ServerReplies
  <2> DEFINE n == Reply(m, r)
  <2>2. n \in Notice /\ ~Tells(n, p) /\ down' = Append(down, n)
    BY <2>1, NoticesTell
  <2>3. down \in Seq(Notice) /\ Truthful(down, p, present) /\ present' = present
    BY <2>1, UpAndDown DEF NewsInv
  <2> HIDE DEF n
  <2> QED
    BY <2>2, <2>3, TellAppend
<1>6. ASSUME NEW q \in Peers, PeerJoins(q) \/ PeerLeaves(q) PROVE NewsInv'
  <2>1. known' = known
    BY <1>6 DEF PeerJoins, PeerLeaves
  <2> QED
    BY <1>6, <2>1, PeerTells DEF NewsInv
<1> QED
  BY <1>1, <1>2, <1>3, <1>4, <1>5, <1>6 DEF Next, Room, User, Sender, Server, Start, Reconnect,
     EnableAnew, LinkLost, Disconnected, GiveUp, Exit, Stop, Leave, UserEnables, UserDisables,
     UserSends, Take, SenderEnds, SenderConnected, SenderOnline, SenderFails, Dispatch, Resume,
     ServerRefuses, ServerDisables, serverVars, vars

LEMMA HandlerRoster ==
    ASSUME TypeOK, NewsInv, RosterInv, Handler
    PROVE  RosterInv'
<1> SUFFICES ASSUME known', online', NEW p \in Peers, Silent(down', p)
             PROVE  Agrees(p)'
  BY DEF RosterInv
<1>1. /\ down \in Seq(Notice) /\ down # <<>> /\ down' = Tail(down)
      /\ UNCHANGED <<known, present, missed>>
  BY HandlerTakes
<1>2. /\ Tells(Head(down), p) => (Says(Head(down), p) <=> p \in present)
      /\ ~Tells(Head(down), p) => Silent(down, p)
  BY <1>1, TellTail DEF NewsInv
<1>3. Head(down) \in Notice
  BY <1>1, TailFacts
<1>4. \A q \in Peers : Unused(q) # None
  BY UnusedType, MessagingAssumption
<1>5. roster \in [Peers -> Objects \cup {None}]
  BY TypeParts DEF RosterOK
<1>6. CASE HandleEnabled
  <2>1. Head(down).type = "enabled" /\ desired
    BY <1>6 DEF HandleEnabled, Told
  <2>2. roster'[p] = IF p \in Head(down).peers THEN Unused(p) ELSE None
    BY <1>6, <2>1 DEF HandleEnabled
  <2>3. p \in Head(down).peers <=> p \in present
    BY <1>2, <2>1 DEF Tells, Says
  <2> QED
    BY <1>1, <1>4, <2>2, <2>3 DEF Agrees
<1>7. CASE HandleJoined
  <2>1. /\ Head(down).type = "joined" /\ online' = online
        /\ roster' = [roster EXCEPT ![Head(down).peer] = Unused(Head(down).peer)]
    BY <1>7 DEF HandleJoined, Told, flagVars
  <2>2. CASE Head(down).peer = p
    <3>1. p \in present /\ roster'[p] = Unused(p)
      BY <1>2, <1>5, <2>1, <2>2 DEF Tells, Says
    <3> QED
      BY <1>1, <1>4, <3>1 DEF Agrees
  <2>3. CASE Head(down).peer # p
    <3>1. Silent(down, p) /\ roster'[p] = roster[p]
      BY <1>2, <1>5, <2>1, <2>3 DEF Tells
    <3> QED
      BY <1>1, <2>1, <3>1 DEF Agrees, RosterInv
  <2> QED
    BY <2>2, <2>3
<1>8. CASE HandleLeft
  <2>1. /\ Head(down).type = "left" /\ online' = online
        /\ roster' = [roster EXCEPT ![Head(down).peer] = None]
    BY <1>8 DEF HandleLeft, Told, flagVars
  <2>2. CASE Head(down).peer = p
    <3>1. p \notin present /\ roster'[p] = None
      BY <1>2, <1>5, <2>1, <2>2 DEF Tells, Says
    <3> QED
      BY <1>1, <3>1 DEF Agrees
  <2>3. CASE Head(down).peer # p
    <3>1. Silent(down, p) /\ roster'[p] = roster[p]
      BY <1>2, <1>5, <2>1, <2>3 DEF Tells
    <3> QED
      BY <1>1, <2>1, <3>1 DEF Agrees, RosterInv
  <2> QED
    BY <2>2, <2>3
<1>9. CASE HandleReply
  <2>1. Head(down).type = "reply" /\ online' = online /\ roster' = roster
    BY <1>9 DEF HandleReply, Told, flagVars
  <2>2. Silent(down, p)
    BY <1>2, <2>1 DEF Tells
  <2> QED
    BY <1>1, <2>1, <2>2 DEF Agrees, RosterInv
<1> QED
  BY <1>6, <1>7, <1>8, <1>9 DEF Handler

LEMMA NextRoster ==
    ASSUME TypeOK, LineInOrder, NewsInv, RosterInv, MissedInv, [Next]_vars
    PROVE  RosterInv'
<1>1. CASE ~known' \/ ~online'
  BY <1>1 DEF RosterInv
<1>2. CASE UNCHANGED <<known, online, down, roster, present, missed>>
  BY <1>2 DEF RosterInv, Agrees
<1>3. CASE Handler
  BY <1>3, HandlerRoster
<1>4. CASE ServerEnables
  <2> SUFFICES ASSUME NEW p \in Peers PROVE ~Silent(down', p)
    BY DEF RosterInv
  <2> DEFINE n == Enabled(present)
  <2>1. n \in Notice /\ Tells(n, p) /\ (Says(n, p) <=> p \in present)
    BY NoticeFields, NoticesTell, TypeParts DEF FlagsOK
  <2>2. down \in Seq(Notice) /\ down' = Append(down, n)
    BY <1>4, UpAndDown DEF ServerEnables
  <2> HIDE DEF n
  <2> QED
    BY <2>1, <2>2, TellAppend
<1>5. CASE ServerReceives
  <2> SUFFICES ASSUME known', online', NEW p \in Peers, Silent(down', p)
               PROVE  Agrees(p)'
    BY DEF RosterInv
  <2>1. PICK m \in Messages, r \in {"ok", "missing"} :
            /\ Reply(m, r) \in Notice /\ down' = Append(down, Reply(m, r))
            /\ missed \subseteq missed'
            /\ UNCHANGED <<flagVars, roster, known, present>>
    BY <1>5, ServerReplies
  <2>2. Silent(down, p)
    BY <2>1, UpAndDown, TellAppend
  <2> QED
    BY <2>1, <2>2 DEF RosterInv, Agrees, flagVars
<1>6. ASSUME NEW q \in Peers, PeerJoins(q) \/ PeerLeaves(q) PROVE RosterInv'
  <2> SUFFICES ASSUME known', online', NEW p \in Peers, Silent(down', p)
               PROVE  Agrees(p)'
    BY DEF RosterInv
  <2>1. UNCHANGED <<known, online, roster, missed>>
    BY <1>6 DEF PeerJoins, PeerLeaves, flagVars
  <2>2. Silent(down, p) /\ (p \in present' <=> p \in present)
    BY <1>6, <2>1, PeerTells
  <2> QED
    BY <2>1, <2>2 DEF RosterInv, Agrees
<1>7. ASSUME NEW m \in Messages, Resume(m) PROVE RosterInv'
  <2> SUFFICES ASSUME known', online', NEW p \in Peers, Silent(down', p)
               PROVE  Agrees(p)'
    BY DEF RosterInv
  <2>1. UNCHANGED <<known, online, down, present, missed>>
    BY <1>7 DEF Resume, flagVars, serverVars
  <2>2. roster \in [Peers -> Objects \cup {None}]
    BY TypeParts DEF RosterOK
  <2>3. roster'[p] = roster[p] \/ (roster'[p] = None /\ p \in missed)
    BY <1>7, <2>2 DEF Resume, MissedInv, MissedMessages
  <2> QED
    BY <2>1, <2>3 DEF RosterInv, Agrees
<1> QED
  BY <1>1, <1>2, <1>3, <1>4, <1>5, <1>6, <1>7 DEF Next, Room, User, Sender, Server, Start,
     Reconnect, EnableAnew, LinkLost, Disconnected, GiveUp, Exit, Stop, Leave, Clear, UserEnables,
     UserDisables, UserSends, Take, SenderEnds, SenderConnected, SenderOnline, SenderFails,
     Dispatch, ServerRefuses, ServerDisables, flagVars, serverVars, vars

-----------------------------------------------------------------------------
(* A message keeps its receiver, and it is missing only if a reply says so *)
Addressed(new, old) ==
    \A k \in Messages :
        /\ old[k].state # "new" => new[k].state # "new" /\ new[k].to = old[k].to
        /\ new[k].state = "missing" => old[k].state = "missing"

LEMMA AddressedTwice ==
    ASSUME NEW a, NEW b, NEW c, Addressed(c, b), Addressed(b, a)
    PROVE  Addressed(c, a)
  BY DEF Addressed

LEMMA AddressUpdate ==
    ASSUME NEW r \in MessageRecord, r.state # "new", NEW s, NEW o
    PROVE  [r EXCEPT !.state = s].to = r.to /\ [r EXCEPT !.object = o].to = r.to
  BY DEF MessageRecord

LEMMA RestatedAddress ==
    ASSUME NEW ms \in MessageMap, NEW m \in Messages, ms[m].state # "new", NEW s \in States,
           s # "missing"
    PROVE  Addressed(Restated(ms, m, s), ms)
<1> SUFFICES ASSUME NEW k \in Messages
             PROVE  /\ ms[k].state # "new" => /\ Restated(ms, m, s)[k].state # "new"
                                              /\ Restated(ms, m, s)[k].to = ms[k].to
                    /\ Restated(ms, m, s)[k].state = "missing" => ms[k].state = "missing"
  BY DEF Addressed
<1>1. Restated(ms, m, s)[k].state = IF k = m THEN s ELSE ms[k].state
  BY Restate
<1>2. ms[k] \in MessageRecord /\ s # "new"
  BY DEF MessageMap, States, Settled
<1>3. CASE k = m
  <2>1. Restated(ms, m, s)[k] = [ms[k] EXCEPT !.state = s]
    BY <1>3 DEF Restated, MessageMap
  <2> QED
    BY <1>1, <1>2, <1>3, <2>1, AddressUpdate
<1>4. CASE k # m
  <2>1. Restated(ms, m, s)[k] = ms[k]
    BY <1>4 DEF Restated, MessageMap
  <2> QED
    BY <2>1
<1> QED
  BY <1>3, <1>4

LEMMA OfflineAddress ==
    ASSUME NEW ms \in MessageMap
    PROVE  /\ Addressed(AllOffline(ms), ms)
           /\ \A p \in Peers : \A O : Addressed(SetOffline(p, O, ms), ms)
<1>1. ASSUME NEW k \in Messages
      PROVE  /\ AllOffline(ms)[k].state = ms[k].state
             /\ ms[k].state # "new" => AllOffline(ms)[k].to = ms[k].to
  <2>1. ms[k] \in MessageRecord
    BY DEF MessageMap
  <2>2. AllOffline(ms)[k] \in {ms[k], [ms[k] EXCEPT !.object = Gone]}
    BY DEF AllOffline
  <2>3. AllOffline(ms)[k].state = ms[k].state
    BY AllOfflineKeeps
  <2>4. ms[k].state # "new" => [ms[k] EXCEPT !.object = Gone].to = ms[k].to
    BY <2>1, AddressUpdate
  <2> QED
    BY <2>2, <2>3, <2>4
<1>2. ASSUME NEW k \in Messages, NEW p \in Peers, NEW O
      PROVE  /\ SetOffline(p, O, ms)[k].state = ms[k].state
             /\ ms[k].state # "new" => SetOffline(p, O, ms)[k].to = ms[k].to
  <2>1. ms[k] \in MessageRecord
    BY DEF MessageMap
  <2>2. SetOffline(p, O, ms)[k] \in {ms[k], [ms[k] EXCEPT !.object = Gone]}
    BY DEF SetOffline
  <2>3. SetOffline(p, O, ms)[k].state = ms[k].state
    BY SetOfflineKeeps
  <2>4. ms[k].state # "new" => [ms[k] EXCEPT !.object = Gone].to = ms[k].to
    BY <2>1, AddressUpdate
  <2> QED
    BY <2>2, <2>3, <2>4
<1> QED
  BY <1>1, <1>2 DEF Addressed

LEMMA FailedAddress ==
    ASSUME msg \in MessageMap
    PROVE  Addressed(PendingFailed, msg)
<1> SUFFICES ASSUME NEW k \in Messages
             PROVE  /\ msg[k].state # "new" => /\ PendingFailed[k].state # "new"
                                               /\ PendingFailed[k].to = msg[k].to
                    /\ PendingFailed[k].state = "missing" => msg[k].state = "missing"
  BY DEF Addressed
<1>1. PendingFailed[k].state = IF msg[k].state = "asked" THEN "error" ELSE msg[k].state
  BY PendingFailedKeeps
<1>2. msg[k] \in MessageRecord
  BY DEF MessageMap
<1>3. PendingFailed[k] = IF msg[k].state = "asked" THEN [msg[k] EXCEPT !.state = "error"] ELSE msg[k]
  BY DEF PendingFailed
<1> QED
  BY <1>1, <1>2, <1>3, AddressUpdate

LEMMA DrainedAddress ==
    ASSUME NEW ms \in MessageMap
    PROVE  Addressed(Drained(ms), ms)
<1> SUFFICES ASSUME NEW k \in Messages
             PROVE  /\ ms[k].state # "new" => /\ Drained(ms)[k].state # "new"
                                              /\ Drained(ms)[k].to = ms[k].to
                    /\ Drained(ms)[k].state = "missing" => ms[k].state = "missing"
  BY DEF Addressed
<1>1. Drained(ms)[k].state = IF ms[k].state = "queued" THEN "unsent" ELSE ms[k].state
  BY DrainedKeeps
<1>2. ms[k] \in MessageRecord
  BY DEF MessageMap
<1>3. Drained(ms)[k] = IF ms[k].state = "queued" THEN [ms[k] EXCEPT !.state = "unsent"] ELSE ms[k]
  BY DEF Drained
<1> QED
  BY <1>1, <1>2, <1>3, AddressUpdate

LEMMA SameAddress == ASSUME UNCHANGED msg PROVE Addressed(msg', msg)
  BY DEF Addressed

LEMMA ResumeAddress ==
    ASSUME msg \in MessageMap, NEW m \in Messages, Resume(m)
    PROVE  Addressed(msg', msg)
<1> DEFINE s == IF msg[m].state = "ok" THEN "sent" ELSE "unsent"
           ended == Restated(msg, m, s)
           p == msg[m].to
<1>1. /\ msg[m].state \in {"ok", "missing", "error"} /\ s \in {"sent", "unsent"}
      /\ msg[m] \in MessageRecord
  BY DEF Resume, MessageMap
<1>2. p \in Peers
  BY <1>1, RecordStates
<1>3. ended \in MessageMap /\ Addressed(ended, msg)
  <2>1. s \in States /\ msg[m].state # "new" /\ s # "missing"
    BY <1>1 DEF States, Settled
  <2> HIDE DEF s
  <2> QED
    BY <2>1, Restate, RestatedAddress
<1>4. msg' = ended \/ msg' = SetOffline(p, {roster[p], msg[m].object}, ended)
  <2>1. ended = [msg EXCEPT ![m].state = IF @ = "ok" THEN "sent" ELSE "unsent"]
    BY DEF MessageMap, Restated
  <2> HIDE DEF ended
  <2> QED
    BY <2>1 DEF Resume
<1> HIDE DEF ended
<1>5. CASE msg' = ended
  BY <1>3, <1>5
<1>6. CASE msg' = SetOffline(p, {roster[p], msg[m].object}, ended)
  <2>1. Addressed(msg', ended)
    BY <1>2, <1>3, <1>6, OfflineAddress
  <2> QED
    BY <1>3, <2>1, AddressedTwice
<1> QED
  BY <1>4, <1>5, <1>6

LEMMA ClearAddress ==
    ASSUME msg \in MessageMap, Clear(msg) \/ Clear(PendingFailed)
    PROVE  Addressed(msg', msg)
<1>1. CASE Clear(msg)
  BY <1>1, OfflineAddress DEF Clear
<1>2. CASE Clear(PendingFailed)
  <2>1. PendingFailed \in MessageMap /\ Addressed(PendingFailed, msg)
    BY PendingFailedKeeps, FailedAddress
  <2>2. Addressed(msg', PendingFailed)
    BY <1>2, <2>1, OfflineAddress DEF Clear
  <2> QED
    BY <2>1, <2>2, AddressedTwice
<1> QED
  BY <1>1, <1>2

LEMMA SenderAddress ==
    ASSUME IInv, Take \/ SenderConnected \/ SenderOnline \/ SenderFails
    PROVE  Addressed(msg', msg)
<1>1. msg \in MessageMap /\ QueueOK /\ QueueInOrder /\ SenderInOrder
  BY TypeParts DEF IInv, Order
<1>2. {"held", "starting", "unsent"} \subseteq States
  BY DEF States, Settled
<1>3. CASE Take
  <2>1. Head(queue) \in Messages /\ msg[Head(queue)].state = "queued"
    BY <1>1, <1>3, TakeStep
  <2>2. msg' = Restated(msg, Head(queue), "held")
    BY <1>3 DEF Take, Restated
  <2> QED
    BY <1>1, <1>2, <2>1, <2>2, RestatedAddress
<1>4. CASE SenderConnected \/ SenderOnline \/ SenderFails
  <2> DEFINE m == sender.message
  <2>1. sender.at \in {"connect", "online"}
    BY <1>4 DEF SenderConnected, SenderOnline, SenderFails
  <2>2. m \in Messages
    BY <1>1, <2>1, SenderFields DEF QueueOK
  <2>3. msg[m].state = "held"
    BY <1>1, <2>1, <2>2 DEF SenderInOrder
  <2>4. CASE SenderFails
    <3> DEFINE ms == Restated(msg, m, "unsent")
    <3>1. ms \in MessageMap /\ Addressed(ms, msg)
      BY <1>1, <1>2, <2>2, <2>3, Restate, RestatedAddress
    <3>2. msg' = Drained(ms)
      BY <2>4 DEF SenderFails, Restated
    <3> HIDE DEF ms
    <3>3. Addressed(msg', ms)
      BY <3>1, <3>2, DrainedAddress
    <3> QED
      BY <3>1, <3>3, AddressedTwice
  <2>5. CASE SenderConnected \/ SenderOnline
    <3>1. \/ msg' = msg
          \/ msg' = Restated(msg, m, "starting")
          \/ msg' = Restated(msg, m, "unsent")
      BY <2>5 DEF SenderConnected, SenderOnline, DispatchNext, Restated
    <3> HIDE DEF m
    <3> QED
      BY <1>1, <1>2, <2>2, <2>3, <3>1, SameAddress, RestatedAddress
  <2> QED
    BY <1>4, <2>4, <2>5
<1> QED
  BY <1>3, <1>4

LEMMA NextAddress ==
    ASSUME IInv, [Next]_vars, ~HandleReply
    PROVE  Addressed(msg', msg)
<1>0. msg \in MessageMap /\ RosterOK /\ LineOK
  BY TypeParts DEF IInv
<1>1. CASE UNCHANGED msg
  BY <1>1, SameAddress
<1>2. CASE Disconnected \/ Leave \/ UserDisables
  BY <1>0, <1>2, ClearAddress DEF Disconnected, Leave, UserDisables
<1>3. CASE Exit
  BY <1>0, <1>3, FailedAddress DEF Exit
<1>4. CASE Stop
  BY <1>0, <1>4, DrainedAddress DEF Stop
<1>5. CASE UserSends
  <2>1. PICK m \in Messages :
            /\ msg[m].state = "new"
            /\ \A k \in Messages : msg'[k].state = IF k = m THEN "queued" ELSE msg[k].state
            /\ \A k \in Messages : k # m => msg'[k] = msg[k]
    <3>1. PICK m \in Messages, p \in Peers, o \in Objects \cup {Plain, Gone} :
            /\ msg[m].state = "new"
            /\ msg' = [msg EXCEPT ![m] = [state |-> "queued", to |-> p, object |-> o]]
      BY <1>5 DEF UserSends
    <3> DEFINE r == [state |-> "queued", to |-> p, object |-> o]
    <3>2. r.state = "queued"
      OBVIOUS
    <3> HIDE DEF r
    <3>3. msg' = [msg EXCEPT ![m] = r]
      BY <3>1 DEF r
    <3> QED
      BY <1>0, <3>1, <3>2, <3>3 DEF MessageMap
  <2> QED
    BY <2>1 DEF Addressed
<1>6. CASE Take \/ SenderConnected \/ SenderOnline \/ SenderFails
  BY <1>6, SenderAddress
<1>7. ASSUME NEW m \in Messages, Dispatch(m) PROVE Addressed(msg', msg)
  <2> DEFINE s == IF room = "up" THEN "asked" ELSE "unsent"
  <2>1. s \in States /\ s # "missing" /\ msg[m].state # "new" /\ msg' = Restated(msg, m, s)
    BY <1>7 DEF States, Settled, Dispatch, Restated
  <2> HIDE DEF s
  <2> QED
    BY <1>0, <2>1, RestatedAddress
<1>8. ASSUME NEW m \in Messages, Resume(m) PROVE Addressed(msg', msg)
  BY <1>0, <1>8, ResumeAddress
<1>9. CASE HandleLeft
  <2>1. Head(down).peer \in Peers
    BY <1>0, <1>9, NoticeFields, TailFacts DEF HandleLeft, Told, LineOK
  <2> QED
    BY <1>0, <1>9, <2>1, OfflineAddress DEF HandleLeft
<1> QED
  BY <1>1, <1>2, <1>3, <1>4, <1>5, <1>6, <1>7, <1>8, <1>9 DEF Next, Room, User, Sender, Handler,
     Server, Start, Reconnect, LinkLost, GiveUp, UserEnables, SenderEnds, HandleEnabled,
     HandleJoined, ServerEnables, ServerRefuses, ServerDisables, ServerReceives, PeerJoins,
     PeerLeaves, vars

LEMMA NeverForgets ==
    ASSUME IInv, [Next]_vars
    PROVE  missed \subseteq missed'
<1>1. CASE ServerReceives
  BY <1>1 DEF ServerReceives
<1>2. CASE ~ServerReceives
  BY <1>2 DEF Next, Room, User, Sender, Handler, Server, serverVars, Start, Reconnect,
     LinkLost, Disconnected, GiveUp, Exit, Stop, Leave, UserEnables, UserDisables, UserSends,
     Take, SenderEnds, SenderConnected, SenderOnline, SenderFails, Dispatch, Resume,
     HandleEnabled, HandleJoined, HandleLeft, HandleReply, ServerEnables, ServerRefuses,
     ServerDisables, PeerJoins, PeerLeaves, vars
<1> QED
  BY <1>1, <1>2

LEMMA HandleReplyMissed ==
    ASSUME IInv, MissedInv, HandleReply
    PROVE  /\ MissedMessages'
           /\ \A k \in Messages : msg[k].state # "new" =>
                    msg'[k].state # "new" /\ msg'[k].to = msg[k].to
<1> DEFINE r == Head(down)
           m == r.message
<1>1. msg \in MessageMap /\ down \in Seq(Notice)
  BY TypeParts DEF IInv, LineOK
<1>2. /\ down # <<>> /\ r.type = "reply" /\ missed' = missed
      /\ msg' = IF msg[m].state = "asked" THEN [msg EXCEPT ![m].state = r.result] ELSE msg
  BY DEF HandleReply, Told, serverVars
<1>3. r = down[1] /\ 1 \in 1..Len(down) /\ r \in Notice
  BY <1>1, <1>2, TailFacts
<1>4. m \in Messages /\ r.result \in {"ok", "missing"}
  BY <1>2, <1>3, NoticeFields
<1>5. r.result = "missing" => msg[m].to \in missed
  BY <1>2, <1>3 DEF MissedInv, MissedReplies, Replied
<1> HIDE DEF r, m
<1>6. CASE msg[m].state = "asked"
  <2>1. msg' = Restated(msg, m, r.result) /\ r.result \in States /\ msg[m].state # "new"
    BY <1>2, <1>4, <1>6 DEF Restated, States
  <2>2. \A k \in Messages : msg'[k].state = IF k = m THEN r.result ELSE msg[k].state
    BY <1>1, <1>4, <2>1, Restate
  <2>3. msg[m] \in MessageRecord /\ msg'[m] = [msg[m] EXCEPT !.state = r.result]
    BY <1>1, <1>4, <2>1 DEF Restated, MessageMap
  <2>4. msg'[m].to = msg[m].to
    BY <2>1, <2>3, AddressUpdate
  <2>5. \A k \in Messages : k # m => msg'[k] = msg[k]
    BY <1>1, <1>4, <2>1 DEF Restated, MessageMap
  <2> QED
    BY <1>2, <1>4, <1>5, <2>2, <2>4, <2>5 DEF MissedInv, MissedMessages
<1>7. CASE msg[m].state # "asked"
  BY <1>2, <1>7 DEF MissedInv, MissedMessages
<1> QED
  BY <1>6, <1>7

LEMMA NextMissedMessages ==
    ASSUME IInv, MissedInv, [Next]_vars
    PROVE  /\ MissedMessages'
           /\ \A n \in Notice : Replied(n, msg, missed) => Replied(n, msg', missed')
<1>1. missed \subseteq missed'
  BY NeverForgets
<1>2. /\ MissedMessages'
      /\ \A k \in Messages : msg[k].state # "new" =>
                    msg'[k].state # "new" /\ msg'[k].to = msg[k].to
  <2>1. CASE HandleReply
    BY <2>1, HandleReplyMissed
  <2>2. CASE ~HandleReply
    <3>1. Addressed(msg', msg)
      BY <2>2, NextAddress
    <3>2. \A k \in Messages : msg'[k].state = "missing" =>
                msg[k].state = "missing" /\ msg'[k].to = msg[k].to
      BY <3>1 DEF Addressed
    <3> QED
      BY <1>1, <3>1, <3>2 DEF Addressed, MissedInv, MissedMessages
  <2> QED
    BY <2>1, <2>2
<1>3. ASSUME NEW n \in Notice, Replied(n, msg, missed) PROVE Replied(n, msg', missed')
  BY <1>1, <1>2, <1>3, NoticeFields DEF Replied
<1> QED
  BY <1>2, <1>3

(* Every notice is one there was, or one that Replied holds of. *)
Replying ==
    /\ down' \in Seq(Notice)
    /\ \A i \in 1..Len(down') :
          (\E j \in 1..Len(down) : down'[i] = down[j]) \/ Replied(down'[i], msg', missed')

LEMMA RepliesStay ==
    ASSUME TypeOK, MissedReplies, \A n \in Notice : Replied(n, msg, missed) => Replied(n, msg', missed'),
           Replying
    PROVE  MissedReplies'
<1>1. down \in Seq(Notice)
  BY UpAndDown
<1>2. ASSUME NEW i \in 1..Len(down') PROVE Replied(down'[i], msg', missed')
  <2>1. CASE \E j \in 1..Len(down) : down'[i] = down[j]
    <3>1. PICK j \in 1..Len(down) : down'[i] = down[j]
      BY <2>1
    <3>2. down[j] \in Notice /\ Replied(down[j], msg, missed)
      BY <1>1, <3>1 DEF MissedReplies
    <3> QED
      BY <3>1, <3>2
  <2> QED
    BY <1>2, <2>1 DEF Replying
<1> QED
  BY <1>2 DEF MissedReplies

LEMMA RepliesAppend ==
    ASSUME NEW n \in Notice, TypeOK, Replied(n, msg', missed'), down' = Append(down, n)
    PROVE  Replying
<1>1. down \in Seq(Notice)
  BY UpAndDown
<1>2. /\ down' \in Seq(Notice) /\ Len(down') = Len(down) + 1 /\ Len(down) \in Nat
      /\ (\A i \in 1..Len(down) : down'[i] = down[i]) /\ down'[Len(down) + 1] = n
  BY <1>1, AppendFacts
<1>3. ASSUME NEW i \in 1..Len(down')
      PROVE  (\E j \in 1..Len(down) : down'[i] = down[j]) \/ Replied(down'[i], msg', missed')
  <2>1. CASE i = Len(down) + 1
    <3>1. down'[i] = n
      BY <1>2, <2>1
    <3> QED
      BY <3>1
  <2>2. CASE i # Len(down) + 1
    <3>1. i \in 1..Len(down)
      BY <1>2, <2>2
    <3> QED
      BY <1>2, <3>1
  <2> QED
    BY <2>1, <2>2
<1> QED
  BY <1>2, <1>3 DEF Replying

LEMMA NextMissed ==
    ASSUME IInv, MissedInv, [Next]_vars
    PROVE  MissedInv'
<1>1. /\ MissedMessages' /\ MissedReplies
      /\ \A n \in Notice : Replied(n, msg, missed) => Replied(n, msg', missed')
  BY NextMissedMessages DEF MissedInv
<1>2. TypeOK /\ down \in Seq(Notice) /\ LineInOrder
  BY UpAndDown DEF IInv, Order
<1> SUFFICES MissedReplies'
  BY <1>1 DEF MissedInv
<1>3. ASSUME Replying PROVE MissedReplies'
  BY <1>1, <1>2, <1>3, RepliesStay
<1>4. CASE down' = down
  <2>1. Replying
    BY <1>2, <1>4 DEF Replying
  <2> QED
    BY <1>3, <2>1
<1>5. CASE Start \/ Reconnect
  <2>1. down' = <<>>
    BY <1>5 DEF Start, Reconnect, EnableAnew
  <2>2. Replying
    BY <2>1 DEF Replying
  <2> QED
    BY <1>3, <2>2
<1>6. CASE LinkLost
  <2>1. PICK k \in 0..Len(down) : down' = SubSeq(down, 1, k)
    BY <1>6 DEF LinkLost
  <2>2. down' \in Seq(Notice) /\ \A i \in 1..Len(down') : i \in 1..Len(down) /\ down'[i] = down[i]
    BY <1>2, <2>1
  <2>3. Replying
    BY <2>2 DEF Replying
  <2> QED
    BY <1>3, <2>3
<1>7. CASE Handler
  <2>1. down # <<>> /\ down' = Tail(down)
    BY <1>2, <1>7, HandlerTakes
  <2>2. /\ down' \in Seq(Notice)
        /\ \A i \in 1..Len(down') : i + 1 \in 1..Len(down) /\ down'[i] = down[i + 1]
    BY <1>2, <2>1
  <2>3. Replying
    BY <2>2 DEF Replying
  <2> QED
    BY <1>3, <2>3
<1>8. CASE ServerEnables
  <2> DEFINE n == Enabled(present)
  <2>1. n \in Notice /\ n.type # "reply"
    BY <1>2, NoticeFields, TypeParts DEF FlagsOK, Enabled
  <2>2. down' = Append(down, n)
    BY <1>8 DEF ServerEnables
  <2> HIDE DEF n
  <2>3. Replied(n, msg', missed')
    BY <2>1 DEF Replied
  <2> QED
    BY <1>2, <1>3, <2>1, <2>2, <2>3, RepliesAppend
<1>9. CASE ServerReceives
  <2>1. PICK m \in Messages, r \in {"ok", "missing"} :
            /\ msg[m].state # "new"
            /\ Reply(m, r) \in Notice /\ down' = Append(down, Reply(m, r))
            /\ r = "missing" => msg[m].to \in missed'
            /\ msg' = msg
    BY <1>2, <1>9, ServerReplies
  <2> DEFINE n == Reply(m, r)
  <2>2. n \in Notice /\ n.message = m /\ n.result = r /\ down' = Append(down, n)
    BY <2>1 DEF Reply
  <2> HIDE DEF n
  <2>3. Replied(n, msg', missed')
    BY <2>1, <2>2 DEF Replied
  <2> QED
    BY <1>2, <1>3, <2>2, <2>3, RepliesAppend
<1>10. ASSUME NEW p \in Peers, PeerJoins(p) \/ PeerLeaves(p) PROVE MissedReplies'
  <2>1. /\ Joined(p) \in Notice /\ Joined(p).type # "reply"
        /\ Left(p) \in Notice /\ Left(p).type # "reply"
    BY NoticeFields DEF Joined, Left
  <2>2. PICK n \in {Joined(p), Left(p)} : down' \in {down, Append(down, n)}
    BY <1>10 DEF PeerJoins, PeerLeaves
  <2>3. n \in Notice /\ Replied(n, msg', missed')
    BY <2>1 DEF Replied
  <2> QED
    BY <1>2, <1>3, <1>4, <2>2, <2>3, RepliesAppend
<1>11. CASE UNCHANGED vars
  BY <1>4, <1>11 DEF vars
<1>12. CASE Room
  BY <1>4, <1>5, <1>6, <1>12 DEF Room, Disconnected, GiveUp, Exit, Stop, Leave
<1>13. CASE User \/ Sender
  BY <1>4, <1>13 DEF User, Sender, UserEnables, UserDisables, UserSends, Take, SenderEnds,
     SenderConnected, SenderOnline, SenderFails, Dispatch, Resume
<1>14. CASE Server
  BY <1>4, <1>8, <1>9, <1>10, <1>14 DEF Server, ServerRefuses, ServerDisables
<1> QED
  BY <1>7, <1>11, <1>12, <1>13, <1>14 DEF Next

(* Once nothing is under way, an online client lists exactly the peers     *)
(* that are there, but for those a message has not found before            *)
(* (_on_messaging_enabled, _on_participant_enabled, _mark_participant_     *)
(* offline).                                                               *)
THEOREM RosterIsRight == Spec => []RosterAgrees
<1>1. Init => NewsInv /\ RosterInv /\ MissedInv
  <2> SUFFICES ASSUME Init PROVE NewsInv /\ RosterInv /\ MissedInv
    OBVIOUS
  <2>1. down = <<>> /\ ~known /\ \A m \in Messages : msg[m].state = "new"
    BY DEF Init
  <2> QED
    BY <2>1 DEF NewsInv, RosterInv, MissedInv, MissedMessages, MissedReplies
<1>2. IInv => TypeOK /\ LineInOrder
  BY DEF IInv, Order
<1>3. RosterInv => RosterAgrees
  <2> SUFFICES ASSUME RosterInv, AtRest, online, known, NEW p \in Peers PROVE Agrees(p)
    BY DEF RosterAgrees, Agrees
  <2>1. Silent(down, p)
    BY DEF AtRest, Silent
  <2> QED
    BY <2>1 DEF RosterInv
<1> QED
  BY <1>1, <1>2, <1>3, NextNews, NextRoster, NextMissed, Invariant, PTL DEF Spec

=============================================================================
