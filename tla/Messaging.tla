------------------------------ MODULE Messaging ------------------------------
(***************************************************************************)
(* MessagingClient (meshagent/api/room_server_client.py): who else is in   *)
(* the room with messaging enabled, and the queue of messages to them.     *)
(*                                                                         *)
(* User tasks enable and disable messaging and queue messages; one task    *)
(* (_send_messages) dispatches them in order, each in a task of its own;   *)
(* the handler of "messaging.send" keeps the table of participants; and    *)
(* the room comes, goes and ends under all of them (RoomClient, seen here  *)
(* only through its flags).  One action is the code between two awaits.    *)
(***************************************************************************)
EXTENDS Naturals, Sequences, FiniteSets

CONSTANTS
    Peers,          \* ids of the other participants
    Messages,       \* 1..n: the messages sent, in the order of the calls
    Objects,        \* the identities of RemoteParticipant objects of one id
    None,           \* no object
    Gone,           \* a RemoteParticipant that has been set offline
    Plain,          \* a Participant that is no RemoteParticipant
    MaxTraffic      \* bound: users and peers act while less is under way

ASSUME MessagingAssumption ==
    /\ IsFiniteSet(Peers)
    /\ IsFiniteSet(Messages) /\ Messages = 1..Cardinality(Messages)
    \* one listed, one for each message, and a new one
    /\ IsFiniteSet(Objects) /\ Cardinality(Objects) >= Cardinality(Messages) + 2
    /\ Cardinality({None, Gone, Plain}) = 3 /\ {None, Gone, Plain} \cap Objects = {}
    /\ MaxTraffic \in Nat

VARIABLES
    room,       \* the state of the RoomClient and its protocol
    desired, online, inFlight,
                \* _desired_enabled, _online, _enable_in_flight
    roster,     \* _participants: id -> object, or None
    queue,      \* the contents of _message_queue
    queueOpen,  \* ... is it open?
    sender,     \* where _send_task stands
    msg,        \* every message: where it is, its `to` and its object
    up, down,   \* requests and messages under way, to and from the server
    known,      \* has the server enabled messaging on this connection?
    refused,    \* has it answered "enable" with an error?
    present,    \* the peers that have enabled it
    arrived,    \* the messages the server has received
    missed      \* the peers the server has not found when it got a message

flagVars == <<desired, online, inFlight>>
taskVars == <<queue, queueOpen, sender>>
serverVars == <<known, refused, present, arrived, missed>>
vars == <<room, flagVars, roster, taskVars, msg, up, down, serverVars>>

-----------------------------------------------------------------------------
(* Participants.  A RemoteParticipant in the table is online; one taken    *)
(* out of it is offline for good (Gone), one replaced by another of the    *)
(* same id stays as it was.  An identity that nothing refers to any more   *)
(* is used again.                                                          *)

Settled == {"sent", "unsent"}

(* The messages of ms to p that refer to one of its objects in O *)
Referring(p, O, ms) ==
    {m \in Messages : ms[m].state # "new" /\ ms[m].to = p /\ ms[m].object \in O}

(* A RemoteParticipant made for p *)
Unused(p) ==
    CHOOSE o \in Objects : o # roster[p] /\ Referring(p, {o}, msg) = {}

(* The objects of O, of the peer p, are set offline. *)
SetOffline(p, O, ms) ==
    [m \in Messages |->
        IF m \in Referring(p, O, ms) THEN [ms[m] EXCEPT !.object = Gone] ELSE ms[m]]

(* _remove_participant, for everybody in the table *)
AllOffline(ms) ==
    [m \in Messages |->
        IF \E p \in Peers : m \in Referring(p, {roster[p]} \cap Objects, ms)
        THEN [ms[m] EXCEPT !.object = Gone] ELSE ms[m]]

(* _resolve_message_recipient *)
Resolves(m) ==
    \/ msg[m].object = Plain
    \/ msg[m].object # Gone /\ roster[msg[m].to] # None

Enable == [type |-> "enable"]
Disable == [type |-> "disable"]
Send(m) == [type |-> "send", message |-> m]
Enabled(S) == [type |-> "enabled", peers |-> S]
Joined(p) == [type |-> "joined", peer |-> p]
Left(p) == [type |-> "left", peer |-> p]
Reply(m, result) == [type |-> "reply", message |-> m, result |-> result]

Request == {Enable, Disable} \cup {Send(m) : m \in Messages}
Notice ==
    {Enabled(S) : S \in SUBSET Peers} \cup {Joined(p) : p \in Peers}
        \cup {Left(p) : p \in Peers}
        \cup {Reply(m, r) : m \in Messages, r \in {"ok", "missing"}}

-----------------------------------------------------------------------------
(* The room.  "lost": its link is dead, and it has yet to notice.          *)

Connected == room \in {"up", "lost"}                 \* is_connected
Terminal == room \in {"ended", "exiting", "stopping", "left"}   \* _terminal_state
Handling == room \in {"up", "lost", "exiting"}       \* messages are still handled

Quiet == Len(up) + Len(down) < MaxTraffic

(* What is queued on a dead link is lost; what a room that is not          *)
(* connected would send without waiting is skipped.                        *)
Queue(r) == up' = IF room = "up" THEN Append(up, r) ELSE up

(* _clear_current_connection_state *)
Clear(ms) ==
    /\ inFlight' = FALSE
    /\ online' = FALSE
    /\ roster' = [p \in Peers |-> None]
    /\ msg' = AllOffline(ms)

(* _fail_pending_requests, for the requests of messages *)
PendingFailed ==
    [m \in Messages |-> IF msg[m].state = "asked" THEN [msg[m] EXCEPT !.state = "error"]
                        ELSE msg[m]]

Init ==
    /\ room = "starting"
    /\ desired = FALSE /\ online = FALSE /\ inFlight = FALSE
    /\ roster = [p \in Peers |-> None]
    /\ queue = <<>> /\ queueOpen = TRUE /\ sender = [at |-> "none"]
    /\ msg = [m \in Messages |-> [state |-> "new"]]
    /\ up = <<>> /\ down = <<>>
    /\ known = FALSE /\ refused = FALSE /\ present \in SUBSET Peers /\ arrived = {} /\ missed = {}

(* The request of _enable_current_connection_nowait, on a new connection *)
EnableAnew ==
    /\ room' = "up"
    /\ inFlight' = desired
    /\ up' = IF desired THEN <<Enable>> ELSE <<>>
    /\ down' = <<>> /\ known' = FALSE /\ refused' = FALSE

(* The end of RoomClient.__aenter__: messaging.start, _on_room_reconnect *)
Start ==
    /\ room = "starting"
    /\ EnableAnew
    /\ sender' = [at |-> "receive"]
    /\ UNCHANGED <<desired, online, roster, queue, queueOpen, msg, present, arrived, missed>>

Reconnect ==
    /\ room = "offline"
    /\ EnableAnew
    /\ UNCHANGED <<desired, online, roster, taskVars, msg, present, arrived, missed>>

(* The link breaks, or the server closes it: requests under way are lost,  *)
(* and so is all but the first k messages to the client.                   *)
LinkLost ==
    /\ room = "up" /\ room' = "lost"
    /\ up' = <<>>
    /\ \E k \in 0..Len(down) : down' = SubSeq(down, 1, k)
    /\ known' = FALSE /\ refused' = FALSE
    /\ UNCHANGED <<flagVars, roster, taskVars, msg, present, arrived, missed>>

(* (mutant of Disconnected: the pending requests are not failed) *)
DisconnectedOnly ==
    /\ room = "lost" /\ down = <<>>
    /\ room' \in {"offline", "ended"}
    /\ Clear(msg)
    /\ UNCHANGED <<desired, taskVars, up, down, serverVars>>

(* _connection_lifecycle, once the last message is handled: to reconnect,  *)
(* or to be over (the server closed, or reconnecting is off)               *)
Disconnected ==
    /\ room = "lost" /\ down = <<>>
    /\ room' \in {"offline", "ended"}
    /\ Clear(PendingFailed)
    /\ UNCHANGED <<desired, taskVars, up, down, serverVars>>

(* The reconnect fails or is out of time. *)
GiveUp ==
    /\ room = "offline" /\ room' = "ended"
    /\ UNCHANGED <<flagVars, roster, taskVars, msg, up, down, serverVars>>

(* RoomClient.__aexit__ fails what is pending and closes the link ... *)
Exit ==
    /\ room \in {"up", "lost", "offline", "ended"}
    /\ room' = "exiting"
    /\ msg' = PendingFailed
    /\ up' = <<>> /\ known' = FALSE /\ refused' = FALSE
    /\ UNCHANGED <<flagVars, roster, taskVars, down, present, arrived, missed>>

(* (mutant of Stop: the queue is closed but not emptied) *)
StopAtOnce ==
    /\ room = "exiting" /\ down = <<>>
    /\ room' = "stopping"
    /\ queue' = <<>> /\ queueOpen' = FALSE
    /\ UNCHANGED <<flagVars, roster, sender, msg, up, down, serverVars>>

(* Whoever waits for a message that is still in the queue gets an error. *)
Drained(ms) ==
    [m \in Messages |-> IF ms[m].state = "queued" THEN [ms[m] EXCEPT !.state = "unsent"]
                        ELSE ms[m]]

(* ... then stops messaging: stop empties and closes the queue ... *)
Stop ==
    /\ room = "exiting" /\ down = <<>>
    /\ room' = "stopping"
    /\ msg' = Drained(msg)
    /\ queue' = <<>> /\ queueOpen' = FALSE
    /\ UNCHANGED <<flagVars, roster, sender, up, down, serverVars>>

(* ... and waits for the task that sends and the tasks it has created. *)
Leave ==
    /\ room = "stopping" /\ sender.at = "done"
    /\ \A m \in Messages : msg[m].state \in {"new"} \cup Settled
    /\ room' = "left"
    /\ desired' = FALSE
    /\ Clear(msg)
    /\ UNCHANGED <<taskVars, up, down, serverVars>>

-----------------------------------------------------------------------------
(* Enabling and disabling *)

(* _enable_current_connection_nowait, in a room that is connected *)
AskToEnable ==
    IF online \/ inFlight THEN UNCHANGED <<inFlight, up>>
    ELSE inFlight' = TRUE /\ Queue(Enable)

UserEnables ==
    /\ Quiet
    /\ desired' = TRUE
    /\ IF Connected THEN AskToEnable ELSE UNCHANGED <<inFlight, up>>
    /\ UNCHANGED <<room, online, roster, taskVars, msg, down, serverVars>>

UserDisables ==
    /\ Quiet
    /\ desired' = FALSE
    /\ Clear(msg)
    /\ IF Connected /\ online THEN Queue(Disable) ELSE UNCHANGED up
    /\ UNCHANGED <<room, taskVars, down, serverVars>>

-----------------------------------------------------------------------------
(* Sending *)

(* send_message and send_message_nowait, which differ in who waits.  The   *)
(* receiver is a participant of the table, another object or just an id.   *)
UserSends ==
    \E m \in Messages, p \in Peers, o \in Objects \cup {Plain, Gone} :
        /\ msg[m].state = "new"
        /\ \A k \in Messages : k < m => msg[k].state # "new"
        /\ sender.at # "none" /\ queueOpen
        /\ o = Plain \/ o = Gone \/ o = roster[p] \/ o = Unused(p) \/ Referring(p, {o}, msg) # {}
        /\ msg' = [msg EXCEPT ![m] = [state |-> "queued", to |-> p, object |-> o]]
        /\ queue' = Append(queue, m)
        /\ UNCHANGED <<room, flagVars, roster, queueOpen, sender, up, down, serverVars>>

Take ==
    /\ sender.at = "receive" /\ queue # <<>>
    /\ sender' = [at |-> "connect", message |-> Head(queue)]
    /\ msg' = [msg EXCEPT ![Head(queue)].state = "held"]
    /\ queue' = Tail(queue)
    /\ UNCHANGED <<room, flagVars, roster, queueOpen, up, down, serverVars>>

(* The queue is closed and empty. *)
SenderEnds ==
    /\ sender.at = "receive" /\ queue = <<>> /\ ~queueOpen
    /\ sender' = [at |-> "done"]
    /\ UNCHANGED <<room, flagVars, roster, queue, queueOpen, msg, up, down, serverVars>>

(* (mutant of DispatchNext: the dispatch of the message is not waited for) *)
DispatchAhead(m) ==
    IF Resolves(m)
    THEN /\ msg' = [msg EXCEPT ![m].state = "starting"]
         /\ sender' = [sender EXCEPT !.at = "receive"]
    ELSE /\ msg' = [msg EXCEPT ![m].state = "unsent"]
         /\ sender' = [at |-> "receive"]

(* A task of its own sends the message, if its receiver is there. *)
DispatchNext(m) ==
    IF Resolves(m)
    THEN /\ msg' = [msg EXCEPT ![m].state = "starting"]
         /\ sender' = [at |-> "dispatch", message |-> m]
    ELSE /\ msg' = [msg EXCEPT ![m].state = "unsent"]
         /\ sender' = [at |-> "receive"]

(* _wait_until_connected_for_messages returns. *)
SenderConnected ==
    /\ sender.at = "connect" /\ Connected
    /\ IF desired /\ ~online
       THEN sender' = [sender EXCEPT !.at = "online"] /\ UNCHANGED msg
       ELSE DispatchNext(sender.message)
    /\ UNCHANGED <<room, flagVars, roster, queue, queueOpen, up, down, serverVars>>

(* _wait_until_online returns. *)
SenderOnline ==
    /\ sender.at = "online" /\ online
    /\ DispatchNext(sender.message)
    /\ UNCHANGED <<room, flagVars, roster, queue, queueOpen, up, down, serverVars>>

(* Either wait raises in a room that is over: the task drops its message   *)
(* and all that are queued, and returns.                                   *)
SenderFails ==
    /\ sender.at \in {"connect", "online"} /\ ~(sender.at = "online" /\ online) /\ Terminal
    /\ msg' = Drained([msg EXCEPT ![sender.message].state = "unsent"])
    /\ queue' = <<>>
    /\ sender' = [at |-> "done"]
    /\ UNCHANGED <<room, flagVars, roster, queueOpen, up, down, serverVars>>

(* (mutant of Dispatch: only a request that is sent sets the event) *)
DispatchOnlySent(m) ==
    /\ msg[m].state = "starting"
    /\ msg' = [msg EXCEPT ![m].state = IF room = "up" THEN "asked" ELSE "unsent"]
    /\ Queue(Send(m))
    /\ sender' = IF sender.at = "dispatch" /\ room = "up" THEN [at |-> "receive"] ELSE sender
    /\ UNCHANGED <<room, flagVars, roster, queue, queueOpen, down, serverVars>>

(* The task of a message runs: it sends the request, or the room or the    *)
(* protocol refuses; either way _send_messages goes on.                    *)
Dispatch(m) ==
    /\ msg[m].state = "starting"
    /\ msg' = [msg EXCEPT ![m].state = IF room = "up" THEN "asked" ELSE "unsent"]
    /\ Queue(Send(m))
    /\ sender' = IF sender.at = "dispatch" THEN [at |-> "receive"] ELSE sender
    /\ UNCHANGED <<room, flagVars, roster, queue, queueOpen, down, serverVars>>

(* It resumes with the response, and takes a RemoteParticipant that was    *)
(* not found for offline (_mark_participant_offline).                      *)
Resume(m) ==
    /\ msg[m].state \in {"ok", "missing", "error"}
    /\ LET ended == [msg EXCEPT ![m].state = IF @ = "ok" THEN "sent" ELSE "unsent"]
           p == msg[m].to
       IN IF msg[m].state = "missing" /\ msg[m].object # Plain
          THEN /\ roster' = [roster EXCEPT ![p] = None]
               /\ msg' = SetOffline(p, {roster[p], msg[m].object}, ended)
          ELSE msg' = ended /\ UNCHANGED roster
    /\ UNCHANGED <<room, flagVars, taskVars, up, down, serverVars>>

-----------------------------------------------------------------------------
(* What the client is told *)

Told(type) == Handling /\ down # <<>> /\ Head(down).type = type /\ down' = Tail(down)

(* (mutant of HandleEnabled: what the user wants now is not looked at) *)
HandleEnabledAlways ==
    /\ Told("enabled")
    /\ inFlight' = FALSE /\ online' = TRUE
    /\ roster' = [p \in Peers |-> IF p \in Head(down).peers THEN Unused(p) ELSE None]
    /\ UNCHANGED <<room, desired, taskVars, msg, up, serverVars>>

(* _on_messaging_enabled: the table is replaced.  If messaging has been    *)
(* disabled since, the server is told so and the table emptied again.      *)
HandleEnabled ==
    /\ Told("enabled")
    /\ inFlight' = FALSE
    /\ IF desired
       THEN /\ online' = TRUE
            /\ roster' = [p \in Peers |->
                            IF p \in Head(down).peers THEN Unused(p) ELSE None]
            /\ UNCHANGED up
       ELSE /\ online' = FALSE
            /\ roster' = [p \in Peers |-> None]
            /\ Queue(Disable)
    /\ UNCHANGED <<room, desired, taskVars, msg, serverVars>>

(* _on_participant_enabled *)
HandleJoined ==
    /\ Told("joined")
    /\ LET p == Head(down).peer IN roster' = [roster EXCEPT ![p] = Unused(p)]
    /\ UNCHANGED <<room, flagVars, taskVars, msg, up, serverVars>>

(* (mutant of HandleLeft: the participant is set offline but not taken out) *)
HandleLeftMarks ==
    /\ Told("left")
    /\ LET p == Head(down).peer IN msg' = SetOffline(p, {roster[p]}, msg)
    /\ UNCHANGED <<room, flagVars, roster, taskVars, up, serverVars>>

(* _on_participant_disabled *)
HandleLeft ==
    /\ Told("left")
    /\ LET p == Head(down).peer
       IN roster' = [roster EXCEPT ![p] = None] /\ msg' = SetOffline(p, {roster[p]}, msg)
    /\ UNCHANGED <<room, flagVars, taskVars, up, serverVars>>

(* RoomClient._handle_response: the task of the message is made to run. *)
HandleReply ==
    /\ Told("reply")
    /\ LET r == Head(down)
       IN msg' = IF msg[r.message].state = "asked"
                 THEN [msg EXCEPT ![r.message].state = r.result] ELSE msg
    /\ UNCHANGED <<room, flagVars, roster, taskVars, up, serverVars>>

-----------------------------------------------------------------------------
(* The server *)

Asked(type) ==
    room = "up" /\ up # <<>> /\ Head(up).type = type /\ up' = Tail(up)

ServerEnables ==
    /\ Asked("enable")
    /\ known' = TRUE
    /\ down' = Append(down, Enabled(present))
    /\ UNCHANGED <<room, flagVars, roster, taskVars, msg, refused, present, arrived, missed>>

(* A one-way request that fails is only logged by the client. *)
ServerRefuses ==
    /\ Asked("enable")
    /\ refused' = TRUE
    /\ UNCHANGED <<room, flagVars, roster, taskVars, msg, down, known, present, arrived, missed>>

ServerDisables ==
    /\ Asked("disable")
    /\ known' = FALSE
    /\ UNCHANGED <<room, flagVars, roster, taskVars, msg, down, refused, present, arrived, missed>>

ServerReceives ==
    /\ Asked("send")
    /\ LET m == Head(up).message
           p == msg[m].to
       IN /\ arrived' = arrived \cup {m}
          /\ down' = Append(down, Reply(m, IF p \in present THEN "ok" ELSE "missing"))
          /\ missed' = IF p \in present THEN missed ELSE missed \cup {p}
    /\ UNCHANGED <<room, flagVars, roster, taskVars, msg, known, refused, present>>

PeerJoins(p) ==
    /\ Quiet
    /\ p \notin present /\ present' = present \cup {p}
    /\ down' = IF known THEN Append(down, Joined(p)) ELSE down
    /\ UNCHANGED <<room, flagVars, roster, taskVars, msg, up, known, refused, arrived, missed>>

PeerLeaves(p) ==
    /\ Quiet
    /\ p \in present /\ present' = present \ {p}
    /\ down' = IF known THEN Append(down, Left(p)) ELSE down
    /\ UNCHANGED <<room, flagVars, roster, taskVars, msg, up, known, refused, arrived, missed>>

-----------------------------------------------------------------------------
Room == Start \/ Reconnect \/ LinkLost \/ Disconnected \/ GiveUp \/ Exit \/ Stop \/ Leave

User == UserEnables \/ UserDisables \/ UserSends

Sender ==
    \/ Take \/ SenderEnds \/ SenderConnected \/ SenderOnline \/ SenderFails
    \/ \E m \in Messages : Dispatch(m) \/ Resume(m)

Handler == HandleEnabled \/ HandleJoined \/ HandleLeft \/ HandleReply

Server ==
    \/ ServerEnables \/ ServerRefuses \/ ServerDisables \/ ServerReceives
    \/ \E p \in Peers : PeerJoins(p) \/ PeerLeaves(p)

Next == Room \/ User \/ Sender \/ Handler \/ Server

Spec == Init /\ [][Next]_vars

(* The tasks of the client run when they can, a server answers what it     *)
(* gets, and a room that is offline reconnects or gives up.  Nobody has to *)
(* enable, disable, send, leave or exit.                                   *)
FairSpec ==
    /\ Spec
    /\ WF_vars(Reconnect \/ GiveUp)
    /\ WF_vars(Disconnected) /\ WF_vars(Stop) /\ WF_vars(Leave)
    /\ WF_vars(Take) /\ WF_vars(SenderEnds) /\ WF_vars(SenderConnected)
    /\ WF_vars(SenderOnline) /\ WF_vars(SenderFails)
    /\ \A m \in Messages : WF_vars(Dispatch(m)) /\ WF_vars(Resume(m))
    /\ WF_vars(Handler)
    /\ WF_vars(ServerEnables \/ ServerDisables \/ ServerReceives)

-----------------------------------------------------------------------------
(* Properties *)

MessageRecord ==
    [state: {"new"}]
        \cup [state: {"queued", "held", "starting", "asked", "ok", "missing", "error"}
                        \cup Settled,
              to: Peers, object: Objects \cup {Plain, Gone}]

(* Every variable has its type. *)
TypeOK ==
    /\ room \in {"starting", "up", "lost", "offline", "ended", "exiting", "stopping", "left"}
    /\ <<desired, online, inFlight>> \in BOOLEAN \X BOOLEAN \X BOOLEAN
    /\ roster \in [Peers -> Objects \cup {None}]
    /\ queue \in Seq(Messages) /\ queueOpen \in BOOLEAN
    /\ sender \in [at: {"none", "receive", "done"}]
                    \cup [at: {"connect", "online", "dispatch"}, message: Messages]
    /\ msg \in [Messages -> MessageRecord]
    /\ up \in Seq(Request) /\ down \in Seq(Notice)
    /\ known \in BOOLEAN /\ refused \in BOOLEAN
    /\ present \subseteq Peers /\ arrived \subseteq Messages /\ missed \subseteq Peers

(* The messages reach the server in the order of the calls that sent them, *)
(* each at most once, although each has a task of its own and none waits   *)
(* for the response of the one before (_send_messages).                    *)
SentInOrder == [][\A m \in arrived' : m \notin arrived => \A k \in arrived : k < m]_vars

(* Whoever waits for a message waits for something that is still there:    *)
(* the message is in the queue, in the hands of the task that sends, about *)
(* to be sent by a task of its own, or asked of a server on a connection   *)
(* that is not given up; and the task that sends waits for a dispatch only *)
(* while one is due (_send_messages, _fail_pending_work, stop).            *)
NobodyForgotten ==
    /\ \A m \in Messages :
        /\ msg[m].state = "queued" => \E i \in 1..Len(queue) : queue[i] = m
        /\ msg[m].state = "held" <=> sender.at \in {"connect", "online"} /\ sender.message = m
        /\ msg[m].state = "asked" => Connected
    /\ sender.at = "dispatch" => msg[sender.message].state = "starting"

AtRest ==
    /\ room = "up" /\ up = <<>> /\ down = <<>>
    /\ \A m \in Messages : msg[m].state \notin {"ok", "missing", "error"}

(* However enabling, disabling and their answers have crossed each other,  *)
(* once nothing is under way the client is online exactly if the user      *)
(* wants it, and the server agrees, unless it has refused to enable        *)
(* messaging (enable, disable, _on_messaging_enabled).                     *)
WishFulfilled ==
    AtRest /\ ~refused => online = desired /\ online = known /\ ~inFlight

(* Once nothing is under way, an online client lists exactly the peers     *)
(* that are there, but for those a message has not found before: their     *)
(* later return may be forgotten (see RosterComplete).                     *)
RosterAgrees ==
    AtRest /\ online /\ known =>
        \A p \in Peers : /\ roster[p] # None => p \in present
                         /\ p \in present \ missed => roster[p] # None

(* "get the other participants in the room with messaging enabled": once   *)
(* nothing is under way these are all the peers that are there.  (The code *)
(* does not keep this for the peers in `missed`.)                          *)
RosterComplete == AtRest /\ online /\ known => \A p \in present : roster[p] # None

(* __aexit__ returns, and with it everybody who waits for a message to be  *)
(* sent (stop, _drain_queued_messages).                                    *)
LeavingSettles ==
    room = "exiting" ~> /\ room = "left"
                        /\ \A m \in Messages : msg[m].state \in {"new"} \cup Settled

(* As long as the client stays online, every message is sent or refused. *)
OnlineSettles ==
    <>[](room = "up" /\ online) =>
        <>[](\A m \in Messages : msg[m].state \in {"new"} \cup Settled)

(* Messages that wait when the room is over, or come later, fail: nobody   *)
(* has to leave the room first for send_message to return.                 *)
EndedSettles ==
    room = "ended" ~>
        (room # "ended" \/ \A m \in Messages : msg[m].state \in {"new"} \cup Settled)

=============================================================================
