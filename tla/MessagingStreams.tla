-------------------------- MODULE MessagingStreams --------------------------
(***************************************************************************)
(* One duplex messaging stream between two participants                    *)
(* (MessagingClient.stream, IncomingMessagingStreamRequest and             *)
(* MessagingStream in meshagent/api/room_server_client.py).                *)
(*                                                                         *)
(* The initiator streams a tool call "messaging.stream" to the server      *)
(* (module ToolCall is that call seen from inside); the server relays it   *)
(* to the responder, whose user accepts or rejects it, and relays what     *)
(* both send until one of them closes the stream or loses its connection.  *)
(* One action is the code between two awaits of one side.                  *)
(***************************************************************************)
EXTENDS Naturals, Sequences, FiniteSets

CONSTANTS
    MaxMessages,   \* bound: messages each side sends
    Losses         \* which sides may lose their connection: "initiator", "responder"

VARIABLES
    toResponder,  \* relayed to the responder and not handled yet
    toInitiator,  \* relayed to the initiator and not handled yet
    link,         \* the connection of each side: "up", "dying" (its channel is
                  \* closed, which only a sender notices) or "down"
    call,         \* the responder's _IncomingMessagingStreamCall, its request
                  \* and the tables that hold them
    mine,         \* the responder's MessagingStream
    theirs,       \* the initiator's MessagingStream, and MessagingClient.stream
    got           \* what each side's receiver has been given

vars == <<toResponder, toInitiator, link, call, mine, theirs, got>>

-----------------------------------------------------------------------------
(* A MessagingStream *)

NoStream == [state |-> "none", events |-> <<>>, listed |-> FALSE]

Push(s, event) ==
    IF s.state = "accepted" THEN [s EXCEPT !.events = Append(@, event)] ELSE s

(* (mutant of Finish: the receiver is not told) *)
FinishSilently(s) == [s EXCEPT !.state = "terminal"]

(* _finish: the receiver of an open stream is told that it ends *)
Finish(s) ==
    IF s.state = "accepted"
    THEN [s EXCEPT !.state = "terminal", !.events = Append(@, "end")] ELSE s

(* ... and the send task of the responder *)
FinishMine(s) ==
    IF s.state = "accepted" THEN [Finish(s) EXCEPT !.queue = Append(@, "end")] ELSE s

Unlist(s) == [s EXCEPT !.listed = FALSE]

-----------------------------------------------------------------------------

Init ==
    /\ toResponder = <<>> /\ toInitiator = <<>>
    /\ link = [initiator |-> "up", responder |-> "up"]
    /\ call = [state |-> "none", request |-> "none", listed |-> FALSE, pending |-> FALSE]
    /\ mine = [state |-> "none", events |-> <<>>, listed |-> FALSE, queue |-> <<>>,
               task |-> "none", closing |-> "no", asked |-> 0, sent |-> 0]
    /\ theirs = [state |-> "none", events |-> <<>>, listed |-> FALSE, call |-> "none",
                 sent |-> 0, closed |-> FALSE]
    /\ got = [initiator |-> 0, responder |-> 0, initiatorEnd |-> "no", responderEnd |-> "no",
              ended |-> {}]

-----------------------------------------------------------------------------
(* The initiator *)

(* Its pump sends what is queued at once: an asyncio queue that is not     *)
(* empty does not suspend its reader.                                      *)
Relay(chunks) ==
    toResponder' = IF link["responder"] = "down" THEN toResponder ELSE toResponder \o chunks

(* stream(): the call is opened and the first message follows *)
Ask ==
    /\ theirs.call = "none" /\ link["initiator"] = "up"
    /\ theirs' = [theirs EXCEPT !.call = "asking"]
    /\ IF link["responder"] = "down"
       THEN toInitiator' = Append(toInitiator, "refuse") /\ UNCHANGED toResponder
       ELSE Relay(<<"open", "initial">>) /\ UNCHANGED toInitiator
    /\ UNCHANGED <<link, call, mine, got>>

(* The call fails, or its task is cancelled: the pump is cancelled and     *)
(* says that the input has ended.                                          *)
GiveUp ==
    /\ theirs.call = "asking" /\ link["initiator"] = "up"
    /\ theirs' = [theirs EXCEPT !.call = "failed"]
    /\ Relay(<<"close">>)
    /\ UNCHANGED <<toInitiator, link, call, mine, got>>

Head1 == Head(toInitiator)

(* The answer to the call *)
Answered ==
    /\ theirs.call = "asking" /\ toInitiator # <<>>
    /\ toInitiator' = Tail(toInitiator)
    /\ IF Head1 = "accept"
       THEN /\ theirs' = [theirs EXCEPT !.call = "open", !.state = "accepted", !.listed = TRUE]
            /\ UNCHANGED toResponder
       ELSE /\ theirs' = [theirs EXCEPT !.call = "failed"]
            /\ Relay(<<"close">>)
    /\ UNCHANGED <<link, call, mine, got>>

(* _read_output: a message, a notice, or an end of the stream *)
ReadOutput ==
    /\ theirs.call = "open" /\ toInitiator # <<>>
    /\ toInitiator' = Tail(toInitiator)
    /\ theirs' = IF Head1 \in {"message", "gone"} THEN Push(theirs, Head1)
                 ELSE [Unlist(Finish(Push(theirs, Head1))) EXCEPT !.call = "over"]
    /\ UNCHANGED <<toResponder, link, call, mine, got>>

(* Nobody reads any more. *)
DropOutput ==
    /\ theirs.call \in {"failed", "over"} /\ toInitiator # <<>>
    /\ toInitiator' = Tail(toInitiator)
    /\ UNCHANGED <<toResponder, link, call, mine, theirs, got>>

TheySend ==
    /\ theirs.state = "accepted" /\ theirs.sent < MaxMessages
    /\ theirs' = [theirs EXCEPT !.sent = @ + 1]
    /\ Relay(<<"message">>)
    /\ UNCHANGED <<toInitiator, link, call, mine, got>>

(* close(): the pump ends the input, the reader of the output is cancelled *)
(* and the receiver is told.                                               *)
TheyClose ==
    /\ theirs.state = "accepted"
    /\ theirs' = [Unlist(Finish(theirs)) EXCEPT !.call = "over", !.closed = TRUE]
    /\ Relay(<<"close">>)
    /\ UNCHANGED <<toInitiator, link, call, mine, got>>

(* The initiator's connection is lost: _close_local_streams, and the       *)
(* server closes the call for it.                                          *)
TheyDisconnect ==
    /\ "initiator" \in Losses /\ link["initiator"] = "up" /\ theirs.call # "none"
    /\ link' = [link EXCEPT !["initiator"] = "down"]
    /\ toInitiator' = <<>>
    /\ theirs' = [(IF theirs.listed THEN Unlist(Finish(Push(theirs, "gone"))) ELSE theirs)
                  EXCEPT !.call = IF @ = "asking" THEN "failed" ELSE "over"]
    /\ Relay(<<"close">>)
    /\ UNCHANGED <<call, mine, got>>

TheyReceive ==
    /\ theirs.events # <<>>
    /\ theirs' = [theirs EXCEPT !.events = Tail(@)]
    /\ got' = [got EXCEPT
                  !.initiator = IF Head(theirs.events) = "message" THEN @ + 1 ELSE @,
                  !.initiatorEnd = IF Head(theirs.events) = "message" THEN @
                                   ELSE IF @ = "no" THEN Head(theirs.events) ELSE @,
                  !.ended = IF Head(theirs.events) = "end" THEN @ \cup {"initiator"} ELSE @]
    /\ UNCHANGED <<toResponder, toInitiator, link, call, mine>>

-----------------------------------------------------------------------------
(* The responder *)

Back(chunks) ==
    toInitiator' = IF link["initiator"] = "down" THEN toInitiator ELSE toInitiator \o chunks

(* The call leaves the tables. *)
Forget(c) == [c EXCEPT !.state = "terminal", !.listed = FALSE, !.pending = FALSE]

MarkClosed(c, reason) == [c EXCEPT !.request = IF @ = "none" THEN @ ELSE reason]

(* A response, which the closed channel of a dying connection refuses *)
Respond(chunks) == IF link["responder"] = "up" THEN Back(chunks) ELSE UNCHANGED toInitiator

(* _fail_stream_call of a call not accepted yet *)
FailCall(reason) ==
    /\ call' = MarkClosed(Forget(call), reason)
    /\ Respond(<<"refuse">>)

Arriving(kind) ==
    /\ link["responder"] # "down" /\ toResponder # <<>> /\ Head(toResponder) = kind
    /\ toResponder' = Tail(toResponder)

(* _handle_stream_tool_call *)
HandleOpen ==
    /\ Arriving("open")
    /\ call' = [call EXCEPT !.state = "initial", !.listed = TRUE]
    /\ UNCHANGED <<toInitiator, link, mine, theirs, got>>

(* _handle_stream_tool_call_request_chunk: the first message makes the     *)
(* request that the user is shown                                          *)
HandleInitial ==
    /\ Arriving("initial")
    /\ call' = IF call.state = "initial"
               THEN [call EXCEPT !.state = "pending", !.request = "open", !.pending = TRUE]
               ELSE call
    /\ UNCHANGED <<toInitiator, link, mine, theirs, got>>

HandleMessage ==
    /\ Arriving("message")
    /\ CASE call.state = "pending" -> FailCall("protocol_error") /\ UNCHANGED mine
         [] call.state = "accepted" -> /\ mine' = Push(mine, "message")
                                       /\ UNCHANGED <<toInitiator, call>>
         [] OTHER -> UNCHANGED <<toInitiator, call, mine>>
    /\ UNCHANGED <<link, theirs, got>>

(* The initiator has closed: an accepted stream ends (and stays in         *)
(* _incoming_streams), a request is closed and refused.                    *)
HandleClose ==
    /\ Arriving("close")
    /\ CASE call.state \in {"initial", "pending"} ->
                FailCall("client_disconnected") /\ UNCHANGED mine
         [] call.state = "accepted" ->
                /\ call' = [call EXCEPT !.state = "terminal", !.listed = FALSE]
                /\ mine' = FinishMine(Push(mine, "gone"))
                /\ UNCHANGED toInitiator
         [] OTHER -> UNCHANGED <<call, mine, toInitiator>>
    /\ UNCHANGED <<link, theirs, got>>

MayDecide == call.pending /\ call.state = "pending" /\ call.request = "open"

(* (mutants of Accepted: the state is not changed before the answer is sent;*)
(* the request stays in the table)                                         *)
AcceptedLater(c) == [c EXCEPT !.request = "accepted"]
AcceptedStill(c) == [c EXCEPT !.state = "accepted", !.request = "accepted"]

Accepted(c) == [c EXCEPT !.state = "accepted", !.pending = FALSE, !.request = "accepted"]

(* accept(): the state changes before the answer is sent, and is taken     *)
(* back when the channel is closed.  (Protocol.send does not suspend.)     *)
Accept ==
    /\ MayDecide
    /\ IF link["responder"] = "up"
       THEN /\ call' = Accepted(call)
            /\ mine' = [mine EXCEPT !.state = "accepted", !.listed = TRUE, !.task = "running"]
            /\ Back(<<"accept">>)
       ELSE /\ call' = MarkClosed(Forget(call), "accept_failed")
            /\ UNCHANGED <<mine, toInitiator>>
    /\ UNCHANGED <<toResponder, link, theirs, got>>

Reject ==
    /\ MayDecide
    /\ FailCall("rejected")
    /\ UNCHANGED <<toResponder, link, mine, theirs, got>>

(* send_message: queued for the send task *)
Send ==
    /\ mine.state = "accepted" /\ mine.asked < MaxMessages
    /\ mine' = [mine EXCEPT !.asked = @ + 1, !.queue = Append(@, "message")]
    /\ UNCHANGED <<toResponder, toInitiator, link, call, theirs, got>>

(* _send_queued_messages: a message is sent and its future resolved, or    *)
(* the future and the stream fail; what is queued behind the end fails in  *)
(* the `finally`.                                                          *)
SendQueued ==
    /\ mine.task = "running" /\ mine.queue # <<>>
    /\ IF Head(mine.queue) = "end"
       THEN /\ mine' = [mine EXCEPT !.task = "ended", !.queue = <<>>]
            /\ UNCHANGED toInitiator
       ELSE IF call.state = "accepted" /\ link["responder"] = "up"
       THEN /\ mine' = [mine EXCEPT !.queue = Tail(@), !.sent = @ + 1]
            /\ Back(<<"message">>)
       ELSE /\ mine' = FinishMine(Push([mine EXCEPT !.queue = Tail(@)], "failed"))
            /\ UNCHANGED toInitiator
    /\ UNCHANGED <<toResponder, link, call, theirs, got>>

(* close() up to `await gather(send_task)` *)
Close ==
    /\ mine.state = "accepted"
    /\ mine' = [mine EXCEPT !.state = "terminal", !.queue = Append(@, "end"),
                            !.closing = "waiting"]
    /\ UNCHANGED <<toResponder, toInitiator, link, call, theirs, got>>

(* (mutant of Flushed: close() does not wait for the send task) *)
FlushedOrNot == TRUE

Flushed == mine.task = "ended"

(* The rest of close(): it raises, and does not tell the receiver, when    *)
(* the call has ended meanwhile or the channel is closed.                  *)
CloseEnds ==
    /\ mine.closing = "waiting" /\ Flushed
    /\ IF call.state = "accepted" /\ link["responder"] = "up"
       THEN /\ Back(<<"closed">>)
            /\ call' = [call EXCEPT !.state = "terminal", !.listed = FALSE]
            /\ mine' = [Unlist(mine) EXCEPT !.closing = "done", !.events = Append(@, "end")]
       ELSE /\ mine' = [Unlist(mine) EXCEPT !.closing = "raised"]
            /\ UNCHANGED <<toInitiator, call>>
    /\ UNCHANGED <<toResponder, link, theirs, got>>

ChannelCloses ==
    /\ "responder" \in Losses /\ link["responder"] = "up"
    /\ link' = [link EXCEPT !["responder"] = "dying"]
    /\ UNCHANGED <<toResponder, toInitiator, call, mine, theirs, got>>

(* _on_room_disconnect: _close_local_streams.  The server tells the        *)
(* initiator that its peer has gone.                                       *)
Disconnect ==
    /\ link["responder"] = "dying"
    /\ link' = [link EXCEPT !["responder"] = "down"]
    /\ toResponder' = <<>>
    /\ call' = IF call.listed \/ call.pending
               THEN IF call.pending THEN MarkClosed(Forget(call), "client_disconnected")
                                    ELSE Forget(call)
               ELSE call
    /\ mine' = IF mine.listed THEN Unlist(FinishMine(Push(mine, "gone"))) ELSE mine
    /\ Back(IF mine.state = "none" THEN <<"refuse">> ELSE <<"gone", "close">>)
    /\ UNCHANGED <<theirs, got>>

Receive ==
    /\ mine.events # <<>>
    /\ mine' = [mine EXCEPT !.events = Tail(@)]
    /\ got' = [got EXCEPT
                  !.responder = IF Head(mine.events) = "message" THEN @ + 1 ELSE @,
                  !.responderEnd = IF Head(mine.events) = "message" THEN @
                                   ELSE IF @ = "no" THEN Head(mine.events) ELSE @,
                  !.ended = IF Head(mine.events) = "end" THEN @ \cup {"responder"} ELSE @]
    /\ UNCHANGED <<toResponder, toInitiator, link, call, theirs>>

-----------------------------------------------------------------------------
Initiator == Answered \/ ReadOutput \/ DropOutput \/ TheyReceive
Responder == HandleOpen \/ HandleInitial \/ HandleMessage \/ HandleClose
             \/ SendQueued \/ CloseEnds \/ Receive

Next == \/ Initiator \/ Responder
        \/ Ask \/ GiveUp \/ TheySend \/ TheyClose \/ TheyDisconnect
        \/ Accept \/ Reject \/ Send \/ Close \/ ChannelCloses \/ Disconnect

(* Both event loops run, a dying connection is noticed, and the user the   *)
(* request is shown to decides.                                            *)
Fairness == /\ WF_vars(Initiator) /\ WF_vars(Responder)
            /\ WF_vars(Disconnect) /\ WF_vars(Accept \/ Reject)

Spec == Init /\ [][Next]_vars
FairSpec == Spec /\ Fairness

-----------------------------------------------------------------------------
(* Properties *)

(* What the tables, queues and states of both sides may hold. *)
TypeOK ==
    LET State == {"none", "accepted", "terminal"}
        Event == {"message", "gone", "closed", "close", "failed", "end"}
    IN /\ toResponder \in Seq({"open", "initial", "message", "close"})
       /\ toInitiator \in Seq({"accept", "refuse", "message", "gone", "closed", "close"})
       /\ link \in [{"initiator", "responder"} -> {"up", "dying", "down"}]
       /\ call \in [state: {"none", "initial", "pending", "accepted", "terminal"},
                    request: {"none", "open", "accepted", "rejected", "accept_failed",
                              "protocol_error", "client_disconnected"},
                    listed: BOOLEAN, pending: BOOLEAN]
       /\ mine.state \in State /\ mine.events \in Seq(Event) /\ mine.listed \in BOOLEAN
       /\ mine.queue \in Seq({"message", "end"}) /\ mine.task \in {"none", "running", "ended"}
       /\ mine.closing \in {"no", "waiting", "done", "raised"}
       /\ mine.asked \in 0..MaxMessages /\ mine.sent \in 0..MaxMessages
       /\ theirs.state \in State /\ theirs.events \in Seq(Event) /\ theirs.listed \in BOOLEAN
       /\ theirs.call \in {"none", "asking", "open", "failed", "over"}
       /\ theirs.sent \in 0..MaxMessages /\ theirs.closed \in BOOLEAN
       /\ got.initiator \in Nat /\ got.responder \in Nat
       /\ got.initiatorEnd \in Event \cup {"no"} /\ got.responderEnd \in Event \cup {"no"}
       /\ got.ended \subseteq {"initiator", "responder"}

(* Two of these clients never break the stream's protocol: a request is    *)
(* never closed because a message came before it was accepted.             *)
NoProtocolError == call.request # "protocol_error"

(* A stream that one side closes is given to the other side whole: what    *)
(* the closing side sent before it closed has been received, and every     *)
(* message that a send resolved is among it.                               *)
ClosedWhole ==
    /\ got.initiatorEnd = "closed" => got.initiator = mine.sent /\ mine.sent = mine.asked
    /\ got.responderEnd = "gone" /\ theirs.closed /\ link["responder"] = "up"
          => got.responder = theirs.sent

(* A request the responder was shown is settled once: a stream exists      *)
(* exactly when the request was accepted, and nothing pends after that.    *)
OneVerdict ==
    /\ mine.state # "none" <=> call.request = "accepted"
    /\ call.pending <=> call.request = "open"
    /\ theirs.state # "none" => call.request = "accepted"

(* Everyone who waits is told: the initiator who asked, the receivers of   *)
(* both sides once their stream is over (unless close() raised), and the   *)
(* senders whose messages are queued.                                      *)
NobodyWaits ==
    /\ theirs.call = "asking" ~> theirs.call # "asking"
    /\ theirs.state = "terminal" ~> "initiator" \in got.ended
    /\ mine.state = "terminal" ~> "responder" \in got.ended \/ mine.closing = "raised"
    /\ mine.queue # <<>> ~> mine.queue = <<>>

(* The receiver of a stream that is closed ends, whoever closed it. *)
CloserToldToo == mine.state = "terminal" ~> "responder" \in got.ended

=============================================================================
