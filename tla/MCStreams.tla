----------------------------- MODULE MCStreams -----------------------------
(* The two kinds of streams of the room client on small instances, for one *)
(* run of TLC: the streams of a tool call (ToolCall), or those of messaging *)
(* between two participants (MessagingStreams).  They share nothing: one of *)
(* them is at work in a behaviour, and the other stays as it started.       *)
EXTENDS ToolCall

CONSTANTS MaxMessages, Losses

VARIABLES part, toResponder, toInitiator, linkOf, incoming, mine, theirs, given

Messaging == INSTANCE MessagingStreams
                 WITH link <- linkOf, call <- incoming, got <- given

callVars == vars
messagingVars == <<toResponder, toInitiator, linkOf, incoming, mine, theirs, given>>
allVars == <<part, callVars, messagingVars>>

StreamsInit ==
    /\ part \in {"call", "messaging"}
    /\ Init /\ Messaging!Init
    /\ part = "messaging" => feed = "none" /\ size = 0

CallMoves(A) == part = "call" /\ A
MessagingMoves(A) == part = "messaging" /\ A

StreamsNext ==
    \/ CallMoves(Next) /\ UNCHANGED <<part, messagingVars>>
    \/ MessagingMoves(Messaging!Next) /\ UNCHANGED <<part, callVars>>

(* Fairness of ToolCall and of MessagingStreams, each while it is at work *)
StreamsFairness ==
    /\ WF_callVars(CallMoves(Caller)) /\ WF_callVars(CallMoves(Iteration))
    /\ WF_callVars(CallMoves(Generator)) /\ WF_callVars(CallMoves(GraceOver))
    /\ WF_callVars(CallMoves(Pump)) /\ WF_callVars(CallMoves(SourceEnds))
    /\ WF_callVars(CallMoves(Receive)) /\ WF_callVars(CallMoves(ServerAnswers))
    /\ WF_callVars(CallMoves(ServerSendsItem)) /\ WF_callVars(CallMoves(ServerCloses))
    /\ WF_messagingVars(MessagingMoves(Messaging!Initiator))
    /\ WF_messagingVars(MessagingMoves(Messaging!Responder))
    /\ WF_messagingVars(MessagingMoves(Messaging!Disconnect))
    /\ WF_messagingVars(MessagingMoves(Messaging!Accept \/ Messaging!Reject))

StreamsSpec == StreamsInit /\ [][StreamsNext]_allVars /\ StreamsFairness

-----------------------------------------------------------------------------
(* A call tells the truth about its end (EndIsHonest), nothing of it crosses *)
(* to another connection (OwnLink), and a reader is not flooded (OneAhead). *)
CallIsHonest == TypeOK /\ EndIsHonest /\ OwnLink /\ OneAhead

(* A messaging stream that is closed was given whole, its request was       *)
(* settled once, and neither client breaks the protocol of the other.       *)
ClosedWhole == Messaging!TypeOK /\ Messaging!ClosedWhole /\ Messaging!OneVerdict
               /\ Messaging!NoProtocolError

(* Who asks for a stream, receives from one or sends on one is not left     *)
(* waiting.                                                                 *)
NobodyWaits == Messaging!NobodyWaits

=============================================================================
