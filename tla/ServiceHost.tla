----------------------------- MODULE ServiceHost -----------------------------
(***************************************************************************)
(* services.py and webhooks.py: a ServiceHost serves paths over HTTP.  A   *)
(* call that is posted to one is answered by a task of its own (_spawn):   *)
(* it joins the room, starts an agent in it, and leaves when the agent's   *)
(* task ends or the host stops.  A call that is carried (upgraded to a     *)
(* websocket) is answered by its request handler.  The agent's task        *)
(* (on_call_answered) stops it when the room is closed or dismisses it.    *)
(* stop() closes the port, has every path wait for the tasks it knows of,  *)
(* and cleans up; start() makes new ones, which know nothing of tasks that *)
(* a stop() that raised has left behind.                                   *)
(*                                                                         *)
(* The room is a RoomClient: joining may last for ever (it retries without *)
(* a deadline), a room that was joined may be closed at any time, leaving  *)
(* it ends.                                                                *)
(***************************************************************************)
EXTENDS Naturals, FiniteSets

CONSTANTS
    Calls,       \* calls that may be made
    Paths        \* paths the host serves

VARIABLES
    host,        \* "off", "starting", "up", "closing", "stopping" or "broken": stop raised
    served,      \* whether _app is set
    done,        \* paths whose _done is set
    awaited,     \* what the stop of each path waits for
    call         \* the calls: see NoCall

vars == <<host, served, done, awaited, call>>

-----------------------------------------------------------------------------
(* A call: how it came, for which path, whether the _done it goes by is set and
   was so when its task was made, whether its server is of an earlier start, its
   task or handler, its agent, its room *)
NoCall ==
    [kind |-> "none", path |-> "none", told |-> FALSE, late |-> FALSE, old |-> FALSE,
     run |-> "none", agent |-> "none", open |-> FALSE, dismissed |-> FALSE]

Init ==
    /\ host = "off" /\ served = FALSE /\ done = {}
    /\ awaited = [p \in Paths |-> {}]
    /\ call = [c \in Calls |-> NoCall]

Runs(c, at) == call[c].run = at
Moves(c, at) == call' = [call EXCEPT ![c].run = at]
Agent(c, at) == call' = [call EXCEPT ![c].agent = at]

AgentOver(c) == call[c].agent \in {"stopped", "failed", "abandoned"}

-----------------------------------------------------------------------------
(* ServiceHost.start: a new server for every path, with no tasks and a new _done *)
Start ==
    /\ host \in {"off", "broken"} /\ ~served
    /\ host' = "starting" /\ served' = TRUE
    /\ done' = {} /\ awaited' = [p \in Paths |-> {}]
    /\ call' = [c \in Calls |->
           IF Runs(c, "none") THEN call[c] ELSE [call[c] EXCEPT !.old = TRUE]]

Started ==
    /\ host = "starting" /\ host' = "up"
    /\ UNCHANGED <<served, done, awaited, call>>

(* The port is taken: start raises, and _app stays set until stop *)
StartFails ==
    /\ host = "starting" /\ host' = "off"
    /\ UNCHANGED <<served, done, awaited, call>>

(* ServiceHost.stop: the port first *)
Stop ==
    /\ host \in {"up", "off"} /\ served
    /\ host' = "closing"
    /\ UNCHANGED <<served, done, awaited, call>>

PortClosed ==
    /\ host = "closing"
    /\ host' = "stopping" /\ served' = FALSE
    /\ UNCHANGED <<done, awaited, call>>

(* The tasks a path's server knows of: none is ever taken out of its list *)
TasksOf(p) ==
    {c \in Calls : call[c].kind = "posted" /\ call[c].path = p /\ ~call[c].old
                   /\ call[c].run \notin {"none", "received", "refused"}}

(* (mutant of Awaited: only those that have joined) *)
AwaitedJoined(p) == {c \in TasksOf(p) : call[c].run # "joining"}

(* ServiceWebhookServer.stop: what gather waits for *)
Awaited(p) == TasksOf(p)

PathStops(p) ==
    /\ host = "stopping" /\ p \notin done
    /\ done' = done \cup {p}
    /\ awaited' = [awaited EXCEPT ![p] = Awaited(p)]
    /\ call' = [c \in Calls |->
           IF call[c].path = p THEN [call[c] EXCEPT !.told = TRUE] ELSE call[c]]
    /\ UNCHANGED <<host, served>>

(* A task that has failed: gather raises, and the rest of stop is left out.
   By then every path has begun to stop. *)
StopRaises(p) ==
    /\ host = "stopping" /\ done = Paths
    /\ \E c \in awaited[p] : Runs(c, "failed")
    /\ host' = "broken"
    /\ UNCHANGED <<served, done, awaited, call>>

(* Every path has waited: the cleanup of the runner ends its handlers *)
HandlerCancelled(c) ==
    [c EXCEPT !.run = IF c.run = "received" THEN "refused" ELSE "left",
              !.agent = IF c.agent \in {"starting", "running", "stopping"}
                        THEN "abandoned" ELSE c.agent,
              !.open = FALSE]

Handled(c) ==
    /\ ~call[c].old
    /\ \/ call[c].run = "received"
       \/ call[c].kind = "carried" /\ call[c].run \in {"joining", "inside", "leaving"}

Stopped ==
    /\ host = "stopping" /\ done = Paths
    /\ \A p \in Paths : \A c \in awaited[p] : Runs(c, "left")
    /\ host' = "off"
    /\ call' = [c \in Calls |-> IF Handled(c) THEN HandlerCancelled(call[c]) ELSE call[c]]
    /\ UNCHANGED <<served, done, awaited>>

-----------------------------------------------------------------------------
(* A stop of an earlier start has raised: its runner was never cleaned up *)
LeftBehind ==
    \E c \in Calls : /\ call[c].kind = "posted" /\ Runs(c, "failed")
                     /\ call[c].old /\ ~call[c].late

(* _webhook_request: a connection made while the port was open may still bring one,
   to the server of its time *)
Receive(c, p, kind) ==
    /\ Runs(c, "none")
    /\ \/ /\ host \in {"up", "closing", "stopping", "broken"}
          /\ call' = [call EXCEPT ![c] =
                 [NoCall EXCEPT !.kind = kind, !.path = p, !.told = p \in done,
                                !.run = "received"]]
       \/ /\ LeftBehind
          /\ call' = [call EXCEPT ![c] =
                 [NoCall EXCEPT !.kind = kind, !.path = p, !.told = TRUE, !.old = TRUE,
                                !.run = "received"]]
    /\ UNCHANGED <<host, served, done, awaited>>

(* The signature, the digest or the payload is bad, or it is another event *)
Refuse(c) ==
    /\ Runs(c, "received") /\ Moves(c, "refused")
    /\ UNCHANGED <<host, served, done, awaited>>

(* on_call and _spawn, or the room of the upgraded request *)
Answer(c) ==
    /\ Runs(c, "received")
    /\ call' = [call EXCEPT ![c] = [@ EXCEPT !.run = "joining", !.late = call[c].told]]
    /\ UNCHANGED <<host, served, done, awaited>>

Joined(c) ==
    /\ Runs(c, "joining")
    /\ call' = [call EXCEPT ![c] =
           [@ EXCEPT !.run = "inside", !.agent = "starting", !.open = TRUE]]
    /\ UNCHANGED <<host, served, done, awaited>>

JoinFails(c) ==
    /\ Runs(c, "joining") /\ Moves(c, "failed")
    /\ UNCHANGED <<host, served, done, awaited>>

(* The room dismisses the agent, and is given up for it; the server closes the room *)
Dismiss(c) ==
    /\ call[c].open /\ ~call[c].dismissed
    /\ call' = [call EXCEPT ![c].dismissed = TRUE]
    /\ UNCHANGED <<host, served, done, awaited>>

RoomCloses(c) ==
    /\ call[c].open
    /\ call' = [call EXCEPT ![c].open = FALSE]
    /\ UNCHANGED <<host, served, done, awaited>>

-----------------------------------------------------------------------------
(* on_call_answered *)
AgentStarts(c) ==
    /\ call[c].agent = "starting" /\ Agent(c, "running")
    /\ UNCHANGED <<host, served, done, awaited>>

AgentFails(c) ==
    /\ call[c].agent \in {"starting", "stopping"} /\ Agent(c, "failed")
    /\ UNCHANGED <<host, served, done, awaited>>

(* (mutant of NotNeeded: it waits to be dismissed) *)
Dismissed(c) == call[c].dismissed

(* What the agent's task waits for: FIRST_COMPLETED *)
NotNeeded(c) == call[c].dismissed \/ ~call[c].open

AgentIsStopped(c) ==
    /\ call[c].agent = "running" /\ NotNeeded(c)
    /\ Agent(c, "stopping")
    /\ UNCHANGED <<host, served, done, awaited>>

AgentStops(c) ==
    /\ call[c].agent = "stopping" /\ Agent(c, "stopped")
    /\ UNCHANGED <<host, served, done, awaited>>

(* (mutant of MayLeave: the task waits for its agent alone) *)
MayLeaveAfterAgent(c) == AgentOver(c)

(* What is waited for in the room: by a task, its agent or the host's stop; by a
   handler, its agent, and then the end of the room *)
MayLeave(c) ==
    IF call[c].kind = "posted" THEN AgentOver(c) \/ call[c].told
    ELSE call[c].agent = "failed" \/ (call[c].agent = "stopped" /\ ~call[c].open)

Leave(c) ==
    /\ Runs(c, "inside") /\ MayLeave(c) /\ Moves(c, "leaving")
    /\ UNCHANGED <<host, served, done, awaited>>

Left(c) ==
    /\ Runs(c, "leaving")
    /\ call' = [call EXCEPT ![c] = [@ EXCEPT !.run = "left", !.open = FALSE]]
    /\ UNCHANGED <<host, served, done, awaited>>

-----------------------------------------------------------------------------
HostNext ==
    \/ Start \/ Started \/ StartFails \/ Stop \/ PortClosed \/ Stopped
    \/ \E p \in Paths : PathStops(p) \/ StopRaises(p)

CallNext(c) ==
    \/ \E p \in Paths, kind \in {"posted", "carried"} : Receive(c, p, kind)
    \/ Refuse(c) \/ Answer(c) \/ Joined(c) \/ JoinFails(c) \/ Dismiss(c) \/ RoomCloses(c)
    \/ AgentStarts(c) \/ AgentFails(c) \/ AgentIsStopped(c) \/ AgentStops(c)
    \/ Leave(c) \/ Left(c)

Next == HostNext \/ \E c \in Calls : CallNext(c)

Spec == Init /\ [][Next]_vars

(* What the event loop, the agents and the room owe: not that joining ends *)
HostProceeds == PortClosed \/ Stopped \/ \E p \in Paths : PathStops(p) \/ StopRaises(p)

AgentProceeds(c) == AgentStarts(c) \/ AgentFails(c) \/ AgentIsStopped(c) \/ AgentStops(c)

RunProceeds(c) == Refuse(c) \/ Answer(c) \/ Leave(c) \/ Left(c)

Fairness == /\ WF_vars(HostProceeds)
            /\ \A c \in Calls : WF_vars(AgentProceeds(c)) /\ WF_vars(RunProceeds(c))

FairSpec == Spec /\ Fairness

-----------------------------------------------------------------------------
(* Properties *)

TypeOK ==
    /\ host \in {"off", "starting", "up", "closing", "stopping", "broken"}
    /\ served \in BOOLEAN /\ done \subseteq Paths
    /\ \A p \in Paths : awaited[p] \subseteq Calls
    /\ \A c \in Calls :
        call[c].run \in {"none", "received", "refused", "joining", "inside", "leaving",
                         "left", "failed"}

(* Once stop() has returned no task is in a room, or on its way into one, but those
   of calls that were answered after their path had stopped, and those that an earlier
   stop() left behind when it raised: the servers of a new start do not know them *)
StoppedIsEmpty ==
    host = "off" /\ ~served =>
        \A c \in Calls : call[c].run \in {"joining", "inside", "leaving"}
                           => call[c].late \/ call[c].old

(* An agent whose room is over, or whose host stops, is stopped before long:
   no agent runs on after its call *)
AgentsEnd ==
    \A c \in Calls :
        (call[c].agent = "running" /\ (~call[c].open \/ (call[c].kind = "posted" /\ call[c].told)))
            ~> AgentOver(c)

(* stop() returns or raises, as long as no call is on its way into a room *)
StopEnds ==
    (host = "stopping") ~> (host # "stopping" \/ \E c \in Calls : Runs(c, "joining"))

=============================================================================
