---------------------------- MODULE SyncDocuments ----------------------------
(***************************************************************************)
(* SyncClient (meshagent/api/room_server_client.py) and the document       *)
(* runtime behind it, for one path: the document is opened once and shared *)
(* by everybody who opens it, its changes go both ways over a tool-call    *)
(* stream of its own, and a reconnect reopens it with what each side has   *)
(* missed.  The content of a document is a set of edits (the CRDT engine   *)
(* is external); a state vector is the set of edits it covers.  One action *)
(* is the code between two awaits.                                         *)
(***************************************************************************)
EXTENDS Naturals, Sequences, FiniteSets

CONSTANTS
    Users,          \* tasks of the application
    Room,           \* RoomClient.__aexit__, which closes what is open
    LocalEdits,     \* edits made here
    PeerEdits,      \* edits made elsewhere
    Objects,        \* identities of MeshDocuments (bound: enough for those in use)
    Streams,        \* identities of open streams (bound: likewise)
    MaxOpens,       \* bound: how often users call open
    MaxLosses,      \* bound: how often a link is lost
    None

ASSUME SyncAssumption ==
    /\ IsFiniteSet(Users) /\ Room \notin Users
    /\ (Users \cup {Room}) \cap {"lost", "cancelled"} = {}
    /\ LocalEdits \cap PeerEdits = {}
    /\ None \notin Users \cup Objects \cup Streams
    /\ MaxOpens \in Nat /\ MaxLosses \in Nat

Edits == LocalEdits \cup PeerEdits
Tasks == Users \cup {Room}

VARIABLES
    room,           \* the room, as far as documents notice it
    connected,      \* _connected_documents[path]: an object
    count,          \* ... its _RefCount
    content,        \* the edits in every MeshDocument
    registered,     \* the objects known to the runtime
    connecting,     \* _connecting_documents[path]: see Futures
    table,          \* _document_streams[path]: a stream
    base,           \* _reconnect_base_vectors[path], if it is known
    stream,         \* every _SyncOpenStreamState with its call and its link
    at,             \* where every task stands
    resync,         \* where _on_room_reconnect stands
    server,         \* the edits the server has
    made,           \* the local edits made so far
    disturbed,      \* has an open been cancelled or overtaken?
    cancelled,      \* bound: has an open been cancelled?  One is.
    opens, losses   \* bounds: calls of open, links lost

docVars == <<connected, count, content, registered>>
serverVars == <<server, made>>
bounds == <<cancelled, opens, losses>>
ghosts == <<disturbed, bounds>>
vars == <<room, docVars, connecting, table, base, stream, at, resync, serverVars, ghosts>>

-----------------------------------------------------------------------------
(* Streams.  `up` is the input queue and what is on the wire; `down` what  *)
(* the reader of the response stream has yet to take.  A call is waited    *)
(* for by open, consumed by a task of its own, or over.                    *)

Start(vector) == [type |-> "start", edits |-> vector]
State(E) == [type |-> "state", edits |-> E]
Sync(E) == [type |-> "sync", edits |-> E]
Close == [type |-> "close", edits |-> {}]
Error == [type |-> "error", edits |-> {}]

Chunk == [type: {"start", "state", "sync", "close", "error"}, edits: SUBSET Edits]

StreamRecord ==
    [call: {"opening", "running", "over"}, doc: Objects \cup {None}, open: BOOLEAN,
     link: {"live", "dead"}, served: BOOLEAN, up: Seq(Chunk), down: Seq(Chunk)]

Ended == [call |-> "over", doc |-> None, open |-> FALSE, link |-> "dead", served |-> FALSE,
          up |-> <<>>, down |-> <<>>]

(* The edits on their way to the server *)
Carried(ss) ==
    UNION {UNION {ss[s].up[i].edits : i \in {j \in 1..Len(ss[s].up) : ss[s].up[j].type = "sync"}}
            : s \in {s \in Streams : ss[s].link = "live"}}

(* close_input_stream *)
CloseInput(st) ==
    IF ~st.open THEN st
    ELSE [st EXCEPT !.open = FALSE, !.up = IF st.link = "live" THEN Append(@, Close) ELSE @]

(* A call is over: its input ends, and what comes for it is not taken. *)
Over(st) ==
    LET c == CloseInput(st)
    IN IF c.served \/ c.up # <<>> THEN [c EXCEPT !.call = "over", !.doc = None, !.down = <<>>]
       ELSE Ended

(* publish_sync: to the stream in the table t, if it takes anything *)
Publish(ss, t, E) ==
    IF t = None \/ E = {} THEN ss
    ELSE IF ss[t].open /\ ss[t].link = "live"
         THEN [ss EXCEPT ![t].up = Append(@, Sync(E))] ELSE ss

(* The link is dead: nothing comes or goes, and what went is lost. *)
Cut(ss) ==
    [s \in Streams |->
        IF ss[s].call = "over" THEN Ended
        ELSE [ss[s] EXCEPT !.link = "dead", !.served = FALSE, !.up = <<>>]]

(* _open_stream, before the answer; on a dead link nothing goes out. *)
Asking(vector) ==
    IF room = "lost" THEN [Ended EXCEPT !.call = "opening", !.open = TRUE]
    ELSE [Ended EXCEPT !.call = "opening", !.open = TRUE, !.link = "live", !.up = <<Start(vector)>>]

Idle == [at |-> "idle"]
NoBase == [known |-> FALSE, edits |-> {}]

(* Identities nobody refers to *)
UnusedStreams ==
    {s \in Streams :
        /\ stream[s].call = "over" /\ s # table /\ ~stream[s].served
        /\ stream[s].up = <<>>
        /\ \A u \in Tasks : at[u].at = "closing" => at[u].stream # s}

StreamLeft == UnusedStreams # {}
UnusedStream == CHOOSE s \in UnusedStreams : TRUE

UnusedObjects ==
    {o \in Objects :
        /\ o \notin registered /\ o # connected
        /\ \A s \in Streams : stream[s].call = "running" => stream[s].doc # o
        /\ \A u \in Tasks : at[u].at \in {"open", "closing"} => at[u].doc # o
        /\ resync.at = "opening" => resync.doc # o}

ObjectLeft == UnusedObjects # {}
UnusedObject == CHOOSE o \in UnusedObjects : TRUE

(* connecting is None, the user that opens the document, "lost" if that    *)
(* user's open was cancelled, or "cancelled" if a waiter's was: awaiting   *)
(* the future, it cancels the future.                                      *)
Futures == {None, "lost", "cancelled"} \cup Users

-----------------------------------------------------------------------------
Init ==
    /\ room = "up"
    /\ connected = None /\ count = 0 /\ content = [o \in Objects |-> {}] /\ registered = {}
    /\ connecting = None /\ table = None /\ base = NoBase
    /\ stream = [s \in Streams |-> Ended]
    /\ at = [u \in Tasks |-> Idle] /\ resync = Idle
    /\ server = {} /\ made = {}
    /\ disturbed = FALSE /\ cancelled = FALSE /\ opens = 0 /\ losses = 0

-----------------------------------------------------------------------------
(* Opening *)

Opening == {u \in Users : at[u].at = "opening"}

(* (mutant of Share: nobody counts) *)
ShareUncounted(u) ==
    /\ connected # None
    /\ at' = [at EXCEPT ![u] = [at |-> "open", doc |-> connected]]
    /\ UNCHANGED <<docVars, connecting, stream, disturbed>>

(* A document that is open is shared. *)
Share(u) ==
    /\ connected # None
    /\ count' = count + 1
    /\ at' = [at EXCEPT ![u] = [at |-> "open", doc |-> connected]]
    /\ UNCHANGED <<connected, content, registered, connecting, stream, disturbed>>

TakesRequests == room \in {"up", "lost", "resync"}

(* open, past the wait for whoever is connecting (to wait for a cancelled  *)
(* future raises at once): share the document, or ask for a stream, which  *)
(* needs a room that takes requests                                        *)
Proceed(u) ==
    \/ Share(u)
    \/ /\ connected = None
       /\ disturbed' = (disturbed \/ Opening # {})
       /\ UNCHANGED docVars
       /\ \/ /\ TakesRequests /\ StreamLeft
             /\ connecting' = u
             /\ at' = [at EXCEPT ![u] =
                    [at |-> "opening", stream |-> UnusedStream, future |-> TRUE]]
             /\ stream' = [stream EXCEPT ![UnusedStream] = Asking({})]
          \/ /\ ~TakesRequests
             /\ connecting' = None
             /\ at' = [at EXCEPT ![u] = Idle]
             /\ UNCHANGED stream

Open(u) ==
    /\ at[u] = Idle /\ opens < MaxOpens /\ opens' = opens + 1
    /\ \/ connecting = None /\ Proceed(u)
       \/ /\ connecting \in Users \cup {"lost"}
          /\ at' = [at EXCEPT ![u] = [at |-> "waiting", on |-> connecting]]
          /\ UNCHANGED <<docVars, connecting, stream, disturbed>>
    /\ UNCHANGED <<room, table, base, resync, serverVars, cancelled, losses>>

(* The document has been opened by another; it may be closed again by now. *)
Resume(u) ==
    /\ at[u].at = "resumed"
    /\ Proceed(u)
    /\ UNCHANGED <<room, table, base, resync, serverVars, bounds>>

(* The future of u is done: whoever waits for it is woken. *)
Woken(u, next, to) ==
    [v \in Tasks |-> IF v = u THEN next
                     ELSE IF at[v] = [at |-> "waiting", on |-> u] THEN to ELSE at[v]]

(* (mutant of FutureDone: the future is dropped, and never set) *)
FutureDropped(u, next, to) ==
    /\ connecting' = IF at[u].future THEN None ELSE connecting
    /\ at' = [at EXCEPT ![u] = IF @.future THEN next ELSE Idle]

(* connecting_fut is set and its entry popped, unless a waiter cancelled it. *)
FutureDone(u, next, to) ==
    IF at[u].future
    THEN connecting' = None /\ at' = Woken(u, next, to)
    ELSE at' = [at EXCEPT ![u] = Idle] /\ UNCHANGED connecting

(* The state has come: the document is made and the stream attached.  An   *)
(* error follows if the future is cancelled, or somebody else's entry has  *)
(* been taken out of _connecting_documents.                                *)
Opened(u) ==
    /\ at[u].at = "opening" /\ ObjectLeft
    /\ LET s == at[u].stream
           o == UnusedObject
           fails == ~at[u].future \/ connecting = None
           attached == [stream EXCEPT ![s].call = "running", ![s].doc = o, ![s].down = Tail(@)]
           echoed == Publish(attached, s, Head(stream[s].down).edits)
       IN /\ stream[s].down # <<>> /\ Head(stream[s].down).type = "state"
          /\ connected' = o /\ count' = 1 /\ registered' = registered \cup {o}
          /\ content' = [content EXCEPT ![o] = Head(stream[s].down).edits]
          /\ table' = s /\ base' = NoBase
          /\ stream' = IF fails THEN [echoed EXCEPT ![s] = CloseInput(@)] ELSE echoed
          /\ FutureDone(u, IF fails THEN Idle ELSE [at |-> "open", doc |-> o],
                        [at |-> "resumed"])
    /\ UNCHANGED <<room, resync, serverVars, ghosts>>

(* The call is refused, or ends before the state has come. *)
OpenFails(u) ==
    /\ at[u].at = "opening"
    /\ LET s == at[u].stream
       IN /\ stream[s].down # <<>> /\ Head(stream[s].down).type # "state"
          /\ stream' = [stream EXCEPT ![s] = Over(@)]
          /\ FutureDone(u, Idle, Idle)
    /\ UNCHANGED <<room, docVars, table, base, resync, serverVars, ghosts>>

(* The task of an open is cancelled: the one that opens leaves its future  *)
(* behind, and its request stream ends; one that waits takes the future    *)
(* with it.                                                                *)
Cancel(u) ==
    /\ ~cancelled /\ cancelled' = TRUE /\ disturbed' = TRUE
    /\ \/ /\ at[u].at = "opening"
          /\ connecting' = IF connecting = u THEN "lost" ELSE connecting
          /\ stream' = [stream EXCEPT ![at[u].stream] =
                            Over(@)]
          /\ at' = [v \in Tasks |->
                        IF v = u THEN Idle
                        ELSE IF at[v] = [at |-> "waiting", on |-> u]
                             THEN [at[v] EXCEPT !.on = "lost"] ELSE at[v]]
       \/ /\ at[u].at = "waiting"
          /\ connecting' = IF connecting = at[u].on THEN "cancelled" ELSE connecting
          /\ at' = [v \in Tasks |->
                        IF at[v] = at[u] THEN Idle
                        ELSE IF v = at[u].on THEN [at[v] EXCEPT !.future = FALSE] ELSE at[v]]
          /\ UNCHANGED stream
    /\ UNCHANGED <<room, docVars, table, base, resync, serverVars, opens, losses>>

-----------------------------------------------------------------------------
(* Closing *)

(* _unregister_document: the runtime forgets the document. *)
Unregister(o) ==
    /\ registered' = registered \ {o}
    /\ content' = [content EXCEPT ![o] = {}]

(* The last close: the input ends, and the task that reads is waited for.  *)
CloseLast(t) ==
    /\ connected' = None /\ count' = 0 /\ base' = NoBase /\ table' = None
    /\ IF table # None
       THEN /\ stream' = [stream EXCEPT ![table] = CloseInput(@)]
            /\ at' = [at EXCEPT ![t] = [at |-> "closing", stream |-> table, doc |-> connected]]
            /\ UNCHANGED <<content, registered>>
       ELSE /\ at' = [at EXCEPT ![t] = Idle]
            /\ Unregister(connected)
            /\ UNCHANGED stream

CloseDocument(u) ==
    /\ at[u].at = "open"
    /\ \/ connected # None /\ count = 1 /\ CloseLast(u)
       \/ /\ connected # None /\ count > 1
          /\ count' = count - 1
          /\ at' = [at EXCEPT ![u] = Idle]
          /\ UNCHANGED <<connected, content, registered, base, table, stream>>
       \/ /\ connected = None
          /\ at' = [at EXCEPT ![u] = Idle]
          /\ UNCHANGED <<docVars, base, table, stream>>
    /\ UNCHANGED <<room, connecting, resync, serverVars, ghosts>>

CloseReturns(t) ==
    /\ at[t].at = "closing" /\ stream[at[t].stream].call = "over"
    /\ Unregister(at[t].doc)
    /\ at' = [at EXCEPT ![t] = Idle]
    /\ UNCHANGED <<room, connected, count, connecting, table, base, stream, resync,
                   serverVars, ghosts>>

-----------------------------------------------------------------------------
(* Edits *)

(* An edit changes the document at once and is published on the stream in  *)
(* the table.  Without one it is dropped: after a disconnect the state     *)
(* vector kept then (base) lets the reconnect find it.                     *)
Edit(u, e) ==
    /\ at[u].at = "open" /\ at[u].doc \in registered
    /\ e \in LocalEdits \ made
    /\ made' = made \cup {e}
    /\ content' = [content EXCEPT ![at[u].doc] = @ \cup {e}]
    /\ stream' = Publish(stream, table, {e})
    /\ UNCHANGED <<room, connected, count, registered, connecting, table, base, at, resync,
                   server, ghosts>>

(* (mutant of Learned: a change is taken for the whole state) *)
LearnedAnew(o, E) == [content EXCEPT ![o] = E]

(* _apply_sync_payload *)
Learned(o, E) == [content EXCEPT ![o] = @ \cup E]

(* _consume_open_stream: what is new in a change is published again.  A    *)
(* change for a document that is not registered any more ends the task.    *)
Consume(s) ==
    /\ stream[s].call = "running" /\ stream[s].down # <<>>
    /\ LET c == Head(stream[s].down)
           o == stream[s].doc
           taken == [stream EXCEPT ![s].down = Tail(@)]
       IN \/ /\ c.type = "sync" /\ o \in registered
             /\ content' = Learned(o, c.edits)
             /\ stream' = Publish(taken, table, c.edits \ content[o])
          \/ /\ c.type # "sync" \/ o \notin registered
             /\ stream' = [taken EXCEPT ![s] = Over(@)]
             /\ UNCHANGED content
    /\ UNCHANGED <<room, connected, count, registered, connecting, table, base, at, resync,
                   serverVars, ghosts>>

-----------------------------------------------------------------------------
(* The room *)

(* What is under way to the server is lost; what is under way to a reader  *)
(* still gets there (a chunk that is lost is one the server has not sent). *)
LinkLost ==
    /\ room = "up" /\ room' = "lost"
    /\ losses < MaxLosses /\ losses' = losses + 1
    /\ stream' = Cut(stream)
    /\ UNCHANGED <<docVars, connecting, table, base, at, resync, serverVars, disturbed,
                   cancelled, opens>>

(* _on_room_disconnect: what the document holds now is taken for what the  *)
(* server has, and the stream is forgotten.                                *)
Forget ==
    /\ base' = IF connected # None /\ ~base.known
               THEN [known |-> TRUE, edits |-> content[connected]] ELSE base
    /\ table' = None

InputClosed(ss) == IF table = None THEN ss ELSE [ss EXCEPT ![table] = CloseInput(@)]

(* _fail_pending_work: every call that has not ended does. *)
Failed(ss) ==
    [s \in Streams |->
        IF \/ ss[s].call = "over"
           \/ \E i \in 1..Len(ss[s].down) : ss[s].down[i].type \in {"close", "error"}
        THEN ss[s] ELSE [ss[s] EXCEPT !.down = Append(@, Error)]]

Disconnected ==
    /\ room = "lost" /\ room' \in {"offline", "over"}
    /\ Forget
    /\ stream' = Failed(InputClosed(stream))
    /\ UNCHANGED <<docVars, connecting, at, resync, serverVars, ghosts>>

GiveUp ==
    /\ room = "offline" /\ room' = "over"
    /\ UNCHANGED <<docVars, connecting, table, base, stream, at, resync, serverVars, ghosts>>

(* (mutant of Missed: it may be None) *)
MissedUnchecked == IF base.known THEN content[connected] \ base.edits ELSE {None}

(* reconnect_sync_payload *)
Missed == IF base.known THEN content[connected] \ base.edits ELSE {}

(* _on_room_reconnect, on a new link: what the document has and base does  *)
(* not is kept aside, and base is gone, while the stream is asked for.     *)
Reconnect ==
    /\ room = "offline"
    /\ \/ connected = None /\ room' = "up" /\ UNCHANGED <<base, stream, resync>>
       \/ /\ connected # None /\ StreamLeft
          /\ room' = "resync"
          /\ resync' = [at |-> "opening", stream |-> UnusedStream, doc |-> connected,
                        payload |-> Missed]
          /\ base' = NoBase
          /\ stream' = [stream EXCEPT ![UnusedStream] = Asking(content[connected])]
    /\ UNCHANGED <<docVars, connecting, table, at, serverVars, ghosts>>

(* The attempt fails and its link is closed; the calls on it are not ended *)
(* until the next disconnect (_attempt_reconnect fails nothing pending).   *)
AttemptFails ==
    /\ room' = "offline" /\ resync' = Idle
    /\ Forget
    /\ stream' = [Cut(InputClosed(stream)) EXCEPT ![resync.stream] = Ended]
    /\ disturbed' = (disturbed \/ \E t \in Tasks : at[t].at \in {"opening", "closing"})
    /\ UNCHANGED <<docVars, connecting, at, serverVars, bounds>>

(* (mutant of Resent: it is forgotten) *)
ResentNever(ss) == ss

(* reconnect_sync_payload goes out on the new stream. *)
Resent(ss) == Publish(ss, resync.stream, resync.payload)

(* The stream is reopened: what the server had and the client had not is   *)
(* applied, and what was kept aside is sent.                               *)
Reopened ==
    LET s == resync.stream
        o == resync.doc
        E == Head(stream[s].down).edits
        attached == [stream EXCEPT ![s].call = "running", ![s].doc = o, ![s].down = Tail(@)]
    IN /\ room' = "up" /\ resync' = Idle
       /\ table' = s
       /\ content' = Learned(o, E)
       /\ stream' = Resent(Publish(attached, s, E \ content[o]))
       /\ disturbed' = (disturbed \/ o # connected)
       /\ UNCHANGED <<connected, count, registered, connecting, base, at, serverVars, bounds>>

(* A document that was closed meanwhile takes no change: an exception.     *)
ResyncEnds ==
    /\ room = "resync"
    /\ \/ AttemptFails
       \/ /\ stream[resync.stream].down # <<>>
          /\ Head(stream[resync.stream].down).type = "state"
          /\ resync.doc \in registered \/ Head(stream[resync.stream].down).edits = {}
          /\ Reopened

(* RoomClient.__aexit__ fails what is pending (after an attempt that is    *)
(* under way has failed) and closes the link ...                           *)
Exit ==
    /\ room \in {"up", "lost", "offline", "over"} /\ room' = "stopping"
    /\ stream' = Failed(Cut(stream))
    /\ UNCHANGED <<docVars, connecting, table, base, at, resync, serverVars, ghosts>>

(* ... and stop closes the documents that are open then, once. *)
Stop ==
    /\ room = "stopping"
    /\ \/ connected # None /\ CloseLast(Room) /\ room' = "closing"
       \/ connected = None /\ room' = "closing" /\ UNCHANGED <<docVars, base, table, stream, at>>
    /\ UNCHANGED <<connecting, resync, serverVars, ghosts>>

StopEnds ==
    /\ room = "closing" /\ at[Room] = Idle
    /\ room' = "left" /\ base' = NoBase
    /\ UNCHANGED <<docVars, connecting, table, stream, at, resync, serverVars, ghosts>>

-----------------------------------------------------------------------------
(* The server *)

(* Chunks for a call that is over are dropped (_handle_tool_call_...). *)
Tell(ss, S, c) ==
    [s \in Streams |-> IF s \in S /\ ss[s].call # "over"
                       THEN [ss[s] EXCEPT !.down = Append(@, c)] ELSE ss[s]]

Served == {s \in Streams : stream[s].served}

Asked(s, type) == stream[s].up # <<>> /\ Head(stream[s].up).type = type

(* The head of up is taken, and the stream is served from now on, or not. *)
Taken(s, served) ==
    LET taken == [stream[s] EXCEPT !.up = Tail(@), !.served = served]
    IN [stream EXCEPT ![s] = IF taken.call = "over" THEN Over(taken) ELSE taken]

ServerOpens(s) ==
    /\ Asked(s, "start")
    /\ stream' = Tell(Taken(s, TRUE), {s}, State(server \ Head(stream[s].up).edits))
    /\ UNCHANGED <<room, docVars, connecting, table, base, at, resync, serverVars, ghosts>>

ServerRefuses(s) ==
    /\ Asked(s, "start")
    /\ stream' = Tell(Taken(s, FALSE), {s}, Error)
    /\ UNCHANGED <<room, docVars, connecting, table, base, at, resync, serverVars, ghosts>>

ServerTakes(s) ==
    /\ Asked(s, "sync")
    /\ LET E == Head(stream[s].up).edits
       IN IF stream[s].served
          THEN /\ server' = server \cup E
               /\ stream' = Tell(Taken(s, TRUE), Served \ {s}, Sync(E))
          ELSE /\ stream' = Taken(s, FALSE)
               /\ UNCHANGED server
    /\ UNCHANGED <<room, docVars, connecting, table, base, at, resync, made, ghosts>>

ServerCloses(s) ==
    /\ Asked(s, "close")
    /\ stream' = IF stream[s].served THEN Tell(Taken(s, FALSE), {s}, Close) ELSE Taken(s, FALSE)
    /\ UNCHANGED <<room, docVars, connecting, table, base, at, resync, serverVars, ghosts>>

(* The server may end a stream on its own, *)
ServerEnds(s) ==
    /\ stream[s].served
    /\ stream' = IF stream[s].call = "over"
                 THEN [stream EXCEPT ![s] = Over([@ EXCEPT !.served = FALSE])]
                 ELSE Tell([stream EXCEPT ![s].served = FALSE], {s}, Close)
    /\ UNCHANGED <<room, docVars, connecting, table, base, at, resync, serverVars, ghosts>>

(* and others edit the document. *)
PeerEditsDocument(e) ==
    /\ e \in PeerEdits \ server
    /\ server' = server \cup {e}
    /\ stream' = Tell(stream, Served, Sync({e}))
    /\ UNCHANGED <<room, docVars, connecting, table, base, at, resync, made, ghosts>>

-----------------------------------------------------------------------------
User(u) ==
    \/ Open(u) \/ Resume(u) \/ Opened(u) \/ OpenFails(u) \/ Cancel(u) \/ CloseDocument(u)
    \/ \E e \in LocalEdits : Edit(u, e)

RoomStep ==
    LinkLost \/ Disconnected \/ GiveUp \/ Reconnect \/ ResyncEnds \/ Exit \/ Stop \/ StopEnds

Server ==
    \/ \E s \in Streams : ServerOpens(s) \/ ServerRefuses(s) \/ ServerTakes(s) \/ ServerCloses(s)
                            \/ ServerEnds(s)
    \/ \E e \in PeerEdits : PeerEditsDocument(e)

Next ==
    \/ \E u \in Users : User(u)
    \/ \E t \in Tasks : CloseReturns(t)
    \/ \E s \in Streams : Consume(s)
    \/ RoomStep \/ Server

Spec == Init /\ [][Next]_vars

(* Tasks run when they can, the server answers, and a dead link is noticed *)
FairSpec ==
    /\ Spec
    /\ \A u \in Users : WF_vars(Opened(u) \/ OpenFails(u)) /\ WF_vars(Resume(u))
    /\ \A t \in Tasks : WF_vars(CloseReturns(t))
    /\ \A s \in Streams :
        WF_vars(Consume(s)) /\ WF_vars(ServerOpens(s) \/ ServerTakes(s) \/ ServerCloses(s))
    /\ WF_vars(Disconnected)

-----------------------------------------------------------------------------
(* Properties *)

Task ==
    [at: {"idle", "resumed"}] \cup [at: {"waiting"}, on: Users \cup {"lost"}]
        \cup [at: {"opening"}, stream: Streams, future: BOOLEAN]
        \cup [at: {"open"}, doc: Objects] \cup [at: {"closing"}, stream: Streams, doc: Objects]

(* Every variable has its type. *)
TypeOK ==
    /\ room \in {"up", "lost", "offline", "resync", "over", "stopping",
                 "closing", "left"}
    /\ connected \in Objects \cup {None} /\ count \in Nat
    /\ content \in [Objects -> SUBSET Edits] /\ registered \subseteq Objects
    /\ connecting \in Futures
    /\ table \in Streams \cup {None}
    /\ base \in [known: BOOLEAN, edits: SUBSET Edits]
    /\ stream \in [Streams -> StreamRecord]
    /\ at \in [Tasks -> Task]
    /\ resync \in {Idle} \cup [at: {"opening"}, stream: Streams, doc: Objects,
                               payload: SUBSET Edits]
    /\ server \subseteq Edits /\ made \subseteq LocalEdits
    /\ disturbed \in BOOLEAN /\ cancelled \in BOOLEAN
    /\ opens \in 0..MaxOpens /\ losses \in 0..MaxLosses

(* What the document holds for the server until it is connected again *)
Kept ==
    IF resync # Idle THEN resync.payload
    ELSE IF connected = None THEN {} ELSE Missed

(* A step loses nothing that is kept, and nothing of E, unless the         *)
(* document is closed or opened again from its state, or the               *)
(* resynchronisation that was to send it fails.  One open that overtakes   *)
(* another leaves two documents of which only one is connected.            *)
Keeps(E) ==
    \/ Kept \cup E \subseteq Kept' \cup Carried(stream') \cup server'
    \/ disturbed \/ connected' # connected
    \/ room = "resync" /\ room' = "offline"

(* The document was opened after the disconnect, from a chunk that had come *)
(* before it: the table holds the stream of a dead link, and no vector is   *)
(* kept for the reconnect.                                                  *)
OpenedOffline == room = "offline" /\ table # None

(* An edit of a document that a disconnect found open is kept while the    *)
(* room is offline, and what is kept leaves only for the server            *)
(* (_on_room_disconnect, _on_room_reconnect).                              *)
OfflineEditsKept ==
    [][Keeps(IF room = "offline" /\ ~OpenedOffline THEN made' \ made ELSE {})]_vars

(* So is an edit of one opened offline.  (The code does not keep this.)    *)
LateOpenKept == [][Keeps(IF OpenedOffline THEN made' \ made ELSE {})]_vars

AtRest ==
    /\ room = "up"
    /\ \A s \in Streams : stream[s].up = <<>> /\ stream[s].down = <<>>
    /\ \A u \in Users : at[u].at \in {"idle", "open", "waiting"}

Live == connected # None /\ table # None /\ stream[table].served /\ stream[table].open

(* Once nothing is under way, the document has all that the server has,    *)
(* whatever was lost on the way (_apply_sync_payload, the vector of        *)
(* _open_stream).                                                          *)
CaughtUp == AtRest /\ Live => disturbed \/ server \subseteq content[connected]

(* ... and the server all that the document has: "reconnect restores       *)
(* sync".  (The code does not keep this.)                                  *)
Restored == AtRest /\ Live => content[connected] \subseteq server

(* The document is open as often as it is held, by everybody who holds it, *)
(* and what is held can be edited (open, close, _RefCount) - until an open *)
(* is cancelled or two overtake each other, or the room closes it.         *)
Held == {u \in Users : at[u].at = "open"}

HeldAsCounted ==
    ~disturbed /\ room \notin {"stopping", "closing", "left"} =>
        /\ \A u \in Held : at[u].doc = connected
        /\ connected # None => count = Cardinality(Held) /\ connected \in registered
        /\ connected = None => Held = {}

(* open and close return, unless an open has been cancelled or overtaken,  *)
(* or their link abandoned in a resynchronisation (_attempt_reconnect).    *)
CallsReturn ==
    \A u \in Users :
        at[u].at \in {"waiting", "resumed", "opening", "closing"} ~>
            (disturbed \/ at[u].at \in {"idle", "open"})

=============================================================================
