----------------------------- MODULE RoomClient -----------------------------
(***************************************************************************)
(* The connection life cycle and the request table of RoomClient           *)
(* (meshagent/api/room_server_client.py).                                  *)
(*                                                                         *)
(* A room client owns one Protocol at a time ("link" here).  A single      *)
(* asyncio task (first __aenter__, then _connection_lifecycle) opens it,   *)
(* watches it, and replaces it when it fails; user tasks send requests     *)
(* through it; __aexit__ and the server's "dismiss" message end it.        *)
(* One action is the code between two awaits.                              *)
(***************************************************************************)
EXTENDS Naturals, Sequences, FiniteSets

CONSTANTS
    Requests,             \* user calls of send_request, each made at most once
    Documents,            \* bound: documents open in the sync client at a reconnect
    ReconnectTimeout,     \* "none", "zero" or "finite": reconnect_timeout
    Messaging,            \* is messaging enabled (MessagingClient.enable)?
    EarlyRequests,        \* may user tasks send requests before __aenter__ is over?
    OverlappingRequests,  \* may they send requests while a reconnect resynchronises?
    DialTimeouts,         \* may a dial raise TimeoutError (aiohttp's connect timeout)?
    MaxLinks,             \* bound: protocols created
    MaxId,                \* bound: message ids used on one protocol
    MaxInbox              \* bound: received messages not handled yet

ASSUME RoomAssumption ==
    /\ Documents \in Nat
    /\ ReconnectTimeout \in {"none", "zero", "finite"}
    /\ Messaging \in BOOLEAN
    /\ EarlyRequests \in BOOLEAN
    /\ OverlappingRequests \in BOOLEAN
    /\ DialTimeouts \in BOOLEAN
    /\ MaxLinks \in Nat \ {0}
    /\ MaxInbox \in Nat
    /\ IsFiniteSet(Requests)
    \* enough ids for all that can be sent on one link
    /\ MaxId \in Nat /\ MaxId > Documents + Cardinality(Requests)

Links == 1..MaxLinks
Ids == 1..MaxId

(* Whoever an id can belong to: a user request, the reopening of a         *)
(* document, a fire-and-forget invocation (invoke_nowait), or nobody.      *)
Resync == "resync"
Nowait == "nowait"
Nobody == "nobody"
Owners == Requests \cup {Resync, Nowait, Nobody}

ASSUME OwnerAssumption == Requests \cap {Resync, Nowait, Nobody} = {}

VARIABLES
    link,       \* every Protocol: its state, close kind, inbox, next id and
                \* the requests the server has yet to answer
    cur,        \* the index of _protocol_instance
    phase,      \* where the connection task stands
    after,      \* what it does once _close_protocol is over
    retrying,   \* inside _retry_protocol_connection?
    expired,    \* has the deadline of the retry loop passed?
    ready,      \* _connection_ready and _local_participant_ready both done
    todo,       \* documents the reconnect has still to reopen
    resync,     \* the answer the reconnect waits for
    entered, connected, closing, dismissed, terminal, roomClosed,
                \* the flags of RoomClient of (nearly) the same names
    dismissTask,\* the link _dismiss asked to close, or 0
    watcher,    \* the link _close_watcher_task watches, or 0
    exit,       \* where __aexit__ stands
    pending,    \* _pending_requests: id -> owner
    ignored,    \* the keys of _ignored_response_labels
    req         \* user requests: state, link, id and whose answer they got

taskVars == <<phase, after, retrying, expired, ready, todo, resync>>
flagVars == <<entered, connected, closing, dismissed, terminal, roomClosed>>
tableVars == <<pending, ignored, req, watcher>>
vars == <<link, cur, taskVars, flagVars, dismissTask, exit, tableVars>>

-----------------------------------------------------------------------------
(* Links *)

ReadyMessage == [type |-> "ready"]
DismissMessage == [type |-> "dismiss"]
Response == [type: {"response"}, id: Ids, to: Owners, ok: BOOLEAN]
Message == {ReadyMessage, DismissMessage} \cup Response

LinkRecord ==
    [state: {"new", "dialing", "open", "closed", "failed"},
     kind: {"none", "client", "server", "error"},
     inbox: Seq(Message),
     nextId: Nat \ {0},
     asked: SUBSET (Ids \X Owners)]

NewLink == [state |-> "new", kind |-> "none", inbox |-> <<>>,
            nextId |-> 1, asked |-> {}]

(* (mutant of CloseAs: close() without _shutdown()) *)
CloseKindOnly(l, kind) == [l EXCEPT !.kind = IF @ = "none" THEN kind ELSE @]

(* Protocol.close: the first close kind wins, nothing more is sent or      *)
(* received, but what was received is still handled.  A link closed before *)
(* it was dialled, or whose dial failed, is "failed": it never runs.       *)
(* (A WebSocketClientProtocol closes its socket first and so reports       *)
(* "server" for a close of our own; every test of the kind comes after     *)
(* `closing` or `dismissed` then, which decide alike.)                     *)
CloseAs(l, kind) ==
    [l EXCEPT !.state = IF @ \in {"new", "failed"} THEN "failed" ELSE "closed",
              !.kind = IF @ = "none" THEN kind ELSE @,
              !.asked = {}]

(* Give up a link that is perhaps still being dialled: then it never runs. *)
Abandon(l) ==
    IF l.state = "dialing" THEN [CloseAs(l, "client") EXCEPT !.state = "failed"]
    ELSE CloseAs(l, "client")

(* (mutant of Done: the received messages are not waited for) *)
DoneTooSoon(c) == link[c].state = "closed"

(* _done_fut: both channel tasks of the protocol have ended, so its inbox  *)
(* is empty.  A dial that failed never starts them.                        *)
Done(c) == link[c].state = "closed" /\ link[c].inbox = <<>>

(* _close_protocol returns at once for a link that was never opened. *)
Torn(c) == Done(c) \/ link[c].state = "failed"

(* The send channel is closed with the link (else send_nowait raises       *)
(* ChanClosed), and ids stay within the bound.                             *)
CanQueue == /\ link[cur].state \in {"new", "dialing", "open"}
            /\ link[cur].nextId <= MaxId

(* (mutant of SendAs: the counter of next_message_id stands still) *)
SendSameId(l, owner) == [l EXCEPT !.asked = @ \cup {<<l.nextId, owner>>}]

(* send_nowait under a fresh id *)
SendAs(l, owner) ==
    [l EXCEPT !.nextId = @ + 1, !.asked = @ \cup {<<l.nextId, owner>>}]

-----------------------------------------------------------------------------
(* The request table *)

(* (mutant of MaySend: the connection is not looked at) *)
MaySendOffline == ~terminal

(* _raise_if_terminal and the test that follows it in _dispatch_request;   *)
(* _allow_disconnected_requests is TRUE exactly during a resynchronisation *)
MaySend == /\ ~terminal
           /\ entered => connected \/ phase = "resync"

Waiting(owner) == \E i \in Ids : pending[i] = owner

(* (mutants of FailPendingWork: the table is emptied before the list of    *)
(* open requests is made; the table is not emptied)                        *)
FailPendingNobody ==
    /\ pending' = [i \in Ids |-> Nobody]
    /\ UNCHANGED <<req, resync>>

FailPendingKeepTable ==
    /\ req' = [r \in Requests |->
                 IF Waiting(r) THEN [req[r] EXCEPT !.state = "failed"] ELSE req[r]]
    /\ resync' = IF Waiting(Resync) THEN "error" ELSE resync
    /\ UNCHANGED pending

(* _fail_pending_work: fail whatever the table holds, and empty it *)
FailPendingWork ==
    /\ pending' = [i \in Ids |-> Nobody]
    /\ req' = [r \in Requests |->
                 IF Waiting(r) THEN [req[r] EXCEPT !.state = "failed"] ELSE req[r]]
    /\ resync' = IF Waiting(Resync) THEN "error" ELSE resync

(* _maybe_cancel_close_watcher *)
WatcherAfter(table) ==
    IF ~terminal /\ \A i \in Ids : table[i] = Nobody THEN 0 ELSE watcher

(* (mutant of MarkDisconnected: the flag stays up) *)
MarkStillConnected == connected' = connected /\ ignored' = {}

(* _mark_disconnected *)
MarkDisconnected == connected' = FALSE /\ ignored' = {}

(* The watcher of a link that has closed was registered first, so the      *)
(* event loop runs it before the connection task notices.                  *)
WatcherDue == watcher # 0 /\ Done(watcher)

-----------------------------------------------------------------------------
Init ==
    /\ link = [c \in Links |-> NewLink]
    /\ cur = 1
    /\ phase = "created" /\ after = "giveup"
    /\ retrying = FALSE /\ expired = FALSE /\ ready = FALSE
    /\ todo = 0 /\ resync = "idle"
    /\ entered = FALSE /\ connected = FALSE /\ closing = FALSE
    /\ dismissed = FALSE /\ terminal = FALSE /\ roomClosed = FALSE
    /\ dismissTask = 0 /\ watcher = 0 /\ exit = "no"
    /\ pending = [i \in Ids |-> Nobody]
    /\ ignored = {}
    /\ req = [r \in Requests |->
                [state |-> "idle", link |-> 0, id |-> 0, answer |-> Nobody]]

-----------------------------------------------------------------------------
(* Opening a link: _open_protocol *)

(* __aenter__ is called and dials the protocol made by __init__ *)
Enter ==
    /\ phase = "created" /\ ~closing
    /\ phase' = "opening"
    /\ ready' = FALSE
    /\ link' = [link EXCEPT ![cur].state = "dialing"]
    /\ UNCHANGED <<cur, after, retrying, expired, todo, resync, flagVars,
                   dismissTask, exit, tableVars>>

DialSucceeds ==
    /\ link[cur].state = "dialing"
    /\ link' = [link EXCEPT ![cur].state = "open"]
    /\ UNCHANGED <<cur, taskVars, flagVars, dismissTask, exit, tableVars>>

(* Give the link up: _close_protocol now, and `next` when it is over. *)
TearDown(next) ==
    /\ link' = [link EXCEPT ![cur] = CloseAs(@, "client")]
    /\ phase' = "closing"
    /\ after' = next

(* _is_retryable_startup_close.  The reason of a close is "1013" (try      *)
(* again later) or any other; the socket's goes with a close of our own    *)
(* too.                                                                    *)
IsRetryable(kind, reason) == kind \in {"error", "server"} \/ reason = "1013"

(* (mutants of AfterFailedOpening: the close kind for the verdict; the     *)
(* disabled retries forgotten)                                             *)
FailedOpeningKind(kind, reason) == IF IsRetryable(kind, reason) THEN "retry" ELSE kind
AlwaysRetry(kind, reason) == IF IsRetryable(kind, reason) THEN "retry" ELSE "giveup"

(* What follows a failed opening: the first one is final when retries are  *)
(* disabled, and none is repeated after a close that is not retryable.     *)
AfterFailedOpening(kind, reason) ==
    IF (ReconnectTimeout = "zero" /\ ~retrying) \/ ~IsRetryable(kind, reason)
    THEN "giveup" ELSE "retry"

(* _set_startup_terminal_state, _close_after_unexpected_disconnect and the *)
(* end of _reconnect: the room is terminal and its task is over.           *)
Conclude ==
    /\ phase' = "ended"
    /\ terminal' = TRUE
    /\ roomClosed' = TRUE
    /\ retrying' = FALSE /\ expired' = FALSE

(* Give the link up.  Within the retry loop the link is closed first and   *)
(* the verdict follows; the first opening raises at once when it gives up. *)
LeaveOpening(next) ==
    IF next = "giveup" /\ ~retrying
    THEN /\ Conclude
         /\ UNCHANGED after
    ELSE /\ phase' = "closing"
         /\ after' = next
         /\ UNCHANGED <<terminal, roomClosed, retrying, expired>>

(* Protocol.__aenter__ raises: the server refused the handshake (403, 404  *)
(* or 423, which _non_retryable_connect_failure gives up on), or anything  *)
(* else, which counts as an error.  A TimeoutError of the dial itself is   *)
(* taken by the retry loop for the end of the deadline.                    *)
DialFails ==
    /\ phase = "opening" /\ link[cur].state = "dialing"
    /\ link' = [link EXCEPT ![cur] = Abandon(@)]
    /\ \/ LeaveOpening("giveup")
       \/ LeaveOpening(AfterFailedOpening("error", "other"))
       \/ DialTimeouts /\ retrying /\ LeaveOpening("timedout")
    /\ UNCHANGED <<cur, ready, todo, resync, entered, connected, closing,
                   dismissed, dismissTask, exit, tableVars>>

(* The link closed before the room was ready: _ProtocolStartupFailure. *)
OpeningFails ==
    /\ phase = "opening" /\ ~ready /\ Done(cur) /\ ~WatcherDue
    /\ \/ LeaveOpening(AfterFailedOpening(link[cur].kind, "other"))
       \/ LeaveOpening(AfterFailedOpening(link[cur].kind, "1013"))
    /\ UNCHANGED <<link, cur, ready, todo, resync, entered, connected, closing,
                   dismissed, dismissTask, exit, tableVars>>

(* Connected: messaging is enabled again (_enable_current_connection_nowait*)
(* skips a terminal room), and _connection_lifecycle watches the link.     *)
Connect ==
    /\ IF Messaging /\ ~terminal /\ CanQueue
       THEN /\ ignored' = ignored \cup {link[cur].nextId}
            /\ link' = [link EXCEPT ![cur] = SendAs(@, Nowait)]
       ELSE UNCHANGED <<ignored, link>>
    /\ entered' = TRUE
    /\ connected' = TRUE
    /\ phase' = "watching"
    /\ retrying' = FALSE /\ expired' = FALSE

(* The end of __aenter__ *)
StartupSucceeds ==
    /\ phase = "opening" /\ ready /\ ~entered
    /\ Connect
    /\ UNCHANGED <<cur, after, ready, todo, resync, closing, dismissed, terminal,
                   roomClosed, dismissTask, exit, pending, req, watcher>>

-----------------------------------------------------------------------------
(* Reconnecting: _complete_reconnect reopens the documents one by one, each *)
(* with a request of its own, and only then is the room connected again.   *)

(* Go on with `left` documents to reopen.  A terminal room or a closed     *)
(* link makes the request raise, and the attempt fails.                    *)
Resynchronise(left) ==
    IF left = 0
    THEN /\ Connect
         /\ todo' = 0 /\ resync' = "idle"
         /\ UNCHANGED <<after, pending>>
    ELSE IF ~terminal /\ CanQueue
    THEN /\ link' = [link EXCEPT ![cur] = SendAs(@, Resync)]
         /\ pending' = [pending EXCEPT ![link[cur].nextId] = Resync]
         /\ todo' = left - 1 /\ resync' = "waiting"
         /\ phase' = "resync"
         /\ UNCHANGED <<after, retrying, expired, entered, connected, ignored>>
    ELSE /\ TearDown("retry")
         /\ todo' = 0 /\ resync' = "idle"
         /\ UNCHANGED <<retrying, expired, entered, connected, pending, ignored>>

(* _complete_reconnect, with the documents that happen to be open *)
ReconnectSucceeds ==
    /\ phase = "opening" /\ ready /\ entered
    /\ \E open \in 0..Documents : Resynchronise(open)
    /\ UNCHANGED <<cur, ready, closing, dismissed, terminal, roomClosed,
                   dismissTask, exit, req, watcher>>

ReopenNext ==
    /\ phase = "resync" /\ resync = "ok"
    /\ Resynchronise(todo)
    /\ UNCHANGED <<cur, ready, closing, dismissed, terminal, roomClosed,
                   dismissTask, exit, req, watcher>>

(* A document cannot be reopened: the attempt fails and is repeated. *)
ReopenFails ==
    /\ phase = "resync" /\ resync = "error"
    /\ TearDown("retry")
    /\ todo' = 0 /\ resync' = "idle"
    /\ UNCHANGED <<cur, retrying, expired, ready, flagVars, dismissTask, exit,
                   tableVars>>

(* (mutant of Attempting: only the opening is under wait_for) *)
AttemptingToOpen == phase = "opening"

(* what _attempt_reconnect and _attempt_initial_protocol_startup await *)
Attempting == phase \in {"opening", "resync"}

(* asyncio.wait_for in _attempt_reconnect and in                           *)
(* _attempt_initial_protocol_startup: the deadline cancels the attempt,    *)
(* which takes its own request out of the table.                           *)
AttemptTimesOut ==
    /\ retrying /\ expired /\ Attempting
    /\ link' = [link EXCEPT ![cur] = Abandon(@)]
    /\ phase' = "closing" /\ after' = "timedout"
    /\ todo' = 0 /\ resync' = "idle"
    /\ pending' = [i \in Ids |-> IF pending[i] = Resync THEN Nobody ELSE pending[i]]
    /\ UNCHANGED <<cur, retrying, expired, ready, flagVars, dismissTask, exit,
                   ignored, req, watcher>>

-----------------------------------------------------------------------------
(* The retry loop: _retry_protocol_connection *)

Sleep == /\ phase' = "backoff"
         /\ retrying' = TRUE
         /\ UNCHANGED <<expired, terminal, roomClosed>>

(* (mutant of MayRetry: __aexit__ is not noticed) *)
RetryWhileClosing == ~dismissed

(* The condition of the loop is tested at its top and nowhere else. *)
MayRetry == ~closing /\ ~dismissed

Loop == IF MayRetry /\ ~expired THEN Sleep ELSE Conclude

(* protocol_factory() makes the next link, raises an error (the loop goes  *)
(* round) or ProtocolReconnectUnsupportedError (the loop gives up).        *)
Attempt ==
    \/ /\ cur < MaxLinks
       /\ cur' = cur + 1
       /\ link' = [link EXCEPT ![cur + 1].state = "dialing"]
       /\ phase' = "opening" /\ ready' = FALSE
       /\ retrying' = TRUE
       /\ UNCHANGED <<expired, terminal, roomClosed>>
    \/ /\ Loop \/ Conclude
       /\ UNCHANGED <<cur, link, ready>>

(* The first attempt under a deadline is made at once, every other one     *)
(* after a sleep.                                                          *)
FirstAttempt ==
    IF MayRetry /\ ReconnectTimeout = "finite"
    THEN Attempt
    ELSE /\ Loop
         /\ UNCHANGED <<cur, link, ready>>

(* (mutant of MayReconnect: whatever the close kind) *)
MayReconnectAlways == ~dismissed /\ ReconnectTimeout # "zero"

(* _connection_lifecycle reconnects after an ERROR close only. *)
MayReconnect == link[cur].kind = "error" /\ ~dismissed /\ ReconnectTimeout # "zero"

(* _timed_out_retry_result: without a deadline an AssertionError ends the  *)
(* task on the spot.                                                       *)
TimedOut ==
    IF ReconnectTimeout = "none"
    THEN /\ phase' = "crashed"
         /\ UNCHANGED <<terminal, roomClosed, retrying, expired>>
    ELSE Conclude

(* _close_protocol is over: go round the loop, enter it, or conclude. *)
LinkClosed ==
    /\ phase = "closing" /\ Torn(cur) /\ ~WatcherDue
    /\ CASE after = "retry" /\ retrying ->
              Loop /\ UNCHANGED <<cur, link, ready>>
         [] \/ after = "retry" /\ ~retrying
            \/ after = "lost" /\ MayReconnect -> FirstAttempt
         [] after = "timedout" -> TimedOut /\ UNCHANGED <<cur, link, ready>>
         [] OTHER -> Conclude /\ UNCHANGED <<cur, link, ready>>
    /\ UNCHANGED <<after, todo, resync, entered, connected, closing, dismissed,
                   dismissTask, exit, tableVars>>

(* The sleep of the back-off is over.  Only the deadline is looked at      *)
(* again before the next protocol is made.                                 *)
Wake ==
    /\ phase = "backoff"
    /\ IF expired
       THEN Conclude /\ UNCHANGED <<cur, link, ready>>
       ELSE Attempt
    /\ UNCHANGED <<after, todo, resync, entered, connected, closing, dismissed,
                   dismissTask, exit, tableVars>>

DeadlinePasses ==
    /\ ReconnectTimeout = "finite" /\ retrying /\ ~expired
    /\ expired' = TRUE
    /\ UNCHANGED <<link, cur, phase, after, retrying, ready, todo, resync,
                   flagVars, dismissTask, exit, tableVars>>

-----------------------------------------------------------------------------
(* The end of a link and of the room *)

(* _connection_lifecycle when the watched link has closed: an exiting room *)
(* is done; otherwise everything in flight fails, and a close that is not  *)
(* an ERROR (or a dismissal) is final.                                     *)
LinkLost ==
    /\ phase = "watching" /\ Done(cur) /\ ~WatcherDue
    /\ IF closing
       THEN /\ phase' = "ended" /\ roomClosed' = TRUE
            /\ UNCHANGED <<after, connected, terminal, resync, tableVars>>
       ELSE /\ phase' = "closing" /\ after' = "lost"
            /\ terminal' = (terminal \/ link[cur].kind # "error" \/ dismissed)
            /\ MarkDisconnected
            /\ FailPendingWork
            /\ watcher' = IF terminal' THEN watcher ELSE 0
            /\ UNCHANGED roomClosed
    /\ UNCHANGED <<link, cur, retrying, expired, ready, todo, entered, closing,
                   dismissed, dismissTask, exit>>

(* __aexit__ up to its first await: it closes the link of that moment. *)
Exit ==
    /\ exit = "no" /\ (entered \/ phase = "created")
    /\ exit' = "waiting"
    /\ closing' = TRUE /\ terminal' = TRUE
    /\ MarkDisconnected
    /\ FailPendingWork
    /\ watcher' = 0
    /\ link' = [link EXCEPT ![cur] = CloseAs(@, "client")]
    /\ UNCHANGED <<cur, phase, after, retrying, expired, ready, todo, entered,
                   dismissed, roomClosed, dismissTask>>

(* __aexit__ goes on once the lifecycle task, if there is one, is over. *)
ExitCompletes ==
    /\ exit = "waiting" /\ phase \in {"created", "ended", "crashed"}
    /\ exit' = "done"
    /\ entered' = FALSE
    /\ roomClosed' = TRUE
    /\ UNCHANGED <<link, cur, taskVars, connected, closing, dismissed, terminal,
                   dismissTask, tableVars>>

(* The task that _dismiss starts *)
DismissCloses ==
    /\ dismissTask # 0
    /\ dismissTask' = 0
    /\ link' = [link EXCEPT ![dismissTask] = CloseAs(@, "client")]
    /\ UNCHANGED <<cur, taskVars, flagVars, exit, tableVars>>

-----------------------------------------------------------------------------
(* Requests: _dispatch_request and what resolves its future *)

Dispatch(r) ==
    /\ req[r].state = "idle" /\ MaySend /\ CanQueue
    /\ entered \/ EarlyRequests
    /\ phase = "resync" => OverlappingRequests
    /\ req' = [req EXCEPT ![r] = [state |-> "pending", link |-> cur,
                                  id |-> link[cur].nextId, answer |-> Nobody]]
    /\ pending' = [pending EXCEPT ![link[cur].nextId] = r]
    /\ link' = [link EXCEPT ![cur] = SendAs(@, r)]
    /\ watcher' = IF entered \/ watcher # 0 THEN watcher ELSE cur
    /\ UNCHANGED <<cur, taskVars, flagVars, dismissTask, exit, ignored>>

(* Before the room is entered, a request on a link that has closed makes   *)
(* the room terminal; later the caller only gets an error.                 *)
DispatchOnClosedLink ==
    /\ EarlyRequests /\ ~entered /\ ~terminal
    /\ link[cur].state \in {"closed", "failed"}
    /\ terminal' = TRUE
    /\ UNCHANGED <<link, cur, taskVars, entered, connected, closing, dismissed,
                   roomClosed, dismissTask, exit, tableVars>>

(* The caller is cancelled: cleanup_response drops whatever the table      *)
(* holds under the id of the request, and cancels it.  Cancelling the      *)
(* request of a reconnect ends the connection task with CancelledError.    *)
Cancel(r) ==
    /\ req[r].state = "pending"
    /\ LET victim == pending[req[r].id] IN
         /\ req' = [v \in Requests |->
                       IF v \in {r, victim} THEN [req[v] EXCEPT !.state = "cancelled"]
                       ELSE req[v]]
         /\ phase' = IF victim = Resync THEN "crashed" ELSE phase
         /\ resync' = IF victim = Resync THEN "idle" ELSE resync
    /\ pending' = [pending EXCEPT ![req[r].id] = Nobody]
    /\ watcher' = WatcherAfter(pending')
    /\ UNCHANGED <<link, cur, after, retrying, expired, ready, todo, flagVars,
                   dismissTask, exit, ignored>>

(* _close_watcher_task, which stands in for the lifecycle task until there *)
(* is one                                                                  *)
WatcherFires ==
    /\ WatcherDue
    /\ terminal' = TRUE
    /\ FailPendingWork
    /\ watcher' = 0
    /\ UNCHANGED <<link, cur, phase, after, retrying, expired, ready, todo,
                   entered, connected, closing, dismissed, roomClosed,
                   dismissTask, exit, ignored>>

-----------------------------------------------------------------------------
(* Messages from the server, handled one by one by _recv_task *)

(* The handlers ignore a link that is not the current one any more *)
IsCurrent(c) == c = cur

Take(c, type) == /\ link[c].inbox # <<>>
                 /\ Head(link[c].inbox).type = type
                 /\ link' = [link EXCEPT ![c].inbox = Tail(@)]

(* _handle_ready and _handle_participant (both messages in one) *)
HandleReady(c) ==
    /\ Take(c, "ready")
    /\ ready' = (ready \/ IsCurrent(c))
    /\ UNCHANGED <<cur, phase, after, retrying, expired, todo, resync, flagVars,
                   dismissTask, exit, tableVars>>

(* _handle_message_send and _dismiss *)
HandleDismiss(c) ==
    /\ Take(c, "dismiss")
    /\ IF IsCurrent(c) /\ ~closing /\ ~dismissed
       THEN dismissed' = TRUE /\ dismissTask' = c
       ELSE UNCHANGED <<dismissed, dismissTask>>
    /\ UNCHANGED <<cur, taskVars, entered, connected, closing, terminal,
                   roomClosed, exit, tableVars>>

(* _handle_response: the id alone says whose answer this is. *)
HandleResponse(c) ==
    /\ Take(c, "response")
    /\ LET m == Head(link[c].inbox)
           owner == IF IsCurrent(c) THEN pending[m.id] ELSE Nobody
       IN /\ req' = [r \in Requests |->
                       IF r = owner
                       THEN [req[r] EXCEPT !.state = "answered", !.answer = m.to]
                       ELSE req[r]]
          /\ resync' = IF owner # Resync THEN resync
                       ELSE IF m.ok THEN "ok" ELSE "error"
          /\ pending' = IF IsCurrent(c) THEN [pending EXCEPT ![m.id] = Nobody]
                        ELSE pending
          /\ ignored' = IF IsCurrent(c) /\ owner = Nobody THEN ignored \ {m.id}
                        ELSE ignored
    /\ watcher' = WatcherAfter(pending')
    /\ UNCHANGED <<cur, phase, after, retrying, expired, ready, todo, flagVars,
                   dismissTask, exit>>

-----------------------------------------------------------------------------
(* The server and the network *)

ServerIsReady ==
    /\ phase = "opening" /\ ~ready
    /\ link[cur].state = "open" /\ link[cur].inbox = <<>> /\ MaxInbox > 0
    /\ link' = [link EXCEPT ![cur].inbox = Append(@, ReadyMessage)]
    /\ UNCHANGED <<cur, taskVars, flagVars, dismissTask, exit, tableVars>>

ServerDismisses ==
    /\ ~dismissed /\ link[cur].state = "open" /\ Len(link[cur].inbox) < MaxInbox
    /\ link' = [link EXCEPT ![cur].inbox = Append(@, DismissMessage)]
    /\ UNCHANGED <<cur, taskVars, flagVars, dismissTask, exit, tableVars>>

(* Each request is answered at most once, in any order; a document may     *)
(* turn out impossible to open.                                            *)
ServerAnswers ==
    /\ link[cur].state = "open" /\ Len(link[cur].inbox) < MaxInbox
    /\ \E q \in link[cur].asked :
         \E ok \in (IF q[2] = Resync THEN BOOLEAN ELSE {TRUE}) :
           link' = [link EXCEPT
             ![cur].inbox = Append(@, [type |-> "response", id |-> q[1],
                                       to |-> q[2], ok |-> ok]),
             ![cur].asked = @ \ {q}]
    /\ UNCHANGED <<cur, taskVars, flagVars, dismissTask, exit, tableVars>>

(* The server closes the link, or the network breaks it. *)
LinkDrops ==
    /\ link[cur].state = "open"
    /\ \E kind \in {"server", "error"} :
         link' = [link EXCEPT ![cur] = CloseAs(@, kind)]
    /\ UNCHANGED <<cur, taskVars, flagVars, dismissTask, exit, tableVars>>

-----------------------------------------------------------------------------
(* The room is over: it was left, or never entered. *)
Terminated ==
    /\ exit = "done" \/ (phase \in {"ended", "crashed"} /\ ~entered)
    /\ UNCHANGED vars

RoomTask ==
    \/ OpeningFails \/ StartupSucceeds \/ ReconnectSucceeds
    \/ ReopenNext \/ ReopenFails \/ AttemptTimesOut \/ LinkClosed \/ LinkLost

Handlers == \E c \in Links : HandleReady(c) \/ HandleDismiss(c) \/ HandleResponse(c)

Server == ServerIsReady \/ ServerDismisses \/ ServerAnswers \/ LinkDrops

Users == \/ \E r \in Requests : Dispatch(r) \/ Cancel(r)
         \/ DispatchOnClosedLink
         \/ Enter \/ Exit

Next == \/ RoomTask \/ Wake \/ DeadlinePasses \/ DialSucceeds \/ DialFails
        \/ Handlers \/ DismissCloses \/ WatcherFires \/ ExitCompletes
        \/ Server \/ Users \/ Terminated

Spec == Init /\ [][Next]_vars

(* At the bound on links the loop can only go round for ever. *)
WakeInBounds == Wake /\ (cur < MaxLinks \/ expired \/ ~MayRetry)

(* The event loop runs every task that can go on, sleeps end, deadlines    *)
(* pass and a dial returns one way or the other.  Nothing is assumed of    *)
(* the server or of the users.                                             *)
Fairness ==
    /\ WF_vars(RoomTask) /\ WF_vars(WakeInBounds) /\ WF_vars(DeadlinePasses)
    /\ WF_vars(DialSucceeds \/ DialFails) /\ WF_vars(Handlers)
    /\ WF_vars(DismissCloses) /\ WF_vars(WatcherFires) /\ WF_vars(ExitCompletes)

FairSpec == Spec /\ Fairness

-----------------------------------------------------------------------------
(* Types: the domain of every variable of the client. *)
LinksOK ==
    /\ link \in [Links -> LinkRecord]
    /\ cur \in Links
    /\ dismissTask \in Links \cup {0}
    /\ watcher \in Links \cup {0}

TaskOK ==
    /\ phase \in {"created", "opening", "closing", "backoff", "resync", "watching",
                  "ended", "crashed"}
    /\ after \in {"retry", "giveup", "lost", "timedout"}
    /\ retrying \in BOOLEAN /\ expired \in BOOLEAN /\ ready \in BOOLEAN
    /\ todo \in Nat
    /\ resync \in {"idle", "waiting", "ok", "error"}
    /\ exit \in {"no", "waiting", "done"}

FlagsOK ==
    /\ entered \in BOOLEAN /\ connected \in BOOLEAN /\ closing \in BOOLEAN
    /\ dismissed \in BOOLEAN /\ terminal \in BOOLEAN /\ roomClosed \in BOOLEAN

RequestRecord ==
    [state: {"idle", "pending", "answered", "failed", "cancelled"},
     link: Links \cup {0}, id: Ids \cup {0}, answer: Owners]

TableOK ==
    /\ pending \in [Ids -> Owners]
    /\ ignored \in SUBSET Ids
    /\ req \in [Requests -> RequestRecord]

TypeOK == LinksOK /\ TaskOK /\ FlagsOK /\ TableOK

Pending(r) == req[r].state = "pending"

(* A link is abandoned only when nothing can come from it any more: its    *)
(* inbox is handled to the end before _replace_protocol.                   *)
StaleLinksSilent ==
    \A c \in Links :
        c < cur => link[c].state \in {"closed", "failed"} /\ link[c].inbox = <<>>

(* The answer a caller of send_request gets is the answer to its request,  *)
(* although ids start again at 1 on every protocol (_handle_response).     *)
ResponseMatchesRequest == \A r \in Requests : req[r].answer \in {Nobody, r}

(* Every request that still waits was sent on the current link and is in   *)
(* the table under its id, so that an answer, a disconnect or __aexit__    *)
(* will find it.                                                           *)
PendingOnCurrentLink ==
    \A r \in Requests :
        Pending(r) => req[r].link = cur /\ pending[req[r].id] = r

(* A room that calls itself connected has a task watching its link, unless *)
(* __aexit__ has begun.                                                    *)
ConnectedIsWatched == connected => closing \/ (phase = "watching" /\ ~roomClosed)

(* A room that is not connected owes nobody an answer. *)
OfflineOwesNothing == ~connected => \A r \in Requests : ~Pending(r)

(* With reconnecting disabled (reconnect_timeout=0) a room has one link in *)
(* its whole life.                                                         *)
NoReconnectAtZero == ReconnectTimeout = "zero" => cur = 1

(* _timed_out_retry_result asserts that there is a timeout.  (The code does *)
(* not keep this when a dial itself times out.)                            *)
TimedOutHasTimeout == after = "timedout" => ReconnectTimeout # "none"

(* A room that is over stays over: once room_closed is set, or a close     *)
(* that is not an ERROR has ended a connected room, it makes no further    *)
(* link and is never connected again.  A room that is left while its retry *)
(* loop sleeps is not over yet: the loop makes one more link when it wakes *)
(* and may connect (ExitEnds says what that costs).  Left at any other     *)
(* time, a room makes no link and its loop does not go back to sleep.      *)
OverForGood ==
    [][/\ roomClosed \/ (terminal /\ ~closing)
            => cur' = cur /\ (connected' => connected)
       /\ closing /\ phase # "backoff" => cur' = cur /\ phase' # "backoff"]_vars

(* A request whose link closes is answered, failed or cancelled            *)
(* (_connection_lifecycle, watch_for_close and __aexit__ see to it).       *)
NoHungRequest ==
    \A r \in Requests :
        (Pending(r) /\ link[req[r].link].state = "closed") ~> ~Pending(r)

(* So is a request that was queued on a link whose dial then failed.  (The *)
(* code does not keep this for requests sent before the room is entered.)  *)
NoRequestOutlivesDial ==
    \A r \in Requests :
        (Pending(r) /\ link[req[r].link].state = "failed") ~> ~Pending(r)

(* Whatever the connection task is doing with a link, it leaves the link   *)
(* when it closes: for the retry loop, or for good.                        *)
LinkDeathNoticed ==
    (link[cur].state = "closed" /\ phase \in {"opening", "resync", "watching"})
        ~> phase \in {"closing", "backoff", "ended", "crashed"}

(* An outage ends: the room is connected again or closed.                  *)
OutageEnds == (entered /\ ~connected) ~> (connected \/ roomClosed)

(* __aexit__ returns.  (The code does not keep this when the retry loop    *)
(* sleeps as __aexit__ begins: it may connect to a healthy server, and     *)
(* __aexit__ waits for that link to end.)                                  *)
ExitEnds == (exit = "waiting") ~> (exit = "done")

(* What the code keeps: __aexit__ returns unless the retry loop has made   *)
(* the room a new open link behind its back, and it returns once the link  *)
(* of an awake room, that one included, is gone.                           *)
ExitEndsOffline ==
    /\ (exit = "waiting") ~> (exit = "done" \/ link[cur].state = "open")
    /\ (/\ exit = "waiting" /\ phase # "backoff"
        /\ link[cur].state \in {"closed", "failed"}) ~> (exit = "done")

-----------------------------------------------------------------------------
(* What the users see of a room that sends nothing early and nothing while *)
(* it resynchronises: RoomSession.  An answer meant for somebody else      *)
(* counts as "wrong", which RoomSession never does.                        *)
Session == INSTANCE RoomSession WITH
    online <- connected /\ ~closing,
    over <- terminal,
    call <- [r \in Requests |->
                IF req[r].state = "answered" /\ req[r].answer # r
                THEN "wrong" ELSE req[r].state]

(* RoomClient implements RoomSession.                                      *)
ImplementsSession == Session!Spec

(* What RoomClient takes its links for is what PacketProtocol provides.    *)
Link(c) == INSTANCE ProtocolLink WITH
    stage <- CASE link[c].state \in {"new", "dialing"} -> "unopened"
               [] link[c].state = "open" -> "open"
               [] OTHER -> "closed",
    kind <- link[c].kind,
    waiting <- Len(link[c].inbox)

(* Every link of a room client lives the life of a ProtocolLink: no action *)
(* of the client reopens one, gives a second verdict on its close or takes *)
(* a message from it after it has closed.                                  *)
LinksKeepPromise ==
    /\ \A c \in Links : Link(c)!Init
    /\ [][\A c \in Links : Link(c)!Next \/ UNCHANGED Link(c)!vars]_vars

=============================================================================
