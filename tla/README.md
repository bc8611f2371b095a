# meshagent-api: TLA+ models and proofs

This directory holds a TLA+ development of the client library in
`src/meshagent/api`. The library lets a Python program join a *room*: it dials a
websocket, exchanges framed messages with the room server, and offers on top of
that requests, documents kept in sync, messages between participants, tool calls
and byte streams. Everything runs on one asyncio event loop, so a model step is
the code between two `await`s; the hard part is what happens *at* the awaits when
the connection is lost, replaced, or left at the same time.

All paths below are relative to `src/meshagent/api`; `rsc` is
`room_server_client.py`.

## 1. Inventory

| Component | State it keeps | Operations | Hard behaviours | What makes it correct |
|---|---|---|---|---|
| **Room connection** (`RoomClient`, rsc 825-2415) | current protocol, flags (`entered`, `connected`, `closing`, `dismissed`, terminal state, `room_closed`), lifecycle task, close watcher | `__aenter__`, `__aexit__`, `_connection_lifecycle`, `_retry_protocol_connection`, `_dismiss` | loss during every phase, back-off, deadline, exit or dismissal racing a reconnect | every dead link is noticed; an outage ends; exit returns; over is over |
| **Request table** (rsc 1856-2131) | `_pending_requests`, `_ignored_response_labels`, id counter of the protocol | `send_request`, `send_request_nowait`, `_handle_response`, `_fail_pending_work` | ids restart on every connection; cancellation; requests before entry and during a resynchronisation | an answer reaches its own request; nobody waits on a dead link |
| **Packet protocol** (`protocol.py`, `chan.py`) | send and receive channel, `recv_*` fields, `_done_fut`, close kind | `send_nowait`, `receive_packet`, the channel tasks, `close` | cut at any packet, close while messages are queued | whole messages, in order; a closed protocol finishes |
| **Websocket ends** (`websocket_protocol.py`) | socket, reader task, session | dial, `_ws_recv`, `send_packet`, `__aexit__` | a send failing while messages arrive | everything is released |
| **Tool calls** (`invoke`, `_ToolCallChunkStream`, rsc 2133-2413, 3344-3538) | one stream per call, its queue and error, the input pump, the finalisation of `stream()` | `invoke`, chunk handler, `_close`, `cancel`, and the consumers: upload, download, reads and writes of datasets and sqlite, logs, exec | chunks before, after or instead of the response; a pump that outlives its connection; pacing by pulls | an end without an error is the true end; every call ends; no chunk crosses to another connection |
| **Documents** (`SyncClient` rsc 2540-3060, `runtime.py`) | open documents with reference counts, connecting futures, state vectors | `open`, `close`, `sync`, disconnect, reconnect | concurrent opens, offline edits, failed reconnect | one server open per document; no edit lost |
| **Document contents** (`schema_document.py`, `crdt.py`) | the CRDT's text and children, and the user's copy of them | edits, `_handle_event`, `receive_changes` | positions in a text that earlier items of the delta have split and moved | the copy is the runtime's document |
| **Messaging** (`MessagingClient`, rsc 4556-5440) | participants, send queue, enabled flags | enable/disable, send, broadcast | errors in the send task, reconnect while enabling | a queued message is sent or failed, in order |
| **Messaging streams** (`MessagingStream`, `IncomingMessagingStreamRequest`, rsc 4769-5153, 5472-5844) | the request, two stream objects, their queues and tables | `stream`, `accept`, `reject`, `send_message`, `receive`, `close` | both sides close, or lose their connection, at once | one verdict; what was sent before the close is received; no receiver is left |
| **Toolkit operations** (rsc 2415-2515, 3297-11451) | none, but a query the server holds | one request each; `sql_stream` opens, reads and closes a query | answers of another kind; leaving a query half-read | a caller sees one kind of exception; no query stays open |
| **Database transfers** (`sqlite_transfer.py`) | size and digest of both sides, pulls | `backup`, `restore` | lost or altered chunks, a source that raises | done means whole |
| **Service host, web hooks** (`services.py`, `webhooks.py`) | the application, per path a future and its tasks, per call a room and an agent | `start`, `stop`, calls, dismissal | calls that come while the host stops; joining that never ends | after `stop` nobody is in a room; every agent is stopped |
| **Grants** (`participant_token.py`, `file_permissions.py`) | the rules of a policy | predicates over paths | precedence, exclusions, recursion | a subtree is granted whole; a listable path can be reached |
| **REST client** (`client.py`) | the session and whose it is | about 210 methods, one request each; one that reads pages | every method has its own way with a status and a body | what a caller is told is what the server did |
| **Files client** (`files.py`) | the endpoint and its lock | discovery, operations, listing by pages | discovery that fails for one of many; pages that go in circles | one discovery; a listing is whole and ends |
| **Schemas, specs, utilities** (`schema*.py`, `specs/`, ...) | none | validation and data classes | none | n/a |

How they interact: `RoomClient` owns one `Protocol` at a time, made by a factory.
Handlers are registered once on a proxy (`_RoomProtocolProxy`) that moves them
from protocol to protocol. Every other part calls `send_request` or registers a
handler. On a reconnect `RoomClient._complete_reconnect` calls
`SyncClient._on_room_reconnect`, which sends one request per open document, and
then `MessagingClient._on_room_reconnect`, which sends one without waiting; on a
disconnect `_fail_pending_work` and the `_on_room_disconnect` hooks run. The
hazards are listed in `PROJECT.json`, each at its line.

## 2. Modules

| Module | Models | Kind |
|---|---|---|
| `ProtocolLink` | what the owner of a protocol may rely on | abstract specification |
| `PacketProtocol` | `protocol.py`, `websocket_protocol.py` (client and server end), `chan.py` as a closable queue | detailed; implements `ProtocolLink` |
| `RoomSession` | what callers of `send_request` may rely on | abstract specification |
| `RoomClient` | the life cycle and the request table | detailed; implements `RoomSession`, uses its links as `ProtocolLink` |
| `Messaging` | `MessagingClient` without its streams, over a room seen through its flags | detailed |
| `SyncDocuments` | `SyncClient` and the document runtime for one path, over a room seen through its link | detailed |
| `ToolCall` | `invoke`, `_ToolCallChunkStream`, the input pump and the consumers, one call | detailed |
| `MessagingStreams` | a stream between two participants, both sides | detailed |
| `RoomRequests` | the operations of the toolkits, and `sql_stream` | detailed |
| `SqliteTransfer` | `backup` and `restore` over a faulty server | detailed |
| `DocumentDeltas` | edits, the deltas reported of them, `receive_changes` | detailed |
| `ServiceHost` | `services.py` and the request handler of `webhooks.py` | detailed |
| `Grants` | files policies and storage grants | operators over a growing policy |
| `RestClient` | `client.py` | detailed |
| `FilesClient` | `files.py` | detailed |
| `RoomClientProofs`, `ReconnectProofs`, `PacketProtocolProofs`, `MessagingProofs`, `SyncDocumentsProofs`, `StreamsProofs`, `CallProofs`, `PartsProofs` | theorems | TLAPS |
| `MCRoomClient`, `MCRoomReconnect`, `MCPacketProtocol`, `MCMessaging`, `MCSyncDocuments`, `MCStreams`, `MCParts` | small instances for TLC | |

`MCStreams` and `MCParts` put modules that share no state side by side: a variable
`part` says which of them is at work in a behaviour and the others stay as they
started, so the state space is the sum and not the product of theirs. `MCRoomReconnect`
does the same with two instances of `RoomClient` over one set of variables.

### RoomClient

`link[c]` is the c-th protocol the factory made, `cur` the index of
`_protocol_instance`. `phase` is the program counter of the one task that runs
`__aenter__` and then `_connection_lifecycle`:

| `phase` | code |
|---|---|
| `created` | before `__aenter__` |
| `opening` | `_open_protocol`: dialling, then waiting for `room_ready` and the participant |
| `resync` | `SyncClient._on_room_reconnect` awaiting the answer that reopens a document |
| `watching` | `_connection_lifecycle` awaiting `wait_for_close` |
| `closing` | `_close_protocol`; `after` says what follows |
| `backoff` | the sleep in `_retry_protocol_connection` |
| `ended`, `crashed` | the task returned; it raised (`AssertionError` or `CancelledError`) |

The flags keep their names. `pending` is `_pending_requests` (id to owner),
`req[r]` a user's call, `exit` the place of `__aexit__`, `dismissTask` the task
`_dismiss` starts, `watcher` the link watched by `_close_watcher_task`. Each
action is one stretch between two awaits and is named for its place in the code;
`PROJECT.json` maps each to its lines.

Abstractions: time is the two actions `Wake` and `DeadlinePasses`; `room_ready`
and the participant message are one message; a handshake refused with 403, 404
or 423 and a protocol factory that cannot make a second protocol are the
branches that give up. A link's `Torn` says `_close_protocol` has returned; it
waits for the channel tasks, which is true unless `ExitReleases` (section 4) fails.
An exception other than `ConnectionResetError` out of aiohttp's `send_bytes` is
not modelled.

### PacketProtocol

Both ends of one connection, each with its sender, receiver and reader task and
its place in `__aexit__`. A message is an id and a sequence of distinct bytes;
`Packets`, `Chunk` and `Packet` cut it as `_send_message` and `_send_payload` do
and `Receive` is the whole of `receive_packet`, its error states included. The
socket is external: packets arrive in order; `eof` means that the peer closed
(what it had sent can still be read, and a send is swallowed or fails), `lost`
that the connection broke, with any tail of what was under way.
`WebSocketServerProtocol` differs from the client in `__aexit__` (it cancels its
reader) and in the close kind a failed send gives.

### Messaging

`desired`, `online` and `inFlight` are the three flags of `MessagingClient`,
`roster` is `_participants` and `queue` the channel of queued messages. `sender` is
the place of the one task that runs `_send_messages`: receiving, waiting for the
connection, waiting to be online, waiting for a dispatch, or done. `msg[m].state`
follows a message: queued, held by that task, about to be sent by a task of its
own, asked of the server, answered (`ok`, `missing`, `error`) with its task still
to resume, and sent or not. Between the answer and the resumption other messages
are handled; that is where a returned participant gets lost.

`room` folds `RoomClient` into what messaging sees of it: connected, connected
over a link that is already dead, offline, over, and the steps of `__aexit__`.
`RoomClient` shows that the flag falls and the pending requests fail in one step,
which `Disconnected` takes over. A `RemoteParticipant` is told from another of the
same id (`Objects`), because a message keeps the object it was addressed to: an
object set offline is never resolved again, one that was merely replaced is.
The server and the peers are external: the server answers in order, and tells an
enabled client who comes and goes. Event callbacks are taken to do nothing to the
client; a failed start is left out.

### SyncDocuments

One path: documents of different paths share nothing. `connected` and `count` are
the entry of `_connected_documents`, `connecting` that of `_connecting_documents`
(the user whose open is under way, or what a cancellation left there), `table` that
of `_document_streams`, `base` that of `_reconnect_base_vectors`. `stream[s]` is one
`_SyncOpenStreamState` with its tool call: `up` holds its input queue and what is on
the wire, `down` the chunks its reader has yet to take; identities are used again
when nobody refers to them. `at[u]` is where a task stands in `open` or `close`,
`resync` where `_on_room_reconnect` does. The content of a document is a set of
edits and a state vector the set it covers, which is what the CRDT engine provides.

The awaits are where things go wrong, so each is kept: waiting for somebody else's
open and resuming after it (`Open`, `Resume`), the first chunk (`Opened`,
`OpenFails`), the reading task at a close (`CloseReturns`), the reopening at a
reconnect (`Reconnect`, `ResyncEnds`). A resumption may come later than asyncio's
run queue would let it, so a few interleavings are wider than the program's. The
server is external: it serves a stream from its start to a close of either side,
applies edits and passes them on. It may refuse or end a stream; others edit too.
Cancelling a `close`, the public `sync()` and a first connection are left out.

`disturbed` is a history variable. It records that an open was cancelled, that two
opens overtook each other, that a reconnect reopened a document closed meanwhile or
failed with calls under way. The code leaves futures that nobody completes and
documents nobody can close in these cases (see the hazards), so `CaughtUp`,
`OfflineEditsKept`, `HeldAsCounted` and `CallsReturn` speak of documents without.

`OfflineEditsKept` also excepts a document whose open completed after the disconnect
(`OpenedOffline`): the code loses what is edited in it offline, which is what
`LateOpenKept` states and TLC finds violated (section 4).

### ToolCall

One call on a connection that may be lost and replaced. `feed` says what the caller
streams to the server, and with it which consumer reads the answers: nothing or an
iterable (`invoke` itself), a source with a chunk per pull (upload, insert, merge,
restore), a pull per chunk consumed after an announcement (download) or from the
start (queries, watches), or an input held open (logs, exec). `fut` is the future of
the pending request, `stream` the `_ToolCallChunkStream`, `gen` the async generator
`stream()` returned from its first item to its finalisation, `pump` the task that
streams the input, `input` the input object. `_close`, `close_with_error`, `cancel`
with its half second of grace, `pending_shutdown_tasks` and `_on_task_done` are
actions of their own, so that a cancelled pump may run before or after the next
connection is up: a reconnect waits for the pump of a stream that the loss closed; any
other one that was cancelled has ended by then unless it is in its user's code
(`InUsersCode`), which may hold a cancellation up. The server is external and follows the protocol of the consumer,
but may refuse, fail or stop at any point. The request table itself is `RoomClient`'s.

### MessagingStreams

`theirs` and `mine` are the two `MessagingStream` objects, of the initiator and of the
responder, `call` the responder's `_IncomingMessagingStreamCall` with its request and
the tables that hold them. `link[side]` is up, dying (a sender notices) or down. What
the server relays is in `toResponder` and `toInitiator`, in order. Each side
disconnects on its own; the server then closes the call of the other.

### RoomRequests, RestClient, FilesClient

An operation is a row: which kinds of content (or how the status and the body) it
takes, and what it does when they are not so. The rows are read off each method; what
TLC checks is that no combination of row and answer tells the caller something false.
Three of them keep more: `sql_stream` holds a query on the server, `get_resource_policy`
and `list` follow pages while others change what is listed. A page is a set of entries:
all that is left behind its token, or what goes up to an entry with more beyond it, which
is then the next token; the server may put fewer than `PageSize` on it. In `FilesClient`
several tasks share the endpoint and its lock.

### SqliteTransfer

`input` is `_TransferInput`, `client` the loop of `backup` or `restore`. A database is a
sequence of chunks and its digest is the sequence itself, so a digest tells two
databases apart and a size does not. The server may drop or alter a chunk, pull when
it should not, or say that it is done (`MaxFaults` times).

### DocumentDeltas

`text` and `children` are the CRDT's, `runs` and `nodes` the copy `receive_changes` keeps;
`i`, `retain`, `offset`, `done` are its local variables and an action is one pass of a
loop. That the runs hold the text is said by cuts (`Spells`): one place in the text behind
every run, so that each run is the stretch between two of them. An edit makes the delta `_handle_event` reports of it, and the next edit comes when
the walk is over, as both run in one callback. `rough` is a history variable: an edit
was made which the walk does not follow (section 4).

### ServiceHost

`call[c]` is a call from its request to its end: `run` the task or handler that joins
the room, waits and leaves, `agent` what `on_call_answered` has done with its agent. A
posted call has a task of its own and waits for the host's `_done`; a carried one is
the request handler and does not. The room is seen through `open`. `start` makes new
servers, so a path knows only of the tasks made since (`TasksOf`): what a `stop` that
raised left behind is marked `old`, goes on by itself, and may still be joined by calls
over connections of its time (`LeftBehind`).

### Grants

A path is a sequence of names, and `Dots` stands for whatever `validate_file_path`
refuses. The policy or the list of prefixes grows by one rule at a time; the
predicates are those of the source.

## 3. Runs

| Run | Question | Bounds |
|---|---|---|
| `RoomReconnect` | Is the request table right across reconnects, and does the client implement `RoomSession` over `ProtocolLink`s; with zero, is there one connection only? | `reconnect_timeout` none and zero; 2 requests, 0 or 1 document open at a reconnect, messaging on, 3 links, ids up to 4, 2 unhandled messages |
| `RoomDeadline` | With a finite `reconnect_timeout`, and a request sent before or after entry, does everything end that should? | 1 request, 0 or 1 document open at a reconnect, 3 links, 1 unhandled message |
| `Packets` | Does each end implement `ProtocolLink`, do a protocol's tasks end, and messages arrive? | chunks of 2, messages of 0 and 3 bytes, two one way |
| `Messaging` | Are messages kept, ordered and answered, and do the client and the server end up agreeing? | 1 peer, 2 messages, users and peers act while less than 2 messages are under way |
| `MessagingEnds` | Does everybody who waits for a message get an end? | the same with 1 |
| `Sync` | Does a document catch up, and is what is edited offline kept for the server? | 1 user, 1 edit on each side, 2 opens, 2 lost links (failed attempts besides), 3 streams |
| `SyncHolders` | Is a shared document open as often as it is held, and do open and close return? | 2 users, 3 opens, 1 lost link, no edits |
| `Streams` | Is the end of a tool call true, and does it come; is a messaging stream given whole and nobody left waiting? | each kind of call with 2 chunks each way and 2 connections; 2 messages each way, either side may lose its connection |
| `Parts` | The grants, REST, files, service host, toolkit, transfer and document modules, each on its own | 2 rules over 4 paths; 3 grants on pages of at most 2; 2 tasks and 2 files; 2 calls on 1 path; 2 batches; 2 chunks and 2 faults; 3 characters and 2 children |
| `ExitDuringBackoff`, `SyncLoss`, `TextLost` | the findings of section 4 | |

Two calls let one be answered before and one after its path has stopped; two chunks
and two faults let an altered chunk of the right size follow a lost one; three
characters are split into three runs by a format in the middle; two tasks contend for
the lock of the endpoint, and two pages that point at each other go in a circle.

For documents one edit on each side is enough, as an edit is lost or kept on its own
and the other side's shows whether the client hears; two losses give a reconnect
that follows a reconnect; three opens let a document be shared, closed and opened
again. Three streams are the old one, the reopened one and one of an open under way.

One peer is enough for messaging because a message concerns one peer and the
table is replaced or emptied as a whole; two messages are needed for an order,
and for one to be held while the other waits. `MaxTraffic` of 2 lets an answer to
"enable" cross a later "disable" and "enable".

Three links are enough for: a first connection, one that fails while it
resynchronises, and one more; two requests for one to hold the id the other had
on an earlier link, which is how an answer could go astray; at each reconnect a
document that is open, for the reconnect's own request among those of the users, or
none, for a reconnect that asks nothing. The ids cover everything that
can be sent on one link (`RoomAssumption`). At the bound on links the loop goes
round without a new link; `WakeInBounds` keeps that from counting as progress.

`EarlyRequests` and `OverlappingRequests` say whether users send before
`__aenter__` is over and during a resynchronisation, which the code allows;
`RoomReconnect` switches both off, and `RoomDeadline` allows the first for its one
request, because the code does not keep its promises otherwise: see section 4.

Fairness (`FairSpec`): the event loop runs every task that can go on, timers
fire, and a dial returns one way or the other. Nothing is assumed of the server,
of the network or of the users: no message has to arrive. In `PacketProtocol` the
same holds of both ends' tasks. In `Messaging` the server answers what it has
received, and a room that is offline reconnects or gives up (`OutageEnds`). In
`SyncDocuments` the server answers and tasks run; a lost link is noticed, but the
room need not reconnect. In `ToolCall` both sides go on: the server answers, sends what
is due and closes, the pump and the generators run, and a source comes to its end; the
user of a raw or held call need not. In `MessagingStreams` tasks run, a dying link
goes down, and the responder's user decides. In `ServiceHost` agents start or fail,
stop, and rooms are left; joining a room need not end.

What the properties say is in the comment above each in its module. The main
ones: `ResponseMatchesRequest` (ids restart on every connection, no answer goes
astray), `PendingOnCurrentLink` (nobody waits on a dead
link), `StaleLinksSilent`, `OverForGood`, `NoHungRequest`, `LinkDeathNoticed`,
`OutageEnds`, `ExitEndsOffline`, `NobodyForgotten`, `SentInOrder`, `WishFulfilled`,
`RosterAgrees`, `LeavingSettles`, `OnlineSettles`, `EverythingArrives`, `ClosedIsDone`,
`LeavingEndsBoth`, `CaughtUp`, `OfflineEditsKept`, `HeldAsCounted`, `CallsReturn`, `CallIsHonest`,
`CallEnds`, `ClosedWhole`, `NobodyWaits`, `StoppedIsEmpty`, `AgentsEnd`, `StopEnds`,
`QueriesClosed`, `TransferredWhole`, `CopyAgrees`, `RestTellsAll`, `FilesTold`,
`SubtreeMeansAll`, `ListingReachable`, and the refinements `ImplementsSession`,
`LinksKeepPromise` and `ImplementsLink`.

## 4. Findings

Each is a run that TLC must find violated; `PROJECT.json` quotes the line of the
repository that says otherwise.

- `ExitDuringBackoff`: `__aexit__` during the back-off sleep. The loop looks at
  `_closing` only at its top; after the sleep it connects, and `__aexit__` waits
  for a lifecycle task that watches a healthy link (`ExitEnds`). What the code keeps is
  `ExitEndsOffline`, which `RoomDeadline` checks: `__aexit__` returns unless the loop has
  made such a link, and once that link is gone. `OverForGood` excepts the same case: a room
  that is left during the sleep (`phase = "backoff"`) makes one more link.
- `SyncLoss` (`Restored`): an edit that is on its way when the link breaks is covered
  by the state vector taken at the disconnect, so the reconnect does not send it
  again: the document has it, the server never does.

- `TextLost` (`TextAgrees`): deleting a whole run of a text adds the list of removed
  items to a number (schema_document.py 645), a `TypeError` after which the rest of the
  delta is lost; a deletion inside a run counts what is left instead of what went
  (640); a format of the front of a run puts the rest at the end of the text (744); and
  a delta that deletes children before it inserts some puts the new ones too far left
  (575). `CopyAgrees` holds of the edits the walk follows.

More properties are stated in the modules and do not hold of the code; no run checks
them as they stand, and each configuration named here shows it with the property put
in.

- `PendingOnCurrentLink` with `OverlappingRequests = TRUE` (`RoomReconnect.cfg`): a
  request sent during a resynchronisation that then fails stays in the table, because
  `_attempt_reconnect` fails nothing pending (rsc 1195); ids restart, so a later
  request can overwrite it or take its answer.
- `LinkDeathNoticed` with `ReconnectTimeout = "none"` (`RoomReconnect.cfg` under `FairSpec`):
  the link dies, or a dismissal closes it, while the reconnect awaits the answer that
  reopens a document; without a deadline nothing wakes it (rsc 1149-1158).
- `NoRequestOutlivesDial` (`RoomDeadline.cfg`): a request queued before entry outlives
  a failed dial.
- `NoHungRequest` and `OutageEnds` with two requests (`RoomDeadline.cfg`): the request
  that outlived the failed dial keeps the close watcher on that link, so nothing fails
  another early request when startup gives up (rsc 2056); and when it is cancelled
  later, its cleanup drops whatever now has its id (rsc 1908), be it the reconnect's
  own request: the cancellation then ends the connection task and nobody reconnects.
- `TimedOutHasTimeout` (`RoomReconnect.cfg`): aiohttp's connect timeout is an
  `asyncio.TimeoutError`, which the retry loop takes for its own deadline; with no
  deadline it runs into an `AssertionError` and the room is left neither connected
  nor closed.
- `LateOpenKept` (`Sync.cfg`): an open that goes on after the disconnect, with a chunk
  received before it, puts the dead stream in the table and drops the state vector the
  disconnect kept (rsc 2818-2822). What is edited offline goes to the dead stream, and
  the reconnect sends nothing of it. `OfflineEditsKept` excepts such a document.
- `ExitReleases` (`Packets.cfg`): a failed send closes the channels under the reader;
  a message it then completes raises `ChanClosed`, and `__aexit__` passes that on
  before it has released the session. While the old link's reader dies this way
  `_close_protocol` returns before the inbox is empty; `RoomClient` models the
  ordinary case.
- `EndedSettles` (`MessagingEnds.cfg`): the task that sends messages returns when it
  meets the end of the room and leaves the queue open (rsc 5248); the next
  `send_message` never returns.
- `RosterComplete` (`Messaging.cfg`): a participant that comes back while the
  NOT_FOUND answer to an older message waits for its task is taken out of the table
  again.
- `CloserToldToo` (`Streams.cfg`, as `Messaging!CloserToldToo`): a `close()` that waits for
  its send task while the peer closes (rsc 5770) raises, and its own receiver is left
  waiting.
- `UnexpectedReported` (`Streams.cfg` with `UnexpectedContent = TRUE`): the wrappers'
  check for a plain content is never reached, because `invoke` first awaits a pump that
  waits for a pull (rsc 2410-2412).

What else was met while modelling, which no property states:

- Tool calls: a pump of a call that has been answered already may send chunks on the
  next connection. One that was cancelled for another reason than the loss, or before
  its stream was given it (a refusal, a caller that left), and whose user's source holds the
  cancellation up, may send its closing chunk there: nobody waits for it (rsc 2106-2131,
  3385-3401). `OwnLink` excepts the two. The server hears the same "end" of an input that raised, of one that
  was cancelled and of one that is complete. An abandoned content input is not told to
  the server.
- Messaging streams: a call that was accepted and that the peer closes stays in
  `_incoming_streams` (rsc 4856-4867).
- REST: the `list_*` wrappers drop the continuation token, so they give one page; pages
  by offset can skip entries when others delete; `get_resource_policy` has no guard
  against a repeated token; methods read without a `try` let `ValidationError` and
  `KeyError` out; `download` raises `RoomException` for a 404 where its docstring
  (client.py 1444) names `NotFoundException`.
- Files: if the deployment has no config, `exists` takes the 404 of `get_config` for the
  absence of the file (`Discovered` models it; no property says that an absent file is
  absent, as the code does not keep it).
- Service host: `stop` does not wait for the `stop` of agents whose room it left; it waits
  for ever for a call that is joining a room that cannot be reached; one failed join
  makes it raise and skip the cleanup of the runner; an agent whose `start` raised is
  never stopped; a second dismiss message sets a future that is done; after a failed
  start the host can be stopped but not started; after a `stop` that raised and a new
  `start`, nobody waits for the tasks of the earlier one (services.py 171, 279-281), which
  `StoppedIsEmpty` excepts.
- Tokens: `to_jwt(expiration=...)` of a decoded token keeps the old expiration;
  versions are compared as strings.

## 5. Proofs

`RoomClientProofs` proves, for every value of the constants that `RoomAssumption`
and `OwnerAssumption` allow (any number of requests, documents, links, ids, any
timeout mode, early and overlapping requests included):

- `TypeCorrect`: `Spec => []TypeOK`. `TypeOK` is inductive as it stands; it is
  proved part by part (`LinkTypes`, `TaskTypes`, `FlagTypes`, `TableTypes`), each with a
  step for every action that touches the part, on top of lemmas about the record
  updates (`CloseAs`, `SendAs`) and about shared pieces (`Resynchronise`,
  `Connect`, `FailPendingWork`).
- `StaleSilent`: `Spec => []StaleLinksSilent`. The property is not inductive:
  `cur` advances in `Attempt` only, and what makes the link left behind silent is
  where the task stands. The strengthening `SilentInv` adds that links that were never opened
  have empty inboxes, and that a task asleep in the back-off has torn its link down.
- `OneLinkAtZero`: `Spec => []NoReconnectAtZero`. The invariant `ZeroInv` says that
  with `reconnect_timeout=0` the task is never inside the retry loop and never on
  its way to it.
- `PromiseKept`: `Spec => LinksKeepPromise`, the action property that every link lives
  the life of a `ProtocolLink`. `PromiseInv` keeps the stage of every link and the tasks
  that close it together, and links beyond the current one untouched.

Four more theorems have the hypothesis `PatientUsers` (neither `EarlyRequests` nor
`OverlappingRequests`): users send after the room is entered and not while it
resynchronises. That is a condition on the callers, which the two constants let
the model drop; the runs that check these properties set both to `FALSE` too. With early
requests TLC violates all four, with overlapping ones all but `OverForGood`: the
behaviours are those of the hazards at 1877, 1195 and 2061 of `room_server_client.py`.

- `AnswersMatch`: `Spec => []ResponseMatchesRequest`
- `PendingIsCurrent`: `Spec => []PendingOnCurrentLink`
- `StaysOver`: `Spec => OverForGood`: a room that is closed or has its terminal state
  takes no further link and does not become connected, and one that is left dials no
  more, unless it was left during the back-off sleep
- `SessionImplemented`: `Spec => ImplementsSession`, the refinement of `RoomSession`

They follow from one invariant, `PatientInv`. Beside the invariants above it has
`RoomInv` (what the flags are at each place of the connection task), `TableInv` (an entry
of the request table and the request it belongs to name each other, on the current
link), `UsedInv` and `DueInv` (the ids in the table, and those of answers asked for or
on their way, are below the link's counter, and an answer meets the entry of its request
or none; a new request takes over nobody's, which is where ids that restart at 1 could go
wrong), `FreshInv` (links not yet made are as new) and `MatchInv` (who has an answer has
its own).

`ReconnectProofs` extends `MCRoomReconnect`, in which a room with `reconnect_timeout=0`
and one without a deadline stand in one specification:

- `DialsOnce`: `ReconnectSpec => []NoSecondDial`, the same argument as for
  `OneLinkAtZero` (`ZeroStands`) over the actions of the instance `Zero`.

`PacketProtocolProofs` proves, for any messages, chunk size and budget:

- `TypeCorrect`: `Spec => []TypeOK`, from lemmas about cutting (`PacketType`) and
  assembling (`ReceiveType`) and one lemma for each group of variables.
- `LinkImplemented`: `Spec => ImplementsLink`, the refinement of `ProtocolLink` at
  both ends. Every step is shown to be one of the five things `LinkStep` lets
  happen to an end; the invariant `NewIsIdle` (an end that was not entered has no
  tasks) excludes a close before the opening.

`MessagingProofs` proves, for any peers, messages, objects and traffic that
`MessagingAssumption` allows:

- `TypeCorrect`: `Spec => []TypeOK`. The types alone are not inductive: the server
  may answer about a message only because what is in `up` has an addressee, which
  is a fact about the order of things (`LineInOrder`). That a new
  `RemoteParticipant` can always be told from the old ones (`UnusedType`) is a
  counting argument on `Objects`.
- `NobodyIsForgotten`: `Spec => []NobodyForgotten`.
- `MessagesSentInOrder`: `Spec => SentInOrder`.

These three follow from one invariant, `IInv`: calls are made, queued, taken,
dispatched and received in order (`CallsInOrder`, `QueueInOrder`, `SenderInOrder`,
`LineInOrder`), and nothing is asked on a connection that is given up (`Asking`).
The proof first says what each action does to the states of the messages
(`Harmless`: only messages already dispatched move), so that most actions fall
under `HarmlessHands` and `StillLine`, and `UserSends`, `Take`, `DispatchNext`,
`Dispatch`, `SenderFails`, `Stop` and `ServerReceives` are treated one by one.

- `WishIsFulfilled`: `Spec => []WishFulfilled`. At rest nothing is on the wire; `WishInv` says what
  holds while enables, disables and answers are. What decides is `WillKnow`, what the
  server will hold of messaging once all that is on its way has arrived: an
  online client, or one with a request in flight, has asked last to be enabled, and if
  the server will know the client, then the client is online or about to be told.
- `RosterIsRight`: `Spec => []RosterAgrees`. `NewsInv`: the last notice under way that speaks of
  a peer says the truth, as long as the server knows the client. `RosterInv`: where no notice is under way,
  the table does. `MissedInv`: only the task of a message that was not found takes
  somebody out of the table otherwise, and the server has missed that peer (which needs that a
  message keeps its receiver, `Addressed`).

`StreamsProofs` extends `MCStreams` and proves, for any number of messages (`MaxMessages`
is a number) and whichever side may lose its connection:

- `StreamsAreWhole`: `StreamsSpec => []ClosedWhole`, with the types, `OneVerdict` and
  `NoProtocolError` of `MessagingStreams`. The invariant `StreamInv` follows every message
  from the user who sends it to the user who is given it, in both directions:
  what a side has sent is what the other has been given, has in its events, or has on its way
  (`GivenToInitiator`, `GivenToResponder`), what the responder's user has sent is sent or in
  the queue (`QueueKept`), and no message is behind a close (`Quiet`). For the initiator an
  `accept` is always the first thing that arrives (`RelayedInOrder`), and where a
  stream, its request and its call stand relative to each other is `InitiatorStands` and
  `ResponderStands`. Queues are reasoned about by what an item added or taken does to
  them (`AddsTo`, `TakesFrom`), which five lemmas prove of `Append` and `Tail` by
  counting. The invariant was model-checked before it was proved, and was inductive but for
  one conjunct (a call that waits for its request is listed).

`CallProofs` extends `MCStreams` and proves, for any kinds of calls (`Feeds`), any number
of chunks of either side (`MaxItems`, `MaxFeed`) and of connections (`MaxEpochs`), whether
or not a server may answer a wrapper with a plain content:

- `CallsAreHonest`: `StreamsSpec => []CallIsHonest`, with the types, `EndIsHonest`,
  `OwnLink` and `OneAhead` of `ToolCall`. How a call ends is decided when its stream is
  closed, by whichever caller of `_close` comes first, and is told to the user only once he has
  taken all that was queued; `CallInv` carries the one to the other. `Owed`: while the
  stream is open, what the server has sent has been given, is queued or is on its way.
  `EndedWell`: a stream that was closed without an error, of a call whose user has yet to be
  told, holds exactly the rest, with the close before its end (`QueueEnds`); what
  arrives last is the end the server gave (`EndsLast`). `SourceSent`: an upload
  that ended well has sent the whole of its source, in which the count of the
  server's `heard` and of what was given move together. `ReaderAsks`: the pulls a reader
  has queued and sent never exceed the chunks its user was given by more than the one he waits
  for. `OwnLink` is not about the link alone: a pump outlives a connection only if it was
  told to stop and nobody waits for it (`Overtaken`), or is of a call its server has ended
  (`PumpStands`, `LinkStands`), and
  for that one has to know where the caller stands between the answer and the `await` of
  the pump (`CallerStands`). Each action has a lemma (`...Keeps`) that it keeps
  `CallInv`; those that move the pump, the caller, the stream's end and the taking of
  an item share one each (`PumpKeeps`, `CallerKeeps`, `ClosingKeeps`, `TakeKeeps`).
  `CallInv` was model-checked before it was proved.

`PartsProofs` extends `MCParts`: it proves theorems of the grants, of the service host,
of the wrappers, of the transfers, of the REST and files clients and of the documents,
each by itself, and then of `PartsSpec`, in which they stand side by side (`HostPart`,
`RequestPart`, `TransferPart`, `RestPart`, `FolderPart`, `DocumentPart`: what a part does
there it does by itself). `PartsAssumption` is what they assume of the constants: entries
and files are numbered from 1 in the server's order, there are finitely many files, and the
bound `MaxText` is a number.

Of the grants, for any names, rules, prefixes and paths (`GrantPaths`: they are finite
sequences of names, and `MaxRules` is a number):

- `SubtreesAreWhole`: `Spec => []SubtreeMeansAll`, from the order of paths: being at or
  beneath is transitive, and two paths above a third are comparable.
- `ListingIsReachable`: `Spec => []ListingReachable`. A rule allows its own path exactly
  when it allows any path, as an exclusion that covers the rule's path covers all.
- `FirstPrefixWins`: `Spec => []FirstPrefixDecides`.

They rest on `GrantsTypeCorrect` and on the invariant `RulesCanonical`: every rule names
canonical paths only, which `AddRule` checks and the legacy rules get from `PolicyBuilds`.

Of the service host, for any calls and paths, `HostTypeCorrect` and

- `StopsEmpty`: `Host!Spec => []Host!StoppedIsEmpty`, hence
  `HostIsEmpty`: `PartsSpec => []StoppedIsEmpty`. It is not inductive: that nothing of the
  host is left is decided long before `stop` returns, path by path. `HostInv`
  adds that a call at a path that has stopped was told so (`StoppedPathsTell`), that
  such a path waits for every task of it but the late ones (`StoppedPathsWait`), and
  that after the last path nothing waits to be answered (`NothingLeft`). All of it is
  said of the servers of the last `start`; calls of earlier ones (`old`) are excepted.

Of the wrappers, for any number of batches, `RequestTypeCorrect` and

- `NoQueryLeftOpen`: `Requests!Spec => []Requests!QueriesClosed`. `RequestInv` adds that
  only a query that an execution opened is held (`HeldByQuery`), that what is read was
  understood (`ReadIsUnderstood`), and that a call that goes on without a link has seen
  it go (`CutWhileOffline`).
- `ErrorsAreOfOneKind`: `Requests!Spec => []Requests!OneKindOfError`, over all operations
  (`OperationChecks` goes through their list). Together, `RequestsAreSettled`:
  `PartsSpec => []QueriesClosed`.

Of the transfers, for databases of any length over any bytes and for any number of
faults, `TransferTypeCorrect` and

- `MovedWhole`: `Transfer!Spec => []Transfer!TransferredWhole`. What is said on the way
  back counts only if what was said on the way there is still true when it is heard:
  `TransferInv` adds that nothing comes after the end of the data (`EndIsLast`,
  `StoredIsLast`, `EndIsSaid`), that the client of a restore never pulls (`PullsOfBackup`),
  and that an acknowledgement of the whole on its way is of what is stored
  (`AcknowledgesStored`).
- `SourceErrorIsNoEnd`: `Transfer!Spec => []Transfer!AbortIsNoEnd`. `AbortInv` adds to
  `TransferInv` that once the source has raised, its abort is on its way with no end of the
  data before it, or the server has heard of it (`AbortIsAhead`), and that a transfer that
  is done has a source that ended without an error (`DoneIsClosed`). Together, `TransfersAreWhole`: `PartsSpec => []TransferredWhole`.

Of the REST client, for any entries, any size of a page and a server that puts as many on
a page as it likes up to that, `RestTypeCorrect`, `OutcomesTell` and

- `PagesAreWhole`: `Rest!Spec => []Rest!PagesWhole`; together, `RestTells`:
  `PartsSpec => []RestTellsAll`. What is collected is right only while more is to come:
  `RestInv` says that the pages taken so far hold, once each, whatever stood all the while
  and comes no later than the token (`PagesSoFar`), that the page in the answer goes on
  from the token without a gap (`PageOnItsWay`), and for everything else that what the
  method is about to tell is what was answered (`AnswerTells`, `OutcomeTells`).

Of the files client, for any tasks, any finite set of files and a server that may cut its
pages anywhere and, when it is faulty, name any next token, `FolderTypeCorrect`,
`EndpointFoundOnce` and

- `ListingsAreWhole`: `Folder!Spec => []Folder!ListingEnds`. Every task keeps what it has
  read up to its token (`ReadUpToToken`) and has asked at most once for each token it has
  seen, which are files (`OnePerToken`), so that counting the files bounds the
  requests (`FolderCounts`). That pages add up is `PagesGrow`, for both clients. Together, `FilesAreTold`:
  `PartsSpec => []FilesTold`, whatever becomes of the discovery.

Of the documents, for a text of any length and any number of children, `DocTypeCorrect` and

- `CopyFollows`: `Document!Spec => []Document!CopyAgrees`; hence `CopiesAgree`:
  `PartsSpec => []CopyAgrees`. The property speaks of the moments at which no delta is under
  way, and `DocInv` of those between: a delta is a way to a place and one change there
  (`TextStage`), the children that are left to add or to drop make the runtime's out of the
  user's (`ChildrenFollow`), and the runs spell the word that the walk has come to
  (`TextFollows`) - the text without the characters of an insert, or with those of a delete
  that are still to go. `Found` says where the walk stands on its way to the place.
  What a step does to the runs it does to a cut of them: an insert moves the places
  behind it (`SpeltWith`), a format adds a place (`SpeltSplit`), and a delete is in the one
  run there is. That `rough` is false is what rules out the steps that end in an exception
  or take too much (`OutOfRuns`, `DeleteRun`, `FormatFront` in an earlier run): a format
  from the left to the right finds its place in the last run or at the end of the one before, as
  no last run begins behind the formatted characters (`TextStill`).

`SyncDocumentsProofs` proves, for any users, edits, objects and streams that
`SyncAssumption` allows, without a condition on the callers:

- `TypeCorrect`: `Spec => []TypeOK`. The types need to know more than types: a task that
  waits, waits for a future somebody completes (`WaitInv`); no edit is anywhere before it
  is made (`DataOK`); and what opens a stream has one of its own (`StreamsInv`), or the
  chunks of one would reach another. `Typed` is their conjunction.
- `HoldersAreCounted`: `Spec => []HeldAsCounted`. `HoldersInv` adds that only one task opens
  at a time and only while nothing is connected (`OneOpens`), and that a stream in the table
  that is open is the connected document's (`TableIsOurs`). `ClosingInv` says
  that a document somebody is closing is no longer the connected one.
- `EditsAreKept`: `Spec => OfflineEditsKept`, an action property. `BaseInv` says that
  offline, without a stream, the state vector of the disconnect is known; a document opened
  after the disconnect has none, and is excepted.
- `DocumentCatchesUp`: `Spec => []CaughtUp`. At rest nothing is on the wire, so
  the invariant has to speak of what is. `WireInv`: whatever comes down the server has, and
  what goes up on a stream begins with the request that opens it. `FlowInv`: what the server
  has and the document has not is on its way down the stream that the opener, the
  resynchronisation or the table holds, and a request that has yet to be served asks from
  no more than the document has. Both were model-checked before they were proved.

The model reuses the identities of documents and streams that nothing refers to. When
none is left an open waits (`ObjectLeft`, `StreamLeft`): a bound on how much goes on at
once, not on how often documents are opened.

Model-checked only:

- all liveness properties: they rest on fairness, which is out of the prover's reach.

Every invariant of a passing run is proved, and so are the action properties and the
refinements the runs check.

## 6. Not modelled

`PROJECT.json` lists every component with its status and what it leaves out. Not
modelled at all:

- message packing and content types (`messaging.py`): an encoding, for which a test over
  values says more than a model;
- port forwarding: two byte pumps that share only their two ends;
- schemas, specifications of services and managed agents, HTTP helpers, sign-in and the
  utilities: validation and conversion without state;
- secrets and their encoding, `OAuth` flows, the names and patterns of the other toolkits'
  grants, and the in-memory protocols.

Out of reach: liveness under fairness and `ENABLED` for TLAPS; real time (delays
and deadlines are nondeterministic); the CRDT engine, aiohttp and the server,
which are external.

Worth doing next: an abstract specification of `SyncDocuments` (replicas that converge)
and of a tool call (a finite sequence transferred once).
