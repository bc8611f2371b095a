------------------------------ MODULE ToolCall ------------------------------
(***************************************************************************)
(* One streaming tool call of a room client: RoomClient.invoke, its        *)
(* _ToolCallChunkStream, the task that pumps the caller's input to the     *)
(* server, and the wrappers built on them (storage upload and download,    *)
(* dataset and sqlite reads and writes, logs, exec).                       *)
(*                                                                         *)
(* The caller, the pump, the stream's callbacks and the handler of what    *)
(* the server sends all run on one event loop: an action is the code       *)
(* between two awaits.  The server is external: it answers the call, sends *)
(* chunks when the protocol of the wrapper makes them due, and may fail.   *)
(***************************************************************************)
EXTENDS Naturals, Sequences, FiniteSets

CONSTANTS
    Feeds,              \* the kinds of calls made, see FeedKinds
    UnexpectedContent,  \* may a server answer a wrapper's call with a plain content?
    MaxItems,           \* bound: data chunks the server sends
    MaxFeed,            \* bound: data chunks of the caller's input
    MaxEpochs           \* bound: connections

(* What the caller streams to the server:                                  *)
(*   none      nothing, the input is a content                             *)
(*   free      an iterable of the user's, sent as it comes                 *)
(*   source    a source, one chunk for each chunk the server pulls (upload,*)
(*             insert, restore: _StorageUploadInputStream and its kin)     *)
(*   download  a pull for each chunk consumed, the first answer announcing *)
(*             the size (_StorageDownloadInputStream)                      *)
(*   read      the same without an announcement, and a first pull at once  *)
(*             (_DatasetArrowReadInputStream: queries, watches, backup)    *)
(*   held      nothing more, until it is closed (logs), or until then what *)
(*             the user writes (ExecSession.input_stream)                  *)
FeedKinds == {"none", "free", "source", "download", "read", "held"}

ASSUME ToolCallAssumption ==
    /\ Feeds \subseteq FeedKinds
    /\ UnexpectedContent \in BOOLEAN
    /\ MaxItems \in Nat /\ MaxFeed \in Nat
    /\ MaxEpochs \in Nat \ {0}

Raw == {"none", "free"}     \* the user calls invoke and iterates himself
Pulled == {"source", "download", "read"}

VARIABLES
    feed,    \* which call this is
    size,    \* how many data chunks the server has to send (download, read)
    call,    \* the caller: where it stands and how the call ended for it
    fut,     \* the pending request's future, and whether _on_task_done saw it
    stream,  \* the _ToolCallChunkStream
    gen,     \* the generator stream() returned, from its first item to its end
    pump,    \* the task _stream_tool_call_request_chunks
    input,   \* the input stream object: pulls queued, closed, chunks given
    got,     \* chunks the caller has consumed
    link,    \* the connection: up or down, and how many there have been
    inbox,   \* what the server has sent and the client not handled
    server   \* the server's side of the call

vars == <<feed, size, call, fut, stream, gen, pump, input, got, link, inbox, server>>

-----------------------------------------------------------------------------
(* The pump and what it sends *)

Alive(p) == p.state \in {"starting", "waiting", "sourcing"}

(* _dispatch_tool_call_request_chunk when the room is connected.  The      *)
(* server of the call knows only the chunks of its own connection.         *)
Hear(kind) ==
    server' = IF link.epoch = 1
              THEN [server EXCEPT !.heard = Append(@, kind)]
              ELSE [server EXCEPT !.foreign = TRUE]

(* The end of the pump: its `finally` sends the closing chunk, and when    *)
(* the room is disconnected that raises in place of what ended the pump.   *)
PumpStops(how) ==
    IF link.up
    THEN /\ Hear("end")
         /\ pump' = [pump EXCEPT !.state = how]
    ELSE /\ pump' = [pump EXCEPT !.state = "failed"]
         /\ UNCHANGED server

(* One chunk of the input, after which the pump is at `then`. *)
PumpSends(kind, then) ==
    IF link.up
    THEN /\ Hear(kind)
         /\ pump' = [pump EXCEPT !.state = then]
    ELSE /\ pump' = [pump EXCEPT !.state = "failed"]
         /\ UNCHANGED server

CancelPump(p) == [p EXCEPT !.cancel = @ \/ Alive(p)]

-----------------------------------------------------------------------------
(* The chunk stream *)

NoStream == [open |-> FALSE, queue |-> <<>>, error |-> "none", result |-> FALSE]

(* (mutants of Closed: the error is put in the queue; it is dropped) *)
ClosedWithErrorItem(s, error, result) ==
    [open |-> FALSE, queue |-> s.queue \o <<error, "end">>, error |-> error,
     result |-> result # <<>>]

ClosedSilently(s, error, result) ==
    [open |-> FALSE, queue |-> s.queue \o result \o <<"end">>, error |-> "none",
     result |-> result # <<>>]

(* _ToolCallChunkStream._close of an open stream; `result` is empty or     *)
(* holds the one content that ends the stream.                             *)
Closed(s, error, result) ==
    [open |-> FALSE, queue |-> s.queue \o result \o <<"end">>, error |-> error,
     result |-> result # <<>>]

(* _close, which also cancels the pump it was given, unless a result ended *)
(* the stream.  Nothing happens to a stream that is closed already.        *)
CloseStream(error, result) ==
    /\ stream' = IF stream.open THEN Closed(stream, error, result) ELSE stream
    /\ pump' = IF stream.open /\ pump.attached /\ result = <<>>
               THEN CancelPump(pump) ELSE pump

FutDone == fut.state \notin {"none", "pending"}

(* The callbacks of the future and of the pump are in the loop's ready     *)
(* queue: they run before anything that has yet to come from the network.  *)
Settled ==
    /\ FutDone => fut.noticed /\ call.at # "invoking"
    /\ pump.state = "failed" => pump.noticed

(* What the task of the call becomes: cancelled unless it was done. *)
CancelFut(f) == IF f.state = "pending" THEN [f EXCEPT !.state = "cancelled"] ELSE f

-----------------------------------------------------------------------------
(* The input stream object of a wrapper *)

(* close(): the flag, and a token so that a waiting pump sees it *)
CloseInput(i) == IF i.closed THEN i ELSE [i EXCEPT !.closed = TRUE, !.pulls = @ + 1]

RequestNext(i) == IF i.closed THEN i ELSE [i EXCEPT !.pulls = @ + 1]

-----------------------------------------------------------------------------
(* The caller *)

Init ==
    /\ feed \in Feeds
    /\ size \in IF feed \in {"download", "read"} THEN 0..MaxItems ELSE {0}
    /\ call = [at |-> "idle", outcome |-> "none", cancelled |-> FALSE]
    /\ fut = [state |-> "none", noticed |-> FALSE]
    /\ stream = NoStream
    /\ gen = "none"
    /\ pump = [state |-> "none", cancel |-> FALSE, attached |-> FALSE, noticed |-> FALSE]
    /\ input = [pulls |-> 0, closed |-> FALSE, given |-> 0, exhausted |-> FALSE]
    /\ got = 0
    /\ link = [up |-> TRUE, epoch |-> 1]
    /\ inbox = <<>>
    /\ server = [answered |-> FALSE, closed |-> "no", items |-> 0, heard |-> <<>>,
                 foreign |-> FALSE]

(* invoke up to its first await: the request is sent, the stream made and  *)
(* registered, the pump created.                                           *)
Invoke ==
    /\ call.at = "idle" /\ link.up /\ link.epoch = 1
    /\ call' = [call EXCEPT !.at = "invoking"]
    /\ fut' = [fut EXCEPT !.state = "pending"]
    /\ stream' = [stream EXCEPT !.open = TRUE]
    /\ pump' = [pump EXCEPT !.state = IF feed = "none" THEN @ ELSE "starting"]
    /\ UNCHANGED <<feed, size, gen, input, got, link, inbox, server>>

(* _on_task_done, the first callback of the future *)
OnTaskDone ==
    /\ FutDone /\ ~fut.noticed
    /\ fut' = [fut EXCEPT !.noticed = TRUE]
    /\ CASE fut.state = "open" -> UNCHANGED <<stream, pump>>
         [] fut.state = "content" -> CloseStream("none", <<"content">>)
         [] fut.state = "cancelled" -> CloseStream("none", <<>>)
         [] OTHER -> CloseStream("refused", <<>>)
    /\ UNCHANGED <<feed, size, call, gen, input, got, link, inbox, server>>

Returns(outcome) == call' = [call EXCEPT !.at = "done", !.outcome = outcome]

(* invoke resumes with the "open" answer: the stream is given the pump and *)
(* the wrapper begins to iterate (a read asks for its first chunk).        *)
ResumeOpen ==
    /\ call.at = "invoking" /\ fut.noticed /\ fut.state = "open"
    /\ call' = [call EXCEPT !.at = "using"]
    /\ gen' = "live"
    /\ pump' = [pump EXCEPT !.attached = pump.state # "none"]
    /\ input' = IF feed = "read" THEN RequestNext(input) ELSE input
    /\ UNCHANGED <<feed, size, fut, stream, got, link, inbox, server>>

(* ... with a content: the pump has to end before it is returned.  A       *)
(* wrapper that expected a stream then closes its input and raises.        *)
ResumeContent ==
    /\ call.at = "invoking" /\ fut.noticed /\ fut.state = "content"
    /\ call' = [call EXCEPT !.at = "joining"]
    /\ UNCHANGED <<feed, size, fut, stream, gen, pump, input, got, link, inbox, server>>

(* ... with an exception: the pump is cancelled and waited for. *)
ResumeError ==
    /\ call.at = "invoking" /\ fut.noticed
    /\ fut.state \notin {"open", "content"}
    /\ call' = [call EXCEPT !.at = "dropping"]
    /\ pump' = CancelPump(pump)
    /\ UNCHANGED <<feed, size, fut, stream, gen, input, got, link, inbox, server>>

JoinPump ==
    /\ call.at \in {"joining", "dropping"} /\ ~Alive(pump)
    /\ IF call.at = "joining" /\ pump.state \in {"none", "ended"}
       THEN Returns(IF feed \in Raw THEN "content" ELSE "raised")
       ELSE Returns("raised")
    /\ input' = IF call.at = "joining" /\ feed \notin Raw THEN CloseInput(input) ELSE input
    /\ UNCHANGED <<feed, size, fut, stream, gen, pump, got, link, inbox, server>>

-----------------------------------------------------------------------------
(* The iteration: _ToolCallChunkStream.__aiter__ inside stream() *)

TakeHead == stream' = [stream EXCEPT !.queue = Tail(@)]

Next1 == IF stream.queue = <<>> THEN "nothing" ELSE Head(stream.queue)

(* The wrapper returns or raises at an item it has been given: its         *)
(* `finally` closes the input stream, and the generator, no longer         *)
(* referenced, is finalised by the loop a little later.                    *)
Leave(outcome) ==
    /\ Returns(outcome)
    /\ input' = CloseInput(input)
    /\ gen' = "leaving"

(* (mutant of Asks: a reader asks when it is given a chunk, and again) *)
AsksAtOnce == TRUE

(* Only an upload asks its own input for a chunk when it is given one. *)
Asks == feed = "source"

(* A data chunk.  An upload takes it for a pull; a download and a read     *)
(* hand it to their user and ask for the next one when they are resumed.   *)
TakeItem ==
    /\ call.at = "using" /\ Next1 = "item"
    /\ TakeHead
    /\ got' = got + 1
    /\ input' = IF Asks THEN RequestNext(input) ELSE input
    /\ call' = IF feed \in {"download", "read"} THEN [call EXCEPT !.at = "busy"] ELSE call
    /\ UNCHANGED <<feed, size, fut, gen, pump, link, inbox, server>>

(* (mutant of MoreExpected: the first chunk is counted as data) *)
MoreExpectedOfData == feed = "read" \/ got < size

(* The size a download was announced is that of its data chunks: its first *)
(* chunk only announces.                                                   *)
MoreExpected == feed = "read" \/ got < size + 1

Continue ==
    /\ call.at = "busy"
    /\ call' = [call EXCEPT !.at = "using"]
    /\ input' = IF MoreExpected THEN RequestNext(input) ELSE input
    /\ UNCHANGED <<feed, size, fut, stream, gen, pump, got, link, inbox, server>>

(* The user of a download or a read stops in the middle of it. *)
Abandon ==
    /\ call.at = "busy"
    /\ Leave("left")
    /\ UNCHANGED <<feed, size, fut, stream, pump, got, link, inbox, server>>

(* An ErrorContent: a wrapper raises it, a user who iterates himself is    *)
(* given it as any other item.                                             *)
TakeError ==
    /\ call.at = "using" /\ Next1 = "error"
    /\ TakeHead
    /\ IF feed \in Raw THEN got' = got + 1 /\ UNCHANGED <<call, input, gen>>
                       ELSE Leave("raised") /\ UNCHANGED got
    /\ UNCHANGED <<feed, size, fut, pump, link, inbox, server>>

(* (mutant of Complete: the size is not compared at the end) *)
CompleteUnchecked == TRUE

(* download_stream accepts an end only when all it was announced has come. *)
Complete == feed = "download" => got = size + 1

(* The closing chunk *)
TakeClose ==
    /\ call.at = "using" /\ Next1 = "close"
    /\ TakeHead
    /\ IF feed \in Raw THEN UNCHANGED <<call, input, gen>>
       ELSE Leave(IF Complete THEN "ok" ELSE "raised")
    /\ UNCHANGED <<feed, size, fut, pump, got, link, inbox, server>>

(* The end of the queue: the iteration stops or raises the stream's error, *)
(* after the generator's own `finally`.                                    *)
TakeEnd ==
    /\ call.at = "using" /\ Next1 = "end"
    /\ TakeHead
    /\ gen' = "leaving"
    /\ call' = [call EXCEPT !.at = "leaving",
                            !.outcome = IF stream.error = "none" THEN "ok" ELSE "raised"]
    /\ UNCHANGED <<feed, size, fut, pump, input, got, link, inbox, server>>

(* The user cancels the task that made the call (once).  In queue.get the  *)
(* cancellation passes through the generator's `finally`; in `await        *)
(* request_stream_task` it reaches the pump; in `await invoke_response` it *)
(* cancels the future.                                                     *)
CancelCall ==
    /\ ~call.cancelled
    /\ \/ /\ call.at = "invoking" /\ fut.state = "pending"
          /\ fut' = CancelFut(fut)
          /\ call' = [call EXCEPT !.cancelled = TRUE]
          /\ UNCHANGED <<gen, pump>>
       \/ /\ call.at = "joining" /\ Alive(pump)
          /\ pump' = CancelPump(pump)
          /\ call' = [call EXCEPT !.cancelled = TRUE]
          /\ UNCHANGED <<gen, fut>>
       \/ /\ call.at = "using" /\ stream.queue = <<>>
          /\ gen' = "leaving"
          /\ call' = [call EXCEPT !.cancelled = TRUE, !.at = "leaving", !.outcome = "raised"]
          /\ UNCHANGED <<fut, pump>>
    /\ UNCHANGED <<feed, size, stream, input, got, link, inbox, server>>

(* cancel(), the `finally` of stream(): a pump whose stream ended with a   *)
(* result is given half a second to end by itself.                         *)
Finalise ==
    /\ gen = "leaving"
    /\ stream' = IF stream.open THEN Closed(stream, "none", <<>>) ELSE stream
    /\ fut' = CancelFut(fut)
    /\ IF pump.attached /\ Alive(pump)
       THEN IF stream'.result
            THEN gen' = "grace" /\ UNCHANGED pump
            ELSE gen' = "waiting" /\ pump' = CancelPump(pump)
       ELSE gen' = "closed" /\ UNCHANGED pump
    /\ UNCHANGED <<feed, size, call, input, got, link, inbox, server>>

GraceOver ==
    /\ gen = "grace"
    /\ gen' = "waiting"
    /\ pump' = CancelPump(pump)
    /\ UNCHANGED <<feed, size, call, fut, stream, input, got, link, inbox, server>>

Finalised ==
    /\ gen \in {"grace", "waiting"} /\ ~Alive(pump)
    /\ gen' = "closed"
    /\ UNCHANGED <<feed, size, call, fut, stream, pump, input, got, link, inbox, server>>

(* A caller that iterates to the end waits for its generator; the wrapper  *)
(* then closes its input.                                                  *)
Left ==
    /\ call.at = "leaving" /\ gen = "closed"
    /\ Returns(call.outcome)
    /\ input' = IF feed \in Raw THEN input ELSE CloseInput(input)
    /\ UNCHANGED <<feed, size, fut, stream, gen, pump, got, link, inbox, server>>

(* LogStream.cancel and ExecSession.stop close the input while the call    *)
(* goes on.                                                                *)
StopInput ==
    /\ feed = "held" /\ call.at \in {"invoking", "using"} /\ ~input.closed
    /\ input' = CloseInput(input)
    /\ UNCHANGED <<feed, size, call, fut, stream, gen, pump, got, link, inbox, server>>

-----------------------------------------------------------------------------
(* The pump: _stream_tool_call_request_chunks *)

(* It can go on unless a cancellation is about to be delivered. *)
Pumping(at) == pump.state = at /\ ~pump.cancel

(* The chunk that starts a wrapper's call is there without a pull. *)
PumpStart ==
    /\ Pumping("starting")
    /\ IF feed = "free"
       THEN pump' = [pump EXCEPT !.state = "waiting"] /\ UNCHANGED server
       ELSE PumpSends("start", "waiting")
    /\ UNCHANGED <<feed, size, call, fut, stream, gen, input, got, link, inbox>>

(* The pump takes a token of the queue: the stream is closed, or the       *)
(* server is to be asked, or the source is asked for a chunk.              *)
PumpPulled ==
    /\ Pumping("waiting") /\ input.pulls > 0
    /\ input' = [input EXCEPT !.pulls = @ - 1]
    /\ CASE input.closed -> PumpStops("ended")
         [] ~input.closed /\ feed = "source" ->
                pump' = [pump EXCEPT !.state = "sourcing"] /\ UNCHANGED server
         [] ~input.closed /\ feed # "source" -> PumpSends("pull", "waiting")
    /\ UNCHANGED <<feed, size, call, fut, stream, gen, got, link, inbox>>

(* Where a chunk of the caller's own comes from: the source of an upload   *)
(* once pulled, the iterable of a free input, the user of an exec session. *)
MayGive == \/ Pumping("sourcing")
           \/ Pumping("waiting") /\ feed = "free"
           \/ Pumping("waiting") /\ feed = "held" /\ ~input.closed

Give ==
    /\ MayGive /\ input.given < MaxFeed
    /\ input' = [input EXCEPT !.given = @ + 1]
    /\ PumpSends("data", "waiting")
    /\ UNCHANGED <<feed, size, call, fut, stream, gen, got, link, inbox>>

SourceEnds ==
    /\ MayGive /\ feed # "held"
    /\ input' = [input EXCEPT !.exhausted = TRUE]
    /\ PumpStops("ended")
    /\ UNCHANGED <<feed, size, call, fut, stream, gen, got, link, inbox>>

SourceRaises ==
    /\ MayGive /\ feed # "held"
    /\ PumpStops("failed")
    /\ UNCHANGED <<feed, size, call, fut, stream, gen, input, got, link, inbox>>

PumpCancelled ==
    /\ Alive(pump) /\ pump.cancel
    /\ PumpStops("cancelled")
    /\ UNCHANGED <<feed, size, call, fut, stream, gen, input, got, link, inbox>>

(* on_request_stream_done: the failure of the pump ends the stream, and    *)
(* cancels the request if the server has not answered it.                  *)
OnRequestStreamDone ==
    /\ pump.state = "failed" /\ ~pump.noticed
    /\ pump' = [pump EXCEPT !.noticed = TRUE]
    /\ stream' = IF stream.open THEN Closed(stream, "input", <<>>) ELSE stream
    /\ fut' = CancelFut(fut)
    /\ UNCHANGED <<feed, size, call, gen, input, got, link, inbox, server>>

-----------------------------------------------------------------------------
(* The server, and what it sends *)

Heard(kind) == \E i \in DOMAIN server.heard : server.heard[i] = kind

Serving == call.at # "idle" /\ link.up /\ link.epoch = 1 /\ server.closed = "no"

Sends(of, what) == inbox' = Append(inbox, <<of, what>>)

(* "open", a content, or an error *)
Answers == {"open", "refusal"}
           \cup IF feed \in Raw \/ UnexpectedContent THEN {"content"} ELSE {}

ServerAnswers ==
    /\ Serving /\ ~server.answered
    /\ \E answer \in Answers :
          /\ Sends("answer", answer)
          /\ server' = [server EXCEPT !.answered = TRUE,
                                      !.closed = IF answer = "open" THEN @ ELSE "answered"]
    /\ UNCHANGED <<feed, size, call, fut, stream, gen, pump, input, got, link>>

(* A pulling server asks for one chunk for the start and for each chunk it *)
(* has been given; a pulled one sends one for each pull.  Others send as   *)
(* they like, even before their answer.                                    *)
ItemDue ==
    LET asked == IF Heard("end") THEN 0 ELSE Len(server.heard)
    IN CASE feed = "source" -> server.answered /\ server.items < asked
         [] feed = "download" -> server.answered /\ server.items < asked
                                 /\ server.items < size + 1
         [] feed = "read" -> server.answered /\ server.items + 1 < asked
                             /\ server.items < size
         [] OTHER -> server.items < MaxItems

ServerSendsItem ==
    /\ Serving /\ ItemDue
    /\ Sends("chunk", "item")
    /\ server' = [server EXCEPT !.items = @ + 1]
    /\ UNCHANGED <<feed, size, call, fut, stream, gen, pump, input, got, link>>

(* When a server ends the call: an upload once its input has ended, a read *)
(* once all has been sent or its reader has gone.                          *)
CloseDue ==
    CASE feed = "source" -> Heard("end")
      [] feed = "download" -> server.items = size + 1 \/ Heard("end")
      [] feed = "read" -> server.items = size \/ Heard("end")
      [] OTHER -> TRUE

ServerCloses ==
    /\ Serving /\ server.answered /\ CloseDue /\ Settled
    /\ Sends("chunk", "close")
    /\ server' = [server EXCEPT !.closed = "normal"]
    /\ UNCHANGED <<feed, size, call, fut, stream, gen, pump, input, got, link>>

(* A server that fails says so in an ErrorContent, or in the status of the *)
(* closing chunk; or it breaks a download off and closes it.               *)
ServerFails ==
    /\ Serving /\ server.answered
    /\ \/ inbox' = inbox \o << <<"chunk", "error">>, <<"chunk", "close">> >>
       \/ Sends("chunk", "abort")
       \/ feed = "download" /\ Sends("chunk", "close")
    /\ server' = [server EXCEPT !.closed = "failed"]
    /\ UNCHANGED <<feed, size, call, fut, stream, gen, pump, input, got, link>>

Arriving == Head(inbox)[2]

(* _handle_response for the id of the call, if it is still pending *)
ReceiveAnswer ==
    /\ link.up /\ inbox # <<>> /\ Head(inbox)[1] = "answer"
    /\ inbox' = Tail(inbox)
    /\ fut' = IF fut.state = "pending" THEN [fut EXCEPT !.state = Arriving] ELSE fut
    /\ UNCHANGED <<feed, size, call, stream, gen, pump, input, got, link, server>>

(* _handle_tool_call_response_chunk and _push_chunk: a chunk of a stream   *)
(* that is not registered, or closed, is dropped.                          *)
ReceiveChunk ==
    /\ link.up /\ inbox # <<>> /\ Head(inbox)[1] = "chunk"
    /\ inbox' = Tail(inbox)
    /\ CASE ~stream.open -> UNCHANGED <<stream, pump>>
         [] stream.open /\ Arriving = "close" -> CloseStream("none", <<"close">>)
         [] stream.open /\ Arriving = "abort" -> CloseStream("aborted", <<>>)
         [] OTHER -> /\ stream' = [stream EXCEPT !.queue = Append(@, Arriving)]
                     /\ UNCHANGED pump
    /\ UNCHANGED <<feed, size, call, fut, gen, input, got, link, server>>

-----------------------------------------------------------------------------
(* The connection *)

(* It is lost: _fail_pending_work closes the stream with an error, which   *)
(* cancels a pending request, or else fails the request.                   *)
LoseLink ==
    /\ link.up /\ link.epoch = 1 /\ call.at # "idle" /\ Settled
    /\ link' = [link EXCEPT !.up = FALSE]
    /\ inbox' = <<>>
    /\ CloseStream("lost", <<>>)
    /\ fut' = IF stream.open THEN CancelFut(fut)
              ELSE IF fut.state = "pending" THEN [fut EXCEPT !.state = "refusal"] ELSE fut
    /\ UNCHANGED <<feed, size, call, gen, input, got, server>>

(* The pump awaits something of the user's: the source of an upload, or    *)
(* the iterable of a free input.  Either may take its time to let a        *)
(* cancellation through; the library's own queues do so in a loop turn.    *)
InUsersCode ==
    \/ pump.state = "sourcing"
    \/ pump.state = "waiting" /\ feed = "free"

(* (mutant of ShutDown: no pump is waited for) *)
NotShutDown == Settled /\ (Alive(pump) /\ pump.cancel => InUsersCode)

(* _fail_pending_work waits for the pumps of the streams it closes (their  *)
(* pending_shutdown_tasks): a pump its stream was not given yet, or one    *)
(* cancelled when its stream was closed before, is not waited for.  The    *)
(* callbacks, and the cancellations no user's code holds up, have run long *)
(* before the new connection is dialled.                                   *)
ShutDown ==
    /\ Settled
    /\ Alive(pump) /\ pump.cancel =>
          InUsersCode /\ ~(pump.attached /\ stream.error = "lost")

Reconnect ==
    /\ ~link.up /\ link.epoch < MaxEpochs
    /\ ShutDown
    /\ link' = [up |-> TRUE, epoch |-> link.epoch + 1]
    /\ UNCHANGED <<feed, size, call, fut, stream, gen, pump, input, got, inbox, server>>

-----------------------------------------------------------------------------
Over == call.at = "done" /\ gen \in {"none", "closed"} /\ ~stream.open /\ ~Alive(pump)

Stutter == Over /\ UNCHANGED vars

Caller == Invoke \/ OnTaskDone \/ ResumeOpen \/ ResumeContent \/ ResumeError \/ JoinPump
Iteration == TakeItem \/ Continue \/ TakeError \/ TakeClose \/ TakeEnd \/ Left
Generator == Finalise \/ Finalised
Pump == PumpStart \/ PumpPulled \/ PumpCancelled \/ OnRequestStreamDone
Server == ServerAnswers \/ ServerSendsItem \/ ServerCloses
Receive == ReceiveAnswer \/ ReceiveChunk

Next == \/ Caller \/ Iteration \/ Generator \/ Pump \/ Server \/ Receive
        \/ Abandon \/ CancelCall \/ StopInput \/ GraceOver
        \/ Give \/ SourceEnds \/ SourceRaises \/ ServerFails
        \/ LoseLink \/ Reconnect \/ Stutter

(* Callbacks, tasks that can run and timers are run; a server answers and  *)
(* ends what it has been asked; a source gives or ends.                    *)
Fairness ==
    /\ WF_vars(Caller) /\ WF_vars(Iteration) /\ WF_vars(Generator)
    /\ WF_vars(GraceOver) /\ WF_vars(Pump)
    /\ WF_vars(SourceEnds) /\ WF_vars(Receive)
    /\ WF_vars(ServerAnswers) /\ WF_vars(ServerSendsItem) /\ WF_vars(ServerCloses)

Spec == Init /\ [][Next]_vars
FairSpec == Spec /\ Fairness

-----------------------------------------------------------------------------
(* Properties *)

(* What each part of the call may be at all. *)
TypeOK ==
    /\ feed \in Feeds
    /\ size \in 0..MaxItems
    /\ call \in [at: {"idle", "invoking", "joining", "dropping", "using", "busy",
                      "leaving", "done"},
                 outcome: {"none", "ok", "content", "raised", "left"},
                 cancelled: BOOLEAN]
    /\ fut \in [state: {"none", "pending", "open", "content", "refusal", "cancelled"},
                noticed: BOOLEAN]
    /\ stream.open \in BOOLEAN /\ stream.result \in BOOLEAN
    /\ stream.error \in {"none", "refused", "aborted", "lost", "input"}
    /\ stream.queue \in Seq({"item", "error", "close", "content", "end"})
    /\ gen \in {"none", "live", "leaving", "grace", "waiting", "closed"}
    /\ pump \in [state: {"none", "starting", "waiting", "sourcing", "ended", "failed",
                         "cancelled"},
                 cancel: BOOLEAN, attached: BOOLEAN, noticed: BOOLEAN]
    /\ input \in [pulls: Nat, closed: BOOLEAN, given: 0..MaxFeed, exhausted: BOOLEAN]
    /\ got \in Nat
    /\ link \in [up: BOOLEAN, epoch: 1..MaxEpochs]
    /\ inbox \in Seq({"answer", "chunk"}
                     \X {"open", "content", "refusal", "item", "error", "close", "abort"})
    /\ server.answered \in BOOLEAN /\ server.foreign \in BOOLEAN
    /\ server.closed \in {"no", "answered", "normal", "failed"}
    /\ server.items \in Nat
    /\ server.heard \in Seq({"start", "data", "pull", "end"})

Data == Cardinality({i \in DOMAIN server.heard : server.heard[i] = "data"})

(* A call that ends without an exception has had all of it: a user who     *)
(* iterates himself every chunk that came before the server's close, a     *)
(* download as many as were announced, a read all that was sent, and an    *)
(* upload ends well only when its whole source reached the server.  A lost *)
(* connection, a cancelled request or an input that failed never looks     *)
(* like the end of the data.                                               *)
EndIsHonest ==
    call.outcome = "ok" =>
        CASE feed \in Raw -> \/ server.closed = "normal" /\ got = server.items
                             \/ server.closed = "failed" /\ got = server.items + 1
          [] feed = "download" -> got = size + 1
          [] feed = "source" -> server.closed = "normal" /\ input.exhausted
                                /\ Data = input.given
          [] OTHER -> server.closed = "normal" /\ got = server.items

(* The pump of a user's own input was cancelled, and not because the       *)
(* connection of its open stream was lost: nobody waits for it.            *)
Overtaken ==
    feed \in {"free", "source"} /\ pump.cancel /\ (~pump.attached \/ stream.error # "lost")

(* No chunk of a call that is under way is sent over a later connection:   *)
(* the pumps of the old one have ended before a new one is dialled.  What  *)
(* may still cross is what follows the server's own end of the call, and   *)
(* the closing chunk of a pump that was Overtaken.                         *)
OwnLink == server.foreign => server.closed # "no" \/ Overtaken

(* The pulls keep a reader from being flooded: the server is never more    *)
(* than one chunk ahead of what the reader's user has been given.          *)
OneAhead == feed \in {"download", "read"} => server.items <= got + 1

(* A call always comes to an end, with nothing left of it: the caller has  *)
(* an answer or an exception, the stream is unregistered, the generator    *)
(* finalised and the pump ended.  Neither side waits for the other for     *)
(* ever: each chunk the reader lacks has been pulled.                      *)
CallEnds == call.at # "idle" ~> Over

(* The check after invoke in upload_stream and the other wrappers: a call  *)
(* answered by a plain content is reported as unexpected.                  *)
UnexpectedReported == call.at = "joining" ~> call.at = "done"

=============================================================================
