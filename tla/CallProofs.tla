----------------------------- MODULE CallProofs -----------------------------
(***************************************************************************)
(* Theorems about the streaming tool calls of a room client (ToolCall), as *)
(* MCStreams puts them beside the streams of messaging: for every kind of  *)
(* call, and any number of chunks and of connections.                      *)
(***************************************************************************)
EXTENDS MCStreams, FiniteSetTheorems, TLAPS

-----------------------------------------------------------------------------
(* The inductive invariant                                                 *)

Item == {"item", "error", "close", "content", "end"}
Answer == {"answer"} \X {"open", "content", "refusal"}
Chunk == {"chunk"} \X {"item", "error", "close", "abort"}
Calls == [at : {"idle", "invoking", "joining", "dropping", "using", "busy", "leaving", "done"},
          outcome : {"none", "ok", "content", "raised", "left"}, cancelled : BOOLEAN]
Futures == [state : {"none", "pending", "open", "content", "refusal", "cancelled"},
            noticed : BOOLEAN]
ChunkStreams == [open : BOOLEAN, queue : Seq(Item),
                 error : {"none", "refused", "aborted", "lost", "input"}, result : BOOLEAN]
Pumps == [state : {"none", "starting", "waiting", "sourcing", "ended", "failed", "cancelled"},
          cancel : BOOLEAN, attached : BOOLEAN, noticed : BOOLEAN]
Inputs == [pulls : Nat, closed : BOOLEAN, given : 0..MaxFeed, exhausted : BOOLEAN]
Servers == [answered : BOOLEAN, closed : {"no", "answered", "normal", "failed"},
            items : Nat, heard : Seq({"start", "data", "pull", "end"}), foreign : BOOLEAN]

(* How many of the elements of a queue are of some kinds, and whether one is *)
Count(q, kinds) == Cardinality({i \in 1..Len(q) : q[i] \in kinds})
Has(q, e) == \E i \in 1..Len(q) : q[i] = e

(* The caller has still to be told of the end, and may be told a good one *)
UnderWay == call.at \in {"invoking", "using", "busy"}
Running == UnderWay /\ fut.state \in {"pending", "open"}

CallTypes ==
    /\ feed \in Feeds /\ size \in 0..MaxItems
    /\ call \in Calls /\ fut \in Futures /\ stream \in ChunkStreams
    /\ gen \in {"none", "live", "leaving", "grace", "waiting", "closed"}
    /\ pump \in Pumps /\ input \in Inputs /\ got \in Nat
    /\ link \in [up : BOOLEAN, epoch : 1..MaxEpochs]
    /\ inbox \in Seq(Answer \cup Chunk) /\ server \in Servers

(* Nothing has happened before the call *)
Unused ==
    call.at = "idle" =>
        /\ fut.state = "none" /\ pump.state = "none" /\ ~pump.cancel /\ ~pump.noticed
        /\ ~stream.open /\ stream.queue = <<>> /\ stream.error = "none"
        /\ inbox = <<>> /\ server.closed = "no" /\ server.items = 0 /\ got = 0

(* Where the caller, the request, the generator and the pump stand *)
CallerStands ==
    /\ call.at # "idle" => fut.state # "none"
    /\ fut.noticed => FutDone
    /\ call.at \notin {"idle", "invoking"} => fut.noticed
    /\ call.at \in {"using", "busy", "leaving"} => fut.state = "open"
    /\ call.at = "joining" => fut.state = "content"
    /\ call.at = "dropping" => ~Alive(pump) \/ pump.cancel
    /\ call.at \in {"idle", "invoking", "joining", "dropping"} => gen = "none"
    /\ call.at \in {"using", "busy"} => gen = "live"
    /\ call.at \in {"using", "busy", "leaving", "done"} => ~Alive(pump) \/ pump.attached
    /\ pump.attached => call.at \notin {"idle", "invoking"}
    /\ call.outcome = "ok" => call.at \in {"leaving", "done"}

(* A pump that still works has an open stream, or is about to be stopped,   *)
(* or its server has ended the call                                         *)
PumpStands ==
    /\ pump.state = "sourcing" => feed = "source"
    /\ pump.state = "cancelled" => pump.cancel
    /\ pump.noticed => ~stream.open
    /\ Alive(pump) \/ pump.state = "none" => ~Has(server.heard, "end")
    /\ Alive(pump) /\ server.closed = "no" /\ ~stream.open =>
        \/ pump.cancel
        \/ call.at = "invoking" /\ fut.state \notin {"none", "pending", "open"}
    /\ pump.cancel /\ Running => ~stream.open /\ stream.error # "none"

(* The stream is of the first connection, and so is the request, and so is  *)
(* a pump whose server has not ended the call unless it was overtaken       *)
LinkStands ==
    /\ ~link.up \/ link.epoch > 1 => ~stream.open /\ fut.state # "pending"
    /\ link.epoch > 1 => call.at # "invoking"
    /\ link.epoch > 1 => ~Alive(pump) \/ server.closed # "no" \/ Overtaken
    /\ server.foreign => link.epoch > 1
    /\ server.foreign => server.closed # "no" \/ Overtaken

(* What the server sends last is the end it gives the call *)
EndsLast ==
    /\ \A i \in 1..Len(inbox) :
        /\ inbox[i] \in {<<"chunk", "close">>, <<"chunk", "abort">>} =>
            i = Len(inbox) /\ server.closed \in {"normal", "failed"}
        /\ inbox[i] \in {<<"chunk", "error">>, <<"chunk", "abort">>} => server.closed = "failed"
        /\ inbox[i] = <<"answer", "content">> => server.closed # "no"
    /\ fut.state = "content" => server.closed # "no"

(* The end of a stream is the last item of its queue, and the content or    *)
(* the close that ended it the one before                                   *)
QueueEnds ==
    /\ \A i \in 1..Len(stream.queue) :
        /\ stream.open => stream.queue[i] \in {"item", "error"}
        /\ stream.queue[i] = "end" => i = Len(stream.queue)
        /\ stream.queue[i] \in {"close", "content"} => i + 1 = Len(stream.queue)
        /\ stream.queue[i] = "close" => stream.error = "none"

(* What the server has sent is on its way, in the queue, or given *)
ItemsDue == Count(stream.queue, {"item"}) + Count(inbox, {<<"chunk", "item">>})
ErrorsDue == Count(stream.queue, {"error"}) + Count(inbox, {<<"chunk", "error">>})
Failure == IF server.closed = "failed" THEN 1 ELSE 0
FailureDue == IF Has(inbox, <<"chunk", "close">>) THEN Failure ELSE 0

Owed ==
    stream.open =>
        /\ feed \in Raw => got + ItemsDue + ErrorsDue = server.items + FailureDue
        /\ feed \notin Raw /\ UnderWay =>
            /\ got + ItemsDue = server.items
            /\ feed # "download" => ErrorsDue = FailureDue

(* A stream that ended well holds the rest of it *)
EndedWell ==
    Running /\ ~stream.open /\ stream.error = "none" =>
        /\ server.closed \in {"normal", "failed"}
        /\ stream.queue # <<>> /\ stream.queue[Len(stream.queue)] = "end"
        /\ feed \in Raw => got + Count(stream.queue, {"item"}) + Count(stream.queue, {"error"})
                           = server.items + Failure
        /\ feed \notin Raw =>
            /\ Len(stream.queue) > 1 /\ stream.queue[Len(stream.queue) - 1] = "close"
            /\ got + Count(stream.queue, {"item"}) = server.items
            /\ feed # "download" => Count(stream.queue, {"error"}) = Failure

(* A reader has asked for one chunk more than its user was given, or will   *)
One(p) == IF p THEN 1 ELSE 0
Pulls(i) == IF i.closed THEN 0 ELSE i.pulls
ReaderAsks ==
    /\ feed \in {"download", "read"} /\ ~Has(server.heard, "end") =>
        Len(server.heard) + Pulls(input) + One(call.at = "busy")
            + One(pump.state \in {"none", "starting"}) + One(feed = "read" /\ gen = "none")
        <= got + 1 + One(feed = "read")
    /\ OneAhead

(* What an upload has given has reached the server, and it is ended well    *)
(* after the whole of it                                                    *)
SourceSent ==
    feed = "source" =>
        /\ input.closed => call.at = "done"
        /\ (Alive(pump) \/ pump.state = "none") /\ link.epoch = 1 => Data = input.given
        /\ pump.state = "ended" /\ Has(server.heard, "end") /\ UnderWay =>
            input.exhausted /\ Data = input.given
        /\ server.closed = "normal" => Has(server.heard, "end")
        /\ server.closed = "normal" /\ Running /\ (stream.open \/ stream.error = "none") =>
            input.exhausted /\ Data = input.given

CallInv ==
    /\ CallTypes /\ Unused /\ CallerStands /\ PumpStands /\ LinkStands /\ EndsLast
    /\ QueueEnds /\ Owed /\ EndedWell /\ ReaderAsks /\ SourceSent /\ EndIsHonest

-----------------------------------------------------------------------------
(* Queues: an element is added at one end and taken from the other         *)

LEMMA CountType ==
    ASSUME NEW S, NEW q \in Seq(S), NEW kinds
    PROVE  Count(q, kinds) \in Nat
<1> DEFINE here == {i \in 1..Len(q) : q[i] \in kinds}
<1>1. IsFiniteSet(1..Len(q))
  BY FS_Interval
<1>2. IsFiniteSet(here)
  BY <1>1, FS_Subset
<1> QED
  BY <1>2, FS_CardinalityType DEF Count

LEMMA CountNone ==
    ASSUME NEW q, NEW kinds, \A i \in 1..Len(q) : q[i] \notin kinds
    PROVE  Count(q, kinds) = 0
<1>1. {i \in 1..Len(q) : q[i] \in kinds} = {}
  OBVIOUS
<1> QED
  BY <1>1, FS_EmptySet DEF Count

LEMMA AddedCount ==
    ASSUME NEW S, NEW q \in Seq(S), NEW x \in S, NEW kinds
    PROVE  Count(Append(q, x), kinds) = Count(q, kinds) + One(x \in kinds)
<1> DEFINE longer == Append(q, x)
           before == {i \in 1..Len(q) : q[i] \in kinds}
           after == {i \in 1..Len(longer) : longer[i] \in kinds}
<1>1. /\ Len(longer) = Len(q) + 1 /\ Len(q) \in Nat
      /\ \A i \in 1..Len(q) : longer[i] = q[i]
      /\ longer[Len(q) + 1] = x
  OBVIOUS
<1>2. IsFiniteSet(before)
  <2>1. IsFiniteSet(1..Len(q)) /\ before \in SUBSET (1..Len(q))
    BY <1>1, FS_Interval
  <2> QED
    BY <2>1, FS_Subset
<1>3. CASE x \in kinds
  <2>1. after = before \cup {Len(q) + 1} /\ Len(q) + 1 \notin before
    BY <1>1, <1>3
  <2>2. Cardinality(after) = Cardinality(before) + 1
    BY <1>2, <2>1, FS_AddElement
  <2> QED
    BY <1>3, <2>2 DEF Count, One
<1>4. CASE x \notin kinds
  <2>1. after = before
    BY <1>1, <1>4
  <2>2. /\ Count(longer, kinds) = Cardinality(after)
        /\ Count(q, kinds) = Cardinality(before) /\ Count(q, kinds) \in Nat
    BY CountType DEF Count
  <2> HIDE DEF longer, before, after
  <2>3. Count(longer, kinds) = Count(q, kinds) + One(x \in kinds)
    BY <1>4, <2>1, <2>2 DEF One
  <2> QED
    BY <2>3 DEF longer
<1> QED
  BY <1>3, <1>4

LEMMA TakenCount ==
    ASSUME NEW S, NEW q \in Seq(S), q # <<>>, NEW kinds
    PROVE  Count(q, kinds) = Count(Tail(q), kinds) + One(Head(q) \in kinds)
<1> DEFINE rest == Tail(q)
           all == {i \in 1..Len(q) : q[i] \in kinds}
           behind == {i \in 2..Len(q) : q[i] \in kinds}
           others == {i \in 1..Len(rest) : rest[i] \in kinds}
<1>1. /\ Len(q) \in Nat /\ Len(q) >= 1 /\ Len(rest) = Len(q) - 1
      /\ \A i \in 1..Len(rest) : rest[i] = q[i + 1]
      /\ Head(q) = q[1]
  OBVIOUS
<1>2. IsFiniteSet(others) /\ IsFiniteSet(behind)
  <2>1. /\ IsFiniteSet(1..Len(rest)) /\ others \in SUBSET (1..Len(rest))
        /\ IsFiniteSet(2..Len(q)) /\ behind \in SUBSET (2..Len(q))
    BY <1>1, FS_Interval
  <2> QED
    BY <2>1, FS_Subset
<1>3. Cardinality(behind) = Cardinality(others)
  <2> DEFINE next == [i \in others |-> i + 1]
  <2>1. next \in Bijection(others, behind)
    <3>1. next \in [others -> behind]
      BY <1>1
    <3>2. \A i, j \in others : next[i] = next[j] => i = j
      OBVIOUS
    <3>3. \A j \in behind : \E i \in others : next[i] = j
      <4> SUFFICES ASSUME NEW j \in behind PROVE \E i \in others : next[i] = j
        OBVIOUS
      <4>1. j - 1 \in others /\ next[j - 1] = j
        BY <1>1
      <4> QED
        BY <4>1
    <3> QED
      BY <3>1, <3>2, <3>3 DEF Bijection, Injection, Surjection, IsInjective
  <2>2. ExistsBijection(others, behind)
    BY <2>1 DEF ExistsBijection
  <2> HIDE DEF rest, others, behind
  <2> QED
    BY <1>2, <2>2, FS_Bijection
<1>4. CASE Head(q) \in kinds
  <2>1. all = behind \cup {1} /\ 1 \notin behind
    BY <1>1, <1>4
  <2>2. Cardinality(all) = Cardinality(behind) + 1
    BY <1>2, <2>1, FS_AddElement
  <2> QED
    BY <1>3, <1>4, <2>2 DEF Count, One
<1>5. CASE Head(q) \notin kinds
  <2>1. all = behind
    BY <1>1, <1>5
  <2>2. Cardinality(others) \in Nat
    BY <1>2, FS_CardinalityType
  <2>3. Count(q, kinds) = Cardinality(all) /\ Count(rest, kinds) = Cardinality(others)
    BY DEF Count
  <2> HIDE DEF rest, all, behind, others
  <2>4. Count(q, kinds) = Count(rest, kinds) + One(Head(q) \in kinds)
    BY <1>3, <1>5, <2>1, <2>2, <2>3 DEF One
  <2> QED
    BY <2>4 DEF rest
<1> QED
  BY <1>4, <1>5

(* What a queue is like once an element is added, or the first one taken *)
AddsTo(q, r, x) ==
    /\ Len(q) \in Nat /\ Len(r) = Len(q) + 1
    /\ \A i \in 1..Len(q) : r[i] = q[i]
    /\ r[Len(r)] = x
    /\ \A e : Has(r, e) <=> Has(q, e) \/ x = e
    /\ \A kinds : Count(q, kinds) \in Nat /\ Count(r, kinds) = Count(q, kinds) + One(x \in kinds)

TakesFrom(q, r) ==
    /\ Len(q) \in Nat \ {0} /\ Len(r) = Len(q) - 1 /\ Head(q) = q[1]
    /\ \A i \in 1..Len(r) : r[i] = q[i + 1]
    /\ \A e : Has(q, e) <=> Has(r, e) \/ Head(q) = e
    /\ \A kinds : Count(r, kinds) \in Nat
                  /\ Count(q, kinds) = Count(r, kinds) + One(Head(q) \in kinds)

LEMMA Adds ==
    ASSUME NEW S, NEW q \in Seq(S), NEW x \in S
    PROVE  Append(q, x) \in Seq(S) /\ AddsTo(q, Append(q, x), x)
<1> DEFINE r == Append(q, x)
<1>1. /\ Len(q) \in Nat /\ Len(r) = Len(q) + 1 /\ r \in Seq(S)
      /\ \A i \in 1..Len(q) : r[i] = q[i]
      /\ r[Len(r)] = x
  OBVIOUS
<1>2. \A kinds : Count(q, kinds) \in Nat /\ Count(r, kinds) = Count(q, kinds) + One(x \in kinds)
  BY CountType, AddedCount
<1> HIDE DEF r
<1>3. \A e : Has(r, e) <=> Has(q, e) \/ x = e
  <2>1. ASSUME NEW e, Has(r, e) PROVE Has(q, e) \/ x = e
    <3>1. PICK i \in 1..Len(r) : r[i] = e
      BY <2>1 DEF Has
    <3>2. i \in 1..Len(q) \/ i = Len(r)
      BY <1>1
    <3> QED
      BY <1>1, <3>1, <3>2 DEF Has
  <2>2. ASSUME NEW e, Has(q, e) PROVE Has(r, e)
    <3>1. PICK i \in 1..Len(q) : q[i] = e
      BY <2>2 DEF Has
    <3>2. i \in 1..Len(r) /\ r[i] = e
      BY <1>1, <3>1
    <3> QED
      BY <3>2 DEF Has
  <2>3. Len(r) \in 1..Len(r)
    BY <1>1
  <2>4. Has(r, x)
    BY <1>1, <2>3 DEF Has
  <2> QED
    BY <2>1, <2>2, <2>4
<1>4. AddsTo(q, r, x)
  BY <1>1, <1>2, <1>3 DEF AddsTo
<1> QED
  BY <1>1, <1>4 DEF r

LEMMA Takes ==
    ASSUME NEW S, NEW q \in Seq(S), q # <<>>
    PROVE  Tail(q) \in Seq(S) /\ Head(q) \in S /\ TakesFrom(q, Tail(q))
<1> DEFINE r == Tail(q)
<1>1. /\ Len(q) \in Nat \ {0} /\ Len(r) = Len(q) - 1 /\ r \in Seq(S)
      /\ Head(q) = q[1] /\ Head(q) \in S
      /\ \A i \in 1..Len(r) : r[i] = q[i + 1]
  OBVIOUS
<1>2. \A kinds : Count(r, kinds) \in Nat
                 /\ Count(q, kinds) = Count(r, kinds) + One(Head(q) \in kinds)
  BY <1>1, CountType, TakenCount
<1> HIDE DEF r
<1>3. \A e : Has(q, e) <=> Has(r, e) \/ Head(q) = e
  <2>1. ASSUME NEW e, Has(q, e) PROVE Has(r, e) \/ Head(q) = e
    <3>1. PICK i \in 1..Len(q) : q[i] = e
      BY <2>1 DEF Has
    <3>2. CASE i = 1
      BY <1>1, <3>1, <3>2
    <3>3. CASE i # 1
      <4>1. i - 1 \in 1..Len(r) /\ r[i - 1] = e
        BY <1>1, <3>1, <3>3
      <4> QED
        BY <4>1 DEF Has
    <3> QED
      BY <3>2, <3>3
  <2>2. ASSUME NEW e, Has(r, e) PROVE Has(q, e)
    <3>1. PICK i \in 1..Len(r) : r[i] = e
      BY <2>2 DEF Has
    <3>2. i + 1 \in 1..Len(q) /\ q[i + 1] = e
      BY <1>1, <3>1
    <3> QED
      BY <3>2 DEF Has
  <2>3. 1 \in 1..Len(q)
    BY <1>1
  <2>4. Has(q, Head(q))
    BY <1>1, <2>3 DEF Has
  <2> QED
    BY <2>1, <2>2, <2>4
<1>4. TakesFrom(q, r)
  BY <1>1, <1>2, <1>3 DEF TakesFrom
<1> QED
  BY <1>1, <1>4 DEF r

LEMMA EmptyQueue ==
    /\ Len(<<>>) = 0 /\ \A e : ~Has(<<>>, e) /\ \A kinds : Count(<<>>, kinds) = 0
BY CountNone DEF Has

LEMMA Joined ==
    ASSUME NEW S, NEW q \in Seq(S), NEW x \in S, NEW y \in S
    PROVE  /\ q \o <<x, y>> = Append(Append(q, x), y)
           /\ (q \o <<x>>) \o <<y>> = Append(Append(q, x), y)
           /\ (q \o <<>>) \o <<y>> = Append(q, y)
OBVIOUS

-----------------------------------------------------------------------------
(* What the pump does                                                      *)

Kinds == {"start", "data", "pull", "end"}

(* The server hears a chunk of this kind, if it is one of its connection *)
Told(kind) ==
    /\ server' \in Servers
    /\ server'.answered = server.answered /\ server'.closed = server.closed
    /\ server'.items = server.items
    /\ kind = "nothing" => server' = server
    /\ kind # "nothing" /\ link.epoch = 1 => AddsTo(server.heard, server'.heard, kind)
                                             /\ server'.foreign = server.foreign
    /\ kind # "nothing" /\ link.epoch # 1 => server'.heard = server.heard /\ server'.foreign

LEMMA Hears ==
    ASSUME CallTypes, NEW kind \in Kinds, Hear(kind)
    PROVE  Told(kind)
<1>1. server \in Servers /\ server.heard \in Seq(Kinds)
  BY DEF CallTypes, Servers, Kinds
<1>2. CASE link.epoch = 1
  <2>1. server' = [server EXCEPT !.heard = Append(server.heard, kind)]
    BY <1>2 DEF Hear
  <2>2. /\ Append(server.heard, kind) \in Seq(Kinds)
        /\ AddsTo(server.heard, Append(server.heard, kind), kind)
    BY <1>1, Adds
  <2> QED
    BY <1>1, <1>2, <2>1, <2>2 DEF Told, Servers, Kinds
<1>3. CASE link.epoch # 1
  <2>1. server' = [server EXCEPT !.foreign = TRUE]
    BY <1>3 DEF Hear
  <2> QED
    BY <1>1, <1>3, <2>1 DEF Told, Servers, Kinds
<1> QED
  BY <1>2, <1>3

LEMMA Untold ==
    ASSUME CallTypes, UNCHANGED server
    PROVE  Told("nothing")
BY DEF Told, CallTypes

LEMMA HeardIs ==
    ASSUME NEW S, NEW q \in Seq(S)
    PROVE  /\ \A e : (\E i \in DOMAIN q : q[i] = e) <=> Has(q, e)
           /\ Cardinality({i \in DOMAIN q : q[i] = "data"}) = Count(q, {"data"})
<1>1. DOMAIN q = 1..Len(q)
  OBVIOUS
<1>2. {i \in DOMAIN q : q[i] = "data"} = {i \in 1..Len(q) : q[i] \in {"data"}}
  BY <1>1
<1> QED
  BY <1>1, <1>2 DEF Has, Count

(* A step that leaves the stream and what the server sent as they were, and *)
(* no caller closer to a good end                                           *)
LEMMA StreamStays ==
    ASSUME CallInv, UNCHANGED <<feed, stream, got, inbox>>,
           server'.items = server.items, server'.closed = server.closed,
           UnderWay' => UnderWay, Running' => Running,
           fut'.state = "content" => fut.state = "content"
    PROVE  EndsLast' /\ QueueEnds' /\ Owed' /\ EndedWell'
<1>1. EndsLast'
  BY DEF CallInv, EndsLast
<1>2. QueueEnds'
  BY DEF CallInv, QueueEnds
<1>3. Owed'
  BY DEF CallInv, Owed, ItemsDue, ErrorsDue, FailureDue, Failure
<1>4. EndedWell'
  BY DEF CallInv, EndedWell, Failure
<1> QED
  BY <1>1, <1>2, <1>3, <1>4

LEMMA HonestStays ==
    ASSUME CallInv, UNCHANGED <<feed, size, got>>,
           server'.items = server.items, server'.closed = server.closed,
           call'.outcome = "ok" => call.outcome = "ok",
           feed = "source" /\ call.outcome = "ok" =>
               input'.exhausted = input.exhausted /\ input'.given = input.given
               /\ server'.heard = server.heard
    PROVE  EndIsHonest'
BY DEF CallInv, EndIsHonest, Data

(* A step of the pump that goes to `at` and tells the server of a chunk, or *)
(* of nothing                                                               *)
LEMMA PumpKeeps ==
    ASSUME CallInv, Alive(pump),
           UNCHANGED <<feed, size, call, fut, stream, gen, got, link, inbox>>,
           NEW at \in {"waiting", "sourcing", "ended", "failed", "cancelled"},
           NEW kind \in Kinds \cup {"nothing"},
           pump' = [pump EXCEPT !.state = at], Told(kind),
           kind = "end" => at \notin {"waiting", "sourcing"},
           at = "sourcing" => feed = "source", at = "cancelled" => pump.cancel,
           input' \in Inputs, input'.closed = input.closed, input'.pulls <= input.pulls,
           feed \in {"download", "read"} =>
               \/ kind = "start" /\ pump.state = "starting"
               \/ kind = "pull" /\ input'.pulls = input.pulls - 1 /\ ~input.closed
               \/ kind \in {"end", "nothing"},
           feed = "source" /\ at \in {"waiting", "sourcing", "ended"} =>
               input'.given = input.given + One(kind = "data"),
           feed = "source" /\ at = "ended" => input'.exhausted \/ input.closed
    PROVE  CallInv'
<1>1. /\ pump \in Pumps /\ pump' \in Pumps /\ pump'.state = at /\ ~pump.noticed = ~pump'.noticed
      /\ pump'.cancel = pump.cancel /\ pump'.attached = pump.attached
      /\ pump'.noticed = pump.noticed
      /\ Alive(pump') <=> at \in {"waiting", "sourcing"}
      /\ pump'.state # "none" /\ pump.state # "none"
      /\ server \in Servers /\ server' \in Servers
      /\ server'.closed = server.closed /\ server'.items = server.items
      /\ input \in Inputs /\ CallTypes
  BY DEF CallInv, CallTypes, Pumps, Alive, Told
<1>2. ~Has(server.heard, "end") /\ call.at # "idle"
  BY <1>1 DEF CallInv, PumpStands, Unused, Alive
<1>3. CallTypes'
  BY <1>1 DEF CallTypes
<1>4. Unused'
  BY <1>2 DEF Unused
<1>5. CallerStands'
  BY <1>1 DEF CallInv, CallerStands, FutDone
<1>6. /\ Has(server'.heard, "end") => kind = "end" /\ link.epoch = 1
      /\ Data = Count(server.heard, {"data"}) /\ Data' = Count(server'.heard, {"data"})
      /\ kind # "nothing" /\ link.epoch = 1 =>
            /\ Data \in Nat /\ Data' = Data + One(kind = "data")
            /\ Len(server.heard) \in Nat /\ Len(server'.heard) = Len(server.heard) + 1
      /\ kind = "nothing" \/ link.epoch # 1 => server'.heard = server.heard
      /\ Len(server.heard) \in Nat
  <2>1. server.heard \in Seq(Kinds) /\ server'.heard \in Seq(Kinds)
    BY <1>1 DEF Servers, Kinds
  <2>2. Data = Count(server.heard, {"data"}) /\ Data' = Count(server'.heard, {"data"})
    BY <2>1, HeardIs DEF Data
  <2>3. Len(server.heard) \in Nat
    BY <2>1
  <2>4. One(kind \in {"data"}) = One(kind = "data")
    BY DEF One
  <2> QED
    BY <1>2, <2>2, <2>3, <2>4 DEF Told, AddsTo
<1>7. PumpStands'
  BY <1>1, <1>2, <1>6 DEF CallInv, PumpStands, Running, UnderWay
<1>8. LinkStands'
  <2>1. Overtaken' <=> Overtaken
    BY <1>1 DEF Overtaken
  <2>2. link.epoch # 1 => server.closed # "no" \/ Overtaken
    BY DEF CallInv, CallTypes, LinkStands
  <2>3. server'.foreign => server.foreign \/ link.epoch # 1
    BY DEF Told
  <2>4. link.epoch # 1 <=> link.epoch > 1
    BY <1>1 DEF CallTypes
  <2> QED
    BY <1>1, <2>1, <2>2, <2>3, <2>4 DEF CallInv, LinkStands
<1>9. EndsLast' /\ QueueEnds' /\ Owed' /\ EndedWell'
  BY <1>1, StreamStays DEF UnderWay, Running
<1>10. ReaderAsks'
  <2>1. got \in Nat /\ input.pulls \in Nat /\ input'.pulls \in Nat
    BY <1>1 DEF CallTypes, Inputs
  <2>2. OneAhead'
    BY <1>1 DEF CallInv, ReaderAsks, OneAhead
  <2>3. ASSUME feed \in {"download", "read"}, ~Has(server'.heard, "end")
        PROVE  Len(server'.heard) + Pulls(input')
                   + One(call.at = "busy") + 0 + One(feed = "read" /\ gen = "none")
               <= got + 1 + One(feed = "read")
    <3>1. Len(server.heard) + Pulls(input)
              + One(call.at = "busy") + One(pump.state \in {"none", "starting"})
              + One(feed = "read" /\ gen = "none")
          <= got + 1 + One(feed = "read")
      BY <1>2, <2>3 DEF CallInv, ReaderAsks
    <3>2. kind = "end" => link.epoch # 1
      <4>1. kind = "end" /\ link.epoch = 1 => Has(server'.heard, "end")
        BY DEF Told, AddsTo
      <4> QED
        BY <2>3, <4>1
    <3> DEFINE asked == Len(server.heard)
               heard == Len(server'.heard)
               pulls == Pulls(input)
               left == Pulls(input')
               busy == One(call.at = "busy")
               start == One(pump.state \in {"none", "starting"})
               first == One(feed = "read" /\ gen = "none")
               more == One(feed = "read")
    <3>3. /\ busy \in Nat /\ first \in Nat /\ more \in Nat /\ start \in Nat
          /\ pump.state = "starting" => start = 1
      BY DEF One
    <3>4. /\ asked \in Nat /\ pulls \in Nat /\ left \in Nat /\ left <= pulls
          /\ asked + pulls + busy + start + first <= got + 1 + more
      BY <1>6, <2>1, <3>1 DEF Pulls
    <3>5. \/ heard = asked
          \/ heard = asked + 1 /\ (pump.state = "starting" \/ left = pulls - 1)
      BY <1>6, <2>1, <2>3, <3>2 DEF Pulls
    <3> HIDE DEF asked, heard, pulls, left, busy, start, first, more
    <3>6. heard + left <= asked + pulls + start
      BY <3>3, <3>4, <3>5
    <3>7. heard \in Nat
      BY <3>4, <3>5
    <3>8. heard + left + busy + 0 + first <= got + 1 + more
      BY <2>1, <3>3, <3>4, <3>6, <3>7
    <3> QED
      BY <3>8 DEF heard, left, busy, first, more
  <2>4. One(pump'.state \in {"none", "starting"}) = 0
    BY <1>1 DEF One
  <2> QED
    BY <2>2, <2>3, <2>4 DEF ReaderAsks
<1>11. SourceSent'
  <2> SUFFICES ASSUME feed = "source" PROVE SourceSent'
    BY DEF SourceSent
  <2>1. input.given \in Nat /\ input'.given \in Nat
    <3>1. input.given \in 0..MaxFeed /\ input'.given \in 0..MaxFeed
      BY <1>1 DEF Inputs
    <3> QED
      BY <3>1
  <2>2. link.epoch = 1 => Data = input.given
    BY DEF CallInv, SourceSent
  <2>3. link.epoch = 1 /\ at \in {"waiting", "sourcing", "ended"} => Data' = input'.given
    BY <1>6, <2>1, <2>2 DEF One, Told
  <2>4. input.closed => call.at = "done"
    BY DEF CallInv, SourceSent
  <2>5. server.closed # "normal"
    BY <1>2 DEF CallInv, SourceSent
  <2> QED
    BY <1>1, <1>6, <2>3, <2>4, <2>5 DEF SourceSent, UnderWay
<1>12. EndIsHonest'
  <2>1. feed = "source" => call.outcome # "ok"
    BY <1>2 DEF CallInv, SourceSent, EndIsHonest, Raw
  <2> QED
    BY <1>1, <2>1, HonestStays
<1> QED
  BY <1>3, <1>4, <1>5, <1>7, <1>8, <1>9, <1>10, <1>11, <1>12 DEF CallInv

LEMMA ChunkSent ==
    ASSUME CallTypes, NEW kind \in Kinds, NEW then, PumpSends(kind, then)
    PROVE  \/ link.up /\ pump' = [pump EXCEPT !.state = then] /\ Told(kind)
           \/ ~link.up /\ pump' = [pump EXCEPT !.state = "failed"] /\ Told("nothing")
<1>1. CASE link.up
  <2>1. Hear(kind) /\ pump' = [pump EXCEPT !.state = then]
    BY <1>1 DEF PumpSends
  <2> QED
    BY <1>1, <2>1, Hears
<1>2. CASE ~link.up
  BY <1>2, Untold DEF PumpSends
<1> QED
  BY <1>1, <1>2

LEMMA EndSent ==
    ASSUME CallTypes, NEW how, PumpStops(how)
    PROVE  \/ link.up /\ pump' = [pump EXCEPT !.state = how] /\ Told("end")
           \/ ~link.up /\ pump' = [pump EXCEPT !.state = "failed"] /\ Told("nothing")
<1>1. CASE link.up
  <2>1. Hear("end") /\ pump' = [pump EXCEPT !.state = how]
    BY <1>1 DEF PumpStops
  <2> QED
    BY <1>1, <2>1, Hears DEF Kinds
<1>2. CASE ~link.up
  BY <1>2, Untold DEF PumpStops
<1> QED
  BY <1>1, <1>2

LEMMA PumpStartKeeps == CallInv /\ PumpStart => CallInv'
<1> SUFFICES ASSUME CallInv, PumpStart PROVE CallInv'
  OBVIOUS
<1>1. /\ Alive(pump) /\ pump.state = "starting" /\ CallTypes /\ input \in Inputs
      /\ UNCHANGED <<feed, size, call, fut, stream, gen, got, link, inbox, input>>
      /\ input.pulls \in Nat /\ input.given \in Nat
  <2>1. CallTypes /\ input \in Inputs
    BY DEF CallInv, CallTypes
  <2>2. input.given \in 0..MaxFeed
    BY <2>1 DEF Inputs
  <2> QED
    BY <2>1, <2>2 DEF PumpStart, Pumping, Alive, Inputs
<1>2. PICK at \in {"waiting", "failed"}, kind \in {"start", "nothing"} :
        pump' = [pump EXCEPT !.state = at] /\ Told(kind)
  <2>1. CASE feed = "free"
    BY <1>1, <2>1, Untold DEF PumpStart
  <2>2. CASE feed # "free"
    BY <1>1, <2>2, ChunkSent DEF PumpStart, Kinds
  <2> QED
    BY <2>1, <2>2
<1>3. One(kind = "data") = 0
  BY DEF One
<1> QED
  BY <1>1, <1>2, <1>3, PumpKeeps DEF Kinds

LEMMA PumpPulledKeeps == CallInv /\ PumpPulled => CallInv'
<1> SUFFICES ASSUME CallInv, PumpPulled PROVE CallInv'
  OBVIOUS
<1>1. /\ Alive(pump) /\ CallTypes /\ input \in Inputs
      /\ UNCHANGED <<feed, size, call, fut, stream, gen, got, link, inbox>>
      /\ input.pulls \in Nat /\ input.given \in Nat
      /\ input' \in Inputs /\ input'.closed = input.closed /\ input'.given = input.given
      /\ input'.pulls = input.pulls - 1 /\ input'.pulls <= input.pulls
  <2>1. CallTypes /\ input \in Inputs
    BY DEF CallInv, CallTypes
  <2>2. input.given \in 0..MaxFeed
    BY <2>1 DEF Inputs
  <2> QED
    BY <2>1, <2>2 DEF PumpPulled, Pumping, Alive, Inputs
<1>2. PICK at \in {"waiting", "sourcing", "ended", "failed"}, kind \in {"pull", "end", "nothing"} :
        /\ pump' = [pump EXCEPT !.state = at] /\ Told(kind)
        /\ at = "sourcing" => feed = "source"
        /\ kind = "end" => at = "ended"
        /\ kind = "pull" => ~input.closed
        /\ at = "ended" => input.closed
  <2>1. CASE input.closed
    BY <1>1, <2>1, EndSent DEF PumpPulled
  <2>2. CASE ~input.closed /\ feed = "source"
    BY <1>1, <2>2, Untold DEF PumpPulled
  <2>3. CASE ~input.closed /\ feed # "source"
    <3>1. PumpSends("pull", "waiting")
      BY <2>3 DEF PumpPulled
    <3> QED
      BY <1>1, <2>3, <3>1, ChunkSent DEF Kinds
  <2> QED
    BY <2>1, <2>2, <2>3
<1>3. One(kind = "data") = 0
  BY DEF One
<1> QED
  BY <1>1, <1>2, <1>3, PumpKeeps DEF Kinds

LEMMA GiveKeeps == CallInv /\ Give => CallInv'
<1> SUFFICES ASSUME CallInv, Give PROVE CallInv'
  OBVIOUS
<1>1. /\ Alive(pump) /\ CallTypes /\ input \in Inputs /\ feed \notin {"download", "read"}
      /\ UNCHANGED <<feed, size, call, fut, stream, gen, got, link, inbox>>
      /\ input.pulls \in Nat /\ input' \in Inputs /\ input'.closed = input.closed
      /\ input'.pulls = input.pulls /\ input'.given = input.given + 1
  <2>1. CallTypes /\ input \in Inputs /\ (pump.state = "sourcing" => feed = "source")
    BY DEF CallInv, CallTypes, PumpStands
  <2>2. /\ input.given \in 0..MaxFeed /\ input.given < MaxFeed
        /\ input' = [input EXCEPT !.given = @ + 1]
    BY <2>1 DEF Inputs, Give
  <2>3. input.given + 1 \in 0..MaxFeed
    BY <2>2, ToolCallAssumption
  <2>4. /\ input.pulls \in Nat /\ input' \in Inputs /\ input'.closed = input.closed
        /\ input'.pulls = input.pulls /\ input'.given = input.given + 1
    BY <2>1, <2>2, <2>3 DEF Inputs
  <2> QED
    BY <2>1, <2>4 DEF Give, MayGive, Pumping, Alive
<1>2. PICK at \in {"waiting", "failed"}, kind \in {"data", "nothing"} :
        /\ pump' = [pump EXCEPT !.state = at] /\ Told(kind)
        /\ at = "waiting" => kind = "data"
  BY <1>1, ChunkSent DEF Give, Kinds
<1>3. at = "waiting" => One(kind = "data") = 1
  BY <1>2 DEF One
<1> QED
  BY <1>1, <1>2, <1>3, PumpKeeps DEF Kinds

(* The pump stops, whatever stopped it *)
LEMMA StopKeeps ==
    ASSUME CallInv, Alive(pump), NEW how \in {"ended", "failed", "cancelled"}, PumpStops(how),
           UNCHANGED <<feed, size, call, fut, stream, gen, got, link, inbox>>,
           input' = input \/ input' = [input EXCEPT !.exhausted = TRUE],
           how = "ended" => input' = [input EXCEPT !.exhausted = TRUE],
           how = "cancelled" => pump.cancel
    PROVE  CallInv'
<1>1. /\ CallTypes /\ input' \in Inputs /\ input'.closed = input.closed
      /\ input'.pulls = input.pulls /\ input'.pulls <= input.pulls
      /\ input'.given = input.given /\ input.given \in Nat
      /\ how = "ended" => input'.exhausted
  <2>1. CallTypes /\ input \in Inputs
    BY DEF CallInv, CallTypes
  <2>2. /\ input.given \in 0..MaxFeed /\ input.pulls \in Nat
        /\ [input EXCEPT !.exhausted = TRUE] \in Inputs
    BY <2>1 DEF Inputs
  <2>3. /\ input'.closed = input.closed /\ input'.given = input.given
        /\ input'.pulls = input.pulls /\ (how = "ended" => input'.exhausted)
    BY <2>1 DEF Inputs
  <2>4. input.given \in Nat /\ input'.pulls <= input.pulls
    BY <2>2, <2>3
  <2>5. input' \in Inputs
    BY <2>1, <2>2
  <2> QED
    BY <2>1, <2>3, <2>4, <2>5
<1>2. PICK at \in {"ended", "failed", "cancelled"}, kind \in {"end", "nothing"} :
        /\ pump' = [pump EXCEPT !.state = at] /\ Told(kind)
        /\ at \in {how, "failed"}
  BY <1>1, EndSent
<1>3. One(kind = "data") = 0
  BY DEF One
<1> QED
  BY <1>1, <1>2, <1>3, PumpKeeps DEF Kinds

LEMMA SourceEndsKeeps == CallInv /\ SourceEnds => CallInv'
BY StopKeeps DEF SourceEnds, MayGive, Pumping, Alive

LEMMA SourceRaisesKeeps == CallInv /\ SourceRaises => CallInv'
BY StopKeeps DEF SourceRaises, MayGive, Pumping, Alive

LEMMA PumpCancelledKeeps == CallInv /\ PumpCancelled => CallInv'
BY StopKeeps DEF PumpCancelled

-----------------------------------------------------------------------------
(* What the caller does                                                    *)

LEMMA InputCloses ==
    ASSUME NEW i \in Inputs
    PROVE  /\ CloseInput(i) \in Inputs /\ CloseInput(i).closed /\ Pulls(CloseInput(i)) = 0
           /\ CloseInput(i).given = i.given /\ CloseInput(i).exhausted = i.exhausted
<1>1. i.pulls \in Nat /\ i.pulls + 1 \in Nat
  BY DEF Inputs
<1>2. CASE i.closed
  <2>1. CloseInput(i) = i
    BY <1>2 DEF CloseInput
  <2> QED
    BY <1>2, <2>1 DEF Pulls
<1>3. CASE ~i.closed
  <2>1. CloseInput(i) = [i EXCEPT !.closed = TRUE, !.pulls = @ + 1]
    BY <1>3 DEF CloseInput
  <2>2. [i EXCEPT !.closed = TRUE, !.pulls = @ + 1] \in Inputs
    BY <1>1 DEF Inputs
  <2> QED
    BY <2>1, <2>2 DEF Pulls, Inputs
<1> QED
  BY <1>2, <1>3

LEMMA InputAsked ==
    ASSUME NEW i \in Inputs
    PROVE  /\ RequestNext(i) \in Inputs /\ RequestNext(i).closed = i.closed
           /\ Pulls(i) \in Nat /\ Pulls(RequestNext(i)) \in Nat
           /\ Pulls(RequestNext(i)) <= Pulls(i) + 1
           /\ RequestNext(i).given = i.given /\ RequestNext(i).exhausted = i.exhausted
<1>1. i.pulls \in Nat /\ i.closed \in BOOLEAN
  BY DEF Inputs
<1>2. CASE i.closed
  <2>1. RequestNext(i) = i /\ Pulls(i) = 0
    BY <1>2 DEF RequestNext, Pulls
  <2> QED
    BY <2>1
<1>3. CASE ~i.closed
  <2>1. RequestNext(i) = [i EXCEPT !.pulls = @ + 1]
    BY <1>3 DEF RequestNext
  <2>2. /\ [i EXCEPT !.pulls = @ + 1] \in Inputs
        /\ [i EXCEPT !.pulls = @ + 1].pulls = i.pulls + 1
        /\ [i EXCEPT !.pulls = @ + 1].closed = i.closed
        /\ [i EXCEPT !.pulls = @ + 1].given = i.given
        /\ [i EXCEPT !.pulls = @ + 1].exhausted = i.exhausted
    BY <1>1 DEF Inputs
  <2>3. Pulls(i) = i.pulls /\ Pulls(RequestNext(i)) = i.pulls + 1
    BY <1>3, <2>1, <2>2 DEF Pulls
  <2> QED
    BY <1>1, <2>1, <2>2, <2>3
<1> QED
  BY <1>1, <1>2, <1>3

(* What a reader has asked for does not grow *)
LEMMA ReaderStays ==
    ASSUME CallInv, UNCHANGED <<feed, got, server>>, pump'.state = pump.state,
           input' \in Inputs,
           feed \in {"download", "read"} =>
               Pulls(input') + One(call'.at = "busy") + One(feed = "read" /\ gen' = "none")
               <= Pulls(input) + One(call.at = "busy") + One(feed = "read" /\ gen = "none")
    PROVE  ReaderAsks'
<1> DEFINE heard == Len(server.heard)
           asked == Pulls(input) + One(call.at = "busy") + One(feed = "read" /\ gen = "none")
           asking == Pulls(input') + One(call'.at = "busy") + One(feed = "read" /\ gen' = "none")
<1>1. OneAhead'
  BY DEF CallInv, ReaderAsks, OneAhead
<1>2. heard \in Nat /\ got \in Nat /\ input \in Inputs
  BY DEF CallInv, CallTypes, Servers
<1>3. Pulls(input) \in Nat /\ Pulls(input') \in Nat
  BY <1>2 DEF Pulls, Inputs
<1>4. ASSUME feed \in {"download", "read"}, ~Has(server.heard, "end")
      PROVE  heard + Pulls(input') + One(call'.at = "busy")
                 + One(pump.state \in {"none", "starting"}) + One(feed = "read" /\ gen' = "none")
             <= got + 1 + One(feed = "read")
  <2>1. heard + Pulls(input) + One(call.at = "busy")
            + One(pump.state \in {"none", "starting"}) + One(feed = "read" /\ gen = "none")
        <= got + 1 + One(feed = "read")
    BY <1>4 DEF CallInv, ReaderAsks
  <2>2. /\ One(call.at = "busy") \in Nat /\ One(call'.at = "busy") \in Nat
        /\ One(pump.state \in {"none", "starting"}) \in Nat /\ One(feed = "read") \in Nat
        /\ One(feed = "read" /\ gen = "none") \in Nat /\ One(feed = "read" /\ gen' = "none") \in Nat
    BY DEF One
  <2> HIDE DEF heard
  <2> QED
    BY <1>2, <1>3, <1>4, <2>1, <2>2
<1> QED
  BY <1>1, <1>4 DEF ReaderAsks

(* A step of the caller, its generator or its task that leaves the stream   *)
(* as it is                                                                 *)
LEMMA CallerKeeps ==
    ASSUME CallInv, UNCHANGED <<feed, size, stream, got, link, inbox, server>>,
           call' \in Calls, fut' \in Futures, pump' \in Pumps, input' \in Inputs,
           gen' \in {"none", "live", "leaving", "grace", "waiting", "closed"},
           call'.at # "idle",
           UnderWay' => UnderWay, Running' => Running,
           fut'.state \in {"content", "pending"} => fut.state = fut'.state,
           call'.outcome = "ok" => call.outcome = "ok",
           call'.at = "invoking" => call.at = "invoking",
           pump'.state = pump.state, pump.cancel => pump'.cancel,
           call.at # "invoking" => pump'.attached = pump.attached,
           input'.given = input.given, input'.exhausted = input.exhausted,
           feed = "source" => (input'.closed => call'.at = "done")
    PROVE  /\ CallTypes' /\ Unused' /\ LinkStands' /\ EndsLast' /\ QueueEnds' /\ Owed'
           /\ EndedWell' /\ SourceSent' /\ EndIsHonest'
<1>1. CallTypes'
  BY DEF CallInv, CallTypes
<1>2. Unused'
  BY DEF Unused
<1>3. LinkStands'
  <2>1. call.at # "invoking" => (Overtaken => Overtaken')
    BY DEF Overtaken
  <2> QED
    BY <2>1 DEF CallInv, LinkStands, Alive
<1>4. EndsLast' /\ QueueEnds' /\ Owed' /\ EndedWell'
  BY StreamStays
<1>5. SourceSent'
  BY DEF CallInv, SourceSent, Alive, Data
<1>6. EndIsHonest'
  BY HonestStays
<1> QED
  BY <1>1, <1>2, <1>3, <1>4, <1>5, <1>6

LEMMA ResumeOpenKeeps == CallInv /\ ResumeOpen => CallInv'
<1> SUFFICES ASSUME CallInv, ResumeOpen PROVE CallInv'
  OBVIOUS
<1>1. /\ call \in Calls /\ pump \in Pumps /\ fut \in Futures /\ input \in Inputs
      /\ call.at = "invoking" /\ gen = "none" /\ fut.noticed /\ fut.state = "open"
      /\ call.outcome # "ok" /\ ~pump.attached
  BY DEF CallInv, CallTypes, CallerStands, ResumeOpen
<1>2. /\ UNCHANGED <<feed, size, fut, stream, got, link, inbox, server>>
      /\ call' \in Calls /\ call'.at = "using" /\ call'.outcome = call.outcome
      /\ gen' = "live"
  BY <1>1 DEF ResumeOpen, Calls
<1>3. /\ pump' \in Pumps /\ pump'.state = pump.state /\ pump'.cancel = pump.cancel
      /\ pump'.noticed = pump.noticed /\ pump'.attached = (pump.state # "none")
  BY <1>1 DEF ResumeOpen, Pumps
<1>4. /\ input' \in Inputs /\ input'.closed = input.closed
      /\ input'.given = input.given /\ input'.exhausted = input.exhausted
      /\ Pulls(input) \in Nat /\ Pulls(input') \in Nat
      /\ feed = "read" => Pulls(input') <= Pulls(input) + 1
      /\ feed # "read" => Pulls(input') = Pulls(input)
  BY <1>1, InputAsked DEF ResumeOpen
<1>5. /\ CallTypes' /\ Unused' /\ LinkStands' /\ EndsLast' /\ QueueEnds' /\ Owed'
      /\ EndedWell' /\ SourceSent' /\ EndIsHonest'
  <2>1. feed = "source" => ~input.closed
    BY <1>1 DEF CallInv, SourceSent
  <2> QED
    BY <1>1, <1>2, <1>3, <1>4, <2>1, CallerKeeps DEF UnderWay, Running
<1>6. CallerStands'
  BY <1>1, <1>2, <1>3 DEF CallInv, CallerStands, FutDone, Alive
<1>7. PumpStands'
  BY <1>1, <1>2, <1>3 DEF CallInv, PumpStands, Running, UnderWay, Alive
<1>8. ReaderAsks'
  <2>1. /\ One(call.at = "busy") = 0 /\ One(call'.at = "busy") = 0
        /\ One(feed = "read" /\ gen = "none") = One(feed = "read")
        /\ One(feed = "read" /\ gen' = "none") = 0
        /\ One(feed = "read") = IF feed = "read" THEN 1 ELSE 0
    BY <1>1, <1>2 DEF One
  <2> QED
    BY <1>2, <1>3, <1>4, <2>1, ReaderStays
<1> QED
  BY <1>5, <1>6, <1>7, <1>8 DEF CallInv

LEMMA PumpCancels ==
    ASSUME NEW p \in Pumps
    PROVE  /\ CancelPump(p) \in Pumps /\ CancelPump(p).state = p.state
           /\ CancelPump(p).noticed = p.noticed /\ CancelPump(p).attached = p.attached
           /\ CancelPump(p).cancel = (p.cancel \/ Alive(p))
BY DEF CancelPump, Pumps, Alive

LEMMA PullsType ==
    ASSUME NEW i \in Inputs
    PROVE  Pulls(i) \in Nat
BY DEF Pulls, Inputs

LEMMA ResumeContentKeeps == CallInv /\ ResumeContent => CallInv'
<1> SUFFICES ASSUME CallInv, ResumeContent PROVE CallInv'
  OBVIOUS
<1>1. /\ call \in Calls /\ pump \in Pumps /\ fut \in Futures /\ input \in Inputs
      /\ gen \in {"none", "live", "leaving", "grace", "waiting", "closed"}
      /\ call.at = "invoking" /\ gen = "none" /\ fut.noticed /\ fut.state = "content"
      /\ call.outcome # "ok" /\ ~pump.attached
  BY DEF CallInv, CallTypes, CallerStands, ResumeContent
<1>2. /\ UNCHANGED <<feed, size, stream, got, link, inbox, server, fut, gen, pump, input>>
      /\ call' \in Calls /\ call'.at = "joining" /\ call'.outcome = call.outcome
  BY <1>1 DEF ResumeContent, Calls
<1>3. server.closed # "no"
  BY <1>1 DEF CallInv, EndsLast

<1>4. feed = "source" => ~input.closed
  BY <1>1 DEF CallInv, SourceSent
<1>5. /\ CallTypes' /\ Unused' /\ LinkStands' /\ EndsLast' /\ QueueEnds' /\ Owed'
      /\ EndedWell' /\ SourceSent' /\ EndIsHonest'
  BY <1>1, <1>2, <1>3, <1>4, CallerKeeps DEF UnderWay, Running
<1>6. CallerStands'
  BY <1>1, <1>2, <1>3 DEF CallInv, CallerStands, FutDone, Alive
<1>7. PumpStands'
  BY <1>1, <1>2, <1>3 DEF CallInv, PumpStands, Running, UnderWay, Alive
<1>8. ReaderAsks'
  <2>1. One(call'.at = "busy") = 0 /\ One(call.at = "busy") = 0
    BY <1>1, <1>2 DEF One
  <2>2. Pulls(input) \in Nat /\ One(feed = "read" /\ gen = "none") \in Nat
        /\ One(feed = "read" /\ gen' = "none") <= One(feed = "read" /\ gen = "none")
    BY <1>1, <1>2, <1>3, PullsType DEF One
  <2>3. One(feed = "read" /\ gen' = "none") \in Nat
    BY DEF One
  <2> QED
    BY <1>1, <1>2, <1>3, <2>1, <2>2, <2>3, ReaderStays
<1> QED
  BY <1>5, <1>6, <1>7, <1>8 DEF CallInv

LEMMA ResumeErrorKeeps == CallInv /\ ResumeError => CallInv'
<1> SUFFICES ASSUME CallInv, ResumeError PROVE CallInv'
  OBVIOUS
<1>1. /\ call \in Calls /\ pump \in Pumps /\ fut \in Futures /\ input \in Inputs
      /\ gen \in {"none", "live", "leaving", "grace", "waiting", "closed"}
      /\ call.at = "invoking" /\ gen = "none" /\ fut.noticed /\ FutDone
      /\ fut.state \notin {"open", "content"}
      /\ call.outcome # "ok" /\ ~pump.attached
  BY DEF CallInv, CallTypes, CallerStands, ResumeError
<1>2. /\ UNCHANGED <<feed, size, stream, got, link, inbox, server, fut, gen, input>>
      /\ call' \in Calls /\ call'.at = "dropping" /\ call'.outcome = call.outcome
  BY <1>1 DEF ResumeError, Calls
<1>3. /\ pump' \in Pumps /\ pump'.state = pump.state /\ pump'.noticed = pump.noticed
      /\ pump'.attached = pump.attached /\ pump'.cancel = (pump.cancel \/ Alive(pump))
  BY <1>1, PumpCancels DEF ResumeError

<1>4. feed = "source" => ~input.closed
  BY <1>1 DEF CallInv, SourceSent
<1>5. /\ CallTypes' /\ Unused' /\ LinkStands' /\ EndsLast' /\ QueueEnds' /\ Owed'
      /\ EndedWell' /\ SourceSent' /\ EndIsHonest'
  BY <1>1, <1>2, <1>3, <1>4, CallerKeeps DEF UnderWay, Running
<1>6. CallerStands'
  BY <1>1, <1>2, <1>3 DEF CallInv, CallerStands, FutDone, Alive
<1>7. PumpStands'
  BY <1>1, <1>2, <1>3 DEF CallInv, PumpStands, Running, UnderWay, Alive
<1>8. ReaderAsks'
  <2>1. One(call'.at = "busy") = 0 /\ One(call.at = "busy") = 0
    BY <1>1, <1>2 DEF One
  <2>2. Pulls(input) \in Nat /\ One(feed = "read" /\ gen = "none") \in Nat
        /\ One(feed = "read" /\ gen' = "none") <= One(feed = "read" /\ gen = "none")
    BY <1>1, <1>2, <1>3, PullsType DEF One
  <2>3. One(feed = "read" /\ gen' = "none") \in Nat
    BY DEF One
  <2> QED
    BY <1>1, <1>2, <1>3, <2>1, <2>2, <2>3, ReaderStays
<1> QED
  BY <1>5, <1>6, <1>7, <1>8 DEF CallInv

LEMMA JoinPumpKeeps == CallInv /\ JoinPump => CallInv'
<1> SUFFICES ASSUME CallInv, JoinPump PROVE CallInv'
  OBVIOUS
<1>1. /\ call \in Calls /\ pump \in Pumps /\ fut \in Futures /\ input \in Inputs
      /\ gen \in {"none", "live", "leaving", "grace", "waiting", "closed"}
      /\ call.at \in {"joining", "dropping"} /\ gen = "none" /\ fut.noticed /\ FutDone
      /\ call.outcome # "ok" /\ ~Alive(pump)
  BY DEF CallInv, CallTypes, CallerStands, JoinPump
<1>2. /\ UNCHANGED <<feed, size, stream, got, link, inbox, server, fut, gen, pump>>
      /\ call' \in Calls /\ call'.at = "done" /\ call'.outcome \in {"content", "raised"}
  BY <1>1 DEF JoinPump, Returns, Calls
<1>3. input' = input \/ input' = CloseInput(input)
  BY <1>1 DEF JoinPump

<1>4. /\ input' \in Inputs /\ input'.given = input.given
      /\ input'.exhausted = input.exhausted /\ Pulls(input') <= Pulls(input)
      /\ Pulls(input) \in Nat /\ Pulls(input') \in Nat
  BY <1>1, <1>3, InputCloses, PullsType
<1>5. /\ CallTypes' /\ Unused' /\ LinkStands' /\ EndsLast' /\ QueueEnds' /\ Owed'
      /\ EndedWell' /\ SourceSent' /\ EndIsHonest'
  BY <1>1, <1>2, <1>3, <1>4, CallerKeeps DEF UnderWay, Running
<1>6. CallerStands'
  BY <1>1, <1>2, <1>3 DEF CallInv, CallerStands, FutDone, Alive
<1>7. PumpStands'
  BY <1>1, <1>2, <1>3 DEF CallInv, PumpStands, Running, UnderWay, Alive
<1>8. ReaderAsks'
  <2>1. One(call'.at = "busy") = 0 /\ One(call.at = "busy") \in Nat
    BY <1>1, <1>2 DEF One
  <2>2. /\ Pulls(input) \in Nat /\ One(feed = "read" /\ gen = "none") \in Nat
        /\ One(feed = "read" /\ gen' = "none") \in Nat
        /\ One(feed = "read" /\ gen' = "none") <= One(feed = "read" /\ gen = "none")
    BY <1>1, <1>2, PullsType DEF One
  <2> QED
    BY <1>1, <1>2, <1>3, <1>4, <2>1, <2>2, ReaderStays
<1> QED
  BY <1>5, <1>6, <1>7, <1>8 DEF CallInv

LEMMA ContinueKeeps == CallInv /\ Continue => CallInv'
<1> SUFFICES ASSUME CallInv, Continue PROVE CallInv'
  OBVIOUS
<1>1. /\ call \in Calls /\ pump \in Pumps /\ fut \in Futures /\ input \in Inputs
      /\ gen \in {"none", "live", "leaving", "grace", "waiting", "closed"}
      /\ call.at = "busy" /\ gen = "live" /\ fut.noticed /\ fut.state = "open"
      /\ call.outcome # "ok" /\ (~Alive(pump) \/ pump.attached)
  BY DEF CallInv, CallTypes, CallerStands, Continue
<1>2. /\ UNCHANGED <<feed, size, stream, got, link, inbox, server, fut, gen, pump>>
      /\ call' \in Calls /\ call'.at = "using" /\ call'.outcome = call.outcome
      /\ call.outcome # "ok"
  BY <1>1 DEF Continue, Calls
<1>3. /\ input' \in Inputs /\ input'.closed = input.closed
      /\ input'.given = input.given /\ input'.exhausted = input.exhausted
      /\ Pulls(input) \in Nat /\ Pulls(input') \in Nat /\ Pulls(input') <= Pulls(input) + 1
  <2>1. input' = input \/ input' = RequestNext(input)
    BY <1>1 DEF Continue
  <2> QED
    BY <1>1, <2>1, InputAsked

<1>4. feed = "source" => ~input.closed
  BY <1>1 DEF CallInv, SourceSent
<1>5. /\ CallTypes' /\ Unused' /\ LinkStands' /\ EndsLast' /\ QueueEnds' /\ Owed'
      /\ EndedWell' /\ SourceSent' /\ EndIsHonest'
  BY <1>1, <1>2, <1>3, <1>4, CallerKeeps DEF UnderWay, Running
<1>6. CallerStands'
  BY <1>1, <1>2, <1>3 DEF CallInv, CallerStands, FutDone, Alive
<1>7. PumpStands'
  BY <1>1, <1>2, <1>3 DEF CallInv, PumpStands, Running, UnderWay, Alive
<1>8. ReaderAsks'
  <2>1. One(call'.at = "busy") = 0 /\ One(call.at = "busy") = 1
    BY <1>1, <1>2 DEF One
  <2>2. /\ One(feed = "read" /\ gen = "none") \in Nat
        /\ One(feed = "read" /\ gen' = "none") = One(feed = "read" /\ gen = "none")
    BY <1>2 DEF One
  <2> QED
    BY <1>1, <1>2, <1>3, <2>1, <2>2, ReaderStays
<1> QED
  BY <1>5, <1>6, <1>7, <1>8 DEF CallInv

LEMMA AbandonKeeps == CallInv /\ Abandon => CallInv'
<1> SUFFICES ASSUME CallInv, Abandon PROVE CallInv'
  OBVIOUS
<1>1. /\ call \in Calls /\ pump \in Pumps /\ fut \in Futures /\ input \in Inputs
      /\ gen \in {"none", "live", "leaving", "grace", "waiting", "closed"}
      /\ call.at = "busy" /\ gen = "live" /\ fut.noticed /\ fut.state = "open"
      /\ call.outcome # "ok" /\ (~Alive(pump) \/ pump.attached)
  BY DEF CallInv, CallTypes, CallerStands, Abandon
<1>2. /\ UNCHANGED <<feed, size, stream, got, link, inbox, server, fut, pump>>
      /\ call' \in Calls /\ call'.at = "done" /\ call'.outcome = "left"
      /\ gen' = "leaving"
  BY <1>1 DEF Abandon, Leave, Returns, Calls
<1>3. /\ input' \in Inputs /\ Pulls(input') = 0
      /\ input'.given = input.given /\ input'.exhausted = input.exhausted
  BY <1>1, InputCloses DEF Abandon, Leave

<1>5. /\ CallTypes' /\ Unused' /\ LinkStands' /\ EndsLast' /\ QueueEnds' /\ Owed'
      /\ EndedWell' /\ SourceSent' /\ EndIsHonest'
  BY <1>1, <1>2, <1>3, CallerKeeps DEF UnderWay, Running
<1>6. CallerStands'
  BY <1>1, <1>2, <1>3 DEF CallInv, CallerStands, FutDone, Alive
<1>7. PumpStands'
  BY <1>1, <1>2, <1>3 DEF CallInv, PumpStands, Running, UnderWay, Alive
<1>8. ReaderAsks'
  <2>1. One(call'.at = "busy") = 0 /\ One(call.at = "busy") \in Nat
    BY <1>1, <1>2 DEF One
  <2>2. /\ Pulls(input) \in Nat /\ One(feed = "read" /\ gen = "none") \in Nat
        /\ One(feed = "read" /\ gen' = "none") \in Nat
        /\ One(feed = "read" /\ gen' = "none") <= One(feed = "read" /\ gen = "none")
    BY <1>1, <1>2, PullsType DEF One
  <2> QED
    BY <1>1, <1>2, <1>3, <2>1, <2>2, ReaderStays
<1> QED
  BY <1>5, <1>6, <1>7, <1>8 DEF CallInv

LEMMA GraceOverKeeps == CallInv /\ GraceOver => CallInv'
<1> SUFFICES ASSUME CallInv, GraceOver PROVE CallInv'
  OBVIOUS
<1>1. /\ call \in Calls /\ pump \in Pumps /\ fut \in Futures /\ input \in Inputs
      /\ gen \in {"none", "live", "leaving", "grace", "waiting", "closed"}
      /\ call.at \in {"leaving", "done"} /\ gen = "grace" /\ fut.noticed
      /\ call.at = "leaving" => fut.state = "open"
  BY DEF CallInv, CallTypes, CallerStands, GraceOver, Calls
<1>2. /\ UNCHANGED <<feed, size, stream, got, link, inbox, server, call, fut, input>>
      /\ gen' = "waiting"
  BY <1>1 DEF GraceOver
<1>3. /\ pump' \in Pumps /\ pump'.state = pump.state /\ pump'.noticed = pump.noticed
      /\ pump'.attached = pump.attached /\ pump'.cancel = (pump.cancel \/ Alive(pump))
  BY <1>1, PumpCancels DEF GraceOver

<1>4. feed = "source" => (input.closed => call.at = "done")
  BY <1>1 DEF CallInv, SourceSent
<1>5. /\ CallTypes' /\ Unused' /\ LinkStands' /\ EndsLast' /\ QueueEnds' /\ Owed'
      /\ EndedWell' /\ SourceSent' /\ EndIsHonest'
  BY <1>1, <1>2, <1>3, <1>4, CallerKeeps DEF UnderWay, Running
<1>6. CallerStands'
  BY <1>1, <1>2, <1>3 DEF CallInv, CallerStands, FutDone, Alive
<1>7. PumpStands'
  BY <1>1, <1>2, <1>3 DEF CallInv, PumpStands, Running, UnderWay, Alive
<1>8. ReaderAsks'
  <2>1. One(call'.at = "busy") = 0 /\ One(call.at = "busy") = 0
    BY <1>1, <1>2 DEF One
  <2>2. Pulls(input) \in Nat /\ One(feed = "read" /\ gen = "none") \in Nat
        /\ One(feed = "read" /\ gen' = "none") <= One(feed = "read" /\ gen = "none")
    BY <1>1, <1>2, <1>3, PullsType DEF One
  <2>3. One(feed = "read" /\ gen' = "none") \in Nat
    BY DEF One
  <2> QED
    BY <1>1, <1>2, <1>3, <2>1, <2>2, <2>3, ReaderStays
<1> QED
  BY <1>5, <1>6, <1>7, <1>8 DEF CallInv

LEMMA FinalisedKeeps == CallInv /\ Finalised => CallInv'
<1> SUFFICES ASSUME CallInv, Finalised PROVE CallInv'
  OBVIOUS
<1>1. /\ call \in Calls /\ pump \in Pumps /\ fut \in Futures /\ input \in Inputs
      /\ gen \in {"none", "live", "leaving", "grace", "waiting", "closed"}
      /\ call.at \in {"leaving", "done"} /\ gen \in {"grace", "waiting"} /\ fut.noticed
      /\ call.at = "leaving" => fut.state = "open"
  BY DEF CallInv, CallTypes, CallerStands, Finalised, Calls
<1>2. /\ UNCHANGED <<feed, size, stream, got, link, inbox, server, call, fut, pump, input>>
      /\ gen' = "closed"
  BY <1>1 DEF Finalised

<1>3. feed = "source" => (input.closed => call.at = "done")
  BY <1>1 DEF CallInv, SourceSent
<1>5. /\ CallTypes' /\ Unused' /\ LinkStands' /\ EndsLast' /\ QueueEnds' /\ Owed'
      /\ EndedWell' /\ SourceSent' /\ EndIsHonest'
  BY <1>1, <1>2, <1>3, CallerKeeps DEF UnderWay, Running
<1>6. CallerStands'
  BY <1>1, <1>2, <1>3 DEF CallInv, CallerStands, FutDone, Alive
<1>7. PumpStands'
  BY <1>1, <1>2, <1>3 DEF CallInv, PumpStands, Running, UnderWay, Alive
<1>8. ReaderAsks'
  <2>1. One(call'.at = "busy") = 0 /\ One(call.at = "busy") = 0
    BY <1>1, <1>2 DEF One
  <2>2. Pulls(input) \in Nat /\ One(feed = "read" /\ gen = "none") \in Nat
        /\ One(feed = "read" /\ gen' = "none") <= One(feed = "read" /\ gen = "none")
    BY <1>1, <1>2, <1>3, PullsType DEF One
  <2>3. One(feed = "read" /\ gen' = "none") \in Nat
    BY DEF One
  <2> QED
    BY <1>1, <1>2, <1>3, <2>1, <2>2, <2>3, ReaderStays
<1> QED
  BY <1>5, <1>6, <1>7, <1>8 DEF CallInv

LEMMA LeftKeeps == CallInv /\ Left => CallInv'
<1> SUFFICES ASSUME CallInv, Left PROVE CallInv'
  OBVIOUS
<1>1. /\ call \in Calls /\ pump \in Pumps /\ fut \in Futures /\ input \in Inputs
      /\ gen \in {"none", "live", "leaving", "grace", "waiting", "closed"}
      /\ call.at = "leaving" /\ gen = "closed" /\ fut.noticed /\ fut.state = "open"
      /\ (~Alive(pump) \/ pump.attached)
  BY DEF CallInv, CallTypes, CallerStands, Left
<1>2. /\ UNCHANGED <<feed, size, stream, got, link, inbox, server, fut, gen, pump>>
      /\ call' \in Calls /\ call'.at = "done" /\ call'.outcome = call.outcome
  BY <1>1 DEF Left, Returns, Calls
<1>3. input' = input \/ input' = CloseInput(input)
  BY <1>1 DEF Left

<1>4. /\ input' \in Inputs /\ input'.given = input.given
      /\ input'.exhausted = input.exhausted /\ Pulls(input') <= Pulls(input)
      /\ Pulls(input) \in Nat /\ Pulls(input') \in Nat
  BY <1>1, <1>3, InputCloses, PullsType
<1>5. /\ CallTypes' /\ Unused' /\ LinkStands' /\ EndsLast' /\ QueueEnds' /\ Owed'
      /\ EndedWell' /\ SourceSent' /\ EndIsHonest'
  BY <1>1, <1>2, <1>3, <1>4, CallerKeeps DEF UnderWay, Running
<1>6. CallerStands'
  BY <1>1, <1>2, <1>3 DEF CallInv, CallerStands, FutDone, Alive
<1>7. PumpStands'
  BY <1>1, <1>2, <1>3 DEF CallInv, PumpStands, Running, UnderWay, Alive
<1>8. ReaderAsks'
  <2>1. One(call'.at = "busy") = 0 /\ One(call.at = "busy") \in Nat
    BY <1>1, <1>2 DEF One
  <2>2. /\ Pulls(input) \in Nat /\ One(feed = "read" /\ gen = "none") \in Nat
        /\ One(feed = "read" /\ gen' = "none") \in Nat
        /\ One(feed = "read" /\ gen' = "none") <= One(feed = "read" /\ gen = "none")
    BY <1>1, <1>2, PullsType DEF One
  <2> QED
    BY <1>1, <1>2, <1>3, <1>4, <2>1, <2>2, ReaderStays
<1> QED
  BY <1>5, <1>6, <1>7, <1>8 DEF CallInv

LEMMA StopInputKeeps == CallInv /\ StopInput => CallInv'
<1> SUFFICES ASSUME CallInv, StopInput PROVE CallInv'
  OBVIOUS
<1>1. /\ call \in Calls /\ pump \in Pumps /\ fut \in Futures /\ input \in Inputs
      /\ gen \in {"none", "live", "leaving", "grace", "waiting", "closed"}
      /\ call.at \in {"invoking", "using"} /\ feed = "held" /\ call.outcome # "ok"
  BY DEF CallInv, CallTypes, CallerStands, StopInput
<1>2. /\ UNCHANGED <<feed, size, stream, got, link, inbox, server, call, fut, gen, pump>>
  BY <1>1 DEF StopInput
<1>3. /\ input' \in Inputs /\ Pulls(input') = 0
      /\ input'.given = input.given /\ input'.exhausted = input.exhausted
  BY <1>1, InputCloses DEF StopInput

<1>5. /\ CallTypes' /\ Unused' /\ LinkStands' /\ EndsLast' /\ QueueEnds' /\ Owed'
      /\ EndedWell' /\ SourceSent' /\ EndIsHonest'
  BY <1>1, <1>2, <1>3, CallerKeeps DEF UnderWay, Running
<1>6. CallerStands'
  BY <1>1, <1>2, <1>3 DEF CallInv, CallerStands, FutDone, Alive
<1>7. PumpStands'
  BY <1>1, <1>2, <1>3 DEF CallInv, PumpStands, Running, UnderWay, Alive
<1>8. ReaderAsks'
  BY <1>1, <1>2, <1>3, ReaderStays
<1> QED
  BY <1>5, <1>6, <1>7, <1>8 DEF CallInv

LEMMA CancelCallKeeps == CallInv /\ CancelCall => CallInv'
<1> SUFFICES ASSUME CallInv, CancelCall PROVE CallInv'
  OBVIOUS
<1>1. /\ call \in Calls /\ pump \in Pumps /\ fut \in Futures /\ input \in Inputs
      /\ gen \in {"none", "live", "leaving", "grace", "waiting", "closed"}
      /\ call.outcome = "ok" => call.at \in {"leaving", "done"}
      /\ UNCHANGED <<feed, size, stream, input, got, link, inbox, server>>
  BY DEF CallInv, CallTypes, CallerStands, CancelCall
<1>2. \/ /\ call.at = "invoking" /\ fut.state = "pending"
         /\ fut' = [fut EXCEPT !.state = "cancelled"]
         /\ call' = [call EXCEPT !.cancelled = TRUE]
         /\ UNCHANGED <<gen, pump>>
      \/ /\ call.at = "joining"
         /\ pump' = CancelPump(pump)
         /\ call' = [call EXCEPT !.cancelled = TRUE]
         /\ UNCHANGED <<gen, fut>>
      \/ /\ call.at = "using"
         /\ gen' = "leaving"
         /\ call' = [call EXCEPT !.cancelled = TRUE, !.at = "leaving", !.outcome = "raised"]
         /\ UNCHANGED <<fut, pump>>
  BY DEF CancelCall, CancelFut
<1>3. /\ pump' \in Pumps /\ pump'.state = pump.state /\ pump'.noticed = pump.noticed
      /\ pump'.attached = pump.attached /\ (pump.cancel => pump'.cancel)
      /\ pump' = pump \/ call.at = "joining"
  BY <1>1, <1>2, PumpCancels
<1>4. /\ call' \in Calls /\ fut' \in Futures /\ gen' \in {gen, "leaving"}
      /\ call'.outcome \in {call.outcome, "raised"} /\ call.outcome # "ok"
      /\ \/ /\ call.at = "invoking" /\ call'.at = "invoking" /\ gen' = gen
            /\ fut.state = "pending" /\ fut'.state = "cancelled" /\ fut'.noticed = fut.noticed
         \/ call.at = "joining" /\ call'.at = "joining" /\ gen' = gen /\ fut' = fut
         \/ call.at = "using" /\ call'.at = "leaving" /\ gen' = "leaving" /\ fut' = fut
  BY <1>1, <1>2 DEF Calls, Futures
<1>5. /\ CallTypes' /\ Unused' /\ LinkStands' /\ EndsLast' /\ QueueEnds' /\ Owed'
      /\ EndedWell' /\ SourceSent' /\ EndIsHonest'
  <2>1. feed = "source" => ~input.closed
    BY <1>4 DEF CallInv, SourceSent
  <2> QED
    BY <1>1, <1>3, <1>4, <2>1, CallerKeeps DEF UnderWay, Running
<1>6. CallerStands'
  BY <1>1, <1>3, <1>4 DEF CallInv, CallerStands, FutDone, Alive
<1>7. PumpStands'
  <2>1. call.at = "joining" => server.closed # "no"
    BY DEF CallInv, CallerStands, EndsLast
  <2> QED
    BY <1>1, <1>3, <1>4, <2>1 DEF CallInv, PumpStands, Running, UnderWay, Alive
<1>8. ReaderAsks'
  <2>1. One(call'.at = "busy") = 0 /\ One(call.at = "busy") = 0
    BY <1>4 DEF One
  <2>2. /\ Pulls(input) \in Nat /\ One(feed = "read" /\ gen = "none") \in Nat
        /\ One(feed = "read" /\ gen' = "none") \in Nat
        /\ One(feed = "read" /\ gen' = "none") <= One(feed = "read" /\ gen = "none")
    BY <1>1, <1>4, PullsType DEF One
  <2> QED
    BY <1>1, <1>3, <2>1, <2>2, ReaderStays
<1> QED
  BY <1>5, <1>6, <1>7, <1>8 DEF CallInv

-----------------------------------------------------------------------------
(* What ends a stream                                                      *)

Errors == {"none", "refused", "aborted", "lost", "input"}

LEMMA StreamIs ==
    ASSUME NEW q \in Seq(Item), NEW e \in Errors, NEW r \in BOOLEAN
    PROVE  [open |-> FALSE, queue |-> q, error |-> e, result |-> r] \in ChunkStreams
BY Zenon DEF ChunkStreams, Errors

LEMMA StreamEnds ==
    ASSUME CallInv, NEW error \in Errors,
           stream' = IF stream.open THEN Closed(stream, error, <<>>) ELSE stream
    PROVE  /\ stream' \in ChunkStreams /\ ~stream'.open /\ QueueEnds' /\ Owed'
           /\ stream.open => stream'.error = error /\ ~stream'.result
           /\ ~stream.open => stream' = stream
<1>1. stream \in ChunkStreams /\ stream.queue \in Seq(Item)
  BY DEF CallInv, CallTypes, ChunkStreams
<1>2. CASE ~stream.open
  BY <1>1, <1>2 DEF CallInv, QueueEnds, Owed
<1>3. CASE stream.open
  <2> DEFINE after == Append(stream.queue, "end")
  <2>1. after \in Seq(Item) /\ AddsTo(stream.queue, after, "end")
    BY <1>1, Adds DEF Item
  <2>2. (stream.queue \o <<>>) \o <<"end">> = after
    BY <1>1, Joined DEF Item
  <2> HIDE DEF after
  <2>3. stream' = [open |-> FALSE, queue |-> after, error |-> error, result |-> FALSE]
    BY <1>3, <2>2 DEF Closed
  <2>4. QueueEnds'
    <3> SUFFICES ASSUME NEW i \in 1..Len(after)
                 PROVE  /\ after[i] = "end" => i = Len(after)
                        /\ after[i] \notin {"close", "content"}
      BY <2>3 DEF QueueEnds
    <3>1. CASE i \in 1..Len(stream.queue)
      <4>1. stream.queue[i] \in {"item", "error"} /\ after[i] = stream.queue[i]
        BY <1>3, <2>1, <3>1 DEF CallInv, QueueEnds, AddsTo
      <4> QED
        BY <4>1
    <3>2. CASE i = Len(after)
      BY <2>1, <3>2 DEF AddsTo
    <3> QED
      BY <2>1, <3>1, <3>2 DEF AddsTo
  <2>5. stream' \in ChunkStreams
    BY <2>1, <2>3, StreamIs
  <2>6. stream'.open = FALSE /\ stream'.error = error /\ stream'.result = FALSE
    BY <2>3
  <2>7. Owed'
    BY <2>6 DEF Owed
  <2> QED
    BY <1>3, <2>4, <2>5, <2>6, <2>7
<1> QED
  BY <1>2, <1>3

LEMMA StreamEndsWith ==
    ASSUME CallInv, stream.open, NEW what \in {"close", "content"},
           stream' = Closed(stream, "none", <<what>>)
    PROVE  /\ stream' \in ChunkStreams /\ ~stream'.open /\ QueueEnds' /\ Owed'
           /\ stream'.error = "none"
           /\ Len(stream'.queue) > 1 /\ stream'.queue[Len(stream'.queue)] = "end"
           /\ stream'.queue[Len(stream'.queue) - 1] = what /\ stream'.queue # <<>>
           /\ \A kinds \in {{"item"}, {"error"}} :
                  Count(stream'.queue, kinds) = Count(stream.queue, kinds)
<1>1. stream \in ChunkStreams /\ stream.queue \in Seq(Item) /\ what \in Item /\ "end" \in Item
  BY DEF CallInv, CallTypes, ChunkStreams, Item
<1> DEFINE next == Append(stream.queue, what)
           after == Append(next, "end")
<1>2. next \in Seq(Item) /\ AddsTo(stream.queue, next, what)
  BY <1>1, Adds
<1>3. after \in Seq(Item) /\ AddsTo(next, after, "end")
  BY <1>1, <1>2, Adds
<1>4. (stream.queue \o <<what>>) \o <<"end">> = after
  BY <1>1, Joined
<1> HIDE DEF next, after
<1>5. stream' = [open |-> FALSE, queue |-> after, error |-> "none", result |-> TRUE]
  BY <1>4 DEF Closed
<1>6. /\ Len(stream.queue) \in Nat /\ Len(after) = Len(stream.queue) + 2
      /\ Len(next) = Len(stream.queue) + 1
      /\ after[Len(after)] = "end" /\ after[Len(after) - 1] = what
  BY <1>2, <1>3 DEF AddsTo
<1>7. QueueEnds'
  <2> SUFFICES ASSUME NEW i \in 1..Len(after)
               PROVE  /\ after[i] = "end" => i = Len(after)
                      /\ after[i] \in {"close", "content"} => i + 1 = Len(after)
    BY <1>5 DEF QueueEnds
  <2>1. CASE i \in 1..Len(stream.queue)
    <3>1. stream.queue[i] \in {"item", "error"} /\ after[i] = stream.queue[i]
      <4>1. stream.queue[i] \in {"item", "error"} /\ next[i] = stream.queue[i]
        BY <1>2, <2>1 DEF CallInv, QueueEnds, AddsTo
      <4>2. i \in 1..Len(next)
        BY <1>6, <2>1
      <4> QED
        BY <1>3, <4>1, <4>2 DEF AddsTo
    <3> QED
      BY <3>1
  <2>2. CASE i = Len(after) \/ i = Len(after) - 1
    BY <1>6, <2>2
  <2> QED
    BY <1>6, <2>1, <2>2
<1>8. \A kinds \in {{"item"}, {"error"}} : Count(after, kinds) = Count(stream.queue, kinds)
  <2> SUFFICES ASSUME NEW kinds \in {{"item"}, {"error"}}
               PROVE  Count(after, kinds) = Count(stream.queue, kinds)
    OBVIOUS
  <2>1. what \notin kinds /\ "end" \notin kinds
    OBVIOUS
  <2>2. One(what \in kinds) = 0 /\ One("end" \in kinds) = 0
    BY <2>1 DEF One
  <2> QED
    BY <1>2, <1>3, <2>2 DEF AddsTo
<1>9. after # <<>>
  BY <1>6
<1>10. stream' \in ChunkStreams
  BY <1>3, <1>5, StreamIs DEF Errors
<1>11. stream'.open = FALSE /\ stream'.error = "none" /\ stream'.queue = after
  BY <1>5
<1>12. Owed'
  BY <1>11 DEF Owed
<1> QED
  BY <1>6, <1>7, <1>8, <1>9, <1>10, <1>11, <1>12

(* A step that leaves the stream as it is, or ends it with an error the     *)
(* caller is told, or when it is too late for a good end                    *)
LEMMA ClosingKeeps ==
    ASSUME CallInv, call.at # "idle",
           UNCHANGED <<feed, size, call, input, got, link, inbox, server>>,
           stream' \in ChunkStreams, QueueEnds', Owed',
           \/ stream' = stream
           \/ ~stream'.open /\ (Running' => stream'.error # "none"),
           ~stream.open => stream' = stream,
           pump' \in Pumps, pump'.state = pump.state, fut' \in Futures,
           pump.cancel => pump'.cancel, pump'.attached = pump.attached,
           gen' \in {"none", "live", "leaving", "grace", "waiting", "closed"},
           gen' = "none" <=> gen = "none",
           fut'.state \in {"content", "pending"} => fut.state = fut'.state, Running' => Running
    PROVE  /\ CallTypes' /\ Unused' /\ LinkStands' /\ EndsLast' /\ EndedWell' /\ ReaderAsks'
           /\ SourceSent' /\ EndIsHonest'
<1>1. CallTypes'
  BY DEF CallInv, CallTypes
<1>2. Unused'
  BY DEF Unused
<1>3. LinkStands'
  <2>1. ~stream.open => (Overtaken => Overtaken')
    BY DEF Overtaken
  <2> QED
    BY <2>1 DEF CallInv, LinkStands, Alive
<1>4. EndsLast'
  BY DEF CallInv, EndsLast
<1>5. EndedWell'
  BY DEF CallInv, EndedWell, Failure
<1>6. ReaderAsks'
  BY DEF CallInv, ReaderAsks, OneAhead
<1>7. SourceSent'
  BY DEF CallInv, SourceSent, Alive, Data, UnderWay
<1>8. EndIsHonest'
  BY HonestStays
<1> QED
  BY <1>1, <1>2, <1>3, <1>4, <1>5, <1>6, <1>7, <1>8

LEMMA OnTaskDoneKeeps == CallInv /\ OnTaskDone => CallInv'
<1> SUFFICES ASSUME CallInv, OnTaskDone PROVE CallInv'
  OBVIOUS
<1>1. /\ call \in Calls /\ pump \in Pumps /\ fut \in Futures /\ stream \in ChunkStreams
      /\ gen \in {"none", "live", "leaving", "grace", "waiting", "closed"}
      /\ call.at = "invoking" /\ ~pump.attached /\ ~fut.noticed /\ FutDone /\ gen = "none"
      /\ UNCHANGED <<feed, size, call, gen, input, got, link, inbox, server>>
  <2>1. CallTypes /\ CallerStands /\ Unused
    BY DEF CallInv
  <2> QED
    BY <2>1 DEF CallTypes, CallerStands, Unused, OnTaskDone, FutDone
<1>2. fut' \in Futures /\ fut'.state = fut.state /\ fut'.noticed = TRUE
  BY <1>1 DEF OnTaskDone, Futures
<1>3. /\ pump' = pump /\ stream' \in ChunkStreams /\ QueueEnds' /\ Owed'
      /\ fut.state = "open" => stream' = stream
      /\ fut.state # "open" => ~stream'.open
      /\ ~stream.open => stream' = stream
  <2>1. CASE fut.state = "open"
    <3>1. UNCHANGED <<stream, pump>>
      BY <2>1 DEF OnTaskDone
    <3>2. QueueEnds' /\ Owed'
      BY <1>1, <3>1 DEF CallInv, QueueEnds, Owed, ItemsDue, ErrorsDue, FailureDue, Failure,
                        UnderWay
    <3> QED
      BY <1>1, <2>1, <3>1, <3>2
  <2>2. CASE fut.state = "content"
    <3>1. CloseStream("none", <<"content">>)
      BY <2>2 DEF OnTaskDone
    <3>2. pump' = pump
      BY <1>1, <3>1 DEF CloseStream
    <3>3. CASE stream.open
      <4>1. stream' = Closed(stream, "none", <<"content">>)
        BY <3>1, <3>3 DEF CloseStream
      <4> QED
        BY <2>2, <3>2, <3>3, <4>1, StreamEndsWith
    <3>4. CASE ~stream.open
      <4>1. stream' = stream
        BY <3>1, <3>4 DEF CloseStream
      <4>2. stream' = IF stream.open THEN Closed(stream, "none", <<>>) ELSE stream
        BY <3>4, <4>1
      <4> QED
        BY <2>2, <3>2, <4>2, StreamEnds DEF Errors
    <3> QED
      BY <3>3, <3>4
  <2>3. CASE fut.state \notin {"open", "content"}
    <3>1. PICK error \in Errors : CloseStream(error, <<>>)
      BY <2>3 DEF OnTaskDone, Errors
    <3>2. /\ pump' = pump
          /\ stream' = IF stream.open THEN Closed(stream, error, <<>>) ELSE stream
      BY <1>1, <3>1 DEF CloseStream
    <3> QED
      BY <2>3, <3>2, StreamEnds
  <2> QED
    BY <2>1, <2>2, <2>3
<1>4. /\ CallTypes' /\ Unused' /\ LinkStands' /\ EndsLast' /\ EndedWell' /\ ReaderAsks'
      /\ SourceSent' /\ EndIsHonest'
  <2>1. Running' => fut.state = "open"
    BY <1>1, <1>2 DEF Running, FutDone
  <2> QED
    BY <1>1, <1>2, <1>3, <2>1, ClosingKeeps DEF Running, UnderWay
<1>5. CallerStands'
  BY <1>1, <1>2, <1>3 DEF CallInv, CallerStands, FutDone
<1>6. PumpStands'
  BY <1>1, <1>2, <1>3 DEF CallInv, PumpStands, Running, UnderWay, Alive, FutDone
<1> QED
  BY <1>3, <1>4, <1>5, <1>6 DEF CallInv

LEMMA FinaliseKeeps == CallInv /\ Finalise => CallInv'
<1> SUFFICES ASSUME CallInv, Finalise PROVE CallInv'
  OBVIOUS
<1>1. /\ call \in Calls /\ pump \in Pumps /\ fut \in Futures /\ stream \in ChunkStreams
      /\ gen = "leaving" /\ call.at \in {"leaving", "done"} /\ FutDone /\ fut.noticed
      /\ ~Alive(pump) \/ pump.attached
      /\ UNCHANGED <<feed, size, call, input, got, link, inbox, server>>
      /\ stream' = IF stream.open THEN Closed(stream, "none", <<>>) ELSE stream
  <2>1. CallTypes /\ CallerStands
    BY DEF CallInv
  <2> QED
    BY <2>1 DEF CallTypes, Calls, CallerStands, Finalise
<1>2. fut' = fut
  BY <1>1 DEF Finalise, CancelFut, FutDone
<1>3. /\ stream' \in ChunkStreams /\ ~stream'.open /\ QueueEnds' /\ Owed'
      /\ stream.open => ~stream'.result
      /\ ~stream.open => stream' = stream
  BY <1>1, StreamEnds DEF Errors
<1>4. /\ pump' \in Pumps /\ pump'.state = pump.state /\ pump'.noticed = pump.noticed
      /\ pump'.attached = pump.attached /\ (pump.cancel => pump'.cancel)
      /\ gen' \in {"grace", "waiting", "closed"}
      /\ Alive(pump) => pump'.cancel \/ stream'.result
  <2>1. CancelPump(pump).cancel = (pump.cancel \/ Alive(pump))
    BY <1>1, PumpCancels
  <2>2. \/ pump' = pump /\ (~Alive(pump) \/ stream'.result)
        \/ pump' = CancelPump(pump)
    BY <1>1 DEF Finalise
  <2>3. gen' \in {"grace", "waiting", "closed"}
    BY DEF Finalise
  <2> QED
    BY <1>1, <2>1, <2>2, <2>3, PumpCancels
<1>5. /\ CallTypes' /\ Unused' /\ LinkStands' /\ EndsLast' /\ EndedWell' /\ ReaderAsks'
      /\ SourceSent' /\ EndIsHonest'
  BY <1>1, <1>2, <1>3, <1>4, ClosingKeeps DEF Running, UnderWay
<1>6. CallerStands'
  BY <1>1, <1>2, <1>4 DEF CallInv, CallerStands, FutDone, Alive
<1>7. PumpStands'
  <2>1. Alive(pump) /\ server.closed = "no" => pump'.cancel
    BY <1>1, <1>3, <1>4 DEF CallInv, PumpStands
  <2> QED
    BY <1>1, <1>2, <1>3, <1>4, <2>1 DEF CallInv, PumpStands, Running, UnderWay, Alive
<1> QED
  BY <1>3, <1>5, <1>6, <1>7 DEF CallInv

LEMMA OnRequestStreamDoneKeeps == CallInv /\ OnRequestStreamDone => CallInv'
<1> SUFFICES ASSUME CallInv, OnRequestStreamDone PROVE CallInv'
  OBVIOUS
<1>1. /\ call \in Calls /\ pump \in Pumps /\ fut \in Futures /\ stream \in ChunkStreams
      /\ gen \in {"none", "live", "leaving", "grace", "waiting", "closed"}
      /\ pump.state = "failed" /\ call.at # "idle"
      /\ UNCHANGED <<feed, size, call, gen, input, got, link, inbox, server>>
      /\ stream' = IF stream.open THEN Closed(stream, "input", <<>>) ELSE stream
  <2>1. CallTypes /\ Unused
    BY DEF CallInv
  <2> QED
    BY <2>1 DEF CallTypes, Unused, OnRequestStreamDone
<1>2. /\ fut' \in Futures /\ fut'.noticed = fut.noticed
      /\ fut'.state = IF fut.state = "pending" THEN "cancelled" ELSE fut.state
  BY <1>1 DEF OnRequestStreamDone, CancelFut, Futures
<1>3. /\ stream' \in ChunkStreams /\ ~stream'.open /\ QueueEnds' /\ Owed'
      /\ stream.open => stream'.error = "input"
      /\ ~stream.open => stream' = stream
  BY <1>1, StreamEnds DEF Errors
<1>4. /\ pump' \in Pumps /\ pump'.state = "failed" /\ pump'.noticed = TRUE
      /\ pump'.attached = pump.attached /\ pump'.cancel = pump.cancel
  BY <1>1 DEF OnRequestStreamDone, Pumps
<1>5. /\ CallTypes' /\ Unused' /\ LinkStands' /\ EndsLast' /\ EndedWell' /\ ReaderAsks'
      /\ SourceSent' /\ EndIsHonest'
  <2>1. "input" # "none"
    OBVIOUS
  <2> QED
    BY <1>1, <1>2, <1>3, <1>4, <2>1, ClosingKeeps DEF Running, UnderWay
<1>6. CallerStands'
  BY <1>1, <1>2, <1>4 DEF CallInv, CallerStands, FutDone, Alive
<1>7. PumpStands'
  BY <1>1, <1>2, <1>3, <1>4 DEF CallInv, PumpStands, Running, UnderWay, Alive
<1> QED
  BY <1>3, <1>5, <1>6, <1>7 DEF CallInv

-----------------------------------------------------------------------------
(* What the caller takes from the stream                                   *)

LEMMA Took ==
    ASSUME CallInv, TakeHead, Next1 # "nothing"
    PROVE  /\ stream' \in ChunkStreams /\ stream'.open = stream.open
           /\ stream'.error = stream.error /\ stream'.result = stream.result
           /\ TakesFrom(stream.queue, stream'.queue) /\ Next1 = Head(stream.queue)
           /\ stream.queue # <<>> /\ QueueEnds'
<1>1. /\ stream \in ChunkStreams /\ stream.queue \in Seq(Item) /\ stream.queue # <<>>
      /\ Next1 = Head(stream.queue)
  BY DEF CallInv, CallTypes, ChunkStreams, Next1
<1> DEFINE rest == Tail(stream.queue)
<1>2. rest \in Seq(Item) /\ TakesFrom(stream.queue, rest)
  BY <1>1, Takes
<1>3. stream' = [stream EXCEPT !.queue = rest]
  BY DEF TakeHead
<1> HIDE DEF rest
<1>4. /\ stream' \in ChunkStreams /\ stream'.open = stream.open
      /\ stream'.error = stream.error /\ stream'.result = stream.result
      /\ stream'.queue = rest
  BY <1>1, <1>2, <1>3 DEF ChunkStreams
<1>5. QueueEnds'
  <2> SUFFICES ASSUME NEW i \in 1..Len(rest)
               PROVE  /\ stream.open => rest[i] \in {"item", "error"}
                      /\ rest[i] = "end" => i = Len(rest)
                      /\ rest[i] \in {"close", "content"} => i + 1 = Len(rest)
                      /\ rest[i] = "close" => stream.error = "none"
    BY <1>4 DEF QueueEnds
  <2>1. i + 1 \in 1..Len(stream.queue) /\ rest[i] = stream.queue[i + 1]
    BY <1>2 DEF TakesFrom
  <2> QED
    BY <1>2, <2>1 DEF CallInv, QueueEnds, TakesFrom
<1> QED
  BY <1>1, <1>2, <1>4, <1>5

(* The last two of a queue stay when the first is taken *)
LEMMA RestEnds ==
    ASSUME NEW q, NEW r, TakesFrom(q, r), Head(q) # "end", q[Len(q)] = "end"
    PROVE  /\ Len(r) > 0 /\ r[Len(r)] = "end"
           /\ Head(q) # "close" /\ q[Len(q) - 1] = "close" =>
                  Len(r) > 1 /\ r[Len(r) - 1] = "close"
<1>1. /\ Len(q) \in Nat \ {0} /\ Len(r) = Len(q) - 1 /\ Head(q) = q[1]
      /\ \A i \in 1..Len(r) : r[i] = q[i + 1]
  BY DEF TakesFrom
<1>2. Len(q) # 1
  BY <1>1
<1>3. Len(r) \in 1..Len(r) /\ Len(r) + 1 = Len(q) /\ Len(r) > 0
  BY <1>1, <1>2
<1>4. r[Len(r)] = "end"
  BY <1>1, <1>3
<1>5. ASSUME Head(q) # "close", q[Len(q) - 1] = "close"
      PROVE  Len(r) > 1 /\ r[Len(r) - 1] = "close"
  <2>1. Len(q) - 1 # 1
    BY <1>1, <1>5
  <2>2. Len(r) - 1 \in 1..Len(r) /\ (Len(r) - 1) + 1 = Len(q) - 1 /\ Len(r) > 1
    BY <1>1, <1>2, <2>1
  <2> QED
    BY <1>1, <1>5, <2>2
<1> QED
  BY <1>3, <1>4, <1>5

(* A step that takes the head of the queue *)
LEMMA TakeKeeps ==
    ASSUME CallInv, call.at = "using", TakeHead, Next1 # "nothing",
           UNCHANGED <<feed, size, fut, pump, link, inbox, server>>,
           call' \in Calls, call'.at \in {"using", "busy", "leaving", "done"},
           gen' = IF call'.at \in {"using", "busy"} THEN "live" ELSE "leaving",
           call'.outcome = "ok" => call'.at \in {"leaving", "done"},
           got' \in Nat, got <= got',
           input' \in Inputs, input'.given = input.given, input'.exhausted = input.exhausted,
           feed = "source" => (input'.closed => call'.at = "done"),
           feed \in {"download", "read"} =>
               Pulls(input') + One(call'.at = "busy") + got <= Pulls(input) + got'
    PROVE  /\ CallTypes' /\ Unused' /\ CallerStands' /\ PumpStands' /\ LinkStands' /\ EndsLast'
           /\ QueueEnds' /\ ReaderAsks' /\ SourceSent'
<1>1. /\ stream' \in ChunkStreams /\ stream'.open = stream.open
      /\ stream'.error = stream.error /\ QueueEnds'
  BY Took
<1>2. CallTypes'
  BY <1>1 DEF CallInv, CallTypes
<1>3. Unused'
  BY DEF Unused
<1>4. fut.state = "open" /\ Running /\ UnderWay
  BY DEF CallInv, CallerStands, Running, UnderWay
<1>5. CallerStands'
  BY <1>4 DEF CallInv, CallerStands, FutDone, Alive
<1>6. PumpStands'
  BY <1>1, <1>4 DEF CallInv, PumpStands, Alive
<1>7. LinkStands'
  BY <1>1, <1>4 DEF CallInv, LinkStands, Overtaken, Alive
<1>8. EndsLast'
  BY DEF CallInv, EndsLast
<1>9. ReaderAsks'
  <2> DEFINE heard == Len(server.heard)
  <2>1. heard \in Nat /\ got \in Nat /\ input \in Inputs /\ server.items \in Nat
    BY DEF CallInv, CallTypes, Servers
  <2>2. Pulls(input) \in Nat /\ Pulls(input') \in Nat
    BY <2>1, PullsType
  <2>3. OneAhead'
    <3>1. feed \in {"download", "read"} => server.items <= got + 1
      BY DEF CallInv, ReaderAsks, OneAhead
    <3>2. feed \in {"download", "read"} => server.items <= got' + 1
      BY <2>1, <3>1
    <3> QED
      BY <3>2 DEF OneAhead
  <2>4. ASSUME feed \in {"download", "read"}, ~Has(server.heard, "end")
        PROVE  heard + Pulls(input') + One(call'.at = "busy")
                   + One(pump.state \in {"none", "starting"}) + One(feed = "read" /\ gen' = "none")
               <= got' + 1 + One(feed = "read")
    <3>1. heard + Pulls(input) + One(call.at = "busy")
              + One(pump.state \in {"none", "starting"}) + One(feed = "read" /\ gen = "none")
          <= got + 1 + One(feed = "read")
      BY <2>4 DEF CallInv, ReaderAsks
    <3>2. /\ One(call.at = "busy") = 0 /\ One(call'.at = "busy") \in Nat
          /\ One(pump.state \in {"none", "starting"}) \in Nat /\ One(feed = "read") \in Nat
          /\ One(feed = "read" /\ gen = "none") \in Nat /\ One(feed = "read" /\ gen' = "none") = 0
      BY DEF One
    <3>3. Pulls(input') + One(call'.at = "busy") + got <= Pulls(input) + got'
      BY <2>4
    <3> HIDE DEF heard
    <3> QED
      BY <2>1, <2>2, <3>1, <3>2, <3>3
  <2> QED
    BY <2>3, <2>4 DEF ReaderAsks
<1>10. SourceSent'
  BY <1>1, <1>4 DEF CallInv, SourceSent, Alive, Data, UnderWay, Running
<1> QED
  BY <1>1, <1>2, <1>3, <1>5, <1>6, <1>7, <1>8, <1>9, <1>10

LEMMA Using ==
    ASSUME CallInv, call.at = "using"
    PROVE  /\ call \in Calls /\ fut.state = "open" /\ gen = "live" /\ call.outcome # "ok"
           /\ input \in Inputs /\ got \in Nat /\ Running /\ UnderWay
           /\ Pulls(input) \in Nat /\ server.items \in Nat
           /\ feed = "source" => ~input.closed
BY PullsType DEF CallInv, CallTypes, CallerStands, Running, UnderWay, SourceSent, Servers

LEMMA TakeItemKeeps == CallInv /\ TakeItem => CallInv'
<1> SUFFICES ASSUME CallInv, TakeItem PROVE CallInv'
  OBVIOUS
<1>1. /\ call.at = "using" /\ TakeHead /\ Next1 = "item" /\ got' = got + 1
      /\ UNCHANGED <<feed, size, fut, gen, pump, link, inbox, server>>
  BY DEF TakeItem
<1>2. /\ call \in Calls /\ fut.state = "open" /\ gen = "live" /\ call.outcome # "ok"
      /\ input \in Inputs /\ got \in Nat /\ Running /\ UnderWay
      /\ Pulls(input) \in Nat /\ server.items \in Nat
      /\ feed = "source" => ~input.closed
  BY <1>1, Using
<1>3. /\ call' \in Calls /\ call'.outcome = call.outcome
      /\ call'.at = IF feed \in {"download", "read"} THEN "busy" ELSE "using"
  BY <1>1, <1>2 DEF TakeItem, Calls
<1>4. /\ input' \in Inputs /\ input'.closed = input.closed
      /\ input'.given = input.given /\ input'.exhausted = input.exhausted
      /\ feed # "source" => input' = input
  BY <1>2, InputAsked DEF TakeItem, Asks
<1>5. /\ CallTypes' /\ Unused' /\ CallerStands' /\ PumpStands' /\ LinkStands' /\ EndsLast'
      /\ QueueEnds' /\ ReaderAsks' /\ SourceSent'
  <2>1. One(call'.at = "busy") = IF feed \in {"download", "read"} THEN 1 ELSE 0
    BY <1>3 DEF One
  <2> QED
    BY <1>1, <1>2, <1>3, <1>4, <2>1, TakeKeeps
<1>6. /\ stream'.open = stream.open /\ stream'.error = stream.error
      /\ TakesFrom(stream.queue, stream'.queue) /\ Head(stream.queue) = "item"
  BY <1>1, Took
<1>7. /\ Count(stream.queue, {"item"}) = Count(stream'.queue, {"item"}) + 1
      /\ Count(stream.queue, {"error"}) = Count(stream'.queue, {"error"})
      /\ Count(stream'.queue, {"item"}) \in Nat /\ Count(stream'.queue, {"error"}) \in Nat
  <2>1. One("item" \in {"item"}) = 1 /\ One("item" \in {"error"}) = 0
    BY DEF One
  <2> QED
    BY <1>6, <2>1 DEF TakesFrom
<1>8. Owed'
  <2>1. Count(inbox, {<<"chunk", "item">>}) \in Nat /\ Count(inbox, {<<"chunk", "error">>}) \in Nat
    BY CountType DEF CallInv, CallTypes
  <2>2. ItemsDue = ItemsDue' + 1 /\ ItemsDue' \in Nat /\ ErrorsDue' = ErrorsDue /\ ErrorsDue \in Nat
    BY <1>1, <1>7, <2>1 DEF ItemsDue, ErrorsDue
  <2>3. FailureDue' = FailureDue /\ FailureDue \in Nat
    BY <1>1 DEF FailureDue, Failure
  <2> QED
    BY <1>1, <1>2, <1>6, <2>2, <2>3 DEF CallInv, Owed
<1>9. EndedWell'
  <2> SUFFICES ASSUME ~stream.open, stream.error = "none" PROVE EndedWell'
    BY <1>6 DEF EndedWell
  <2>1. /\ server.closed \in {"normal", "failed"} /\ stream.queue[Len(stream.queue)] = "end"
        /\ feed \in Raw => got + Count(stream.queue, {"item"}) + Count(stream.queue, {"error"})
                           = server.items + Failure
        /\ feed \notin Raw => /\ stream.queue[Len(stream.queue) - 1] = "close"
                              /\ got + Count(stream.queue, {"item"}) = server.items
        /\ feed \notin Raw /\ feed # "download" => Count(stream.queue, {"error"}) = Failure
    BY <1>2 DEF CallInv, EndedWell
  <2>2. /\ Len(stream'.queue) > 0 /\ stream'.queue[Len(stream'.queue)] = "end"
        /\ feed \notin Raw => Len(stream'.queue) > 1
                              /\ stream'.queue[Len(stream'.queue) - 1] = "close"
    BY <1>6, <2>1, RestEnds
  <2>3. stream'.queue # <<>>
    BY <2>2
  <2>4. /\ feed \in Raw => got' + Count(stream'.queue, {"item"}) + Count(stream'.queue, {"error"})
                           = server.items + Failure
        /\ feed \notin Raw => got' + Count(stream'.queue, {"item"}) = server.items
    <3>1. Failure \in Nat
      BY DEF Failure
    <3>2. CASE feed \in Raw
      BY <1>1, <1>2, <1>7, <2>1, <3>1, <3>2
    <3>3. CASE feed \notin Raw
      BY <1>1, <1>2, <1>7, <2>1, <3>3
    <3> QED
      BY <3>2, <3>3
  <2>5. feed \notin Raw /\ feed # "download" => Count(stream'.queue, {"error"}) = Failure
    BY <1>7, <2>1
  <2> QED
    BY <1>1, <2>1, <2>2, <2>3, <2>4, <2>5 DEF EndedWell, Failure
<1>10. EndIsHonest'
  BY <1>2, <1>3 DEF EndIsHonest
<1> QED
  BY <1>5, <1>8, <1>9, <1>10 DEF CallInv

LEMMA TakeErrorKeeps == CallInv /\ TakeError => CallInv'
<1> SUFFICES ASSUME CallInv, TakeError PROVE CallInv'
  OBVIOUS
<1>1. /\ call.at = "using" /\ TakeHead /\ Next1 = "error"
      /\ UNCHANGED <<feed, size, fut, pump, link, inbox, server>>
      /\ feed \in Raw => got' = got + 1 /\ UNCHANGED <<call, input, gen>>
      /\ feed \notin Raw => Leave("raised") /\ UNCHANGED got
  BY DEF TakeError
<1>2. /\ call \in Calls /\ fut.state = "open" /\ gen = "live" /\ call.outcome # "ok"
      /\ input \in Inputs /\ got \in Nat /\ Running /\ UnderWay
      /\ Pulls(input) \in Nat /\ server.items \in Nat
      /\ feed = "source" => ~input.closed
  BY <1>1, Using
<1>3. /\ call' \in Calls /\ call'.outcome # "ok"
      /\ call'.at = IF feed \in Raw THEN "using" ELSE "done"
      /\ gen' = IF feed \in Raw THEN "live" ELSE "leaving"
  BY <1>1, <1>2 DEF Leave, Returns, Calls
<1>4. /\ input' \in Inputs /\ input'.given = input.given /\ input'.exhausted = input.exhausted
      /\ feed \in Raw => input' = input
      /\ feed \notin Raw => Pulls(input') = 0
  BY <1>1, <1>2, InputCloses DEF Leave
<1>5. /\ CallTypes' /\ Unused' /\ CallerStands' /\ PumpStands' /\ LinkStands' /\ EndsLast'
      /\ QueueEnds' /\ ReaderAsks' /\ SourceSent'
  <2>1. One(call'.at = "busy") = 0
    BY <1>3 DEF One
  <2>2. got' \in Nat /\ got <= got'
    BY <1>1, <1>2
  <2>3. feed \in {"download", "read"} => got' = got /\ Pulls(input') = 0
    BY <1>1, <1>4 DEF Raw
  <2>4. feed \in {"download", "read"} =>
            Pulls(input') + One(call'.at = "busy") + got <= Pulls(input) + got'
    BY <1>2, <2>1, <2>3
  <2> QED
    BY <1>1, <1>2, <1>3, <1>4, <2>2, <2>4, TakeKeeps
<1>6. /\ stream'.open = stream.open /\ stream'.error = stream.error
      /\ TakesFrom(stream.queue, stream'.queue) /\ Head(stream.queue) = "error"
  BY <1>1, Took
<1>7. /\ Count(stream.queue, {"item"}) = Count(stream'.queue, {"item"})
      /\ Count(stream.queue, {"error"}) = Count(stream'.queue, {"error"}) + 1
      /\ Count(stream'.queue, {"item"}) \in Nat /\ Count(stream'.queue, {"error"}) \in Nat
  <2>1. One("error" \in {"item"}) = 0 /\ One("error" \in {"error"}) = 1
    BY DEF One
  <2> QED
    BY <1>6, <2>1 DEF TakesFrom
<1>8. Owed'
  <2>1. Count(inbox, {<<"chunk", "item">>}) \in Nat /\ Count(inbox, {<<"chunk", "error">>}) \in Nat
    BY CountType DEF CallInv, CallTypes
  <2>2. /\ ItemsDue = ItemsDue' /\ ItemsDue' \in Nat
        /\ ErrorsDue = ErrorsDue' + 1 /\ ErrorsDue' \in Nat
    BY <1>1, <1>7, <2>1 DEF ItemsDue, ErrorsDue
  <2>3. FailureDue' = FailureDue /\ FailureDue \in Nat
    BY <1>1 DEF FailureDue, Failure
  <2>4. feed \notin Raw => ~UnderWay'
    BY <1>3 DEF UnderWay
  <2> QED
    BY <1>1, <1>2, <1>6, <2>2, <2>3, <2>4 DEF CallInv, Owed
<1>9. EndedWell'
  <2> SUFFICES ASSUME ~stream.open, stream.error = "none", feed \in Raw PROVE EndedWell'
    BY <1>3, <1>6 DEF EndedWell, Running, UnderWay
  <2>1. /\ server.closed \in {"normal", "failed"} /\ stream.queue[Len(stream.queue)] = "end"
        /\ got + Count(stream.queue, {"item"}) + Count(stream.queue, {"error"})
           = server.items + Failure
    BY <1>2 DEF CallInv, EndedWell
  <2>2. Len(stream'.queue) > 0 /\ stream'.queue[Len(stream'.queue)] = "end"
    BY <1>6, <2>1, RestEnds
  <2>3. stream'.queue # <<>>
    BY <2>2
  <2>4. Failure \in Nat
    BY DEF Failure
  <2>5. got' + Count(stream'.queue, {"item"}) + Count(stream'.queue, {"error"})
        = server.items + Failure
    BY <1>1, <1>2, <1>7, <2>1, <2>4
  <2> QED
    BY <1>1, <2>1, <2>2, <2>3, <2>5 DEF EndedWell, Failure
<1>10. EndIsHonest'
  BY <1>3 DEF EndIsHonest
<1> QED
  BY <1>5, <1>8, <1>9, <1>10 DEF CallInv

(* The end of the queue, and the item before it *)
LEMMA NearEnd ==
    ASSUME CallInv, Running, stream.queue # <<>>, ~stream.open, stream.error = "none",
           NEW rest, TakesFrom(stream.queue, rest)
    PROVE  /\ Head(stream.queue) = "close" =>
                  /\ Len(rest) = 1 /\ rest[1] = "end"
                  /\ Count(stream.queue, {"item"}) = 0 /\ Count(stream.queue, {"error"}) = 0
           /\ Head(stream.queue) = "end" =>
                  /\ feed \in Raw
                  /\ Count(stream.queue, {"item"}) = 0 /\ Count(stream.queue, {"error"}) = 0
<1>1. /\ Len(stream.queue) \in Nat \ {0} /\ Len(rest) = Len(stream.queue) - 1
      /\ Head(stream.queue) = stream.queue[1] /\ 1 \in 1..Len(stream.queue)
      /\ \A i \in 1..Len(rest) : rest[i] = stream.queue[i + 1]
  BY DEF TakesFrom
<1>2. /\ stream.queue[Len(stream.queue)] = "end"
      /\ feed \notin Raw => Len(stream.queue) > 1
  BY DEF CallInv, EndedWell
<1>3. CASE Head(stream.queue) = "close"
  <2>1. Len(stream.queue) = 2
    <3>1. stream.queue[1] = "close" /\ 1 \in 1..Len(stream.queue)
      BY <1>1, <1>3
    <3>2. 1 + 1 = Len(stream.queue)
      BY <3>1 DEF CallInv, QueueEnds
    <3> QED
      BY <3>2
  <2>2. \A i \in 1..Len(stream.queue) : stream.queue[i] \in {"close", "end"}
    BY <1>1, <1>2, <1>3, <2>1
  <2>3. Count(stream.queue, {"item"}) = 0 /\ Count(stream.queue, {"error"}) = 0
    BY <2>2, CountNone
  <2>4. Len(rest) = 1 /\ rest[1] = stream.queue[2]
    BY <1>1, <2>1
  <2> QED
    BY <1>2, <1>3, <2>1, <2>3, <2>4
<1>4. CASE Head(stream.queue) = "end"
  <2>1. Len(stream.queue) = 1
    BY <1>1, <1>4 DEF CallInv, QueueEnds
  <2>2. \A i \in 1..Len(stream.queue) : stream.queue[i] = "end"
    BY <1>1, <1>4, <2>1
  <2>3. Count(stream.queue, {"item"}) = 0 /\ Count(stream.queue, {"error"}) = 0
    BY <2>2, CountNone
  <2>4. feed \in Raw
    BY <1>2, <2>1
  <2> QED
    BY <1>4, <2>3, <2>4
<1> QED
  BY <1>3, <1>4

LEMMA TakeCloseKeeps == CallInv /\ TakeClose => CallInv'
<1> SUFFICES ASSUME CallInv, TakeClose PROVE CallInv'
  OBVIOUS
<1>1. /\ call.at = "using" /\ TakeHead /\ Next1 = "close"
      /\ UNCHANGED <<feed, size, fut, pump, got, link, inbox, server>>
      /\ feed \in Raw => UNCHANGED <<call, input, gen>>
      /\ feed \notin Raw => Leave(IF Complete THEN "ok" ELSE "raised")
  BY DEF TakeClose
<1>2. /\ call \in Calls /\ fut.state = "open" /\ gen = "live" /\ call.outcome # "ok"
      /\ input \in Inputs /\ got \in Nat /\ Running /\ UnderWay
      /\ Pulls(input) \in Nat /\ server.items \in Nat
      /\ feed = "source" => ~input.closed
  BY <1>1, Using
<1>3. /\ call' \in Calls
      /\ call'.at = IF feed \in Raw THEN "using" ELSE "done"
      /\ call'.outcome = "ok" => feed \notin Raw /\ Complete
      /\ gen' = IF feed \in Raw THEN "live" ELSE "leaving"
  BY <1>1, <1>2 DEF Leave, Returns, Calls
<1>4. /\ input' \in Inputs /\ input'.given = input.given /\ input'.exhausted = input.exhausted
      /\ feed \in Raw => input' = input
      /\ feed \notin Raw => Pulls(input') = 0
  BY <1>1, <1>2, InputCloses DEF Leave
<1>5. /\ CallTypes' /\ Unused' /\ CallerStands' /\ PumpStands' /\ LinkStands' /\ EndsLast'
      /\ QueueEnds' /\ ReaderAsks' /\ SourceSent'
  <2>1. One(call'.at = "busy") = 0
    BY <1>3 DEF One
  <2>2. got' \in Nat /\ got <= got'
    BY <1>1, <1>2
  <2>3. feed \in {"download", "read"} => got' = got /\ Pulls(input') = 0
    BY <1>1, <1>4 DEF Raw
  <2>4. feed \in {"download", "read"} =>
            Pulls(input') + One(call'.at = "busy") + got <= Pulls(input) + got'
    BY <1>2, <2>1, <2>3
  <2> QED
    BY <1>1, <1>2, <1>3, <1>4, <2>2, <2>4, TakeKeeps
<1>6. /\ stream'.open = stream.open /\ stream'.error = stream.error /\ stream.queue # <<>>
      /\ TakesFrom(stream.queue, stream'.queue) /\ Head(stream.queue) = "close"
  BY <1>1, Took
<1>7. ~stream.open /\ stream.error = "none"
  <2>1. 1 \in 1..Len(stream.queue) /\ stream.queue[1] = "close"
    BY <1>6 DEF TakesFrom
  <2> QED
    BY <2>1 DEF CallInv, QueueEnds
<1>8. Owed'
  BY <1>6, <1>7 DEF Owed
<1>9. /\ Len(stream'.queue) = 1 /\ stream'.queue[1] = "end"
      /\ Count(stream.queue, {"item"}) = 0 /\ Count(stream.queue, {"error"}) = 0
      /\ Count(stream'.queue, {"item"}) = 0 /\ Count(stream'.queue, {"error"}) = 0
  <2>1. /\ Len(stream'.queue) = 1 /\ stream'.queue[1] = "end"
        /\ Count(stream.queue, {"item"}) = 0 /\ Count(stream.queue, {"error"}) = 0
    BY <1>2, <1>6, <1>7, NearEnd
  <2>2. \A i \in 1..Len(stream'.queue) : stream'.queue[i] = "end"
    BY <2>1
  <2>3. Count(stream'.queue, {"item"}) = 0 /\ Count(stream'.queue, {"error"}) = 0
    BY <2>2, CountNone
  <2> QED
    BY <2>1, <2>3
<1>10. EndedWell'
  <2> SUFFICES ASSUME feed \in Raw PROVE EndedWell'
    BY <1>3 DEF EndedWell, Running, UnderWay
  <2>1. /\ server.closed \in {"normal", "failed"}
        /\ got + Count(stream.queue, {"item"}) + Count(stream.queue, {"error"})
           = server.items + Failure
    BY <1>2, <1>7 DEF CallInv, EndedWell
  <2>2. stream'.queue # <<>>
    BY <1>9
  <2> QED
    BY <1>1, <1>9, <2>1, <2>2 DEF EndedWell, Failure
<1>11. EndIsHonest'
  <2> SUFFICES ASSUME feed \notin Raw, Complete PROVE EndIsHonest'
    BY <1>3 DEF EndIsHonest
  <2>1. CASE feed = "download"
    BY <1>1, <2>1 DEF EndIsHonest, Complete, Raw
  <2>2. CASE feed # "download"
    <3>1. /\ server.closed \in {"normal", "failed"} /\ got + 0 = server.items
          /\ Failure = 0
      BY <1>2, <1>7, <1>9, <2>2 DEF CallInv, EndedWell
    <3>2. server.closed = "normal" /\ got = server.items
      BY <1>2, <3>1 DEF Failure
    <3>3. feed = "source" => input.exhausted /\ Data = input.given
      BY <1>2, <1>7, <3>2 DEF CallInv, SourceSent
    <3> QED
      BY <1>1, <1>4, <2>2, <3>2, <3>3 DEF EndIsHonest, Raw, Data
  <2> QED
    BY <2>1, <2>2
<1> QED
  BY <1>5, <1>8, <1>10, <1>11 DEF CallInv

LEMMA TakeEndKeeps == CallInv /\ TakeEnd => CallInv'
<1> SUFFICES ASSUME CallInv, TakeEnd PROVE CallInv'
  OBVIOUS
<1>1. /\ call.at = "using" /\ TakeHead /\ Next1 = "end" /\ gen' = "leaving"
      /\ UNCHANGED <<feed, size, fut, pump, input, got, link, inbox, server>>
  BY DEF TakeEnd
<1>2. /\ call \in Calls /\ fut.state = "open" /\ gen = "live" /\ call.outcome # "ok"
      /\ input \in Inputs /\ got \in Nat /\ Running /\ UnderWay
      /\ Pulls(input) \in Nat /\ server.items \in Nat
      /\ feed = "source" => ~input.closed
  BY <1>1, Using
<1>3. /\ call' \in Calls /\ call'.at = "leaving"
      /\ call'.outcome = "ok" => stream.error = "none"
  BY <1>1, <1>2 DEF TakeEnd, Calls
<1>4. /\ CallTypes' /\ Unused' /\ CallerStands' /\ PumpStands' /\ LinkStands' /\ EndsLast'
      /\ QueueEnds' /\ ReaderAsks' /\ SourceSent'
  <2>1. One(call'.at = "busy") = 0
    BY <1>3 DEF One
  <2>2. Pulls(input') + One(call'.at = "busy") + got <= Pulls(input) + got'
    BY <1>1, <1>2, <2>1
  <2> QED
    BY <1>1, <1>2, <1>3, <2>2, TakeKeeps
<1>5. /\ stream'.open = stream.open /\ stream'.error = stream.error /\ stream.queue # <<>>
      /\ TakesFrom(stream.queue, stream'.queue) /\ Head(stream.queue) = "end"
  BY <1>1, Took
<1>6. ~stream.open
  <2>1. 1 \in 1..Len(stream.queue) /\ stream.queue[1] = "end"
    BY <1>5 DEF TakesFrom
  <2> QED
    BY <2>1 DEF CallInv, QueueEnds
<1>7. Owed'
  BY <1>5, <1>6 DEF Owed
<1>8. EndedWell'
  BY <1>3 DEF EndedWell, Running, UnderWay
<1>9. EndIsHonest'
  <2> SUFFICES ASSUME stream.error = "none" PROVE EndIsHonest'
    BY <1>3 DEF EndIsHonest
  <2>1. /\ feed \in Raw
        /\ Count(stream.queue, {"item"}) = 0 /\ Count(stream.queue, {"error"}) = 0
    BY <1>2, <1>5, <1>6, NearEnd
  <2>2. /\ server.closed \in {"normal", "failed"} /\ got + 0 + 0 = server.items + Failure
    BY <1>2, <1>6, <2>1 DEF CallInv, EndedWell
  <2>3. \/ server.closed = "normal" /\ got = server.items
        \/ server.closed = "failed" /\ got = server.items + 1
    BY <1>2, <2>2 DEF Failure
  <2> QED
    BY <1>1, <2>1, <2>3 DEF EndIsHonest, Raw
<1> QED
  BY <1>4, <1>7, <1>8, <1>9 DEF CallInv

-----------------------------------------------------------------------------
(* What the server does                                                    *)

Close == <<"chunk", "close">>
Abort == <<"chunk", "abort">>
Error == <<"chunk", "error">>
AnItem == <<"chunk", "item">>
Final == {Close, Abort, Error, <<"answer", "content">>}

LEMMA NothingFinal ==
    ASSUME CallInv, server.closed = "no"
    PROVE  /\ inbox \in Seq(Answer \cup Chunk) /\ Len(inbox) \in Nat
           /\ \A i \in 1..Len(inbox) : inbox[i] \notin Final
           /\ ~Has(inbox, Close)
<1>1. inbox \in Seq(Answer \cup Chunk)
  BY DEF CallInv, CallTypes
<1>2. Len(inbox) \in Nat
  BY <1>1
<1>3. ASSUME NEW i \in 1..Len(inbox) PROVE inbox[i] \notin Final
  <2>1. /\ inbox[i] \in {Close, Abort} => server.closed \in {"normal", "failed"}
        /\ inbox[i] \in {Error, Abort} => server.closed = "failed"
        /\ inbox[i] = <<"answer", "content">> => server.closed # "no"
    BY DEF CallInv, EndsLast, Close, Abort, Error
  <2> QED
    BY <2>1 DEF Final
<1>4. ~Has(inbox, Close)
  BY <1>3 DEF Has, Final
<1> QED
  BY <1>1, <1>2, <1>3, <1>4

(* A step of a server that has not ended the call *)
LEMMA ServerKeeps ==
    ASSUME CallInv, call.at # "idle", link.up, link.epoch = 1, server.closed = "no",
           UNCHANGED <<feed, size, call, fut, stream, gen, pump, input, got, link>>,
           inbox' \in Seq(Answer \cup Chunk), server' \in Servers,
           server'.heard = server.heard, server'.foreign = server.foreign
    PROVE  /\ CallTypes' /\ Unused' /\ CallerStands' /\ PumpStands' /\ LinkStands' /\ QueueEnds'
           /\ EndedWell' /\ EndIsHonest'
<1>1. CallTypes'
  BY DEF CallInv, CallTypes
<1>2. Unused'
  BY DEF Unused
<1>3. CallerStands'
  BY DEF CallInv, CallerStands, FutDone, Alive
<1>4. PumpStands'
  BY DEF CallInv, PumpStands, Alive, Running, UnderWay
<1>5. LinkStands'
  BY DEF CallInv, LinkStands, Alive
<1>6. QueueEnds'
  BY DEF CallInv, QueueEnds
<1>7. EndedWell'
  BY DEF CallInv, EndedWell, Running, UnderWay
<1>8. EndIsHonest'
  BY DEF CallInv, EndIsHonest
<1> QED
  BY <1>1, <1>2, <1>3, <1>4, <1>5, <1>6, <1>7, <1>8

(* The end of a server that closes well or not at all is the last it sends, *)
(* and nothing else it sends is an end                                      *)
LEMMA SentLast ==
    ASSUME CallInv, server.closed = "no", NEW x \in Answer \cup Chunk,
           inbox' = Append(inbox, x), UNCHANGED fut,
           x \in {Close, Abort} => server'.closed \in {"normal", "failed"},
           x \in {Error, Abort} => server'.closed = "failed",
           x = <<"answer", "content">> => server'.closed # "no"
    PROVE  /\ EndsLast' /\ inbox' \in Seq(Answer \cup Chunk) /\ AddsTo(inbox, inbox', x)
<1>1. /\ inbox \in Seq(Answer \cup Chunk) /\ Len(inbox) \in Nat
      /\ \A i \in 1..Len(inbox) : inbox[i] \notin Final
  BY NothingFinal
<1>2. inbox' \in Seq(Answer \cup Chunk) /\ AddsTo(inbox, inbox', x)
  BY <1>1, Adds
<1>3. fut'.state = "content" => server'.closed # "no"
  BY DEF CallInv, EndsLast
<1>4. ASSUME NEW i \in 1..Len(inbox')
      PROVE  /\ inbox'[i] \in {Close, Abort} =>
                    i = Len(inbox') /\ server'.closed \in {"normal", "failed"}
             /\ inbox'[i] \in {Error, Abort} => server'.closed = "failed"
             /\ inbox'[i] = <<"answer", "content">> => server'.closed # "no"
  <2>1. CASE i \in 1..Len(inbox)
    <3>1. inbox'[i] \notin Final
      BY <1>1, <1>2, <2>1 DEF AddsTo
    <3> QED
      BY <3>1 DEF Final
  <2>2. CASE i = Len(inbox')
    <3>1. inbox'[i] = x
      BY <1>2, <2>2 DEF AddsTo
    <3> QED
      BY <2>2, <3>1
  <2>3. i \in 1..Len(inbox) \/ i = Len(inbox')
    BY <1>1, <1>2 DEF AddsTo
  <2> QED
    BY <2>1, <2>2, <2>3
<1> QED
  BY <1>2, <1>3, <1>4 DEF EndsLast, Close, Abort, Error

(* What is owed once one more is sent *)
LEMMA OwedMore ==
    ASSUME CallInv, server.closed = "no",
           UNCHANGED <<feed, call, stream, got>>, server'.items \in Nat,
           NEW item \in {0, 1}, NEW failure \in {0, 1},
           Count(inbox', {AnItem}) = Count(inbox, {AnItem}) + item,
           server'.items = server.items + item,
           feed # "download" => /\ Count(inbox', {Error}) = Count(inbox, {Error}) + failure
                                /\ FailureDue' = failure
    PROVE  Owed'
<1>1. /\ Count(inbox, {AnItem}) \in Nat /\ Count(inbox, {Error}) \in Nat
      /\ Count(stream.queue, {"item"}) \in Nat /\ Count(stream.queue, {"error"}) \in Nat
      /\ got \in Nat /\ server.items \in Nat
  <2>1. /\ inbox \in Seq(Answer \cup Chunk) /\ stream.queue \in Seq(Item)
        /\ got \in Nat /\ server.items \in Nat
    BY DEF CallInv, CallTypes, ChunkStreams, Servers
  <2> QED
    BY <2>1, CountType
<1>2. FailureDue = 0
  BY DEF FailureDue, Failure
<1>3. ItemsDue' = ItemsDue + item /\ ItemsDue \in Nat /\ ErrorsDue \in Nat
  BY <1>1 DEF ItemsDue, ErrorsDue, AnItem, Error
<1>4. feed # "download" => ErrorsDue' = ErrorsDue + failure
  BY <1>1 DEF ErrorsDue, Error
<1>5. ASSUME stream.open, feed \in Raw
      PROVE  got + ItemsDue' + ErrorsDue' = server'.items + FailureDue'
  <2>1. feed # "download"
    BY <1>5 DEF Raw
  <2>2. got + ItemsDue + ErrorsDue = server.items + 0
    BY <1>2, <1>5 DEF CallInv, Owed
  <2> QED
    BY <1>1, <1>3, <1>4, <2>1, <2>2
<1>6. ASSUME stream.open, feed \notin Raw, UnderWay
      PROVE  /\ got + ItemsDue' = server'.items
             /\ feed # "download" => ErrorsDue' = FailureDue'
  <2>1. got + ItemsDue = server.items /\ (feed # "download" => ErrorsDue = 0)
    BY <1>2, <1>6 DEF CallInv, Owed
  <2> QED
    BY <1>1, <1>3, <1>4, <2>1
<1> QED
  BY <1>5, <1>6 DEF Owed, UnderWay

LEMMA ServerAnswersKeeps == CallInv /\ ServerAnswers => CallInv'
<1> SUFFICES ASSUME CallInv, ServerAnswers PROVE CallInv'
  OBVIOUS
<1>1. /\ call.at # "idle" /\ link.up /\ link.epoch = 1 /\ server.closed = "no"
      /\ UNCHANGED <<feed, size, call, fut, stream, gen, pump, input, got, link>>
      /\ server \in Servers /\ server.items \in Nat
  BY DEF ServerAnswers, Serving, CallInv, CallTypes, Servers
<1>2. PICK answer \in {"open", "content", "refusal"} :
        /\ inbox' = Append(inbox, <<"answer", answer>>)
        /\ server' = [server EXCEPT !.answered = TRUE,
                                    !.closed = IF answer = "open" THEN @ ELSE "answered"]
  BY DEF ServerAnswers, Sends, Answers
<1> DEFINE x == <<"answer", answer>>
<1>3. /\ server' \in Servers /\ server'.heard = server.heard /\ server'.foreign = server.foreign
      /\ server'.items = server.items
      /\ server'.closed = IF answer = "open" THEN "no" ELSE "answered"
  BY <1>1, <1>2 DEF Servers
<1>4. x \in Answer /\ x \notin {Close, Abort, Error, AnItem}
  BY DEF Answer, Close, Abort, Error, AnItem
<1>5. x = <<"answer", "content">> => answer = "content"
  OBVIOUS
<1> HIDE DEF x
<1>6. EndsLast' /\ inbox' \in Seq(Answer \cup Chunk) /\ AddsTo(inbox, inbox', x)
  <2>1. inbox' = Append(inbox, x)
    BY <1>2 DEF x
  <2> QED
    BY <1>1, <1>3, <1>4, <1>5, <2>1, SentLast
<1>7. /\ CallTypes' /\ Unused' /\ CallerStands' /\ PumpStands' /\ LinkStands' /\ QueueEnds'
      /\ EndedWell' /\ EndIsHonest'
  BY <1>1, <1>3, <1>6, ServerKeeps
<1>8. Owed'
  <2>1. One(x \in {AnItem}) = 0 /\ One(x \in {Error}) = 0
    BY <1>4 DEF One
  <2>2. /\ Count(inbox', {AnItem}) = Count(inbox, {AnItem}) + 0
        /\ Count(inbox', {Error}) = Count(inbox, {Error}) + 0
    BY <1>6, <2>1 DEF AddsTo
  <2>3. FailureDue' = 0
    BY <1>3 DEF FailureDue, Failure
  <2>4. server'.items = server.items + 0
    BY <1>1, <1>3
  <2> QED
    BY <1>1, <1>3, <2>2, <2>3, <2>4, OwedMore
<1>9. ReaderAsks'
  BY <1>1, <1>3 DEF CallInv, ReaderAsks, OneAhead
<1>10. SourceSent'
  BY <1>1, <1>3 DEF CallInv, SourceSent, Data, Running, UnderWay, Alive
<1> QED
  BY <1>6, <1>7, <1>8, <1>9, <1>10 DEF CallInv

LEMMA ServerSendsItemKeeps == CallInv /\ ServerSendsItem => CallInv'
<1> SUFFICES ASSUME CallInv, ServerSendsItem PROVE CallInv'
  OBVIOUS
<1>1. /\ call.at # "idle" /\ link.up /\ link.epoch = 1 /\ server.closed = "no"
      /\ UNCHANGED <<feed, size, call, fut, stream, gen, pump, input, got, link>>
      /\ server \in Servers /\ server.items \in Nat /\ got \in Nat
      /\ inbox' = Append(inbox, AnItem) /\ ItemDue
  BY DEF ServerSendsItem, Serving, CallInv, CallTypes, Servers, Sends, AnItem
<1>2. /\ server' \in Servers /\ server'.heard = server.heard /\ server'.foreign = server.foreign
      /\ server'.items = server.items + 1 /\ server'.closed = "no"
  BY <1>1 DEF Servers, ServerSendsItem
<1>3. AnItem \in Chunk /\ AnItem \notin Final /\ AnItem # Error
  BY DEF Chunk, Final, Close, Abort, Error, AnItem
<1>4. EndsLast' /\ inbox' \in Seq(Answer \cup Chunk) /\ AddsTo(inbox, inbox', AnItem)
  BY <1>1, <1>3, SentLast DEF Final
<1>5. /\ CallTypes' /\ Unused' /\ CallerStands' /\ PumpStands' /\ LinkStands' /\ QueueEnds'
      /\ EndedWell' /\ EndIsHonest'
  BY <1>1, <1>2, <1>4, ServerKeeps
<1>6. Owed'
  <2>1. One(AnItem \in {AnItem}) = 1 /\ One(AnItem \in {Error}) = 0
    BY <1>3 DEF One
  <2>2. /\ Count(inbox', {AnItem}) = Count(inbox, {AnItem}) + 1
        /\ Count(inbox', {Error}) = Count(inbox, {Error}) + 0
    BY <1>4, <2>1 DEF AddsTo
  <2>3. FailureDue' = 0 /\ server'.items \in Nat
    BY <1>1, <1>2 DEF FailureDue, Failure
  <2> QED
    BY <1>1, <1>2, <2>2, <2>3, OwedMore
<1>7. ReaderAsks'
  <2> DEFINE asked == Len(server.heard)
  <2>1. ASSUME feed \in {"download", "read"} PROVE server.items + 1 <= got + 1
    <3>1. /\ ~Has(server.heard, "end")
          /\ server.items + One(feed = "read") < asked
      <4>1. server.heard \in Seq({"start", "data", "pull", "end"}) /\ asked \in Nat
        BY <1>1 DEF Servers
      <4>2. Heard("end") <=> Has(server.heard, "end")
        BY <4>1, HeardIs DEF Heard
      <4>3. CASE feed = "download"
        <5>1. One(feed = "read") = 0
          BY <4>3 DEF One
        <5>2. server.items < (IF Heard("end") THEN 0 ELSE asked)
          BY <1>1, <4>3 DEF ItemDue
        <5> QED
          BY <1>1, <4>1, <4>2, <5>1, <5>2
      <4>4. CASE feed = "read"
        <5>1. One(feed = "read") = 1
          BY <4>4 DEF One
        <5>2. server.items + 1 < (IF Heard("end") THEN 0 ELSE asked)
          BY <1>1, <4>4 DEF ItemDue
        <5> QED
          BY <1>1, <4>1, <4>2, <5>1, <5>2
      <4> QED
        BY <2>1, <4>3, <4>4
    <3>2. asked + Pulls(input) + One(call.at = "busy") + One(pump.state \in {"none", "starting"})
              + One(feed = "read" /\ gen = "none")
          <= got + 1 + One(feed = "read")
      BY <2>1, <3>1 DEF CallInv, ReaderAsks
    <3>3. /\ One(call.at = "busy") \in Nat /\ One(pump.state \in {"none", "starting"}) \in Nat
          /\ One(feed = "read" /\ gen = "none") \in Nat /\ One(feed = "read") \in Nat
      BY DEF One
    <3>4. Pulls(input) \in Nat /\ asked \in Nat
      <4>1. input \in Inputs /\ server.heard \in Seq({"start", "data", "pull", "end"})
        BY <1>1 DEF CallInv, CallTypes, Servers
      <4> QED
        BY <4>1, PullsType
    <3> DEFINE more == One(feed = "read")
    <3>5. asked <= got + 1 + more /\ more \in Nat
      BY <1>1, <3>2, <3>3, <3>4
    <3>6. server.items + more < asked
      BY <3>1
    <3> HIDE DEF asked, more
    <3> QED
      BY <1>1, <3>4, <3>5, <3>6
  <2>2. OneAhead'
    BY <1>1, <1>2, <2>1 DEF OneAhead
  <2> QED
    BY <1>1, <1>2, <2>2 DEF CallInv, ReaderAsks
<1>8. SourceSent'
  BY <1>1, <1>2 DEF CallInv, SourceSent, Data, Running, UnderWay, Alive
<1> QED
  BY <1>4, <1>5, <1>6, <1>7, <1>8 DEF CallInv

LEMMA ServerClosesKeeps == CallInv /\ ServerCloses => CallInv'
<1> SUFFICES ASSUME CallInv, ServerCloses PROVE CallInv'
  OBVIOUS
<1>1. /\ call.at # "idle" /\ link.up /\ link.epoch = 1 /\ server.closed = "no"
      /\ UNCHANGED <<feed, size, call, fut, stream, gen, pump, input, got, link>>
      /\ server \in Servers /\ server.items \in Nat /\ got \in Nat
      /\ inbox' = Append(inbox, Close) /\ CloseDue /\ Settled
  BY DEF ServerCloses, Serving, CallInv, CallTypes, Servers, Sends, Close
<1>2. /\ server' \in Servers /\ server'.heard = server.heard /\ server'.foreign = server.foreign
      /\ server'.items = server.items /\ server'.closed = "normal"
  BY <1>1 DEF Servers, ServerCloses
<1>3. Close \in Chunk /\ Close \notin {AnItem, Error, Abort, <<"answer", "content">>}
  BY DEF Chunk, Close, Abort, Error, AnItem
<1>4. EndsLast' /\ inbox' \in Seq(Answer \cup Chunk) /\ AddsTo(inbox, inbox', Close)
  BY <1>1, <1>2, <1>3, SentLast
<1>5. /\ CallTypes' /\ Unused' /\ CallerStands' /\ PumpStands' /\ LinkStands' /\ QueueEnds'
      /\ EndedWell' /\ EndIsHonest'
  BY <1>1, <1>2, <1>4, ServerKeeps
<1>6. Owed'
  <2>1. One(Close \in {AnItem}) = 0 /\ One(Close \in {Error}) = 0
    BY <1>3 DEF One
  <2>2. /\ Count(inbox', {AnItem}) = Count(inbox, {AnItem}) + 0
        /\ Count(inbox', {Error}) = Count(inbox, {Error}) + 0
    BY <1>4, <2>1 DEF AddsTo
  <2>3. FailureDue' = 0
    BY <1>2 DEF FailureDue, Failure
  <2>4. server'.items = server.items + 0
    BY <1>1, <1>2
  <2> QED
    BY <1>1, <1>2, <2>2, <2>3, <2>4, OwedMore
<1>7. ReaderAsks'
  BY <1>1, <1>2 DEF CallInv, ReaderAsks, OneAhead
<1>8. SourceSent'
  <2> SUFFICES ASSUME feed = "source" PROVE SourceSent'
    BY <1>1 DEF SourceSent
  <2>1. Has(server.heard, "end")
    <3>1. server.heard \in Seq({"start", "data", "pull", "end"})
      BY <1>1 DEF Servers
    <3> QED
      BY <1>1, <3>1, HeardIs DEF Heard, CloseDue
  <2>2. pump \in Pumps /\ pump.state \in {"ended", "failed", "cancelled"}
    BY <2>1 DEF CallInv, CallTypes, PumpStands, Pumps, Alive
  <2>3. ASSUME Running, stream.open \/ stream.error = "none"
        PROVE  input.exhausted /\ Data = input.given
    <3>1. stream.open
      BY <1>1, <2>3 DEF CallInv, EndedWell
    <3>2. pump.state = "ended"
      BY <1>1, <2>2, <2>3, <3>1 DEF CallInv, PumpStands, Settled
    <3> QED
      BY <2>1, <2>3, <3>2 DEF CallInv, SourceSent, Running
  <2> QED
    BY <1>1, <1>2, <2>1, <2>3 DEF CallInv, SourceSent, Data, Running, UnderWay, Alive
<1> QED
  BY <1>4, <1>5, <1>6, <1>7, <1>8 DEF CallInv

LEMMA ServerFailsKeeps == CallInv /\ ServerFails => CallInv'
<1> SUFFICES ASSUME CallInv, ServerFails PROVE CallInv'
  OBVIOUS
<1>1. /\ call.at # "idle" /\ link.up /\ link.epoch = 1 /\ server.closed = "no"
      /\ UNCHANGED <<feed, size, call, fut, stream, gen, pump, input, got, link>>
      /\ server \in Servers /\ server.items \in Nat /\ got \in Nat
      /\ \/ inbox' = inbox \o <<Error, Close>>
         \/ inbox' = Append(inbox, Abort)
         \/ feed = "download" /\ inbox' = Append(inbox, Close)
  BY DEF ServerFails, Serving, CallInv, CallTypes, Servers, Sends, Close, Abort, Error
<1>2. /\ server' \in Servers /\ server'.heard = server.heard /\ server'.foreign = server.foreign
      /\ server'.items = server.items /\ server'.closed = "failed" /\ Failure' = 1
      /\ server'.items = server.items + 0 /\ server'.items \in Nat
  BY <1>1 DEF Servers, ServerFails, Failure
<1>3. /\ {Close, Error, Abort} \subseteq Chunk /\ Close \notin {AnItem, Error, Abort}
      /\ Error \notin {AnItem, Close, Abort} /\ Abort \notin {AnItem, Error, Close}
      /\ <<"answer", "content">> \notin {Close, Error, Abort}
  BY DEF Chunk, Close, Abort, Error, AnItem
<1>4. /\ One(Close \in {AnItem}) = 0 /\ One(Close \in {Error}) = 0
      /\ One(Abort \in {AnItem}) = 0 /\ One(Abort \in {Error}) = 0
      /\ One(Error \in {AnItem}) = 0 /\ One(Error \in {Error}) = 1
  BY <1>3 DEF One
<1>5. /\ inbox \in Seq(Answer \cup Chunk) /\ Len(inbox) \in Nat /\ ~Has(inbox, Close)
      /\ \A i \in 1..Len(inbox) : inbox[i] \notin Final
  BY <1>1, NothingFinal
<1>6. EndsLast' /\ Owed' /\ inbox' \in Seq(Answer \cup Chunk)
  <2>1. CASE inbox' = inbox \o <<Error, Close>>
    <3> DEFINE middle == Append(inbox, Error)
    <3>1. middle \in Seq(Answer \cup Chunk) /\ AddsTo(inbox, middle, Error)
      BY <1>3, <1>5, Adds
    <3>2. inbox' = Append(middle, Close)
      BY <1>3, <1>5, <2>1, Joined
    <3> HIDE DEF middle
    <3>3. inbox' \in Seq(Answer \cup Chunk) /\ AddsTo(middle, inbox', Close)
      BY <1>3, <3>1, <3>2, Adds
    <3>4. EndsLast'
      <4>1. fut'.state = "content" => server'.closed # "no"
        BY <1>2
      <4>2. ASSUME NEW i \in 1..Len(inbox')
            PROVE  inbox'[i] \in {Close, Abort} => i = Len(inbox')
        <5>1. CASE i \in 1..Len(inbox)
          <6>1. i \in 1..Len(middle) /\ middle[i] = inbox[i] /\ inbox[i] \notin Final
            BY <1>5, <3>1, <5>1 DEF AddsTo
          <6> QED
            BY <3>3, <6>1 DEF AddsTo, Final
        <5>2. CASE i = Len(middle)
          <6>1. i \in 1..Len(middle) /\ middle[i] = Error
            BY <1>5, <3>1, <5>2 DEF AddsTo
          <6> QED
            BY <1>3, <3>3, <6>1 DEF AddsTo
        <5>3. i \in 1..Len(inbox) \/ i = Len(middle) \/ i = Len(inbox')
          BY <1>5, <3>1, <3>3 DEF AddsTo
        <5> QED
          BY <5>1, <5>2, <5>3
      <4> QED
        BY <1>2, <4>1, <4>2 DEF EndsLast, Close, Abort, Error
    <3>5. /\ Count(inbox', {AnItem}) = Count(inbox, {AnItem}) + 0
          /\ Count(inbox', {Error}) = Count(inbox, {Error}) + 1
      BY <1>4, <3>1, <3>3 DEF AddsTo
    <3>6. FailureDue' = 1
      BY <1>2, <3>3 DEF FailureDue, AddsTo, Close
    <3>7. Owed'
      BY <1>1, <1>2, <3>5, <3>6, OwedMore
    <3> QED
      BY <3>3, <3>4, <3>7
  <2>2. CASE inbox' = Append(inbox, Abort)
    <3>1. EndsLast' /\ inbox' \in Seq(Answer \cup Chunk) /\ AddsTo(inbox, inbox', Abort)
      BY <1>1, <1>2, <1>3, <2>2, SentLast
    <3>2. /\ Count(inbox', {AnItem}) = Count(inbox, {AnItem}) + 0
          /\ Count(inbox', {Error}) = Count(inbox, {Error}) + 0
      BY <1>4, <3>1 DEF AddsTo
    <3>3. FailureDue' = 0
      <4>1. ~Has(inbox', Close)
        BY <1>3, <1>5, <3>1 DEF AddsTo
      <4> QED
        BY <4>1 DEF FailureDue, Close
    <3>4. Owed'
      BY <1>1, <1>2, <3>2, <3>3, OwedMore
    <3> QED
      BY <3>1, <3>4
  <2>3. CASE feed = "download" /\ inbox' = Append(inbox, Close)
    <3>1. EndsLast' /\ inbox' \in Seq(Answer \cup Chunk) /\ AddsTo(inbox, inbox', Close)
      BY <1>1, <1>2, <1>3, <2>3, SentLast
    <3>2. Count(inbox', {AnItem}) = Count(inbox, {AnItem}) + 0
      BY <1>4, <3>1 DEF AddsTo
    <3>3. Owed'
      BY <1>1, <1>2, <2>3, <3>2, OwedMore
    <3> QED
      BY <3>1, <3>3
  <2> QED
    BY <1>1, <2>1, <2>2, <2>3
<1>7. /\ CallTypes' /\ Unused' /\ CallerStands' /\ PumpStands' /\ LinkStands' /\ QueueEnds'
      /\ EndedWell' /\ EndIsHonest'
  BY <1>1, <1>2, <1>6, ServerKeeps
<1>8. ReaderAsks'
  BY <1>1, <1>2 DEF CallInv, ReaderAsks, OneAhead
<1>9. SourceSent'
  BY <1>1, <1>2 DEF CallInv, SourceSent, Data, Running, UnderWay, Alive
<1> QED
  BY <1>6, <1>7, <1>8, <1>9 DEF CallInv

-----------------------------------------------------------------------------
(* What the client receives                                                *)

LEMMA Received ==
    ASSUME CallInv, inbox # <<>>, inbox' = Tail(inbox), server' = server
    PROVE  /\ call.at # "idle" /\ inbox' \in Seq(Answer \cup Chunk)
           /\ Head(inbox) \in Answer \cup Chunk /\ TakesFrom(inbox, inbox')
           /\ Head(inbox) \in {Close, Abort} =>
                  inbox' = <<>> /\ server.closed \in {"normal", "failed"}
           /\ Head(inbox) = <<"answer", "content">> => server.closed # "no"
           /\ (fut'.state = "content" => server.closed # "no") => EndsLast'
<1>1. call.at # "idle" /\ inbox \in Seq(Answer \cup Chunk)
  BY DEF CallInv, Unused, CallTypes
<1>2. /\ inbox' \in Seq(Answer \cup Chunk) /\ Head(inbox) \in Answer \cup Chunk
      /\ TakesFrom(inbox, inbox')
  BY <1>1, Takes
<1>3. /\ Len(inbox) \in Nat \ {0} /\ Len(inbox') = Len(inbox) - 1 /\ Head(inbox) = inbox[1]
      /\ 1 \in 1..Len(inbox)
      /\ \A i \in 1..Len(inbox') : inbox'[i] = inbox[i + 1] /\ i + 1 \in 1..Len(inbox)
  BY <1>2 DEF TakesFrom
<1> DEFINE n == Len(inbox)
           m == Len(inbox')
<1>4. /\ m \in Nat /\ n = m + 1 /\ (n = 1 => m = 0)
      /\ \A i \in 1..m : i + 1 = n => i = m
  <2>1. n \in Nat \ {0} /\ m = n - 1
    BY <1>3
  <2> HIDE DEF n, m
  <2> QED
    BY <2>1
<1>5. \A i \in 1..Len(inbox) :
        /\ inbox[i] \in {Close, Abort} =>
            i = Len(inbox) /\ server.closed \in {"normal", "failed"}
        /\ inbox[i] \in {Error, Abort} => server.closed = "failed"
        /\ inbox[i] = <<"answer", "content">> => server.closed # "no"
  BY DEF CallInv, EndsLast, Close, Abort, Error
<1>6. Head(inbox) \in {Close, Abort} => inbox' = <<>> /\ server.closed \in {"normal", "failed"}
  <2> SUFFICES ASSUME Head(inbox) \in {Close, Abort}
               PROVE  inbox' = <<>> /\ server.closed \in {"normal", "failed"}
    OBVIOUS
  <2>1. n = 1 /\ server.closed \in {"normal", "failed"}
    BY <1>3, <1>5
  <2>2. m = 0
    BY <1>4, <2>1
  <2> QED
    BY <1>2, <2>1, <2>2
<1>7. Head(inbox) = <<"answer", "content">> => server.closed # "no"
  BY <1>3, <1>5
<1>8. ASSUME fut'.state = "content" => server.closed # "no"
      PROVE  EndsLast'
  <2>1. ASSUME NEW i \in 1..Len(inbox')
        PROVE  /\ inbox'[i] \in {Close, Abort} =>
                    i = Len(inbox') /\ server.closed \in {"normal", "failed"}
               /\ inbox'[i] \in {Error, Abort} => server.closed = "failed"
               /\ inbox'[i] = <<"answer", "content">> => server.closed # "no"
    <3>1. i + 1 \in 1..Len(inbox) /\ inbox'[i] = inbox[i + 1]
      BY <1>3
    <3>2. i + 1 = n => i = m
      BY <1>4
    <3> QED
      BY <1>5, <3>1, <3>2
  <2> QED
    BY <1>8, <2>1 DEF EndsLast, Close, Abort, Error
<1> QED
  BY <1>1, <1>2, <1>6, <1>7, <1>8

LEMMA ReceiveAnswerKeeps == CallInv /\ ReceiveAnswer => CallInv'
<1> SUFFICES ASSUME CallInv, ReceiveAnswer PROVE CallInv'
  OBVIOUS
<1>1. /\ inbox # <<>> /\ Head(inbox)[1] = "answer" /\ inbox' = Tail(inbox)
      /\ UNCHANGED <<feed, size, call, stream, gen, pump, input, got, link, server>>
      /\ fut' = IF fut.state = "pending" THEN [fut EXCEPT !.state = Head(inbox)[2]] ELSE fut
      /\ CallTypes /\ fut \in Futures
  BY DEF ReceiveAnswer, Arriving, CallInv, CallTypes
<1>2. /\ call.at # "idle" /\ inbox' \in Seq(Answer \cup Chunk)
      /\ Head(inbox) \in Answer \cup Chunk /\ TakesFrom(inbox, inbox')
      /\ Head(inbox) = <<"answer", "content">> => server.closed # "no"
      /\ (fut'.state = "content" => server.closed # "no") => EndsLast'
  BY <1>1, Received
<1>3. PICK answer \in {"open", "content", "refusal"} : Head(inbox) = <<"answer", answer>>
  BY <1>1, <1>2 DEF Answer, Chunk
<1>4. /\ fut.state # "pending" => fut' = fut
      /\ fut.state = "pending" => fut' \in Futures /\ fut'.noticed = fut.noticed
                                  /\ fut'.state = answer
  BY <1>1, <1>3 DEF Futures
<1>5. fut' \in Futures /\ (Running' => Running)
  BY <1>1, <1>4 DEF Running, UnderWay
<1>6. EndsLast'
  BY <1>1, <1>2, <1>3, <1>4 DEF CallInv, EndsLast
<1>7. Head(inbox) \notin {AnItem, Error, Close}
  BY <1>3 DEF AnItem, Error, Close
<1>8. /\ Count(inbox', {AnItem}) = Count(inbox, {AnItem})
      /\ Count(inbox', {Error}) = Count(inbox, {Error})
      /\ Has(inbox', Close) <=> Has(inbox, Close)
  <2>1. One(Head(inbox) \in {AnItem}) = 0 /\ One(Head(inbox) \in {Error}) = 0
    BY <1>7 DEF One
  <2> QED
    BY <1>2, <1>7, <2>1 DEF TakesFrom
<1>9. Owed'
  <2>1. ItemsDue' = ItemsDue /\ ErrorsDue' = ErrorsDue /\ FailureDue' = FailureDue
    BY <1>1, <1>8 DEF ItemsDue, ErrorsDue, FailureDue, Failure, AnItem, Error, Close
  <2> QED
    BY <1>1, <2>1 DEF CallInv, Owed, UnderWay
<1>10. CallTypes' /\ Unused'
  BY <1>1, <1>2, <1>5 DEF CallTypes, Unused
<1>11. CallerStands'
  BY <1>1, <1>2, <1>3, <1>4 DEF CallInv, CallerStands, FutDone
<1>12. PumpStands'
  BY <1>1, <1>3, <1>4, <1>5 DEF CallInv, PumpStands
<1>13. LinkStands' /\ QueueEnds' /\ ReaderAsks' /\ EndIsHonest'
  <2>1. LinkStands'
    BY <1>1, <1>4 DEF CallInv, LinkStands, Overtaken
  <2> QED
    BY <1>1, <2>1 DEF CallInv, QueueEnds, ReaderAsks, OneAhead, EndIsHonest, Data
<1>14. EndedWell'
  BY <1>1, <1>5 DEF CallInv, EndedWell, Failure
<1>15. SourceSent'
  BY <1>1, <1>5 DEF CallInv, SourceSent, Data, UnderWay
<1> QED
  BY <1>6, <1>9, <1>10, <1>11, <1>12, <1>13, <1>14, <1>15 DEF CallInv

(* A chunk that is dropped, is put in the queue, or ends the stream *)
LEMMA ChunkKeeps ==
    ASSUME CallInv, call.at # "idle",
           UNCHANGED <<feed, size, call, fut, gen, input, got, link, server>>,
           inbox' \in Seq(Answer \cup Chunk), stream' \in ChunkStreams,
           pump' \in Pumps, pump'.state = pump.state, pump'.attached = pump.attached,
           pump'.noticed = pump.noticed, pump.cancel => pump'.cancel,
           stream'.open => stream.open, ~stream.open => stream' = stream /\ pump' = pump,
           stream.open /\ Running /\ pump'.cancel => ~stream'.open /\ stream'.error # "none",
           stream.open /\ ~stream'.open => server.closed # "no"
    PROVE  /\ CallTypes' /\ Unused' /\ CallerStands' /\ PumpStands' /\ LinkStands' /\ ReaderAsks'
           /\ SourceSent' /\ EndIsHonest'
<1>1. CallTypes' /\ Unused'
  BY DEF CallInv, CallTypes, Unused
<1>2. CallerStands'
  BY DEF CallInv, CallerStands, FutDone, Alive
<1>3. PumpStands'
  BY DEF CallInv, PumpStands, Alive, Running, UnderWay
<1>4. LinkStands'
  BY DEF CallInv, LinkStands, Overtaken, Alive
<1>5. ReaderAsks' /\ EndIsHonest'
  BY DEF CallInv, ReaderAsks, OneAhead, EndIsHonest, Data
<1>6. SourceSent'
  BY DEF CallInv, SourceSent, Data, Running, UnderWay, Alive
<1> QED
  BY <1>1, <1>2, <1>3, <1>4, <1>5, <1>6

LEMMA ReceiveChunkKeeps == CallInv /\ ReceiveChunk => CallInv'
<1> SUFFICES ASSUME CallInv, ReceiveChunk PROVE CallInv'
  OBVIOUS
<1>1. /\ inbox # <<>> /\ Head(inbox)[1] = "chunk" /\ inbox' = Tail(inbox)
      /\ UNCHANGED <<feed, size, call, fut, gen, input, got, link, server>>
      /\ fut \in Futures /\ pump \in Pumps /\ stream \in ChunkStreams
      /\ stream.queue \in Seq(Item) /\ got \in Nat /\ server.items \in Nat
  BY DEF ReceiveChunk, CallInv, CallTypes, ChunkStreams, Servers
<1>2. /\ call.at # "idle" /\ inbox' \in Seq(Answer \cup Chunk)
      /\ Head(inbox) \in Answer \cup Chunk /\ TakesFrom(inbox, inbox')
      /\ Head(inbox) \in {Close, Abort} => inbox' = <<>> /\ server.closed \in {"normal", "failed"}
      /\ (fut'.state = "content" => server.closed # "no") => EndsLast'
  BY <1>1, Received
<1>3. EndsLast'
  BY <1>1, <1>2 DEF CallInv, EndsLast
<1>4. PICK what \in {"item", "error", "close", "abort"} : Head(inbox) = <<"chunk", what>>
  BY <1>1, <1>2 DEF Answer, Chunk
<1>5. CASE ~stream.open
  <2>1. UNCHANGED <<stream, pump>>
    BY <1>5 DEF ReceiveChunk
  <2>2. QueueEnds' /\ Owed' /\ EndedWell'
    BY <1>1, <1>5, <2>1 DEF CallInv, QueueEnds, Owed, EndedWell, Running, UnderWay, Failure
  <2> QED
    BY <1>1, <1>2, <1>3, <1>5, <2>1, <2>2, ChunkKeeps DEF CallInv
<1>6. CASE stream.open /\ what = "close"
  <2>1. CloseStream("none", <<"close">>)
    BY <1>4, <1>6 DEF ReceiveChunk, Arriving
  <2>2. pump' = pump /\ stream' = Closed(stream, "none", <<"close">>)
    BY <1>6, <2>1 DEF CloseStream
  <2>3. /\ stream' \in ChunkStreams /\ ~stream'.open /\ QueueEnds' /\ Owed'
        /\ Len(stream'.queue) > 1 /\ stream'.queue[Len(stream'.queue)] = "end"
        /\ stream'.queue[Len(stream'.queue) - 1] = "close" /\ stream'.queue # <<>>
        /\ Count(stream'.queue, {"item"}) = Count(stream.queue, {"item"})
        /\ Count(stream'.queue, {"error"}) = Count(stream.queue, {"error"})
    BY <1>6, <2>2, StreamEndsWith
  <2>4. Head(inbox) = Close /\ inbox' = <<>> /\ server.closed \in {"normal", "failed"}
    BY <1>2, <1>4, <1>6 DEF Close
  <2>5. Count(inbox, {AnItem}) = 0 /\ Count(inbox, {Error}) = 0 /\ Has(inbox, Close)
    <3>1. One(Close \in {AnItem}) = 0 /\ One(Close \in {Error}) = 0
      BY DEF One, Close, AnItem, Error
    <3> QED
      BY <1>2, <2>4, <3>1, EmptyQueue DEF TakesFrom
  <2>6. /\ ItemsDue = Count(stream.queue, {"item"}) /\ ErrorsDue = Count(stream.queue, {"error"})
        /\ FailureDue = Failure
    <3>1. Count(stream.queue, {"item"}) \in Nat /\ Count(stream.queue, {"error"}) \in Nat
      BY <1>1, CountType
    <3> QED
      BY <2>5, <3>1 DEF ItemsDue, ErrorsDue, FailureDue, AnItem, Error, Close
  <2>7. EndedWell'
    <3>1. Failure' = Failure
      BY <1>1 DEF Failure
    <3> QED
      BY <1>1, <1>6, <2>3, <2>4, <2>6, <3>1 DEF CallInv, Owed, EndedWell, Running, UnderWay
  <2>8. ~(Running /\ pump.cancel)
    BY <1>6 DEF CallInv, PumpStands
  <2> QED
    BY <1>1, <1>2, <1>3, <1>6, <2>2, <2>3, <2>4, <2>7, <2>8, ChunkKeeps DEF CallInv
<1>7. CASE stream.open /\ what = "abort"
  <2>1. CloseStream("aborted", <<>>)
    BY <1>4, <1>7 DEF ReceiveChunk, Arriving
  <2>2. /\ pump' = pump \/ pump' = CancelPump(pump)
        /\ stream' = IF stream.open THEN Closed(stream, "aborted", <<>>) ELSE stream
    BY <2>1 DEF CloseStream
  <2>3. /\ stream' \in ChunkStreams /\ ~stream'.open /\ QueueEnds' /\ Owed'
        /\ stream'.error = "aborted"
    BY <1>7, <2>2, StreamEnds DEF Errors
  <2>4. server.closed \in {"normal", "failed"}
    BY <1>2, <1>4, <1>7 DEF Abort
  <2>5. EndedWell'
    BY <2>3 DEF EndedWell
  <2>6. /\ pump' \in Pumps /\ pump'.state = pump.state /\ pump'.noticed = pump.noticed
        /\ pump'.attached = pump.attached /\ (pump.cancel => pump'.cancel)
    BY <1>1, <2>2, PumpCancels
  <2> QED
    BY <1>1, <1>2, <1>3, <1>7, <2>3, <2>4, <2>5, <2>6, ChunkKeeps DEF CallInv
<1>8. CASE stream.open /\ what \in {"item", "error"}
  <2>1. /\ stream' = [stream EXCEPT !.queue = Append(stream.queue, what)] /\ pump' = pump
    BY <1>4, <1>8 DEF ReceiveChunk, Arriving
  <2>2. /\ Append(stream.queue, what) \in Seq(Item)
        /\ AddsTo(stream.queue, Append(stream.queue, what), what)
    BY <1>1, <1>8, Adds DEF Item
  <2>3. /\ stream' \in ChunkStreams /\ stream'.open /\ AddsTo(stream.queue, stream'.queue, what)
    BY <1>1, <1>8, <2>1, <2>2 DEF ChunkStreams
  <2>4. QueueEnds'
    <3> SUFFICES ASSUME NEW i \in 1..Len(stream'.queue)
                 PROVE  stream'.queue[i] \in {"item", "error"}
      BY DEF QueueEnds
    <3>1. CASE i \in 1..Len(stream.queue)
      BY <1>8, <2>3, <3>1 DEF CallInv, QueueEnds, AddsTo
    <3>2. CASE i = Len(stream'.queue)
      BY <1>8, <2>3, <3>2 DEF AddsTo
    <3> QED
      BY <2>3, <3>1, <3>2 DEF AddsTo
  <2>5. ItemsDue' = ItemsDue /\ ErrorsDue' = ErrorsDue
    <3>1. /\ One(Head(inbox) \in {AnItem}) = One(what \in {"item"})
          /\ One(Head(inbox) \in {Error}) = One(what \in {"error"})
          /\ One(what \in {"item"}) \in Nat /\ One(what \in {"error"}) \in Nat
      BY <1>4, <1>8 DEF One, AnItem, Error
    <3>2. ASSUME NEW kind \in {"item", "error"}, NEW chunk, One(Head(inbox) \in {chunk}) \in Nat,
                 One(Head(inbox) \in {chunk}) = One(what \in {kind})
          PROVE  Count(stream'.queue, {kind}) + Count(inbox', {chunk})
                 = Count(stream.queue, {kind}) + Count(inbox, {chunk})
      <4> DEFINE one == One(what \in {kind})
                 queued == Count(stream.queue, {kind})
                 queuedNow == Count(stream'.queue, {kind})
                 coming == Count(inbox, {chunk})
                 comingNow == Count(inbox', {chunk})
      <4>1. /\ one \in Nat /\ queued \in Nat /\ comingNow \in Nat
            /\ queuedNow = queued + one /\ coming = comingNow + one
        BY <1>2, <2>3, <3>2 DEF AddsTo, TakesFrom
      <4> HIDE DEF one, queued, queuedNow, coming, comingNow
      <4>2. queuedNow + comingNow = queued + coming
        BY <4>1
      <4> QED
        BY <4>2 DEF queued, queuedNow, coming, comingNow
    <3>3. /\ Count(stream'.queue, {"item"}) + Count(inbox', {AnItem})
             = Count(stream.queue, {"item"}) + Count(inbox, {AnItem})
          /\ Count(stream'.queue, {"error"}) + Count(inbox', {Error})
             = Count(stream.queue, {"error"}) + Count(inbox, {Error})
      BY <3>1, <3>2
    <3> QED
      BY <3>3 DEF ItemsDue, ErrorsDue, AnItem, Error
  <2>6. FailureDue' = FailureDue
    <3>1. Has(inbox', Close) <=> Has(inbox, Close)
      BY <1>2, <1>4, <1>8 DEF TakesFrom, Close
    <3> QED
      BY <1>1, <3>1 DEF FailureDue, Failure, Close
  <2>7. Owed'
    BY <1>1, <1>8, <2>5, <2>6 DEF CallInv, Owed, UnderWay
  <2>8. EndedWell'
    BY <2>3 DEF EndedWell
  <2>9. ~(Running /\ pump.cancel)
    BY <1>8 DEF CallInv, PumpStands
  <2> QED
    BY <1>1, <1>2, <1>3, <1>8, <2>1, <2>3, <2>4, <2>7, <2>8, <2>9, ChunkKeeps DEF CallInv
<1> QED
  BY <1>5, <1>6, <1>7, <1>8

-----------------------------------------------------------------------------
(* The connection, and the start of the call                               *)

LEMMA LoseLinkKeeps == CallInv /\ LoseLink => CallInv'
<1> SUFFICES ASSUME CallInv, LoseLink PROVE CallInv'
  OBVIOUS
<1>1. /\ call \in Calls /\ fut \in Futures /\ pump \in Pumps /\ stream \in ChunkStreams
      /\ call.at # "idle" /\ link.epoch = 1 /\ inbox' = <<>>
      /\ link' = [link EXCEPT !.up = FALSE] /\ link \in [up : BOOLEAN, epoch : 1..MaxEpochs]
      /\ UNCHANGED <<feed, size, call, gen, input, got, server>>
      /\ stream' = IF stream.open THEN Closed(stream, "lost", <<>>) ELSE stream
      /\ pump' = IF stream.open /\ pump.attached THEN CancelPump(pump) ELSE pump
      /\ FutDone => call.at # "invoking"
  BY DEF CallInv, CallTypes, LoseLink, CloseStream, Settled
<1>2. link' \in [up : BOOLEAN, epoch : 1..MaxEpochs] /\ link'.epoch = link.epoch
  BY <1>1
<1>3. /\ fut' \in Futures /\ fut'.noticed = fut.noticed
      /\ fut.state = "pending" => fut'.state \in {"cancelled", "refusal"}
      /\ fut.state # "pending" => fut' = fut
  BY <1>1 DEF LoseLink, CancelFut, Futures
<1>4. /\ pump' \in Pumps /\ pump'.state = pump.state /\ pump'.noticed = pump.noticed
      /\ pump'.attached = pump.attached /\ (pump.cancel => pump'.cancel)
      /\ stream.open /\ pump.attached /\ Alive(pump) => pump'.cancel
      /\ ~stream.open => pump' = pump
  <2>1. CancelPump(pump).cancel = (pump.cancel \/ Alive(pump))
    BY <1>1, PumpCancels
  <2> QED
    BY <1>1, <2>1, PumpCancels
<1>5. /\ stream' \in ChunkStreams /\ ~stream'.open /\ QueueEnds'
      /\ stream.open => stream'.error = "lost"
      /\ ~stream.open => stream' = stream
  BY <1>1, StreamEnds DEF Errors
<1>6. Running' => Running
  BY <1>1, <1>3 DEF Running, UnderWay
<1>7. CallTypes' /\ Unused'
  BY <1>1, <1>2, <1>3, <1>4, <1>5 DEF CallInv, CallTypes, Unused
<1>8. CallerStands'
  BY <1>1, <1>3, <1>4 DEF CallInv, CallerStands, FutDone, Alive
<1>9. PumpStands'
  <2>1. ASSUME Alive(pump), server.closed = "no", ~pump'.cancel
        PROVE  call.at = "invoking" /\ fut'.state \notin {"none", "pending", "open"}
    <3>1. CASE stream.open
      <4>1. ~pump.attached /\ ~pump.cancel
        BY <1>4, <2>1, <3>1
      <4>2. call.at \notin {"using", "busy", "leaving", "done", "dropping", "joining"}
        BY <2>1, <4>1 DEF CallInv, CallerStands, EndsLast
      <4>3. call.at = "invoking"
        BY <1>1, <4>2 DEF Calls
      <4>4. fut.state = "pending"
        BY <1>1, <4>3 DEF CallInv, CallerStands, FutDone
      <4> QED
        BY <1>3, <4>3, <4>4
    <3>2. CASE ~stream.open
      <4>1. call.at = "invoking" /\ fut.state \notin {"none", "pending", "open"}
        BY <1>4, <2>1, <3>2 DEF CallInv, PumpStands
      <4> QED
        BY <1>3, <4>1
    <3> QED
      BY <3>1, <3>2
  <2>2. ASSUME pump'.cancel, Running' PROVE stream'.error # "none"
    <3>1. CASE stream.open
      BY <1>5, <3>1
    <3>2. CASE ~stream.open
      BY <1>4, <1>5, <1>6, <2>2, <3>2 DEF CallInv, PumpStands
    <3> QED
      BY <3>1, <3>2
  <2> QED
    BY <1>1, <1>4, <1>5, <2>1, <2>2 DEF CallInv, PumpStands, Alive
<1>10. LinkStands'
  <2>1. fut'.state # "pending"
    BY <1>1 DEF LoseLink, CancelFut, Futures
  <2>2. ~server.foreign
    BY <1>1 DEF CallInv, LinkStands
  <2> QED
    BY <1>1, <1>2, <1>4, <1>5, <2>1, <2>2 DEF CallInv, LinkStands, Alive
<1>11. EndsLast'
  BY <1>1, <1>3, EmptyQueue DEF CallInv, EndsLast
<1>12. Owed'
  BY <1>5 DEF Owed
<1>13. EndedWell'
  <2> SUFFICES ASSUME Running', stream'.error = "none" PROVE EndedWell'
    BY DEF EndedWell
  <2>1. ~stream.open /\ stream' = stream /\ Running
    BY <1>5, <1>6
  <2> QED
    BY <1>1, <2>1 DEF CallInv, EndedWell, Failure
<1>14. ReaderAsks' /\ EndIsHonest'
  BY <1>1, <1>4 DEF CallInv, ReaderAsks, OneAhead, EndIsHonest, Data
<1>15. SourceSent'
  BY <1>1, <1>2, <1>4, <1>5, <1>6 DEF CallInv, SourceSent, Data, UnderWay, Alive
<1> QED
  BY <1>5, <1>7, <1>8, <1>9, <1>10, <1>11, <1>12, <1>13, <1>14, <1>15 DEF CallInv

LEMMA ReconnectKeeps == CallInv /\ Reconnect => CallInv'
<1> SUFFICES ASSUME CallInv, Reconnect PROVE CallInv'
  OBVIOUS
<1>1. /\ ~link.up /\ link.epoch < MaxEpochs /\ link' = [up |-> TRUE, epoch |-> link.epoch + 1]
      /\ UNCHANGED <<feed, size, call, fut, stream, gen, pump, input, got, inbox, server>>
      /\ ShutDown /\ link.epoch \in 1..MaxEpochs /\ CallTypes
  BY DEF Reconnect, CallInv, CallTypes
<1>2. /\ link'.epoch \in 1..MaxEpochs /\ link'.epoch # 1
      /\ link' \in [up : BOOLEAN, epoch : 1..MaxEpochs]
  BY <1>1, ToolCallAssumption
<1>3. /\ ~stream.open /\ fut.state # "pending" /\ call.at # "invoking"
      /\ ~Alive(pump) \/ server.closed # "no" \/ Overtaken
  <2>1. ~stream.open /\ fut.state # "pending"
    BY <1>1 DEF CallInv, LinkStands
  <2>2. Alive(pump) /\ pump.cancel => Overtaken
    <3>1. Alive(pump) /\ pump.cancel =>
            InUsersCode /\ (~pump.attached \/ stream.error # "lost")
      BY <1>1 DEF ShutDown
    <3>2. InUsersCode => feed \in {"free", "source"}
      BY DEF CallInv, PumpStands, InUsersCode
    <3> QED
      BY <3>1, <3>2 DEF Overtaken
  <2>3. call.at # "invoking"
    BY <1>1, <2>1 DEF ShutDown, Settled, FutDone, CallInv, CallerStands
  <2> QED
    BY <2>1, <2>2, <2>3 DEF CallInv, PumpStands
<1>4. CallTypes' /\ Unused'
  BY <1>1, <1>2 DEF CallInv, CallTypes, Unused
<1>5. CallerStands' /\ PumpStands'
  BY <1>1 DEF CallInv, CallerStands, PumpStands, FutDone, Alive, Running, UnderWay
<1>6. LinkStands'
  <2>1. (Overtaken' <=> Overtaken) /\ link'.epoch > 1
    BY <1>1 DEF Overtaken
  <2> QED
    BY <1>1, <1>3, <2>1 DEF CallInv, LinkStands, Alive
<1>7. EndsLast' /\ QueueEnds' /\ Owed' /\ EndedWell'
  BY <1>1, StreamStays DEF UnderWay, Running
<1>8. ReaderAsks' /\ EndIsHonest'
  BY <1>1 DEF CallInv, ReaderAsks, OneAhead, EndIsHonest, Data
<1>9. SourceSent'
  BY <1>1, <1>2 DEF CallInv, SourceSent, Data, Running, UnderWay, Alive
<1> QED
  BY <1>4, <1>5, <1>6, <1>7, <1>8, <1>9 DEF CallInv

LEMMA InvokeKeeps == CallInv /\ Invoke => CallInv'
<1> SUFFICES ASSUME CallInv, Invoke PROVE CallInv'
  OBVIOUS
<1>1. /\ call.at = "idle" /\ link.up /\ link.epoch = 1
      /\ call' = [call EXCEPT !.at = "invoking"] /\ call \in Calls
      /\ fut' = [fut EXCEPT !.state = "pending"] /\ fut \in Futures
      /\ stream' = [stream EXCEPT !.open = TRUE] /\ stream \in ChunkStreams
      /\ pump' = [pump EXCEPT !.state = IF feed = "none" THEN pump.state ELSE "starting"]
      /\ pump \in Pumps /\ CallTypes
      /\ UNCHANGED <<feed, size, gen, input, got, link, inbox, server>>
  BY DEF Invoke, CallInv, CallTypes
<1>2. /\ fut.state = "none" /\ pump.state = "none" /\ ~pump.cancel /\ ~pump.noticed
      /\ ~fut.noticed /\ ~pump.attached /\ call.outcome # "ok"
      /\ stream.queue = <<>> /\ inbox = <<>> /\ server.closed = "no"
      /\ server.items = 0 /\ got = 0 /\ gen = "none" /\ ~Has(server.heard, "end")
  BY <1>1 DEF CallInv, Unused, CallerStands, PumpStands, FutDone
<1>3. /\ call' \in Calls /\ call'.at = "invoking" /\ call'.outcome = call.outcome
      /\ fut' \in Futures /\ fut'.state = "pending" /\ fut'.noticed = fut.noticed
  BY <1>1 DEF Calls, Futures
<1>4. stream' \in ChunkStreams /\ stream'.open = TRUE /\ stream'.queue = stream.queue
  BY <1>1 DEF ChunkStreams
<1>5. /\ pump' \in Pumps /\ pump'.state \in {"none", "starting"} /\ pump'.cancel = pump.cancel
      /\ pump'.attached = pump.attached /\ pump'.noticed = pump.noticed
  BY <1>1, <1>2 DEF Pumps
<1>6. CallTypes' /\ Unused'
  BY <1>1, <1>3, <1>4, <1>5 DEF CallTypes, Unused
<1>7. CallerStands'
  BY <1>1, <1>2, <1>3, <1>5 DEF CallerStands
<1>8. PumpStands' /\ LinkStands'
  BY <1>1, <1>2, <1>3, <1>4, <1>5 DEF CallInv, PumpStands, LinkStands
<1>9. EndsLast' /\ QueueEnds'
  BY <1>1, <1>2, <1>3, <1>4, EmptyQueue DEF EndsLast, QueueEnds
<1>10. Owed'
  <2>1. ItemsDue' = 0 /\ ErrorsDue' = 0 /\ FailureDue' = 0
    BY <1>1, <1>2, <1>4, EmptyQueue DEF ItemsDue, ErrorsDue, FailureDue
  <2> QED
    BY <1>1, <1>2, <2>1 DEF Owed
<1>11. EndedWell'
  BY <1>4 DEF EndedWell
<1>12. ReaderAsks'
  <2>1. One(call'.at = "busy") = One(call.at = "busy")
    BY <1>1, <1>3 DEF One
  <2>2. One(pump'.state \in {"none", "starting"}) = One(pump.state \in {"none", "starting"})
    BY <1>2, <1>5 DEF One
  <2> QED
    BY <1>1, <2>1, <2>2 DEF CallInv, ReaderAsks, OneAhead
<1>13. SourceSent'
  BY <1>1, <1>2, <1>5 DEF CallInv, SourceSent, Data
<1>14. EndIsHonest'
  BY <1>2, <1>3 DEF EndIsHonest
<1> QED
  BY <1>6, <1>7, <1>8, <1>9, <1>10, <1>11, <1>12, <1>13, <1>14 DEF CallInv

LEMMA CallInitHolds == Init => CallInv
<1> SUFFICES ASSUME Init PROVE CallInv
  OBVIOUS
<1>1. /\ feed \in Feeds /\ size \in 0..MaxItems
      /\ call = [at |-> "idle", outcome |-> "none", cancelled |-> FALSE]
      /\ fut = [state |-> "none", noticed |-> FALSE]
      /\ stream = [open |-> FALSE, queue |-> <<>>, error |-> "none", result |-> FALSE]
      /\ gen = "none"
      /\ pump = [state |-> "none", cancel |-> FALSE, attached |-> FALSE, noticed |-> FALSE]
      /\ input = [pulls |-> 0, closed |-> FALSE, given |-> 0, exhausted |-> FALSE]
      /\ got = 0 /\ link = [up |-> TRUE, epoch |-> 1] /\ inbox = <<>>
      /\ server = [answered |-> FALSE, closed |-> "no", items |-> 0, heard |-> <<>>,
                   foreign |-> FALSE]
  BY ToolCallAssumption DEF Init, NoStream
<1>2. CallTypes
  <2>1. /\ call \in Calls /\ fut \in Futures /\ stream \in ChunkStreams /\ pump \in Pumps
        /\ input \in Inputs /\ server \in Servers
    BY <1>1, ToolCallAssumption DEF Calls, Futures, ChunkStreams, Pumps, Inputs, Servers
  <2> QED
    BY <1>1, <2>1, ToolCallAssumption DEF CallTypes
<1>3. /\ Len(server.heard) = 0 /\ ~Has(server.heard, "end") /\ Data = 0
  <2>1. server.heard = <<>> /\ <<>> \in Seq(Kinds)
    BY <1>1
  <2> QED
    BY <2>1, EmptyQueue, HeardIs DEF Data
<1>4. Unused /\ CallerStands /\ PumpStands /\ LinkStands
  BY <1>1, <1>3 DEF Unused, CallerStands, PumpStands, LinkStands, FutDone, Alive, Running
<1>5. EndsLast /\ QueueEnds /\ Owed /\ EndedWell /\ EndIsHonest
  BY <1>1, EmptyQueue DEF EndsLast, QueueEnds, Owed, EndedWell, Running, UnderWay, EndIsHonest
<1>6. ReaderAsks
  <2>1. One(call.at = "busy") = 0 /\ One(pump.state \in {"none", "starting"}) = 1
        /\ Pulls(input) = 0 /\ got = 0 /\ server.items = 0
    BY <1>1 DEF One, Pulls
  <2>2. One(feed = "read" /\ gen = "none") = One(feed = "read") /\ One(feed = "read") \in Nat
    BY <1>1 DEF One
  <2> QED
    BY <1>3, <2>1, <2>2 DEF ReaderAsks, OneAhead
<1>7. SourceSent
  BY <1>1, <1>3 DEF SourceSent
<1> QED
  BY <1>2, <1>4, <1>5, <1>6, <1>7 DEF CallInv

LEMMA StutterKeeps == CallInv /\ UNCHANGED vars => CallInv'
<1> SUFFICES ASSUME CallInv, UNCHANGED vars PROVE CallInv'
  OBVIOUS
<1>1. UNCHANGED <<feed, size, call, fut, stream, gen, pump, input, got, link, inbox, server>>
  BY DEF vars
<1>2. EndsLast' /\ QueueEnds' /\ Owed' /\ EndedWell'
  BY <1>1, StreamStays DEF UnderWay, Running
<1>3. CallTypes' /\ Unused' /\ CallerStands' /\ PumpStands' /\ LinkStands'
  BY <1>1 DEF CallInv, CallTypes, Unused, CallerStands, PumpStands, LinkStands, FutDone, Alive,
              Running, UnderWay, Overtaken
<1>4. ReaderAsks' /\ EndIsHonest' /\ SourceSent'
  BY <1>1 DEF CallInv, ReaderAsks, OneAhead, EndIsHonest, SourceSent, Data, Running, UnderWay,
              Alive
<1> QED
  BY <1>2, <1>3, <1>4 DEF CallInv

LEMMA CallNextKeeps == CallInv /\ [Next]_vars => CallInv'
<1> SUFFICES ASSUME CallInv, [Next]_vars PROVE CallInv'
  OBVIOUS
<1>1. CASE Caller
  BY <1>1, InvokeKeeps, OnTaskDoneKeeps, ResumeOpenKeeps, ResumeContentKeeps, ResumeErrorKeeps,
     JoinPumpKeeps DEF Caller
<1>2. CASE Iteration
  BY <1>2, TakeItemKeeps, ContinueKeeps, TakeErrorKeeps, TakeCloseKeeps, TakeEndKeeps, LeftKeeps
     DEF Iteration
<1>3. CASE Generator
  BY <1>3, FinaliseKeeps, FinalisedKeeps DEF Generator
<1>4. CASE Pump
  BY <1>4, PumpStartKeeps, PumpPulledKeeps, PumpCancelledKeeps, OnRequestStreamDoneKeeps DEF Pump
<1>5. CASE Server
  BY <1>5, ServerAnswersKeeps, ServerSendsItemKeeps, ServerClosesKeeps DEF Server
<1>6. CASE Receive
  BY <1>6, ReceiveAnswerKeeps, ReceiveChunkKeeps DEF Receive
<1>7. CASE Abandon \/ CancelCall \/ StopInput \/ GraceOver
  BY <1>7, AbandonKeeps, CancelCallKeeps, StopInputKeeps, GraceOverKeeps
<1>8. CASE Give \/ SourceEnds \/ SourceRaises \/ ServerFails
  BY <1>8, GiveKeeps, SourceEndsKeeps, SourceRaisesKeeps, ServerFailsKeeps
<1>9. CASE LoseLink \/ Reconnect
  BY <1>9, LoseLinkKeeps, ReconnectKeeps
<1>10. CASE Stutter \/ UNCHANGED vars
  BY <1>10, StutterKeeps DEF Stutter
<1> QED
  BY <1>1, <1>2, <1>3, <1>4, <1>5, <1>6, <1>7, <1>8, <1>9, <1>10 DEF Next

LEMMA HonestByInv == CallInv => CallIsHonest
<1> SUFFICES ASSUME CallInv PROVE CallIsHonest
  OBVIOUS
<1>1. CallTypes
  BY DEF CallInv
<1>2. inbox \in Seq({"answer", "chunk"}
                    \X {"open", "content", "refusal", "item", "error", "close", "abort"})
  <2>1. inbox \in Seq(Answer \cup Chunk)
    BY <1>1 DEF CallTypes
  <2>2. Answer \cup Chunk
        \subseteq {"answer", "chunk"}
                  \X {"open", "content", "refusal", "item", "error", "close", "abort"}
    BY DEF Answer, Chunk
  <2> QED
    BY <2>1, <2>2
<1>3. TypeOK
  BY <1>1, <1>2 DEF CallTypes, TypeOK, Calls, Futures, ChunkStreams, Pumps, Inputs, Servers, Item
<1>4. OwnLink /\ OneAhead /\ EndIsHonest
  BY DEF CallInv, LinkStands, ReaderAsks, OwnLink
<1> QED
  BY <1>3, <1>4 DEF CallIsHonest

(* A streaming tool call, of whatever kind, tells its caller the truth      *)
(* about its end: RoomClient.invoke and _ToolCallChunkStream give a user of *)
(* a raw stream every chunk that came before the close, a download as many  *)
(* as were announced, a read all that was sent, and                         *)
(* _stream_tool_call_request_chunks has sent the whole source of an upload  *)
(* that ended well; a lost connection, a cancelled request or a failed      *)
(* input never looks like the end of the data.  No chunk of a call under    *)
(* way goes over a later connection (_fail_pending_work waits for the       *)
(* pumps), and the pulls keep the server at most one chunk ahead of its     *)
(* reader.                                                                  *)
THEOREM CallsAreHonest == StreamsSpec => []CallIsHonest
<1>1. StreamsInit => CallInv
  BY CallInitHolds DEF StreamsInit
<1>2. CallInv /\ [StreamsNext]_allVars => CallInv'
  <2> SUFFICES ASSUME CallInv, [StreamsNext]_allVars PROVE CallInv'
    OBVIOUS
  <2>1. [Next]_vars
    BY DEF StreamsNext, CallMoves, allVars, callVars
  <2> QED
    BY <2>1, CallNextKeeps
<1> QED
  BY <1>1, <1>2, HonestByInv, PTL DEF StreamsSpec

=============================================================================
