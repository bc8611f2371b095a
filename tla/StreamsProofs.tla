--------------------------- MODULE StreamsProofs ---------------------------
(***************************************************************************)
(* Theorems about the streams of messaging (MessagingStreams), as MCStreams*)
(* puts them beside those of a tool call: for any number of messages, and  *)
(* whichever side loses its connection.                                    *)
(***************************************************************************)
EXTENDS MCStreams, FiniteSetTheorems, TLAPS

-----------------------------------------------------------------------------
(* The inductive invariant                                                 *)

Event == {"message", "gone", "closed", "close", "failed", "end"}
Down == {"open", "initial", "message", "close"}
Up == {"accept", "refuse", "message", "gone", "closed", "close"}
State == {"none", "accepted", "terminal"}

Calls == [state : {"none", "initial", "pending", "accepted", "terminal"},
          request : {"none", "open", "accepted", "rejected", "accept_failed",
                     "protocol_error", "client_disconnected"},
          listed : BOOLEAN, pending : BOOLEAN]
Mine == [state : State, events : Seq(Event), listed : BOOLEAN,
         queue : Seq({"message", "end"}), task : {"none", "running", "ended"},
         closing : {"no", "waiting", "done", "raised"}, asked : Nat, sent : Nat]
Theirs == [state : State, events : Seq(Event), listed : BOOLEAN,
           call : {"none", "asking", "open", "failed", "over"}, sent : Nat, closed : BOOLEAN]
Given == [initiator : Nat, responder : Nat, initiatorEnd : Event \cup {"no"},
          responderEnd : Event \cup {"no"}, ended : SUBSET {"initiator", "responder"}]

(* How many messages a queue holds, whether it holds an item, whether no    *)
(* message is behind an item of a kind, and whether one can only be first   *)
Count(q) == Cardinality({i \in 1..Len(q) : q[i] = "message"})
Has(q, e) == \E i \in 1..Len(q) : q[i] = e
Quiet(q, e) == \A i, j \in 1..Len(q) : q[i] = e /\ i < j => q[j] # "message"
First(q, e) == \A i \in 1..Len(q) : q[i] = e => i = 1

StreamTypes ==
    /\ toResponder \in Seq(Down) /\ toInitiator \in Seq(Up)
    /\ linkOf \in [{"initiator", "responder"} -> {"up", "dying", "down"}]
    /\ incoming \in Calls /\ mine \in Mine /\ theirs \in Theirs /\ given \in Given

(* Where the initiator's call and its stream stand *)
InitiatorStands ==
    /\ linkOf["initiator"] # "dying"
    /\ theirs.state = "accepted" <=> theirs.call = "open"
    /\ theirs.listed <=> theirs.state = "accepted"
    /\ theirs.state = "terminal" => theirs.call = "over"
    /\ theirs.call \in {"none", "asking", "open"} => linkOf["initiator"] = "up"
    /\ theirs.call = "none" => toResponder = <<>> /\ incoming.state = "none"
    /\ theirs.state = "none" => /\ theirs.events = <<>> /\ theirs.sent = 0
                                /\ given.initiator = 0 /\ given.initiatorEnd = "no"
    /\ theirs.sent <= MaxMessages

(* Where the responder's call, its request and its stream stand *)
ResponderStands ==
    /\ mine.state = "accepted" => incoming.state = "accepted" /\ mine.task = "running"
                                  /\ mine.closing = "no" /\ ~Has(mine.queue, "end")
    /\ mine.listed => mine.state # "none"
    /\ mine.state = "accepted" => mine.listed
    /\ mine.state = "none" => /\ mine.events = <<>> /\ mine.queue = <<>> /\ mine.task = "none"
                              /\ mine.closing = "no" /\ mine.asked = 0 /\ mine.sent = 0
                              /\ given.responder = 0 /\ given.responderEnd = "no"
    /\ mine.state = "none" <=> incoming.request # "accepted"
    /\ incoming.state = "none" => incoming.request = "none" /\ ~incoming.listed
    /\ incoming.state \in {"initial", "pending"} => incoming.listed
    /\ incoming.state = "initial" => incoming.request = "none"
    /\ incoming.state = "pending" <=> incoming.request = "open"
    /\ incoming.pending <=> incoming.request = "open"
    /\ incoming.state = "accepted" => incoming.request = "accepted" /\ incoming.listed
    /\ incoming.request = "accepted" => incoming.state \in {"accepted", "terminal"}
    /\ incoming.request # "protocol_error"
    /\ incoming.pending \/ incoming.state = "accepted" => linkOf["responder"] # "down"

(* The order of what is relayed *)
RelayedInOrder ==
    /\ First(toResponder, "open")
    /\ Has(toResponder, "open") => incoming.state = "none"
    /\ Has(toResponder, "message") => theirs.state # "none"
    /\ theirs.state # "none" => mine.state # "none"
    /\ mine.state = "none" =>
        /\ \A e \in Up : Has(toInitiator, e) => e = "refuse"
        /\ toInitiator # <<>> => incoming.state = "terminal" \/ linkOf["responder"] = "down"
    /\ mine.state # "none" => ~Has(toInitiator, "refuse")
    /\ First(toInitiator, "accept")
    /\ theirs.call = "open" => ~Has(toInitiator, "accept")
    /\ theirs.call = "asking" /\ mine.state # "none" =>
        toInitiator # <<>> /\ Head(toInitiator) = "accept"

(* What the responder's user has sent is sent or queued, unless it is lost *)
QueueKept ==
    /\ Quiet(mine.queue, "end")
    /\ mine.task = "ended" => mine.queue = <<>> /\ mine.state = "terminal"
    /\ mine.sent + Count(mine.queue) <= mine.asked /\ mine.asked <= MaxMessages
    /\ incoming.state = "accepted" /\ linkOf["responder"] = "up"
        => mine.asked = mine.sent + Count(mine.queue)
    /\ mine.closing # "no" => mine.state = "terminal"
    /\ mine.closing = "done" => mine.asked = mine.sent /\ mine.task = "ended"

(* What the responder has sent is on its way to the initiator, or given *)
GivenToInitiator ==
    /\ theirs.call = "open" =>
        given.initiator + Count(theirs.events) + Count(toInitiator) = mine.sent
    /\ theirs.call = "asking" /\ mine.state # "none" => Count(toInitiator) = mine.sent
    /\ Has(toInitiator, "closed") => mine.closing = "done"
    /\ Quiet(toInitiator, "closed")
    /\ Has(theirs.events, "closed") =>
        /\ mine.closing = "done" /\ theirs.state = "terminal"
        /\ given.initiator + Count(theirs.events) = mine.sent
    /\ Quiet(theirs.events, "closed")
    /\ given.initiatorEnd = "closed" =>
        /\ mine.closing = "done" /\ theirs.state = "terminal"
        /\ given.initiator = mine.sent /\ ~Has(theirs.events, "message")

(* What the initiator has sent is on its way to the responder, or given *)
GivenToResponder ==
    /\ mine.state = "accepted" /\ linkOf["responder"] # "down" =>
        given.responder + Count(mine.events) + Count(toResponder) = theirs.sent
    /\ Has(toResponder, "close") => theirs.call \in {"failed", "over"}
    /\ Quiet(toResponder, "close")
    /\ linkOf["responder"] = "up" =>
        /\ Has(mine.events, "gone") =>
            /\ theirs.call \in {"failed", "over"} /\ mine.state = "terminal"
            /\ given.responder + Count(mine.events) = theirs.sent
        /\ Quiet(mine.events, "gone")
        /\ given.responderEnd = "gone" =>
            /\ theirs.call \in {"failed", "over"} /\ mine.state = "terminal"
            /\ given.responder = theirs.sent /\ ~Has(mine.events, "message")

StreamInv ==
    /\ StreamTypes /\ InitiatorStands /\ ResponderStands /\ RelayedInOrder /\ QueueKept
    /\ GivenToInitiator /\ GivenToResponder

-----------------------------------------------------------------------------
(* Queues: an item is added at one end and taken from the other            *)

LEMMA CountType ==
    ASSUME NEW S, NEW q \in Seq(S)
    PROVE  Count(q) \in Nat
<1> DEFINE here == {i \in 1..Len(q) : q[i] = "message"}
<1>1. IsFiniteSet(1..Len(q))
  BY FS_Interval
<1>2. IsFiniteSet(here)
  BY <1>1, FS_Subset
<1> QED
  BY <1>2, FS_CardinalityType DEF Count

LEMMA CountNone ==
    ASSUME NEW q, ~Has(q, "message")
    PROVE  Count(q) = 0
<1>1. {i \in 1..Len(q) : q[i] = "message"} = {}
  BY DEF Has
<1> QED
  BY <1>1, FS_EmptySet DEF Count

LEMMA Nobody ==
    /\ Count(<<>>) = 0 /\ \A e : ~Has(<<>>, e) /\ Quiet(<<>>, e) /\ First(<<>>, e)
<1>1. \A e : ~Has(<<>>, e) /\ Quiet(<<>>, e) /\ First(<<>>, e)
  BY DEF Has, Quiet, First
<1> QED
  BY <1>1, CountNone

LEMMA AddedCount ==
    ASSUME NEW S, NEW q \in Seq(S), NEW x \in S
    PROVE  Count(Append(q, x)) = Count(q) + (IF x = "message" THEN 1 ELSE 0)
<1> DEFINE longer == Append(q, x)
           before == {i \in 1..Len(q) : q[i] = "message"}
           after == {i \in 1..Len(longer) : longer[i] = "message"}
<1>1. /\ Len(longer) = Len(q) + 1 /\ Len(q) \in Nat
      /\ \A i \in 1..Len(q) : longer[i] = q[i]
      /\ longer[Len(q) + 1] = x
  OBVIOUS
<1>2. IsFiniteSet(before)
  <2>1. IsFiniteSet(1..Len(q)) /\ before \in SUBSET (1..Len(q))
    BY <1>1, FS_Interval
  <2> QED
    BY <2>1, FS_Subset
<1>3. CASE x = "message"
  <2>1. after = before \cup {Len(q) + 1} /\ Len(q) + 1 \notin before
    BY <1>1, <1>3
  <2>2. Cardinality(after) = Cardinality(before) + 1
    BY <1>2, <2>1, FS_AddElement
  <2> QED
    BY <1>3, <2>2 DEF Count
<1>4. CASE x # "message"
  <2>1. after = before
    BY <1>1, <1>4
  <2>2. Count(longer) = Cardinality(after) /\ Count(q) = Cardinality(before)
    BY DEF Count
  <2>3. Count(q) \in Nat
    BY CountType
  <2> HIDE DEF longer, before, after
  <2>4. Count(longer) = Count(q) + (IF x = "message" THEN 1 ELSE 0)
    BY <1>4, <2>1, <2>2, <2>3
  <2> QED
    BY <2>4 DEF longer
<1> QED
  BY <1>3, <1>4

LEMMA TakenCount ==
    ASSUME NEW S, NEW q \in Seq(S), q # <<>>
    PROVE  Count(q) = Count(Tail(q)) + (IF Head(q) = "message" THEN 1 ELSE 0)
<1> DEFINE rest == Tail(q)
           all == {i \in 1..Len(q) : q[i] = "message"}
           behind == {i \in 2..Len(q) : q[i] = "message"}
           others == {i \in 1..Len(rest) : rest[i] = "message"}
<1>1. /\ Len(q) \in Nat /\ Len(q) >= 1 /\ Len(rest) = Len(q) - 1
      /\ \A i \in 1..Len(rest) : rest[i] = q[i + 1]
      /\ Head(q) = q[1]
  OBVIOUS
<1>2. IsFiniteSet(others) /\ IsFiniteSet(behind)
  <2>1. /\ IsFiniteSet(1..Len(rest)) /\ others \in SUBSET (1..Len(rest))
        /\ IsFiniteSet(2..Len(q)) /\ behind \in SUBSET (2..Len(q))
    BY <1>1, FS_Interval
  <2> QED
    BY <2>1, FS_Subset
<1>3. Cardinality(behind) = Cardinality(others)
  <2> DEFINE next == [i \in others |-> i + 1]
  <2>1. next \in Bijection(others, behind)
    <3>1. next \in [others -> behind]
      BY <1>1
    <3>2. \A i, j \in others : next[i] = next[j] => i = j
      OBVIOUS
    <3>3. \A j \in behind : \E i \in others : next[i] = j
      <4> SUFFICES ASSUME NEW j \in behind PROVE \E i \in others : next[i] = j
        OBVIOUS
      <4>1. j - 1 \in others /\ next[j - 1] = j
        BY <1>1
      <4> QED
        BY <4>1
    <3> QED
      BY <3>1, <3>2, <3>3 DEF Bijection, Injection, Surjection, IsInjective
  <2>2. ExistsBijection(others, behind)
    BY <2>1 DEF ExistsBijection
  <2> HIDE DEF rest, others, behind
  <2> QED
    BY <1>2, <2>2, FS_Bijection
<1>4. CASE Head(q) = "message"
  <2>1. all = behind \cup {1} /\ 1 \notin behind
    BY <1>1, <1>4
  <2>2. Cardinality(all) = Cardinality(behind) + 1
    BY <1>2, <2>1, FS_AddElement
  <2> QED
    BY <1>3, <1>4, <2>2 DEF Count
<1>5. CASE Head(q) # "message"
  <2>1. all = behind
    BY <1>1, <1>5
  <2>2. Count(rest) \in Nat
    <3>1. Cardinality(others) \in Nat
      BY <1>2, FS_CardinalityType
    <3> QED
      BY <3>1 DEF Count
  <2>3. Count(q) = Cardinality(all) /\ Count(rest) = Cardinality(others)
    BY DEF Count
  <2> HIDE DEF rest, all, behind, others
  <2>4. Count(q) = Count(rest) + (IF Head(q) = "message" THEN 1 ELSE 0)
    BY <1>3, <1>5, <2>1, <2>2, <2>3
  <2> QED
    BY <2>4 DEF rest
<1> QED
  BY <1>4, <1>5

LEMMA Added ==
    ASSUME NEW S, NEW q \in Seq(S), NEW x \in S
    PROVE  /\ Append(q, x) \in Seq(S) /\ Append(q, x) # <<>>
           /\ q # <<>> => Head(Append(q, x)) = Head(q)
           /\ q = <<>> => Head(Append(q, x)) = x
           /\ \A e : Has(Append(q, x), e) <=> Has(q, e) \/ x = e
           /\ \A e : Quiet(q, e) /\ (x = "message" => ~Has(q, e)) => Quiet(Append(q, x), e)
<1> DEFINE longer == Append(q, x)
<1>1. /\ Len(longer) = Len(q) + 1 /\ Len(q) \in Nat
      /\ \A i \in 1..Len(q) : longer[i] = q[i]
      /\ longer[Len(q) + 1] = x
      /\ longer \in Seq(S) /\ longer # <<>>
  OBVIOUS
<1>a. (q # <<>> => Head(longer) = Head(q)) /\ (q = <<>> => Head(longer) = x)
  <2>1. Head(longer) = longer[1]
    BY <1>1
  <2>2. q # <<>> => Head(q) = q[1] /\ 1 \in 1..Len(q)
    OBVIOUS
  <2>3. q = <<>> => Len(q) = 0
    OBVIOUS
  <2> QED
    BY <1>1, <2>1, <2>2, <2>3
<1>2. ASSUME NEW e PROVE Has(longer, e) <=> Has(q, e) \/ x = e
  <2>1. ASSUME Has(longer, e) PROVE Has(q, e) \/ x = e
    <3>1. PICK i \in 1..Len(longer) : longer[i] = e
      BY <2>1 DEF Has
    <3>2. i \in 1..Len(q) \/ i = Len(q) + 1
      BY <1>1
    <3> QED
      BY <1>1, <3>1, <3>2 DEF Has
  <2>2. ASSUME Has(q, e) PROVE Has(longer, e)
    <3>1. PICK i \in 1..Len(q) : q[i] = e
      BY <2>2 DEF Has
    <3>2. i \in 1..Len(longer) /\ longer[i] = e
      BY <1>1, <3>1
    <3> QED
      BY <3>2 DEF Has
  <2>3. ASSUME x = e PROVE Has(longer, e)
    <3>1. Len(q) + 1 \in 1..Len(longer)
      BY <1>1
    <3> QED
      BY <1>1, <2>3, <3>1 DEF Has
  <2> QED
    BY <2>1, <2>2, <2>3
<1>3. ASSUME NEW e, Quiet(q, e), x = "message" => ~Has(q, e) PROVE Quiet(longer, e)
  <2> SUFFICES ASSUME NEW i \in 1..Len(longer), NEW j \in 1..Len(longer),
                      longer[i] = e, i < j
               PROVE  longer[j] # "message"
    BY DEF Quiet
  <2>1. i \in 1..Len(q) /\ q[i] = e
    BY <1>1
  <2>2. CASE j \in 1..Len(q)
    BY <1>1, <1>3, <2>1, <2>2 DEF Quiet
  <2>3. CASE j = Len(q) + 1
    BY <1>1, <1>3, <2>1, <2>3 DEF Has
  <2> QED
    BY <1>1, <2>2, <2>3
<1> QED
  BY <1>1, <1>a, <1>2, <1>3

LEMMA Taken ==
    ASSUME NEW S, NEW q \in Seq(S), q # <<>>
    PROVE  /\ Tail(q) \in Seq(S) /\ Head(q) \in S /\ Has(q, Head(q))
           /\ \A e : Has(Tail(q), e) => Has(q, e)
           /\ \A e : Quiet(q, e) => Quiet(Tail(q), e)
           /\ Quiet(q, Head(q)) => ~Has(Tail(q), "message")
           /\ \A e : Has(q, e) /\ Head(q) # e => Has(Tail(q), e)
<1> DEFINE rest == Tail(q)
<1>1. /\ Len(q) \in Nat /\ Len(q) >= 1 /\ Len(rest) = Len(q) - 1
      /\ \A i \in 1..Len(rest) : rest[i] = q[i + 1] /\ i + 1 \in 1..Len(q)
      /\ Head(q) = q[1] /\ rest \in Seq(S) /\ Head(q) \in S /\ 1 \in 1..Len(q)
  OBVIOUS
<1>2. \A e : Has(rest, e) => Has(q, e)
  BY <1>1 DEF Has
<1>3. \A e : Quiet(q, e) => Quiet(rest, e)
  <2> SUFFICES ASSUME NEW e, Quiet(q, e), NEW i \in 1..Len(rest), NEW j \in 1..Len(rest),
                      rest[i] = e, i < j
               PROVE  rest[j] # "message"
    BY DEF Quiet
  <2>1. q[i + 1] = e /\ i + 1 < j + 1 /\ rest[j] = q[j + 1]
    BY <1>1
  <2> QED
    BY <1>1, <2>1 DEF Quiet
<1>4. ASSUME Quiet(q, Head(q)) PROVE ~Has(rest, "message")
  <2>1. ASSUME NEW i \in 1..Len(rest) PROVE rest[i] # "message"
    <3>1. i + 1 \in 1..Len(q) /\ 1 < i + 1 /\ rest[i] = q[i + 1]
      BY <1>1
    <3> QED
      BY <1>1, <1>4, <3>1 DEF Quiet
  <2> QED
    BY <2>1 DEF Has
<1>5. \A e : Has(q, e) /\ Head(q) # e => Has(rest, e)
  <2> SUFFICES ASSUME NEW e, NEW i \in 1..Len(q), q[i] = e, Head(q) # e PROVE Has(rest, e)
    BY DEF Has
  <2>1. i - 1 \in 1..Len(rest) /\ rest[i - 1] = e
    BY <1>1
  <2> QED
    BY <2>1 DEF Has
<1>6. Has(q, Head(q))
  BY <1>1 DEF Has
<1> QED
  BY <1>1, <1>2, <1>3, <1>4, <1>5, <1>6

(* What a queue is like once an item is added, or the first one taken *)
AddsTo(q, r, x) ==
    /\ r # <<>> /\ Head(r) = IF q = <<>> THEN x ELSE Head(q)
    /\ \A e : Has(r, e) <=> Has(q, e) \/ x = e
    /\ \A e : Quiet(q, e) /\ (x = "message" => ~Has(q, e)) => Quiet(r, e)
    /\ \A e : First(q, e) /\ (x = e => q = <<>>) => First(r, e)
    /\ Count(q) \in Nat /\ Count(r) \in Nat
    /\ Count(r) = Count(q) + (IF x = "message" THEN 1 ELSE 0)

TakesFrom(q, r) ==
    /\ q # <<>> /\ Has(q, Head(q))
    /\ \A e : Has(r, e) => Has(q, e)
    /\ \A e : Has(q, e) /\ Head(q) # e => Has(r, e)
    /\ \A e : Quiet(q, e) => Quiet(r, e)
    /\ \A e : First(q, e) => First(r, e) /\ ~Has(r, e)
    /\ Quiet(q, Head(q)) => ~Has(r, "message") /\ Count(r) = 0
    /\ Count(q) \in Nat /\ Count(r) \in Nat
    /\ Count(q) = Count(r) + (IF Head(q) = "message" THEN 1 ELSE 0)

LEMMA Adds ==
    ASSUME NEW S, NEW q \in Seq(S), NEW x \in S
    PROVE  Append(q, x) \in Seq(S) /\ AddsTo(q, Append(q, x), x)
<1> DEFINE r == Append(q, x)
<1>1. \A e : First(q, e) /\ (x = e => q = <<>>) => First(r, e)
  <2>1. /\ Len(r) = Len(q) + 1 /\ Len(q) \in Nat /\ (q = <<>> => Len(q) = 0)
        /\ \A i \in 1..Len(q) : r[i] = q[i]
        /\ r[Len(q) + 1] = x
    OBVIOUS
  <2> HIDE DEF r
  <2> SUFFICES ASSUME NEW e, First(q, e), x = e => q = <<>>, NEW i \in 1..Len(r), r[i] = e
               PROVE  i = 1
    BY DEF First
  <2>2. CASE i \in 1..Len(q)
    BY <2>1, <2>2 DEF First
  <2>3. CASE i = Len(q) + 1
    BY <2>1, <2>3
  <2> QED
    BY <2>1, <2>2, <2>3
<1>2. r \in Seq(S)
  OBVIOUS
<1>3. Count(q) \in Nat /\ Count(r) \in Nat
  BY <1>2, CountType
<1>4. /\ r # <<>> /\ Head(r) = IF q = <<>> THEN x ELSE Head(q)
  BY Added
<1>5. Count(r) = Count(q) + (IF x = "message" THEN 1 ELSE 0)
  BY AddedCount
<1>6. /\ \A e : Has(r, e) <=> Has(q, e) \/ x = e
      /\ \A e : Quiet(q, e) /\ (x = "message" => ~Has(q, e)) => Quiet(r, e)
  BY Added
<1> HIDE DEF r
<1>7. AddsTo(q, r, x)
  BY <1>1, <1>3, <1>4, <1>5, <1>6 DEF AddsTo
<1> QED
  BY <1>2, <1>7 DEF r

LEMMA Takes ==
    ASSUME NEW S, NEW q \in Seq(S), q # <<>>
    PROVE  Tail(q) \in Seq(S) /\ Head(q) \in S /\ TakesFrom(q, Tail(q))
<1> DEFINE r == Tail(q)
<1>1. \A e : First(q, e) => First(r, e) /\ ~Has(r, e)
  <2>1. /\ Len(q) \in Nat /\ Len(r) = Len(q) - 1
        /\ \A i \in 1..Len(r) : r[i] = q[i + 1] /\ i + 1 \in 1..Len(q)
    OBVIOUS
  <2> HIDE DEF r
  <2> SUFFICES ASSUME NEW e, First(q, e), NEW i \in 1..Len(r)
               PROVE  r[i] # e
    BY DEF First, Has
  <2> QED
    BY <2>1 DEF First
<1>2. r \in Seq(S) /\ Head(q) \in S /\ Has(q, Head(q))
  BY Taken
<1>3. Count(q) \in Nat /\ Count(r) \in Nat
  BY <1>2, CountType
<1>4. Quiet(q, Head(q)) => ~Has(r, "message") /\ Count(r) = 0
  BY Taken, CountNone
<1>5. Count(q) = Count(r) + (IF Head(q) = "message" THEN 1 ELSE 0)
  BY TakenCount
<1>6. /\ \A e : Has(r, e) => Has(q, e)
      /\ \A e : Has(q, e) /\ Head(q) # e => Has(r, e)
      /\ \A e : Quiet(q, e) => Quiet(r, e)
  BY Taken
<1> HIDE DEF r
<1>7. TakesFrom(q, r)
  BY <1>1, <1>2, <1>3, <1>4, <1>5, <1>6 DEF TakesFrom
<1> QED
  BY <1>2, <1>7 DEF r

LEMMA Joined ==
    ASSUME NEW S, NEW q \in Seq(S), NEW x \in S, NEW y \in S
    PROVE  q \o <<x>> = Append(q, x) /\ q \o <<x, y>> = Append(Append(q, x), y)
OBVIOUS
-----------------------------------------------------------------------------
(* What a step does to the queues                                          *)

LEMMA RelayOne ==
    ASSUME StreamTypes, NEW x \in Down, Messaging!Relay(<<x>>)
    PROVE  /\ toResponder' \in Seq(Down)
           /\ linkOf["responder"] = "down" => toResponder' = toResponder
           /\ linkOf["responder"] # "down" => AddsTo(toResponder, toResponder', x)
<1>1. toResponder \in Seq(Down)
  BY DEF StreamTypes
<1>2. /\ Append(toResponder, x) \in Seq(Down) /\ toResponder \o <<x>> = Append(toResponder, x)
      /\ AddsTo(toResponder, Append(toResponder, x), x)
  BY <1>1, Adds, Joined
<1> QED
  BY <1>1, <1>2 DEF Messaging!Relay

LEMMA BackOne ==
    ASSUME StreamTypes, NEW x \in Up, Messaging!Back(<<x>>)
    PROVE  /\ toInitiator' \in Seq(Up)
           /\ linkOf["initiator"] = "down" => toInitiator' = toInitiator
           /\ linkOf["initiator"] # "down" => AddsTo(toInitiator, toInitiator', x)
<1>1. toInitiator \in Seq(Up)
  BY DEF StreamTypes
<1>2. /\ Append(toInitiator, x) \in Seq(Up) /\ toInitiator \o <<x>> = Append(toInitiator, x)
      /\ AddsTo(toInitiator, Append(toInitiator, x), x)
  BY <1>1, Adds, Joined
<1> QED
  BY <1>1, <1>2 DEF Messaging!Back

(* The end of a stream of the initiator's, and that of the responder's *)
LEMMA FinishTheirs ==
    ASSUME NEW s \in Theirs
    PROVE  /\ Messaging!Finish(s) \in Theirs
           /\ Messaging!Finish(s).listed = s.listed /\ Messaging!Finish(s).call = s.call
           /\ Messaging!Finish(s).sent = s.sent /\ Messaging!Finish(s).closed = s.closed
           /\ s.state # "accepted" => Messaging!Finish(s) = s
           /\ s.state = "accepted" => /\ Messaging!Finish(s).state = "terminal"
                                      /\ AddsTo(s.events, Messaging!Finish(s).events, "end")
<1>1. s.events \in Seq(Event) /\ "end" \in Event
  BY DEF Theirs, Event
<1>2. Append(s.events, "end") \in Seq(Event) /\ AddsTo(s.events, Append(s.events, "end"), "end")
  BY <1>1, Adds
<1> QED
  BY <1>2 DEF Messaging!Finish, Theirs, State

LEMMA PushTheirs ==
    ASSUME NEW s \in Theirs, NEW e \in Event
    PROVE  /\ Messaging!Push(s, e) \in Theirs
           /\ Messaging!Push(s, e).listed = s.listed /\ Messaging!Push(s, e).call = s.call
           /\ Messaging!Push(s, e).sent = s.sent /\ Messaging!Push(s, e).closed = s.closed
           /\ Messaging!Push(s, e).state = s.state
           /\ s.state # "accepted" => Messaging!Push(s, e) = s
           /\ s.state = "accepted" => AddsTo(s.events, Messaging!Push(s, e).events, e)
<1>1. s.events \in Seq(Event)
  BY DEF Theirs
<1>2. Append(s.events, e) \in Seq(Event) /\ AddsTo(s.events, Append(s.events, e), e)
  BY <1>1, Adds
<1> QED
  BY <1>2 DEF Messaging!Push, Theirs, State

LEMMA UnlistTheirs ==
    ASSUME NEW s \in Theirs
    PROVE  /\ Messaging!Unlist(s) \in Theirs /\ ~Messaging!Unlist(s).listed
           /\ Messaging!Unlist(s).state = s.state /\ Messaging!Unlist(s).events = s.events
           /\ Messaging!Unlist(s).call = s.call /\ Messaging!Unlist(s).sent = s.sent
           /\ Messaging!Unlist(s).closed = s.closed
BY DEF Messaging!Unlist, Theirs

LEMMA PushMine ==
    ASSUME NEW s \in Mine, NEW e \in Event
    PROVE  /\ Messaging!Push(s, e) \in Mine
           /\ Messaging!Push(s, e).listed = s.listed /\ Messaging!Push(s, e).queue = s.queue
           /\ Messaging!Push(s, e).task = s.task /\ Messaging!Push(s, e).closing = s.closing
           /\ Messaging!Push(s, e).asked = s.asked /\ Messaging!Push(s, e).sent = s.sent
           /\ Messaging!Push(s, e).state = s.state
           /\ s.state # "accepted" => Messaging!Push(s, e) = s
           /\ s.state = "accepted" => AddsTo(s.events, Messaging!Push(s, e).events, e)
<1>1. s.events \in Seq(Event)
  BY DEF Mine
<1>2. Append(s.events, e) \in Seq(Event) /\ AddsTo(s.events, Append(s.events, e), e)
  BY <1>1, Adds
<1> QED
  BY <1>2 DEF Messaging!Push, Mine, State

LEMMA FinishMineIs ==
    ASSUME NEW s \in Mine
    PROVE  /\ Messaging!FinishMine(s) \in Mine
           /\ Messaging!FinishMine(s).listed = s.listed /\ Messaging!FinishMine(s).task = s.task
           /\ Messaging!FinishMine(s).closing = s.closing
           /\ Messaging!FinishMine(s).asked = s.asked
           /\ Messaging!FinishMine(s).sent = s.sent
           /\ s.state # "accepted" => Messaging!FinishMine(s) = s
           /\ s.state = "accepted" => /\ Messaging!FinishMine(s).state = "terminal"
                                      /\ AddsTo(s.events, Messaging!FinishMine(s).events, "end")
                                      /\ AddsTo(s.queue, Messaging!FinishMine(s).queue, "end")
<1>1. /\ s.events \in Seq(Event) /\ "end" \in Event
      /\ s.queue \in Seq({"message", "end"}) /\ "end" \in {"message", "end"}
  BY DEF Mine, Event
<1>2. /\ Append(s.events, "end") \in Seq(Event)
      /\ AddsTo(s.events, Append(s.events, "end"), "end")
  BY <1>1, Adds
<1>3. /\ Append(s.queue, "end") \in Seq({"message", "end"})
      /\ AddsTo(s.queue, Append(s.queue, "end"), "end")
  BY <1>1, Adds
<1> QED
  BY <1>2, <1>3 DEF Messaging!FinishMine, Messaging!Finish, Mine, State

-----------------------------------------------------------------------------
(* The steps of the initiator                                              *)

LEMMA StreamInitHolds == MaxMessages \in Nat /\ Messaging!Init => StreamInv
<1> SUFFICES ASSUME MaxMessages \in Nat, Messaging!Init PROVE StreamInv
  OBVIOUS
<1> USE Nobody
<1>1. /\ <<>> \in Seq(Down) /\ <<>> \in Seq(Up) /\ <<>> \in Seq(Event)
      /\ <<>> \in Seq({"message", "end"})
  OBVIOUS
<1>2. StreamTypes
  BY <1>1 DEF Messaging!Init, StreamTypes, Calls, Mine, Theirs, Given, State
<1>3. InitiatorStands /\ ResponderStands
  BY DEF Messaging!Init, InitiatorStands, ResponderStands
<1>4. RelayedInOrder /\ QueueKept
  BY DEF Messaging!Init, RelayedInOrder, QueueKept
<1>5. GivenToInitiator /\ GivenToResponder
  BY DEF Messaging!Init, GivenToInitiator, GivenToResponder
<1> QED
  BY <1>2, <1>3, <1>4, <1>5 DEF StreamInv

LEMMA AskKeeps == StreamInv /\ Messaging!Ask => StreamInv'
<1> SUFFICES ASSUME StreamInv, Messaging!Ask PROVE StreamInv'
  OBVIOUS
<1>1. /\ theirs \in Theirs /\ theirs.call = "none" /\ linkOf["initiator"] = "up"
      /\ theirs' = [theirs EXCEPT !.call = "asking"]
      /\ UNCHANGED <<linkOf, incoming, mine, given>>
  BY DEF Messaging!Ask, StreamInv, StreamTypes
<1>2. /\ theirs' \in Theirs /\ theirs'.call = "asking" /\ theirs'.state = theirs.state
      /\ theirs'.events = theirs.events /\ theirs'.listed = theirs.listed
      /\ theirs'.sent = theirs.sent /\ theirs'.closed = theirs.closed
  BY <1>1 DEF Theirs
<1>3. toResponder = <<>> /\ incoming.state = "none" /\ theirs.state = "none"
  BY <1>1 DEF StreamInv, InitiatorStands, Theirs, State
<1>4. mine.state = "none"
  BY <1>3 DEF StreamInv, ResponderStands
<1>5. CASE linkOf["responder"] = "down"
  <2>1. /\ toResponder' = <<>> /\ toResponder' \in Seq(Down)
        /\ toInitiator' \in Seq(Up) /\ AddsTo(toInitiator, toInitiator', "refuse")
    <3>1. toInitiator \in Seq(Up) /\ "refuse" \in Up
      BY DEF StreamInv, StreamTypes, Up
    <3> QED
      BY <1>3, <1>5, <3>1, Adds DEF Messaging!Ask, StreamInv, StreamTypes
  <2>2. StreamTypes'
    BY <1>1, <1>2, <2>1 DEF StreamInv, StreamTypes
  <2>3. InitiatorStands' /\ ResponderStands'
    BY <1>1, <1>2, <1>3, <2>1 DEF StreamInv, InitiatorStands, ResponderStands
  <2>4. RelayedInOrder' /\ QueueKept'
    BY <1>1, <1>2, <1>3, <1>4, <1>5, <2>1 DEF StreamInv, RelayedInOrder, QueueKept, AddsTo
  <2>5. GivenToInitiator' /\ GivenToResponder'
    BY <1>1, <1>2, <1>3, <1>4, <2>1, Nobody
       DEF StreamInv, GivenToInitiator, GivenToResponder, AddsTo
  <2> QED
    BY <2>2, <2>3, <2>4, <2>5 DEF StreamInv
<1>6. CASE linkOf["responder"] # "down"
  <2> DEFINE opened == Append(<<>>, "open")
             sent == Append(opened, "initial")
  <2>1. /\ <<>> \in Seq(Down) /\ "open" \in Down /\ "initial" \in Down
        /\ <<>> \o <<"open", "initial">> = sent
    BY DEF Down
  <2> HIDE DEF opened, sent
  <2>2. opened \in Seq(Down) /\ AddsTo(<<>>, opened, "open")
    BY <2>1, Adds DEF opened
  <2>3. sent \in Seq(Down) /\ AddsTo(opened, sent, "initial")
    BY <2>1, <2>2, Adds DEF sent
  <2>4. toResponder' = sent /\ toInitiator' = toInitiator
    BY <1>3, <1>6, <2>1 DEF Messaging!Ask, Messaging!Relay
  <2>5. /\ \A e : Has(toResponder', e) <=> e \in {"open", "initial"}
        /\ \A e : e # "open" => Quiet(toResponder', e)
        /\ First(toResponder', "open") /\ Count(toResponder') = 0
        /\ toResponder' \in Seq(Down)
    <3>1. \A e : Has(opened, e) <=> e = "open"
      BY <2>2, Nobody DEF AddsTo
    <3>2. \A e : Quiet(opened, e)
      BY <2>2, Nobody DEF AddsTo
    <3>3. First(opened, "open") /\ Count(opened) = 0
      BY <2>2, Nobody DEF AddsTo
    <3> QED
      BY <2>3, <2>4, <3>1, <3>2, <3>3 DEF AddsTo
  <2>6. StreamTypes'
    BY <1>1, <1>2, <2>4, <2>5 DEF StreamInv, StreamTypes
  <2>7. InitiatorStands' /\ ResponderStands'
    BY <1>1, <1>2, <1>3 DEF StreamInv, InitiatorStands, ResponderStands
  <2>8. RelayedInOrder' /\ QueueKept'
    BY <1>1, <1>2, <1>3, <1>4, <1>6, <2>4, <2>5 DEF StreamInv, RelayedInOrder, QueueKept
  <2>9. GivenToInitiator' /\ GivenToResponder'
    BY <1>1, <1>2, <1>3, <1>4, <2>4, <2>5
       DEF StreamInv, GivenToInitiator, GivenToResponder
  <2> QED
    BY <2>6, <2>7, <2>8, <2>9 DEF StreamInv
<1> QED
  BY <1>5, <1>6

(* The call fails, by itself or by an answer that refuses it *)
LEMMA CallFails ==
    ASSUME StreamInv, theirs.call = "asking", Messaging!Relay(<<"close">>),
           theirs' = [theirs EXCEPT !.call = "failed"],
           UNCHANGED <<linkOf, incoming, mine, given>>,
           \/ toInitiator' = toInitiator
           \/ toInitiator' \in Seq(Up) /\ TakesFrom(toInitiator, toInitiator')
    PROVE  StreamInv'
<1>1. /\ theirs' \in Theirs /\ theirs'.call = "failed" /\ theirs'.state = theirs.state
      /\ theirs'.events = theirs.events /\ theirs'.listed = theirs.listed
      /\ theirs'.sent = theirs.sent /\ theirs'.closed = theirs.closed
      /\ theirs.state = "none"
  BY DEF StreamInv, StreamTypes, InitiatorStands, Theirs, State
<1>2. /\ toResponder' \in Seq(Down)
      /\ linkOf["responder"] = "down" => toResponder' = toResponder
      /\ linkOf["responder"] # "down" => AddsTo(toResponder, toResponder', "close")
  BY RelayOne DEF StreamInv, Down
<1>3. StreamTypes'
  BY <1>1, <1>2 DEF StreamInv, StreamTypes
<1>4. InitiatorStands' /\ ResponderStands'
  BY <1>1, <1>2 DEF StreamInv, InitiatorStands, ResponderStands
<1>5. RelayedInOrder' /\ QueueKept'
  BY <1>1, <1>2 DEF StreamInv, RelayedInOrder, QueueKept, AddsTo, TakesFrom
<1>6. GivenToInitiator'
  BY <1>1 DEF StreamInv, GivenToInitiator, TakesFrom
<1>7. GivenToResponder'
  BY <1>1, <1>2 DEF StreamInv, GivenToResponder, AddsTo
<1> QED
  BY <1>3, <1>4, <1>5, <1>6, <1>7 DEF StreamInv

LEMMA GiveUpKeeps == StreamInv /\ Messaging!GiveUp => StreamInv'
  BY CallFails DEF Messaging!GiveUp

LEMMA AnsweredKeeps == StreamInv /\ Messaging!Answered => StreamInv'
<1> SUFFICES ASSUME StreamInv, Messaging!Answered PROVE StreamInv'
  OBVIOUS
<1>1. /\ toInitiator' = Tail(toInitiator) /\ toInitiator # <<>>
      /\ theirs.call = "asking" /\ UNCHANGED <<linkOf, incoming, mine, given>>
  BY DEF Messaging!Answered
<1>2. /\ toInitiator' \in Seq(Up) /\ TakesFrom(toInitiator, toInitiator')
  BY <1>1, Takes DEF StreamInv, StreamTypes
<1>3. CASE Head(toInitiator) = "accept"
  <2>1. /\ toResponder' = toResponder
        /\ theirs' = [theirs EXCEPT !.call = "open", !.state = "accepted", !.listed = TRUE]
    BY <1>3 DEF Messaging!Answered, Messaging!Head1
  <2>2. /\ theirs' \in Theirs /\ theirs'.call = "open" /\ theirs'.state = "accepted"
        /\ theirs'.listed /\ theirs'.events = theirs.events
        /\ theirs'.sent = theirs.sent /\ theirs'.closed = theirs.closed
        /\ theirs.state = "none"
    BY <1>1, <2>1 DEF StreamInv, StreamTypes, InitiatorStands, Theirs, State
  <2>3. mine.state # "none"
    BY <1>2, <1>3 DEF StreamInv, RelayedInOrder, TakesFrom, Up
  <2>4. /\ theirs.events = <<>> /\ theirs.sent = 0 /\ given.initiator = 0
        /\ given.initiatorEnd = "no" /\ linkOf["initiator"] = "up"
    BY <1>1, <2>2 DEF StreamInv, InitiatorStands
  <2>5. StreamTypes'
    BY <1>1, <1>2, <2>1, <2>2 DEF StreamInv, StreamTypes
  <2>6. InitiatorStands' /\ ResponderStands'
    BY <1>1, <2>1, <2>2, <2>4 DEF StreamInv, InitiatorStands, ResponderStands
  <2>7. RelayedInOrder' /\ QueueKept'
    BY <1>1, <1>2, <1>3, <2>1, <2>2, <2>3
       DEF StreamInv, RelayedInOrder, QueueKept, TakesFrom
  <2>8. GivenToInitiator'
    BY <1>1, <1>2, <1>3, <2>2, <2>3, <2>4, Nobody DEF StreamInv, GivenToInitiator, TakesFrom
  <2>9. GivenToResponder'
    <3>1. ~Has(toResponder, "close")
      BY <1>1 DEF StreamInv, GivenToResponder
    <3> QED
      BY <1>1, <2>1, <2>2, <3>1 DEF StreamInv, GivenToResponder
  <2> QED
    BY <2>5, <2>6, <2>7, <2>8, <2>9 DEF StreamInv
<1>4. CASE Head(toInitiator) # "accept"
  <2>1. Messaging!Relay(<<"close">>) /\ theirs' = [theirs EXCEPT !.call = "failed"]
    BY <1>4 DEF Messaging!Answered, Messaging!Head1
  <2> QED
    BY <1>1, <1>2, <2>1, CallFails
<1> QED
  BY <1>3, <1>4

LEMMA DropOutputKeeps == StreamInv /\ Messaging!DropOutput => StreamInv'
<1> SUFFICES ASSUME StreamInv, Messaging!DropOutput PROVE StreamInv'
  OBVIOUS
<1>1. /\ toInitiator' = Tail(toInitiator) /\ toInitiator # <<>>
      /\ theirs.call \in {"failed", "over"}
      /\ UNCHANGED <<toResponder, linkOf, incoming, mine, theirs, given>>
  BY DEF Messaging!DropOutput
<1>2. /\ toInitiator' \in Seq(Up) /\ TakesFrom(toInitiator, toInitiator')
  BY <1>1, Takes DEF StreamInv, StreamTypes
<1>3. StreamTypes' /\ InitiatorStands' /\ ResponderStands' /\ QueueKept'
  BY <1>1, <1>2 DEF StreamInv, StreamTypes, InitiatorStands, ResponderStands, QueueKept
<1>4. RelayedInOrder'
  BY <1>1, <1>2 DEF StreamInv, RelayedInOrder, TakesFrom
<1>5. GivenToInitiator' /\ GivenToResponder'
  BY <1>1, <1>2 DEF StreamInv, GivenToInitiator, GivenToResponder, TakesFrom
<1> QED
  BY <1>3, <1>4, <1>5 DEF StreamInv

LEMMA TheySendKeeps == MaxMessages \in Nat /\ StreamInv /\ Messaging!TheySend => StreamInv'
<1> SUFFICES ASSUME MaxMessages \in Nat, StreamInv, Messaging!TheySend PROVE StreamInv'
  OBVIOUS
<1>1. /\ theirs.state = "accepted" /\ theirs.sent < MaxMessages
      /\ Messaging!Relay(<<"message">>)
      /\ theirs' = [theirs EXCEPT !.sent = theirs.sent + 1] /\ theirs \in Theirs
      /\ UNCHANGED <<toInitiator, linkOf, incoming, mine, given>>
  BY DEF Messaging!TheySend, StreamInv, StreamTypes
<1>2. /\ theirs' \in Theirs /\ theirs'.call = theirs.call /\ theirs'.state = theirs.state
      /\ theirs'.events = theirs.events /\ theirs'.listed = theirs.listed
      /\ theirs'.sent = theirs.sent + 1 /\ theirs'.closed = theirs.closed
      /\ theirs.sent \in Nat
  BY <1>1 DEF Theirs
<1>3. /\ toResponder' \in Seq(Down)
      /\ linkOf["responder"] = "down" => toResponder' = toResponder
      /\ linkOf["responder"] # "down" => AddsTo(toResponder, toResponder', "message")
  BY <1>1, RelayOne DEF StreamInv, Down
<1>4. theirs.call = "open" /\ mine.state # "none" /\ incoming.state # "none"
  BY <1>1 DEF StreamInv, InitiatorStands, RelayedInOrder, ResponderStands
<1>5. StreamTypes'
  BY <1>1, <1>2, <1>3 DEF StreamInv, StreamTypes
<1>6. InitiatorStands' /\ ResponderStands'
  BY <1>1, <1>2, <1>4 DEF StreamInv, InitiatorStands, ResponderStands
<1>7. RelayedInOrder' /\ QueueKept'
  BY <1>1, <1>2, <1>3 DEF StreamInv, RelayedInOrder, QueueKept, AddsTo
<1>8. GivenToInitiator'
  BY <1>1, <1>2 DEF StreamInv, GivenToInitiator
<1>9. GivenToResponder'
  <2>1. given.responder \in Nat
    BY DEF StreamInv, StreamTypes, Given
  <2>2. Count(mine.events) \in Nat
    BY CountType DEF StreamInv, StreamTypes, Mine
  <2>3. Count(toResponder) \in Nat
    BY CountType DEF StreamInv, StreamTypes
  <2>4. ~Has(toResponder, "close") /\ Quiet(toResponder, "close")
    BY <1>4 DEF StreamInv, GivenToResponder
  <2>5. ~Has(toResponder', "close") /\ Quiet(toResponder', "close")
    BY <1>3, <2>4 DEF AddsTo
  <2>6. mine'.state = "accepted" /\ linkOf'["responder"] # "down" =>
          given'.responder + Count(mine'.events) + Count(toResponder') = theirs'.sent
    <3> SUFFICES ASSUME mine.state = "accepted", linkOf["responder"] # "down"
                 PROVE  given.responder + Count(mine.events) + Count(toResponder')
                            = theirs.sent + 1
      BY <1>1, <1>2
    <3>1. Count(toResponder') = Count(toResponder) + 1
      BY <1>3 DEF AddsTo
    <3>2. given.responder + Count(mine.events) + Count(toResponder) = theirs.sent
      BY DEF StreamInv, GivenToResponder
    <3> QED
      BY <1>2, <2>1, <2>2, <2>3, <3>1, <3>2
  <2> QED
    BY <1>1, <1>2, <1>4, <2>5, <2>6 DEF StreamInv, GivenToResponder
<1> QED
  BY <1>5, <1>6, <1>7, <1>8, <1>9 DEF StreamInv

LEMMA TheyCloseKeeps == StreamInv /\ Messaging!TheyClose => StreamInv'
<1> SUFFICES ASSUME StreamInv, Messaging!TheyClose PROVE StreamInv'
  OBVIOUS
<1>1. /\ theirs.state = "accepted" /\ Messaging!Relay(<<"close">>) /\ theirs \in Theirs
      /\ theirs' = [Messaging!Unlist(Messaging!Finish(theirs)) EXCEPT
                     !.call = "over", !.closed = TRUE]
      /\ UNCHANGED <<toInitiator, linkOf, incoming, mine, given>>
  BY DEF Messaging!TheyClose, StreamInv, StreamTypes
<1>2. /\ theirs' \in Theirs /\ theirs'.call = "over" /\ theirs'.state = "terminal"
      /\ AddsTo(theirs.events, theirs'.events, "end") /\ ~theirs'.listed
      /\ theirs'.sent = theirs.sent
  <2>1. /\ Messaging!Unlist(Messaging!Finish(theirs)) \in Theirs
        /\ ~Messaging!Unlist(Messaging!Finish(theirs)).listed
        /\ Messaging!Unlist(Messaging!Finish(theirs)).state = "terminal"
        /\ AddsTo(theirs.events, Messaging!Unlist(Messaging!Finish(theirs)).events, "end")
        /\ Messaging!Unlist(Messaging!Finish(theirs)).sent = theirs.sent
    BY <1>1, FinishTheirs, UnlistTheirs
  <2> QED
    BY <1>1, <2>1 DEF Theirs
<1>3. /\ toResponder' \in Seq(Down)
      /\ linkOf["responder"] = "down" => toResponder' = toResponder
      /\ linkOf["responder"] # "down" => AddsTo(toResponder, toResponder', "close")
  BY <1>1, RelayOne DEF StreamInv, Down
<1>4. theirs.call = "open" /\ mine.state # "none" /\ incoming.state # "none"
  BY <1>1 DEF StreamInv, InitiatorStands, RelayedInOrder, ResponderStands
<1>5. StreamTypes'
  BY <1>1, <1>2, <1>3 DEF StreamInv, StreamTypes
<1>6. InitiatorStands' /\ ResponderStands'
  BY <1>1, <1>2, <1>4 DEF StreamInv, InitiatorStands, ResponderStands
<1>7. RelayedInOrder' /\ QueueKept'
  BY <1>1, <1>2, <1>3 DEF StreamInv, RelayedInOrder, QueueKept, AddsTo
<1>8. GivenToInitiator'
  BY <1>1, <1>2, <1>4 DEF StreamInv, GivenToInitiator, AddsTo
<1>9. GivenToResponder'
  BY <1>1, <1>2, <1>3 DEF StreamInv, GivenToResponder, AddsTo
<1> QED
  BY <1>5, <1>6, <1>7, <1>8, <1>9 DEF StreamInv

LEMMA ReadOutputKeeps == StreamInv /\ Messaging!ReadOutput => StreamInv'
<1> SUFFICES ASSUME StreamInv, Messaging!ReadOutput PROVE StreamInv'
  OBVIOUS
<1> DEFINE head == Head(toInitiator)
           pushed == Messaging!Push(theirs, head)
<1>1. /\ theirs.call = "open" /\ toInitiator # <<>> /\ theirs \in Theirs
      /\ toInitiator' = Tail(toInitiator)
      /\ UNCHANGED <<toResponder, linkOf, incoming, mine, given>>
  BY DEF Messaging!ReadOutput, StreamInv, StreamTypes
<1>2. /\ toInitiator' \in Seq(Up) /\ TakesFrom(toInitiator, toInitiator') /\ head \in Up
  BY <1>1, Takes DEF StreamInv, StreamTypes
<1>3. theirs.state = "accepted" /\ mine.state # "none"
  BY <1>1 DEF StreamInv, InitiatorStands, RelayedInOrder
<1>4. head \in {"message", "gone", "closed", "close"} /\ head \in Event
  BY <1>1, <1>2, <1>3 DEF StreamInv, RelayedInOrder, TakesFrom, Up, Event
<1>5. /\ pushed \in Theirs /\ pushed.listed = theirs.listed /\ pushed.call = theirs.call
      /\ pushed.sent = theirs.sent /\ pushed.state = theirs.state
      /\ AddsTo(theirs.events, pushed.events, head)
  BY <1>1, <1>3, <1>4, PushTheirs
<1>6. theirs' = IF head \in {"message", "gone"} THEN pushed
                ELSE [Messaging!Unlist(Messaging!Finish(pushed)) EXCEPT !.call = "over"]
  BY DEF Messaging!ReadOutput, Messaging!Head1
<1> HIDE DEF pushed
<1>7. given.initiator \in Nat /\ mine.sent \in Nat
  BY DEF StreamInv, StreamTypes, Given, Mine
<1>8. given.initiator + Count(theirs.events) + Count(toInitiator) = mine.sent
      /\ ~Has(theirs.events, "closed") /\ given.initiatorEnd # "closed"
  BY <1>1, <1>3 DEF StreamInv, GivenToInitiator
<1>9. given.initiator + Count(pushed.events) + Count(toInitiator') = mine.sent
  <2> DEFINE d == IF head = "message" THEN 1 ELSE 0
  <2>1. /\ Count(pushed.events) = Count(theirs.events) + d
        /\ Count(theirs.events) \in Nat
    BY <1>5 DEF AddsTo
  <2>2. Count(toInitiator) = Count(toInitiator') + d /\ Count(toInitiator') \in Nat
    BY <1>2 DEF TakesFrom
  <2>3. d \in Nat
    OBVIOUS
  <2> HIDE DEF d
  <2> QED
    BY <1>7, <1>8, <2>1, <2>2, <2>3
<1>10. RelayedInOrder' /\ QueueKept' /\ GivenToResponder'
  <2>1. /\ theirs'.state # "none" /\ theirs'.call \in {"open", "over"}
        /\ theirs'.sent = theirs.sent
    <3>1. /\ Messaging!Unlist(Messaging!Finish(pushed)) \in Theirs
          /\ Messaging!Unlist(Messaging!Finish(pushed)).state = "terminal"
          /\ Messaging!Unlist(Messaging!Finish(pushed)).sent = theirs.sent
      BY <1>3, <1>5, FinishTheirs, UnlistTheirs
    <3> QED
      BY <1>1, <1>3, <1>5, <1>6, <3>1 DEF Theirs
  <2> QED
    BY <1>1, <1>2, <1>3, <2>1
       DEF StreamInv, RelayedInOrder, QueueKept, GivenToResponder, TakesFrom
<1>11. CASE head \in {"message", "gone"}
  <2>1. theirs' = pushed
    BY <1>6, <1>11
  <2>2. StreamTypes' /\ InitiatorStands' /\ ResponderStands'
    BY <1>1, <1>2, <1>3, <1>5, <2>1
       DEF StreamInv, StreamTypes, InitiatorStands, ResponderStands
  <2>3. GivenToInitiator'
    BY <1>1, <1>2, <1>3, <1>5, <1>8, <1>9, <1>11, <2>1
       DEF StreamInv, GivenToInitiator, AddsTo, TakesFrom
  <2> QED
    BY <1>10, <2>2, <2>3 DEF StreamInv
<1>12. CASE head \in {"closed", "close"}
  <2>1. /\ Messaging!Unlist(Messaging!Finish(pushed)) \in Theirs
        /\ ~Messaging!Unlist(Messaging!Finish(pushed)).listed
        /\ Messaging!Unlist(Messaging!Finish(pushed)).state = "terminal"
        /\ AddsTo(pushed.events, Messaging!Unlist(Messaging!Finish(pushed)).events, "end")
        /\ Messaging!Unlist(Messaging!Finish(pushed)).sent = theirs.sent
    BY <1>3, <1>5, FinishTheirs, UnlistTheirs
  <2>2. theirs' = [Messaging!Unlist(Messaging!Finish(pushed)) EXCEPT !.call = "over"]
    BY <1>6, <1>12
  <2>3. /\ theirs' \in Theirs /\ theirs'.call = "over" /\ theirs'.state = "terminal"
        /\ AddsTo(pushed.events, theirs'.events, "end") /\ ~theirs'.listed
        /\ theirs'.sent = theirs.sent
    BY <2>1, <2>2 DEF Theirs
  <2>4. StreamTypes' /\ InitiatorStands' /\ ResponderStands'
    BY <1>1, <1>2, <1>3, <2>3
       DEF StreamInv, StreamTypes, InitiatorStands, ResponderStands
  <2>5. Count(theirs'.events) = Count(pushed.events) /\ Quiet(theirs'.events, "closed")
        /\ (Has(theirs'.events, "closed") => head = "closed")
    BY <1>5, <1>8, <1>12, <2>3 DEF StreamInv, GivenToInitiator, AddsTo
  <2>6. head = "closed" =>
          mine.closing = "done" /\ given.initiator + Count(pushed.events) = mine.sent
    <3> SUFFICES ASSUME head = "closed"
                 PROVE  mine.closing = "done" /\ given.initiator + Count(pushed.events) = mine.sent
      OBVIOUS
    <3>1. mine.closing = "done" /\ Count(toInitiator') = 0
      BY <1>2 DEF StreamInv, GivenToInitiator, TakesFrom
    <3>2. Count(pushed.events) \in Nat
      BY <1>5 DEF AddsTo
    <3> QED
      BY <1>7, <1>9, <3>1, <3>2
  <2>7. GivenToInitiator'
    BY <1>1, <1>2, <1>8, <2>3, <2>5, <2>6 DEF StreamInv, GivenToInitiator, TakesFrom
  <2> QED
    BY <1>10, <2>4, <2>7 DEF StreamInv
<1> QED
  BY <1>4, <1>11, <1>12

LEMMA TheyDisconnectKeeps == StreamInv /\ Messaging!TheyDisconnect => StreamInv'
<1> SUFFICES ASSUME StreamInv, Messaging!TheyDisconnect PROVE StreamInv'
  OBVIOUS
<1> DEFINE left == IF theirs.listed THEN Messaging!Unlist(Messaging!Finish(Messaging!Push(theirs, "gone")))
                    ELSE theirs
<1>1. /\ theirs.call # "none" /\ Messaging!Relay(<<"close">>) /\ theirs \in Theirs
      /\ linkOf' = [linkOf EXCEPT !["initiator"] = "down"] /\ toInitiator' = <<>>
      /\ theirs' = [left EXCEPT !.call = IF left.call = "asking" THEN "failed" ELSE "over"]
      /\ UNCHANGED <<incoming, mine, given>>
  BY DEF Messaging!TheyDisconnect, StreamInv, StreamTypes
<1>2. /\ left \in Theirs /\ ~left.listed /\ left.sent = theirs.sent /\ left.call = theirs.call
      /\ theirs.state = "accepted" =>
          /\ left.state = "terminal"
          /\ \A e : Has(left.events, e) => Has(theirs.events, e) \/ e \in {"gone", "end"}
          /\ Quiet(theirs.events, "closed") => Quiet(left.events, "closed")
      /\ theirs.state # "accepted" => left.state = theirs.state /\ left.events = theirs.events
  <2>1. theirs.listed <=> theirs.state = "accepted"
    BY DEF StreamInv, InitiatorStands
  <2>2. CASE theirs.listed
    <3> DEFINE pushed == Messaging!Push(theirs, "gone")
    <3>1. /\ pushed \in Theirs /\ pushed.call = theirs.call
          /\ pushed.sent = theirs.sent /\ pushed.state = theirs.state
          /\ AddsTo(theirs.events, pushed.events, "gone")
      BY <1>1, <2>1, <2>2, PushTheirs DEF Event
    <3> HIDE DEF pushed
    <3>2. /\ Messaging!Unlist(Messaging!Finish(pushed)) \in Theirs
          /\ ~Messaging!Unlist(Messaging!Finish(pushed)).listed
          /\ Messaging!Unlist(Messaging!Finish(pushed)).state = "terminal"
          /\ AddsTo(pushed.events, Messaging!Unlist(Messaging!Finish(pushed)).events, "end")
          /\ Messaging!Unlist(Messaging!Finish(pushed)).sent = theirs.sent
          /\ Messaging!Unlist(Messaging!Finish(pushed)).call = theirs.call
      BY <2>1, <2>2, <3>1, FinishTheirs, UnlistTheirs
    <3>3. left = Messaging!Unlist(Messaging!Finish(pushed))
      BY <2>2 DEF pushed
    <3> HIDE DEF left
    <3> QED
      BY <2>1, <2>2, <3>1, <3>2, <3>3 DEF AddsTo
  <2>3. CASE ~theirs.listed
    BY <1>1, <2>1, <2>3
  <2> QED
    BY <2>2, <2>3
<1> HIDE DEF left
<1>3. /\ theirs' \in Theirs /\ theirs'.call \in {"failed", "over"}
      /\ theirs'.call = "failed" => theirs.call = "asking"
      /\ theirs'.state = left.state /\ theirs'.events = left.events
      /\ theirs'.sent = theirs.sent /\ ~theirs'.listed
  BY <1>1, <1>2 DEF Theirs
<1>4. /\ toResponder' \in Seq(Down)
      /\ linkOf["responder"] = "down" => toResponder' = toResponder
      /\ linkOf["responder"] # "down" => AddsTo(toResponder, toResponder', "close")
  BY <1>1, RelayOne DEF StreamInv, Down
<1>5. /\ linkOf' \in [{"initiator", "responder"} -> {"up", "dying", "down"}]
      /\ linkOf'["responder"] = linkOf["responder"] /\ linkOf'["initiator"] = "down"
      /\ <<>> \in Seq(Up)
  BY <1>1 DEF StreamInv, StreamTypes
<1>6. theirs'.state # "accepted" /\ (theirs'.state = "none" <=> theirs.state = "none")
      /\ (theirs'.state = "terminal" => theirs'.call = "over")
  BY <1>2, <1>3 DEF StreamInv, InitiatorStands, Theirs, State
<1>7. StreamTypes'
  BY <1>1, <1>3, <1>4, <1>5 DEF StreamInv, StreamTypes
<1>8. InitiatorStands' /\ ResponderStands'
  BY <1>1, <1>2, <1>3, <1>5, <1>6 DEF StreamInv, InitiatorStands, ResponderStands
<1>9. RelayedInOrder'
  BY <1>1, <1>3, <1>4, <1>5, <1>6, Nobody DEF StreamInv, RelayedInOrder, AddsTo
<1>10. QueueKept'
  BY <1>1, <1>5 DEF StreamInv, QueueKept
<1>11. GivenToInitiator'
  BY <1>1, <1>2, <1>3, <1>6, Nobody DEF StreamInv, GivenToInitiator
<1>12. GivenToResponder'
  BY <1>1, <1>3, <1>4, <1>5 DEF StreamInv, GivenToResponder, AddsTo
<1> QED
  BY <1>7, <1>8, <1>9, <1>10, <1>11, <1>12 DEF StreamInv

LEMMA TheyReceiveKeeps == StreamInv /\ Messaging!TheyReceive => StreamInv'
<1> SUFFICES ASSUME StreamInv, Messaging!TheyReceive PROVE StreamInv'
  OBVIOUS
<1> DEFINE head == Head(theirs.events)
<1>1. /\ theirs.events # <<>> /\ theirs' = [theirs EXCEPT !.events = Tail(theirs.events)]
      /\ theirs \in Theirs /\ given \in Given
      /\ UNCHANGED <<toResponder, toInitiator, linkOf, incoming, mine>>
  BY DEF Messaging!TheyReceive, StreamInv, StreamTypes
<1>2. /\ TakesFrom(theirs.events, theirs'.events) /\ head \in Event
      /\ theirs' \in Theirs /\ theirs'.call = theirs.call /\ theirs'.state = theirs.state
      /\ theirs'.listed = theirs.listed /\ theirs'.sent = theirs.sent
  <2>1. /\ Tail(theirs.events) \in Seq(Event) /\ head \in Event
        /\ TakesFrom(theirs.events, Tail(theirs.events))
    BY <1>1, Takes DEF Theirs
  <2> QED
    BY <1>1, <2>1 DEF Theirs
<1>a. /\ given.initiator \in Nat /\ given.responder \in Nat
      /\ given.initiatorEnd \in Event \cup {"no"}
      /\ given.responderEnd \in Event \cup {"no"}
      /\ given.ended \in SUBSET {"initiator", "responder"}
  BY <1>1 DEF Given
<1>3. /\ given' \in Given /\ given'.responder = given.responder
      /\ given'.responderEnd = given.responderEnd
      /\ given'.initiator = given.initiator + (IF head = "message" THEN 1 ELSE 0)
      /\ given'.initiatorEnd = IF head # "message" /\ given.initiatorEnd = "no" THEN head
                               ELSE given.initiatorEnd
  <2> DEFINE many == given.initiator + (IF head = "message" THEN 1 ELSE 0)
             last == IF head # "message" /\ given.initiatorEnd = "no" THEN head
                     ELSE given.initiatorEnd
             told == IF head = "end" THEN given.ended \cup {"initiator"} ELSE given.ended
  <2>1. many \in Nat
    BY <1>a
  <2>2. last \in Event \cup {"no"}
    BY <1>2, <1>a
  <2>3. told \in SUBSET {"initiator", "responder"}
    BY <1>a
  <2>4. (IF head = "message" THEN given.initiator + 1 ELSE given.initiator) = many
    BY <1>a
  <2>5. (IF head = "message" THEN given.initiatorEnd
         ELSE IF given.initiatorEnd = "no" THEN head ELSE given.initiatorEnd) = last
    OBVIOUS
  <2>6. given' = [given EXCEPT !.initiator = many, !.initiatorEnd = last, !.ended = told]
    <3> HIDE DEF many, last
    <3> QED
      BY <1>1, <2>4, <2>5 DEF Messaging!TheyReceive, Given
  <2> HIDE DEF many, last, told
  <2>7. /\ given' \in Given /\ given'.responder = given.responder
        /\ given'.responderEnd = given.responderEnd
        /\ given'.initiator = many /\ given'.initiatorEnd = last
    BY <1>1, <2>1, <2>2, <2>3, <2>6 DEF Given
  <2> QED
    BY <2>7 DEF many, last
<1> HIDE DEF head
<1>4. theirs.state # "none"
  BY <1>1 DEF StreamInv, InitiatorStands
<1>5. given.initiator \in Nat /\ mine.sent \in Nat /\ Count(toInitiator) \in Nat
  BY CountType DEF StreamInv, StreamTypes, Given, Mine
<1>6. given'.initiator + Count(theirs'.events) = given.initiator + Count(theirs.events)
  BY <1>2, <1>3, <1>5 DEF TakesFrom, head
<1>7. StreamTypes' /\ QueueKept' /\ GivenToResponder'
  BY <1>1, <1>2, <1>3 DEF StreamInv, StreamTypes, QueueKept, GivenToResponder
<1>8. InitiatorStands' /\ ResponderStands' /\ RelayedInOrder'
  BY <1>1, <1>2, <1>3, <1>4
     DEF StreamInv, InitiatorStands, ResponderStands, RelayedInOrder
<1>9. GivenToInitiator'
  <2>1. /\ Has(theirs'.events, "closed") => Has(theirs.events, "closed")
        /\ Quiet(theirs'.events, "closed")
    BY <1>2 DEF StreamInv, GivenToInitiator, TakesFrom
  <2>2. ASSUME given'.initiatorEnd = "closed"
        PROVE  /\ mine.closing = "done" /\ theirs.state = "terminal"
               /\ given'.initiator = mine.sent /\ ~Has(theirs'.events, "message")
    <3>1. CASE given.initiatorEnd = "closed"
      <4>1. ~Has(theirs.events, "message") /\ given.initiator = mine.sent
            /\ mine.closing = "done" /\ theirs.state = "terminal"
        BY <3>1 DEF StreamInv, GivenToInitiator
      <4> QED
        BY <1>2, <1>3, <1>5, <4>1 DEF TakesFrom, head
    <3>2. CASE given.initiatorEnd # "closed"
      <4>1. head = "closed" /\ Has(theirs.events, "closed")
            /\ ~Has(theirs'.events, "message") /\ Count(theirs'.events) = 0
        BY <1>2, <1>3, <2>2, <3>2 DEF StreamInv, GivenToInitiator, TakesFrom, head
      <4>2. /\ mine.closing = "done" /\ theirs.state = "terminal"
            /\ given.initiator + Count(theirs.events) = mine.sent
        BY <4>1 DEF StreamInv, GivenToInitiator
      <4>3. given'.initiator + 0 = mine.sent /\ given'.initiator \in Nat
        BY <1>3, <1>6, <4>1, <4>2 DEF Given
      <4> QED
        BY <4>1, <4>2, <4>3
    <3> QED
      BY <3>1, <3>2
  <2>3. theirs.call = "asking" => theirs.state = "none"
    BY DEF StreamInv, InitiatorStands, StreamTypes, Theirs, State
  <2> QED
    BY <1>1, <1>2, <1>4, <1>6, <2>1, <2>2 DEF StreamInv, GivenToInitiator
<1> QED
  BY <1>7, <1>8, <1>9 DEF StreamInv

-----------------------------------------------------------------------------
(* The steps of the responder                                              *)

LEMMA Arrives ==
    ASSUME StreamInv, NEW kind \in Down, Messaging!Arriving(kind)
    PROVE  /\ toResponder' \in Seq(Down) /\ TakesFrom(toResponder, toResponder')
           /\ Head(toResponder) = kind /\ Has(toResponder, kind)
           /\ linkOf["responder"] # "down" /\ theirs.call # "none"
<1>1. /\ toResponder \in Seq(Down) /\ toResponder # <<>> /\ toResponder' = Tail(toResponder)
      /\ Head(toResponder) = kind /\ linkOf["responder"] # "down"
  BY DEF Messaging!Arriving, StreamInv, StreamTypes
<1>2. toResponder' \in Seq(Down) /\ TakesFrom(toResponder, toResponder')
  BY <1>1, Takes
<1>3. theirs.call # "none"
  BY <1>1 DEF StreamInv, InitiatorStands
<1> QED
  BY <1>1, <1>2, <1>3 DEF TakesFrom

LEMMA HandleOpenKeeps == StreamInv /\ Messaging!HandleOpen => StreamInv'
<1> SUFFICES ASSUME StreamInv, Messaging!HandleOpen PROVE StreamInv'
  OBVIOUS
<1>1. /\ toResponder' \in Seq(Down) /\ TakesFrom(toResponder, toResponder')
      /\ Head(toResponder) = "open" /\ Has(toResponder, "open")
      /\ linkOf["responder"] # "down" /\ theirs.call # "none"
  BY Arrives DEF Messaging!HandleOpen, Down
<1>2. /\ incoming \in Calls
      /\ incoming' = [incoming EXCEPT !.state = "initial", !.listed = TRUE]
      /\ UNCHANGED <<toInitiator, linkOf, mine, theirs, given>>
  BY DEF Messaging!HandleOpen, StreamInv, StreamTypes
<1>3. /\ incoming' \in Calls /\ incoming'.state = "initial" /\ incoming'.listed
      /\ incoming'.request = incoming.request /\ incoming'.pending = incoming.pending
  BY <1>2 DEF Calls
<1>4. /\ incoming.state = "none" /\ incoming.request = "none"
      /\ ~incoming.pending /\ mine.state = "none"
  BY <1>1 DEF StreamInv, RelayedInOrder, ResponderStands
<1>5. StreamTypes' /\ QueueKept'
  BY <1>1, <1>2, <1>3, <1>4 DEF StreamInv, StreamTypes, QueueKept
<1>6. InitiatorStands' /\ ResponderStands'
  BY <1>1, <1>2, <1>3, <1>4 DEF StreamInv, InitiatorStands, ResponderStands
<1>7. RelayedInOrder'
  BY <1>1, <1>2, <1>3, <1>4 DEF StreamInv, RelayedInOrder, TakesFrom
<1>8. GivenToInitiator' /\ GivenToResponder'
  BY <1>1, <1>2, <1>4 DEF StreamInv, GivenToInitiator, GivenToResponder, TakesFrom
<1> QED
  BY <1>5, <1>6, <1>7, <1>8 DEF StreamInv

LEMMA HandleInitialKeeps == StreamInv /\ Messaging!HandleInitial => StreamInv'
<1> SUFFICES ASSUME StreamInv, Messaging!HandleInitial PROVE StreamInv'
  OBVIOUS
<1>1. /\ toResponder' \in Seq(Down) /\ TakesFrom(toResponder, toResponder')
      /\ Head(toResponder) = "initial" /\ linkOf["responder"] # "down" /\ theirs.call # "none"
  BY Arrives DEF Messaging!HandleInitial, Down
<1>2. /\ incoming \in Calls
      /\ incoming' = IF incoming.state = "initial"
                     THEN [incoming EXCEPT !.state = "pending", !.request = "open",
                                              !.pending = TRUE]
                     ELSE incoming
      /\ UNCHANGED <<toInitiator, linkOf, mine, theirs, given>>
  BY DEF Messaging!HandleInitial, StreamInv, StreamTypes
<1>3. /\ incoming' \in Calls /\ incoming'.listed = incoming.listed
      /\ incoming.state # "initial" => incoming' = incoming
      /\ incoming.state = "initial" =>
          /\ incoming'.state = "pending" /\ incoming'.request = "open" /\ incoming'.pending
          /\ incoming.request = "none" /\ mine.state = "none"
  BY <1>2 DEF Calls, StreamInv, ResponderStands
<1>4. StreamTypes'
  BY <1>1, <1>2, <1>3 DEF StreamInv, StreamTypes
<1>5. InitiatorStands' /\ ResponderStands' /\ QueueKept'
  BY <1>1, <1>2, <1>3 DEF StreamInv, InitiatorStands, ResponderStands, QueueKept
<1>6. RelayedInOrder'
  BY <1>1, <1>2, <1>3 DEF StreamInv, RelayedInOrder, TakesFrom
<1>7. GivenToInitiator' /\ GivenToResponder'
  BY <1>1, <1>2 DEF StreamInv, GivenToInitiator, GivenToResponder, TakesFrom
<1> QED
  BY <1>4, <1>5, <1>6, <1>7 DEF StreamInv

LEMMA HandleMessageKeeps == StreamInv /\ Messaging!HandleMessage => StreamInv'
<1> SUFFICES ASSUME StreamInv, Messaging!HandleMessage PROVE StreamInv'
  OBVIOUS
<1>1. /\ toResponder' \in Seq(Down) /\ TakesFrom(toResponder, toResponder')
      /\ Head(toResponder) = "message" /\ Has(toResponder, "message")
      /\ linkOf["responder"] # "down" /\ theirs.call # "none"
  BY Arrives DEF Messaging!HandleMessage, Down
<1>2. /\ incoming.request = "accepted" /\ incoming.state \in {"accepted", "terminal"}
      /\ mine.state # "none"
  BY <1>1 DEF StreamInv, RelayedInOrder, ResponderStands
<1>3. /\ UNCHANGED <<toInitiator, linkOf, incoming, theirs, given>> /\ mine \in Mine
      /\ incoming.state = "accepted" => mine' = Messaging!Push(mine, "message")
      /\ incoming.state # "accepted" => mine' = mine
  BY <1>2 DEF Messaging!HandleMessage, StreamInv, StreamTypes
<1>4. /\ mine' \in Mine /\ mine'.listed = mine.listed /\ mine'.queue = mine.queue
      /\ mine'.task = mine.task /\ mine'.closing = mine.closing
      /\ mine'.asked = mine.asked /\ mine'.sent = mine.sent /\ mine'.state = mine.state
      /\ mine.state # "accepted" => mine' = mine
      /\ mine.state = "accepted" => AddsTo(mine.events, mine'.events, "message")
  <2>1. mine.state = "accepted" => incoming.state = "accepted"
    BY DEF StreamInv, ResponderStands
  <2>2. "message" \in Event
    BY DEF Event
  <2>3. CASE incoming.state = "accepted"
    <3>1. mine' = Messaging!Push(mine, "message")
      BY <1>3, <2>3
    <3> QED
      BY <1>3, <2>2, <3>1, PushMine
  <2> QED
    BY <1>3, <2>1, <2>3
<1>5. StreamTypes' /\ InitiatorStands'
  BY <1>1, <1>3, <1>4 DEF StreamInv, StreamTypes, InitiatorStands
<1>6. ResponderStands' /\ QueueKept'
  BY <1>2, <1>3, <1>4 DEF StreamInv, ResponderStands, QueueKept
<1>7. RelayedInOrder' /\ GivenToInitiator'
  BY <1>1, <1>2, <1>3, <1>4 DEF StreamInv, RelayedInOrder, GivenToInitiator, TakesFrom
<1>8. GivenToResponder'
  <2>1. CASE mine.state # "accepted"
    BY <1>1, <1>3, <1>4, <2>1 DEF StreamInv, GivenToResponder, TakesFrom
  <2>2. CASE mine.state = "accepted"
    <3>1. given.responder \in Nat /\ theirs.sent \in Nat
      BY DEF StreamInv, StreamTypes, Given, Theirs
    <3>2. /\ Count(mine'.events) = Count(mine.events) + 1 /\ Count(mine.events) \in Nat
      BY <1>4, <2>2 DEF AddsTo
    <3>3. Count(toResponder) = Count(toResponder') + 1 /\ Count(toResponder') \in Nat
      BY <1>1 DEF TakesFrom
    <3>4. given.responder + Count(mine.events) + Count(toResponder) = theirs.sent
      BY <1>1, <2>2 DEF StreamInv, GivenToResponder
    <3>5. given.responder + Count(mine'.events) + Count(toResponder') = theirs.sent
      BY <3>1, <3>2, <3>3, <3>4
    <3>6. linkOf["responder"] = "up" => ~Has(mine.events, "gone") /\ given.responderEnd # "gone"
      BY <2>2 DEF StreamInv, GivenToResponder
    <3>7. linkOf["responder"] = "up" => ~Has(mine'.events, "gone") /\ Quiet(mine'.events, "gone")
      BY <1>4, <2>2, <3>6 DEF AddsTo, StreamInv, GivenToResponder
    <3> QED
      BY <1>1, <1>3, <1>4, <2>2, <3>5, <3>6, <3>7 DEF StreamInv, GivenToResponder, TakesFrom
  <2> QED
    BY <2>1, <2>2
<1> QED
  BY <1>5, <1>6, <1>7, <1>8 DEF StreamInv

(* A request that is not accepted: it is refused, if the initiator can be   *)
(* told.                                                                    *)
LEMMA RequestFails ==
    ASSUME StreamInv, incoming.state \in {"initial", "pending"}, linkOf["responder"] # "down",
           NEW reason \in {"rejected", "accept_failed", "client_disconnected"},
           Messaging!FailCall(reason), UNCHANGED <<linkOf, mine, theirs, given>>,
           theirs.call # "none",
           \/ toResponder' = toResponder
           \/ toResponder' \in Seq(Down) /\ TakesFrom(toResponder, toResponder')
    PROVE  StreamInv'
<1>1. /\ incoming \in Calls /\ incoming.request # "accepted"
      /\ incoming' = Messaging!MarkClosed(Messaging!Forget(incoming), reason)
  BY DEF Messaging!FailCall, StreamInv, StreamTypes, ResponderStands
<1>2. /\ incoming' \in Calls /\ incoming'.state = "terminal" /\ ~incoming'.listed
      /\ ~incoming'.pending
      /\ incoming'.request \in {"none", reason}
  BY <1>1 DEF Messaging!MarkClosed, Messaging!Forget, Calls
<1>3. mine.state = "none" /\ theirs.state = "none"
  BY <1>1 DEF StreamInv, ResponderStands, RelayedInOrder
<1>4. /\ toInitiator' \in Seq(Up)
      /\ toInitiator' = toInitiator \/ AddsTo(toInitiator, toInitiator', "refuse")
  <2>1. CASE linkOf["responder"] = "up"
    <3>1. Messaging!Back(<<"refuse">>)
      BY <2>1 DEF Messaging!FailCall, Messaging!Respond
    <3> QED
      BY <3>1, BackOne DEF StreamInv, StreamTypes, Up
  <2>2. CASE linkOf["responder"] # "up"
    BY <2>2 DEF Messaging!FailCall, Messaging!Respond, StreamInv, StreamTypes
  <2> QED
    BY <2>1, <2>2
<1>5. theirs.call # "open"
  BY <1>3 DEF StreamInv, InitiatorStands
<1>6. StreamTypes'
  BY <1>2, <1>4 DEF StreamInv, StreamTypes
<1>7. InitiatorStands' /\ ResponderStands' /\ QueueKept'
  BY <1>2, <1>3 DEF StreamInv, InitiatorStands, ResponderStands, QueueKept
<1>8. RelayedInOrder'
  BY <1>2, <1>3, <1>4, <1>5 DEF StreamInv, RelayedInOrder, TakesFrom, AddsTo
<1>9. GivenToInitiator' /\ GivenToResponder'
  BY <1>3, <1>4, <1>5 DEF StreamInv, GivenToInitiator, GivenToResponder, TakesFrom, AddsTo
<1> QED
  BY <1>6, <1>7, <1>8, <1>9 DEF StreamInv

(* What the end of the responder's stream leaves of it *)
LEMMA EndOfMine ==
    ASSUME NEW s \in Mine, NEW e \in Event, s.state = "accepted"
    PROVE  LET ended == Messaging!FinishMine(Messaging!Push(s, e))
           IN /\ ended \in Mine /\ ended.state = "terminal" /\ ended.listed = s.listed
              /\ ended.task = s.task /\ ended.closing = s.closing
              /\ ended.asked = s.asked /\ ended.sent = s.sent
              /\ AddsTo(s.queue, ended.queue, "end")
              /\ AddsTo(s.events, Messaging!Push(s, e).events, e)
              /\ AddsTo(Messaging!Push(s, e).events, ended.events, "end")
<1> DEFINE pushed == Messaging!Push(s, e)
<1>1. /\ pushed \in Mine /\ pushed.listed = s.listed /\ pushed.queue = s.queue
      /\ pushed.task = s.task /\ pushed.closing = s.closing /\ pushed.asked = s.asked
      /\ pushed.sent = s.sent /\ pushed.state = "accepted"
      /\ AddsTo(s.events, pushed.events, e)
  BY PushMine
<1> HIDE DEF pushed
<1>2. /\ Messaging!FinishMine(pushed) \in Mine
      /\ Messaging!FinishMine(pushed).listed = pushed.listed
      /\ Messaging!FinishMine(pushed).task = pushed.task
      /\ Messaging!FinishMine(pushed).closing = pushed.closing
      /\ Messaging!FinishMine(pushed).asked = pushed.asked
      /\ Messaging!FinishMine(pushed).sent = pushed.sent
      /\ Messaging!FinishMine(pushed).state = "terminal"
      /\ AddsTo(pushed.events, Messaging!FinishMine(pushed).events, "end")
      /\ AddsTo(pushed.queue, Messaging!FinishMine(pushed).queue, "end")
  BY <1>1, FinishMineIs
<1> QED
  BY <1>1, <1>2 DEF pushed

LEMMA HandleCloseKeeps == StreamInv /\ Messaging!HandleClose => StreamInv'
<1> SUFFICES ASSUME StreamInv, Messaging!HandleClose PROVE StreamInv'
  OBVIOUS
<1>1. /\ toResponder' \in Seq(Down) /\ TakesFrom(toResponder, toResponder')
      /\ Head(toResponder) = "close" /\ Has(toResponder, "close")
      /\ linkOf["responder"] # "down" /\ theirs.call # "none"
  BY Arrives DEF Messaging!HandleClose, Down
<1>2. /\ UNCHANGED <<linkOf, theirs, given>> /\ incoming \in Calls /\ mine \in Mine
  BY DEF Messaging!HandleClose, StreamInv, StreamTypes
<1>3. CASE incoming.state \in {"initial", "pending"}
  <2>1. Messaging!FailCall("client_disconnected") /\ UNCHANGED mine
    BY <1>3 DEF Messaging!HandleClose
  <2> QED
    BY <1>1, <1>2, <1>3, <2>1, RequestFails
<1>4. CASE incoming.state = "accepted"
  <2> DEFINE pushed == Messaging!Push(mine, "gone")
  <2>1. /\ incoming' = [incoming EXCEPT !.state = "terminal", !.listed = FALSE]
        /\ mine' = Messaging!FinishMine(pushed) /\ UNCHANGED toInitiator
    BY <1>4 DEF Messaging!HandleClose
  <2>2. /\ incoming' \in Calls /\ incoming'.state = "terminal" /\ ~incoming'.listed
        /\ incoming'.request = incoming.request /\ incoming'.pending = incoming.pending
        /\ incoming.request = "accepted" /\ ~incoming.pending /\ mine.state # "none"
    BY <1>2, <1>4, <2>1 DEF Calls, StreamInv, ResponderStands
  <2>3. /\ mine' \in Mine /\ mine'.state = "terminal" /\ mine'.listed = mine.listed
        /\ mine'.task = mine.task /\ mine'.closing = mine.closing
        /\ mine'.asked = mine.asked /\ mine'.sent = mine.sent
        /\ mine.state # "accepted" => mine' = mine
        /\ mine.state = "accepted" =>
            /\ AddsTo(mine.queue, mine'.queue, "end")
            /\ AddsTo(mine.events, pushed.events, "gone")
            /\ AddsTo(pushed.events, mine'.events, "end")
    <3>1. CASE mine.state = "accepted"
      BY <1>2, <2>1, <3>1, EndOfMine DEF Event
    <3>2. CASE mine.state # "accepted"
      <4>1. mine' = mine /\ mine.state = "terminal"
        BY <1>2, <2>1, <2>2, <3>2 DEF Messaging!Push, Messaging!FinishMine, Mine, State
      <4> QED
        BY <1>2, <3>2, <4>1
    <3> QED
      BY <3>1, <3>2
  <2> HIDE DEF pushed
  <2>4. theirs.call \in {"failed", "over"} /\ ~Has(toResponder', "message")
        /\ Count(toResponder') = 0 /\ Count(toResponder) = 0
    BY <1>1 DEF StreamInv, GivenToResponder, TakesFrom
  <2>5. StreamTypes' /\ InitiatorStands'
    BY <1>1, <1>2, <2>1, <2>2, <2>3 DEF StreamInv, StreamTypes, InitiatorStands
  <2>6. ResponderStands' /\ RelayedInOrder'
    BY <1>1, <1>2, <2>1, <2>2, <2>3 DEF StreamInv, ResponderStands, RelayedInOrder,
                                        TakesFrom
  <2>7. QueueKept'
    <3>1. Quiet(mine'.queue, "end") /\ Count(mine'.queue) = Count(mine.queue)
      BY <2>3 DEF StreamInv, QueueKept, AddsTo
    <3>2. mine.state = "accepted" => mine.task = "running"
      BY DEF StreamInv, ResponderStands
    <3> QED
      BY <2>2, <2>3, <3>1, <3>2 DEF StreamInv, QueueKept
  <2>8. GivenToInitiator'
    BY <1>2, <2>1, <2>2, <2>3 DEF StreamInv, GivenToInitiator
  <2>9. GivenToResponder'
    <3>1. CASE mine.state # "accepted"
      BY <1>1, <1>2, <2>3, <3>1 DEF StreamInv, GivenToResponder, TakesFrom
    <3>2. CASE mine.state = "accepted"
      <4>1. Count(mine'.events) = Count(mine.events) /\ Count(mine.events) \in Nat
        BY <2>3, <3>2 DEF AddsTo
      <4>2. given.responder + Count(mine.events) + 0 = theirs.sent /\ given.responder \in Nat
        BY <1>1, <2>4, <3>2 DEF StreamInv, GivenToResponder, StreamTypes, Given
      <4>3. given.responder + Count(mine'.events) = theirs.sent
        BY <4>1, <4>2
      <4>4. linkOf["responder"] = "up" => Quiet(mine'.events, "gone") /\ given.responderEnd # "gone"
        BY <2>3, <3>2 DEF StreamInv, GivenToResponder, AddsTo
      <4> QED
        BY <1>1, <1>2, <2>3, <2>4, <4>3, <4>4 DEF StreamInv, GivenToResponder, TakesFrom
    <3> QED
      BY <3>1, <3>2
  <2> QED
    BY <2>5, <2>6, <2>7, <2>8, <2>9 DEF StreamInv
<1>5. CASE incoming.state \notin {"initial", "pending", "accepted"}
  <2>1. UNCHANGED <<incoming, mine, toInitiator>> /\ mine.state # "accepted"
    BY <1>5 DEF Messaging!HandleClose, StreamInv, ResponderStands
  <2>2. StreamTypes' /\ InitiatorStands' /\ ResponderStands' /\ QueueKept'
    BY <1>1, <1>2, <2>1
       DEF StreamInv, StreamTypes, InitiatorStands, ResponderStands, QueueKept
  <2>3. RelayedInOrder' /\ GivenToInitiator'
    BY <1>1, <1>2, <2>1 DEF StreamInv, RelayedInOrder, GivenToInitiator, TakesFrom
  <2>4. GivenToResponder'
    BY <1>1, <1>2, <2>1 DEF StreamInv, GivenToResponder, TakesFrom
  <2> QED
    BY <2>2, <2>3, <2>4 DEF StreamInv
<1> QED
  BY <1>3, <1>4, <1>5

LEMMA RejectKeeps == StreamInv /\ Messaging!Reject => StreamInv'
<1> SUFFICES ASSUME StreamInv, Messaging!Reject PROVE StreamInv'
  OBVIOUS
<1>1. /\ incoming.state = "pending" /\ incoming.pending /\ Messaging!FailCall("rejected")
      /\ UNCHANGED <<toResponder, linkOf, mine, theirs, given>>
  BY DEF Messaging!Reject, Messaging!MayDecide
<1>2. theirs.call # "none" /\ linkOf["responder"] # "down"
  BY <1>1 DEF StreamInv, InitiatorStands, ResponderStands
<1> QED
  BY <1>1, <1>2, RequestFails

LEMMA AcceptKeeps == MaxMessages \in Nat /\ StreamInv /\ Messaging!Accept => StreamInv'
<1> SUFFICES ASSUME MaxMessages \in Nat, StreamInv, Messaging!Accept PROVE StreamInv'
  OBVIOUS
<1>1. /\ incoming.state = "pending" /\ incoming.pending /\ incoming.request = "open"
      /\ UNCHANGED <<toResponder, linkOf, theirs, given>> /\ incoming \in Calls /\ mine \in Mine
  BY DEF Messaging!Accept, Messaging!MayDecide, StreamInv, StreamTypes
<1>2. theirs.call # "none" /\ linkOf["responder"] # "down" /\ incoming.listed
      /\ mine.state = "none" /\ theirs.state = "none"
  BY <1>1 DEF StreamInv, InitiatorStands, ResponderStands, RelayedInOrder
<1>3. CASE linkOf["responder"] # "up"
  <2>1. Messaging!FailCall("accept_failed") /\ UNCHANGED mine
    BY <1>3 DEF Messaging!Accept, Messaging!FailCall, Messaging!Respond
  <2> QED
    BY <1>1, <1>2, <2>1, RequestFails
<1>4. CASE linkOf["responder"] = "up"
  <2>1. /\ incoming' = Messaging!Accepted(incoming) /\ Messaging!Back(<<"accept">>)
        /\ mine' = [mine EXCEPT !.state = "accepted", !.listed = TRUE, !.task = "running"]
    BY <1>4 DEF Messaging!Accept
  <2>2. /\ incoming' \in Calls /\ incoming'.state = "accepted" /\ incoming'.request = "accepted"
        /\ ~incoming'.pending /\ incoming'.listed
    BY <1>1, <1>2, <2>1 DEF Messaging!Accepted, Calls
  <2>3. /\ mine' \in Mine /\ mine'.state = "accepted" /\ mine'.listed /\ mine'.task = "running"
        /\ mine'.events = <<>> /\ mine'.queue = <<>> /\ mine'.closing = "no"
        /\ mine'.asked = 0 /\ mine'.sent = 0
        /\ given.responder = 0 /\ given.responderEnd = "no"
    <3>1. /\ mine.events = <<>> /\ mine.queue = <<>> /\ mine.closing = "no"
          /\ mine.asked = 0 /\ mine.sent = 0
          /\ given.responder = 0 /\ given.responderEnd = "no"
      BY <1>2 DEF StreamInv, ResponderStands
    <3> QED
      BY <1>1, <2>1, <3>1 DEF Mine, State
  <2>4. /\ toInitiator = <<>> /\ toInitiator' \in Seq(Up)
        /\ linkOf["initiator"] = "down" => toInitiator' = toInitiator
        /\ linkOf["initiator"] # "down" => AddsTo(toInitiator, toInitiator', "accept")
    <3>1. toInitiator = <<>>
      BY <1>1, <1>2 DEF StreamInv, RelayedInOrder
    <3> QED
      BY <2>1, <3>1, BackOne DEF StreamInv, Up
  <2>5. /\ \A e : Has(toInitiator', e) => e = "accept"
        /\ Quiet(toInitiator', "closed") /\ First(toInitiator', "accept")
        /\ Count(toInitiator') = 0
        /\ linkOf["initiator"] # "down" => toInitiator' # <<>> /\ Head(toInitiator') = "accept"
    <3>1. CASE linkOf["initiator"] = "down"
      BY <2>4, <3>1, Nobody
    <3>2. CASE linkOf["initiator"] # "down"
      <4>1. AddsTo(<<>>, toInitiator', "accept")
        BY <2>4, <3>2
      <4>2. \A e : Has(toInitiator', e) => e = "accept"
        BY <4>1, Nobody DEF AddsTo
      <4>3. Quiet(toInitiator', "closed")
        BY <4>1, Nobody DEF AddsTo
      <4>4. First(toInitiator', "accept")
        BY <4>1, Nobody DEF AddsTo
      <4>5. Count(toInitiator') = 0
        BY <4>1, Nobody DEF AddsTo
      <4>6. toInitiator' # <<>> /\ Head(toInitiator') = "accept"
        BY <4>1 DEF AddsTo
      <4> QED
        BY <4>2, <4>3, <4>4, <4>5, <4>6
    <3> QED
      BY <3>1, <3>2
  <2>6. /\ theirs.call = "asking" => linkOf["initiator"] = "up"
        /\ theirs.call # "open"
    BY <1>2 DEF StreamInv, InitiatorStands
  <2>7. ~Has(toResponder, "message") /\ Count(toResponder) = 0 /\ theirs.sent = 0
    <3>1. ~Has(toResponder, "message") /\ theirs.sent = 0
      BY <1>2 DEF StreamInv, RelayedInOrder, InitiatorStands
    <3> QED
      BY <3>1, CountNone
  <2>8. StreamTypes'
    BY <1>1, <2>2, <2>3, <2>4 DEF StreamInv, StreamTypes
  <2>9. InitiatorStands'
    BY <1>1, <1>2 DEF StreamInv, InitiatorStands
  <2>10. ResponderStands'
    BY <1>1, <1>4, <2>2, <2>3, Nobody DEF ResponderStands
  <2>11. RelayedInOrder'
    BY <1>1, <1>2, <2>2, <2>3, <2>5, <2>6 DEF StreamInv, RelayedInOrder
  <2>12. QueueKept'
    BY <2>2, <2>3, Nobody DEF QueueKept
  <2>13. GivenToInitiator'
    BY <1>1, <1>2, <2>3, <2>5, <2>6 DEF StreamInv, GivenToInitiator
  <2>14. GivenToResponder'
    BY <1>1, <2>3, <2>7, Nobody DEF StreamInv, GivenToResponder
  <2> QED
    BY <2>8, <2>9, <2>10, <2>11, <2>12, <2>13, <2>14 DEF StreamInv
<1> QED
  BY <1>3, <1>4

LEMMA SendKeeps == MaxMessages \in Nat /\ StreamInv /\ Messaging!Send => StreamInv'
<1> SUFFICES ASSUME MaxMessages \in Nat, StreamInv, Messaging!Send PROVE StreamInv'
  OBVIOUS
<1>1. /\ mine.state = "accepted" /\ mine.asked < MaxMessages /\ mine \in Mine
      /\ mine' = [mine EXCEPT !.asked = mine.asked + 1,
                              !.queue = Append(mine.queue, "message")]
      /\ UNCHANGED <<toResponder, toInitiator, linkOf, incoming, theirs, given>>
  BY DEF Messaging!Send, StreamInv, StreamTypes
<1>2. /\ mine.queue \in Seq({"message", "end"}) /\ mine.asked \in Nat /\ mine.sent \in Nat
      /\ Append(mine.queue, "message") \in Seq({"message", "end"})
      /\ AddsTo(mine.queue, Append(mine.queue, "message"), "message")
  <2>1. "message" \in {"message", "end"} /\ mine.queue \in Seq({"message", "end"})
    BY <1>1 DEF Mine
  <2> QED
    BY <1>1, <2>1, Adds DEF Mine
<1>3. /\ mine' \in Mine /\ mine'.asked = mine.asked + 1 /\ mine'.state = mine.state
      /\ mine'.events = mine.events /\ mine'.listed = mine.listed /\ mine'.task = mine.task
      /\ mine'.closing = mine.closing /\ mine'.sent = mine.sent
      /\ AddsTo(mine.queue, mine'.queue, "message")
  <2> DEFINE longer == Append(mine.queue, "message")
             more == mine.asked + 1
  <2>1. mine' = [mine EXCEPT !.asked = more, !.queue = longer] /\ more \in Nat
    BY <1>1, <1>2
  <2>2. longer \in Seq({"message", "end"}) /\ AddsTo(mine.queue, longer, "message")
    BY <1>2
  <2> HIDE DEF longer, more
  <2>3. /\ mine' \in Mine /\ mine'.asked = more /\ mine'.queue = longer
        /\ mine'.state = mine.state
        /\ mine'.events = mine.events /\ mine'.listed = mine.listed /\ mine'.task = mine.task
        /\ mine'.closing = mine.closing /\ mine'.sent = mine.sent
    BY <1>1, <2>1, <2>2 DEF Mine
  <2> QED
    BY <2>2, <2>3 DEF more
<1>4. StreamTypes' /\ InitiatorStands'
  BY <1>1, <1>3 DEF StreamInv, StreamTypes, InitiatorStands
<1>5. ResponderStands' /\ RelayedInOrder'
  BY <1>1, <1>3 DEF StreamInv, ResponderStands, RelayedInOrder, AddsTo
<1>6. QueueKept'
  <2>1. ~Has(mine.queue, "end") /\ mine.closing = "no" /\ mine.task = "running"
    BY <1>1 DEF StreamInv, ResponderStands
  <2>2. Quiet(mine'.queue, "end")
    BY <1>3, <2>1 DEF StreamInv, QueueKept, AddsTo
  <2>3. Count(mine'.queue) = Count(mine.queue) + 1 /\ Count(mine.queue) \in Nat
    BY <1>3 DEF AddsTo
  <2>4. mine'.sent + Count(mine'.queue) <= mine'.asked /\ mine'.asked <= MaxMessages
    BY <1>1, <1>2, <1>3, <2>3 DEF StreamInv, QueueKept
  <2>5. incoming.state = "accepted" /\ linkOf["responder"] = "up"
          => mine'.asked = mine'.sent + Count(mine'.queue)
    BY <1>1, <1>2, <1>3, <2>3 DEF StreamInv, QueueKept
  <2> QED
    BY <1>1, <1>3, <2>1, <2>2, <2>4, <2>5 DEF QueueKept
<1>7. GivenToInitiator' /\ GivenToResponder'
  BY <1>1, <1>3 DEF StreamInv, GivenToInitiator, GivenToResponder
<1> QED
  BY <1>4, <1>5, <1>6, <1>7 DEF StreamInv

LEMMA SendQueuedKeeps == StreamInv /\ Messaging!SendQueued => StreamInv'
<1> SUFFICES ASSUME StreamInv, Messaging!SendQueued PROVE StreamInv'
  OBVIOUS
<1> DEFINE rest == Tail(mine.queue)
<1>1. /\ mine.task = "running" /\ mine.queue # <<>> /\ mine \in Mine
      /\ UNCHANGED <<toResponder, linkOf, incoming, theirs, given>>
  BY DEF Messaging!SendQueued, StreamInv, StreamTypes
<1>2. /\ rest \in Seq({"message", "end"}) /\ TakesFrom(mine.queue, rest)
      /\ Head(mine.queue) \in {"message", "end"}
      /\ mine.asked \in Nat /\ mine.sent \in Nat
  <2>1. mine.queue \in Seq({"message", "end"})
    BY <1>1 DEF Mine
  <2> QED
    BY <1>1, <2>1, Takes DEF Mine
<1>3. mine.state # "none" /\ incoming.request = "accepted" /\ mine.closing # "done"
  BY <1>1 DEF StreamInv, ResponderStands, QueueKept
<1>4. CASE Head(mine.queue) = "end"
  <2>1. /\ mine' = [mine EXCEPT !.task = "ended", !.queue = <<>>] /\ UNCHANGED toInitiator
    BY <1>4 DEF Messaging!SendQueued
  <2>2. /\ mine' \in Mine /\ mine'.task = "ended" /\ mine'.queue = <<>>
        /\ mine'.state = mine.state /\ mine'.events = mine.events
        /\ mine'.listed = mine.listed /\ mine'.closing = mine.closing
        /\ mine'.asked = mine.asked /\ mine'.sent = mine.sent
    <3>1. <<>> \in Seq({"message", "end"})
      OBVIOUS
    <3> QED
      BY <1>1, <2>1, <3>1 DEF Mine
  <2>3. mine.state = "terminal" /\ Count(mine.queue) = 0
    <3>1. Has(mine.queue, "end") /\ Quiet(mine.queue, "end")
      BY <1>2, <1>4 DEF TakesFrom, StreamInv, QueueKept
    <3>2. Count(rest) = 0 /\ Count(mine.queue) = Count(rest) + 0
      BY <1>2, <1>4, <3>1 DEF TakesFrom
    <3> QED
      BY <1>1, <1>3, <3>1, <3>2 DEF StreamInv, ResponderStands, Mine, State
  <2>4. StreamTypes' /\ InitiatorStands'
    BY <1>1, <2>1, <2>2 DEF StreamInv, StreamTypes, InitiatorStands
  <2>5. ResponderStands' /\ RelayedInOrder'
    BY <1>1, <1>3, <2>1, <2>2, <2>3 DEF StreamInv, ResponderStands, RelayedInOrder
  <2>6. QueueKept'
    BY <1>1, <1>2, <1>3, <2>2, <2>3, Nobody DEF StreamInv, QueueKept
  <2>7. GivenToInitiator' /\ GivenToResponder'
    BY <1>1, <2>1, <2>2 DEF StreamInv, GivenToInitiator, GivenToResponder
  <2> QED
    BY <2>4, <2>5, <2>6, <2>7 DEF StreamInv
<1>5. CASE Head(mine.queue) # "end" /\ incoming.state = "accepted" /\ linkOf["responder"] = "up"
  <2>1. /\ mine' = [mine EXCEPT !.queue = rest, !.sent = mine.sent + 1]
        /\ Messaging!Back(<<"message">>)
    BY <1>5 DEF Messaging!SendQueued
  <2>2. /\ mine' \in Mine /\ mine'.task = mine.task /\ mine'.queue = rest
        /\ mine'.state = mine.state /\ mine'.events = mine.events
        /\ mine'.listed = mine.listed /\ mine'.closing = mine.closing
        /\ mine'.asked = mine.asked /\ mine'.sent = mine.sent + 1
    <3> DEFINE more == mine.sent + 1
    <3>1. mine' = [mine EXCEPT !.queue = rest, !.sent = more] /\ more \in Nat
      BY <1>2, <2>1
    <3> HIDE DEF rest, more
    <3>2. /\ mine' \in Mine /\ mine'.task = mine.task /\ mine'.queue = rest
          /\ mine'.state = mine.state /\ mine'.events = mine.events
          /\ mine'.listed = mine.listed /\ mine'.closing = mine.closing
          /\ mine'.asked = mine.asked /\ mine'.sent = more
      BY <1>1, <1>2, <3>1 DEF Mine
    <3> QED
      BY <3>2 DEF more
  <2>3. /\ toInitiator' \in Seq(Up)
        /\ linkOf["initiator"] = "down" => toInitiator' = toInitiator
        /\ linkOf["initiator"] # "down" => AddsTo(toInitiator, toInitiator', "message")
    BY <2>1, BackOne DEF StreamInv, Up
  <2>4. Count(mine.queue) = Count(rest) + 1 /\ Count(rest) \in Nat
    BY <1>2, <1>5 DEF TakesFrom
  <2>5. /\ theirs.call \in {"asking", "open"} => linkOf["initiator"] = "up"
        /\ ~Has(toInitiator, "closed") /\ ~Has(theirs.events, "closed")
        /\ given.initiatorEnd # "closed"
    BY <1>3 DEF StreamInv, InitiatorStands, GivenToInitiator
  <2>6. StreamTypes' /\ InitiatorStands'
    BY <1>1, <2>2, <2>3 DEF StreamInv, StreamTypes, InitiatorStands
  <2>7. ResponderStands'
    BY <1>1, <1>2, <1>3, <2>2 DEF StreamInv, ResponderStands, TakesFrom
  <2>8. RelayedInOrder'
    BY <1>1, <1>3, <2>2, <2>3, <2>5 DEF StreamInv, RelayedInOrder, AddsTo
  <2>9. QueueKept'
    <3>1. Quiet(rest, "end")
      BY <1>2 DEF StreamInv, QueueKept, TakesFrom
    <3>2. /\ mine.sent + Count(mine.queue) <= mine.asked
          /\ mine.asked = mine.sent + Count(mine.queue)
      BY <1>5 DEF StreamInv, QueueKept
    <3> HIDE DEF rest
    <3>3. /\ mine'.sent + Count(rest) <= mine.asked
          /\ mine.asked = mine'.sent + Count(rest)
      BY <1>2, <2>2, <2>4, <3>2
    <3> QED
      BY <1>1, <1>3, <2>2, <3>1, <3>3 DEF StreamInv, QueueKept
  <2>10. GivenToInitiator'
    <3>1. /\ given.initiator \in Nat /\ Count(theirs.events) \in Nat
          /\ Count(toInitiator) \in Nat
      BY CountType DEF StreamInv, StreamTypes, Given, Theirs
    <3>2. theirs.call \in {"asking", "open"} => Count(toInitiator') = Count(toInitiator) + 1
      BY <2>3, <2>5 DEF AddsTo
    <3>3. theirs.call = "open" =>
            given.initiator + Count(theirs.events) + Count(toInitiator') = mine'.sent
      <4> SUFFICES ASSUME theirs.call = "open"
                   PROVE  given.initiator + Count(theirs.events) + Count(toInitiator') = mine'.sent
        OBVIOUS
      <4>1. given.initiator + Count(theirs.events) + Count(toInitiator) = mine.sent
        BY DEF StreamInv, GivenToInitiator
      <4> QED
        BY <1>2, <2>2, <3>1, <3>2, <4>1
    <3>4. theirs.call = "asking" => Count(toInitiator') = mine'.sent
      BY <1>2, <1>3, <2>2, <3>1, <3>2 DEF StreamInv, GivenToInitiator
    <3>5. ~Has(toInitiator', "closed") /\ Quiet(toInitiator', "closed")
      BY <2>3, <2>5 DEF StreamInv, GivenToInitiator, AddsTo
    <3> QED
      BY <1>1, <2>2, <2>5, <3>3, <3>4, <3>5 DEF StreamInv, GivenToInitiator
  <2>11. GivenToResponder'
    BY <1>1, <2>2 DEF StreamInv, GivenToResponder
  <2> QED
    BY <2>6, <2>7, <2>8, <2>9, <2>10, <2>11 DEF StreamInv
<1>6. CASE Head(mine.queue) # "end" /\ ~(incoming.state = "accepted" /\ linkOf["responder"] = "up")
  <2> DEFINE shorter == [mine EXCEPT !.queue = rest]
             pushed == Messaging!Push(shorter, "failed")
  <2>1. /\ mine' = Messaging!FinishMine(pushed) /\ UNCHANGED toInitiator
    BY <1>6 DEF Messaging!SendQueued
  <2>2. /\ shorter \in Mine /\ shorter.task = mine.task /\ shorter.queue = rest
        /\ shorter.state = mine.state /\ shorter.events = mine.events
        /\ shorter.listed = mine.listed /\ shorter.closing = mine.closing
        /\ shorter.asked = mine.asked /\ shorter.sent = mine.sent
    BY <1>1, <1>2 DEF Mine
  <2>3. Count(mine.queue) = Count(rest) + 1 /\ Count(rest) \in Nat /\ Quiet(rest, "end")
    BY <1>2, <1>6 DEF TakesFrom, StreamInv, QueueKept
  <2> HIDE DEF shorter
  <2>4. CASE mine.state = "accepted"
    <3>1. /\ mine' \in Mine /\ mine'.state = "terminal" /\ mine'.listed = mine.listed
          /\ mine'.task = mine.task /\ mine'.closing = mine.closing
          /\ mine'.asked = mine.asked /\ mine'.sent = mine.sent
          /\ AddsTo(rest, mine'.queue, "end")
      BY <2>1, <2>2, <2>4, EndOfMine DEF Event
    <3> HIDE DEF rest, pushed
    <3>2. linkOf["responder"] # "up" /\ mine.closing = "no"
      BY <1>6, <2>4 DEF StreamInv, ResponderStands
    <3>3. StreamTypes' /\ InitiatorStands'
      BY <1>1, <2>1, <3>1 DEF StreamInv, StreamTypes, InitiatorStands
    <3>4. ResponderStands' /\ RelayedInOrder'
      BY <1>1, <1>3, <2>1, <2>4, <3>1 DEF StreamInv, ResponderStands, RelayedInOrder
    <3>5. QueueKept'
      <4>1. Quiet(mine'.queue, "end") /\ Count(mine'.queue) = Count(rest)
        BY <2>3, <3>1 DEF AddsTo
      <4>2. mine'.sent + Count(mine'.queue) <= mine'.asked
        BY <1>2, <2>3, <3>1, <4>1 DEF StreamInv, QueueKept
      <4> QED
        BY <1>1, <3>1, <3>2, <4>1, <4>2 DEF StreamInv, QueueKept
    <3>6. GivenToInitiator'
      BY <1>1, <1>3, <2>1, <3>1 DEF StreamInv, GivenToInitiator
    <3>7. GivenToResponder'
      BY <1>1, <3>1, <3>2 DEF StreamInv, GivenToResponder
    <3> QED
      BY <3>7, <3>3, <3>4, <3>5, <3>6 DEF StreamInv
  <2>5. CASE mine.state # "accepted"
    <3>1. mine' = shorter
      BY <2>1, <2>2, <2>5 DEF Messaging!Push, Messaging!FinishMine
    <3> HIDE DEF rest, pushed
    <3>2. StreamTypes' /\ InitiatorStands'
      BY <1>1, <2>1, <2>2, <3>1 DEF StreamInv, StreamTypes, InitiatorStands
    <3>3. ResponderStands' /\ RelayedInOrder'
      BY <1>1, <1>3, <2>1, <2>2, <2>5, <3>1 DEF StreamInv, ResponderStands, RelayedInOrder
    <3>4. QueueKept'
      <4>1. mine'.sent + Count(mine'.queue) <= mine'.asked
        BY <1>2, <2>2, <2>3, <3>1 DEF StreamInv, QueueKept
      <4> QED
        BY <1>1, <1>3, <1>6, <2>2, <2>3, <3>1, <4>1 DEF StreamInv, QueueKept
    <3>5. GivenToInitiator' /\ GivenToResponder'
      BY <1>1, <2>1, <2>2, <3>1 DEF StreamInv, GivenToInitiator, GivenToResponder
    <3> QED
      BY <3>2, <3>3, <3>4, <3>5 DEF StreamInv
  <2> QED
    BY <2>4, <2>5
<1> QED
  BY <1>4, <1>5, <1>6

LEMMA CloseKeeps == StreamInv /\ Messaging!Close => StreamInv'
<1> SUFFICES ASSUME StreamInv, Messaging!Close PROVE StreamInv'
  OBVIOUS
<1>1. /\ mine.state = "accepted" /\ mine \in Mine
      /\ mine' = [mine EXCEPT !.state = "terminal", !.queue = Append(mine.queue, "end"),
                              !.closing = "waiting"]
      /\ UNCHANGED <<toResponder, toInitiator, linkOf, incoming, theirs, given>>
  BY DEF Messaging!Close, StreamInv, StreamTypes
<1>2. /\ Append(mine.queue, "end") \in Seq({"message", "end"})
      /\ AddsTo(mine.queue, Append(mine.queue, "end"), "end")
  <2>1. "end" \in {"message", "end"} /\ mine.queue \in Seq({"message", "end"})
    BY <1>1 DEF Mine
  <2> QED
    BY <2>1, Adds
<1>3. /\ mine' \in Mine /\ mine'.state = "terminal" /\ mine'.closing = "waiting"
      /\ mine'.events = mine.events /\ mine'.listed = mine.listed /\ mine'.task = mine.task
      /\ mine'.asked = mine.asked /\ mine'.sent = mine.sent
      /\ AddsTo(mine.queue, mine'.queue, "end")
  BY <1>1, <1>2 DEF Mine, State
<1>4. mine.task = "running" /\ mine.closing = "no" /\ incoming.request = "accepted"
  BY <1>1 DEF StreamInv, ResponderStands
<1>5. StreamTypes' /\ InitiatorStands'
  BY <1>1, <1>3 DEF StreamInv, StreamTypes, InitiatorStands
<1>6. ResponderStands' /\ RelayedInOrder'
  BY <1>1, <1>3, <1>4 DEF StreamInv, ResponderStands, RelayedInOrder
<1>7. QueueKept'
  <2>1. Quiet(mine'.queue, "end") /\ Count(mine'.queue) = Count(mine.queue)
    BY <1>3 DEF StreamInv, QueueKept, AddsTo
  <2> QED
    BY <1>1, <1>3, <1>4, <2>1 DEF StreamInv, QueueKept
<1>8. GivenToInitiator' /\ GivenToResponder'
  BY <1>1, <1>3, <1>4 DEF StreamInv, GivenToInitiator, GivenToResponder
<1> QED
  BY <1>5, <1>6, <1>7, <1>8 DEF StreamInv

LEMMA CloseEndsKeeps == StreamInv /\ Messaging!CloseEnds => StreamInv'
<1> SUFFICES ASSUME StreamInv, Messaging!CloseEnds PROVE StreamInv'
  OBVIOUS
<1>1. /\ mine.closing = "waiting" /\ mine.task = "ended" /\ mine \in Mine /\ incoming \in Calls
      /\ UNCHANGED <<toResponder, linkOf, theirs, given>>
  BY DEF Messaging!CloseEnds, Messaging!Flushed, StreamInv, StreamTypes
<1>2. mine.queue = <<>> /\ mine.state = "terminal" /\ incoming.request = "accepted"
  BY <1>1 DEF StreamInv, QueueKept, ResponderStands
<1>3. CASE incoming.state = "accepted" /\ linkOf["responder"] = "up"
  <2>1. /\ Messaging!Back(<<"closed">>)
        /\ incoming' = [incoming EXCEPT !.state = "terminal", !.listed = FALSE]
        /\ mine' = [Messaging!Unlist(mine) EXCEPT !.closing = "done",
                                                  !.events = Append(mine.events, "end")]
    BY <1>1, <1>3 DEF Messaging!CloseEnds, Messaging!Unlist, Mine
  <2>2. /\ incoming' \in Calls /\ incoming'.state = "terminal" /\ ~incoming'.listed
        /\ incoming'.request = incoming.request /\ incoming'.pending = incoming.pending
    BY <1>1, <2>1 DEF Calls
  <2>3. /\ mine.events \in Seq(Event) /\ Append(mine.events, "end") \in Seq(Event)
        /\ AddsTo(mine.events, Append(mine.events, "end"), "end")
    <3>1. mine.events \in Seq(Event) /\ "end" \in Event
      BY <1>1 DEF Mine, Event
    <3> QED
      BY <3>1, Adds
  <2>4. /\ mine' \in Mine /\ mine'.state = "terminal" /\ mine'.queue = <<>> /\ ~mine'.listed
        /\ mine'.task = "ended" /\ mine'.closing = "done"
        /\ mine'.asked = mine.asked /\ mine'.sent = mine.sent
        /\ AddsTo(mine.events, mine'.events, "end")
    BY <1>1, <1>2, <2>1, <2>3 DEF Messaging!Unlist, Mine
  <2>5. /\ toInitiator' \in Seq(Up)
        /\ linkOf["initiator"] = "down" => toInitiator' = toInitiator
        /\ linkOf["initiator"] # "down" => AddsTo(toInitiator, toInitiator', "closed")
    BY <2>1, BackOne DEF StreamInv, Up
  <2>6. mine.asked = mine.sent /\ mine.sent \in Nat
    <3>1. mine.asked = mine.sent + Count(mine.queue) /\ mine.sent \in Nat
      BY <1>1, <1>3 DEF StreamInv, QueueKept, Mine
    <3> QED
      BY <1>2, <3>1, Nobody
  <2>7. /\ ~Has(theirs.events, "closed") /\ given.initiatorEnd # "closed"
        /\ theirs.call = "asking" => linkOf["initiator"] = "up"
    BY <1>1 DEF StreamInv, GivenToInitiator, InitiatorStands
  <2>a. StreamTypes'
    BY <1>1, <2>2, <2>4, <2>5 DEF StreamInv, StreamTypes
  <2>8. InitiatorStands'
    BY <1>1, <1>3 DEF StreamInv, InitiatorStands
  <2>9. ResponderStands'
    BY <1>1, <1>2, <2>2, <2>4 DEF StreamInv, ResponderStands
  <2>10. RelayedInOrder'
    BY <1>1, <1>2, <1>3, <2>2, <2>4, <2>5, <2>7 DEF StreamInv, RelayedInOrder, AddsTo
  <2>11. QueueKept'
    BY <1>1, <1>2, <2>2, <2>4, <2>6, Nobody DEF StreamInv, QueueKept
  <2>12. GivenToInitiator'
    BY <1>1, <1>2, <2>4, <2>5, <2>7 DEF StreamInv, GivenToInitiator, AddsTo
  <2>13. GivenToResponder'
    BY <1>1, <1>2, <2>4 DEF StreamInv, GivenToResponder, AddsTo
  <2> QED
    BY <2>a, <2>8, <2>9, <2>10, <2>11, <2>12, <2>13 DEF StreamInv
<1>4. CASE ~(incoming.state = "accepted" /\ linkOf["responder"] = "up")
  <2>1. /\ UNCHANGED <<toInitiator, incoming>>
        /\ mine' = [Messaging!Unlist(mine) EXCEPT !.closing = "raised"]
    BY <1>4 DEF Messaging!CloseEnds
  <2>2. /\ mine' \in Mine /\ mine'.state = "terminal" /\ mine'.queue = <<>> /\ ~mine'.listed
        /\ mine'.task = "ended" /\ mine'.closing = "raised" /\ mine'.events = mine.events
        /\ mine'.asked = mine.asked /\ mine'.sent = mine.sent
    BY <1>1, <1>2, <2>1 DEF Messaging!Unlist, Mine
  <2>3. ~Has(toInitiator, "closed") /\ ~Has(theirs.events, "closed")
        /\ given.initiatorEnd # "closed"
    BY <1>1 DEF StreamInv, GivenToInitiator
  <2>4. StreamTypes' /\ InitiatorStands'
    BY <1>1, <2>1, <2>2 DEF StreamInv, StreamTypes, InitiatorStands
  <2>5. ResponderStands' /\ RelayedInOrder'
    BY <1>1, <1>2, <2>1, <2>2 DEF StreamInv, ResponderStands, RelayedInOrder
  <2>6. QueueKept'
    BY <1>1, <1>2, <2>1, <2>2, Nobody DEF StreamInv, QueueKept
  <2>7. GivenToInitiator' /\ GivenToResponder'
    BY <1>1, <1>2, <2>1, <2>2, <2>3 DEF StreamInv, GivenToInitiator, GivenToResponder
  <2> QED
    BY <2>4, <2>5, <2>6, <2>7 DEF StreamInv
<1> QED
  BY <1>3, <1>4

LEMMA ChannelClosesKeeps == StreamInv /\ Messaging!ChannelCloses => StreamInv'
<1> SUFFICES ASSUME StreamInv, Messaging!ChannelCloses PROVE StreamInv'
  OBVIOUS
<1>1. /\ linkOf["responder"] = "up" /\ linkOf' = [linkOf EXCEPT !["responder"] = "dying"]
      /\ UNCHANGED <<toResponder, toInitiator, incoming, mine, theirs, given>>
  BY DEF Messaging!ChannelCloses
<1>2. /\ linkOf' \in [{"initiator", "responder"} -> {"up", "dying", "down"}]
      /\ linkOf'["initiator"] = linkOf["initiator"] /\ linkOf'["responder"] = "dying"
  BY <1>1 DEF StreamInv, StreamTypes
<1>3. StreamTypes' /\ InitiatorStands'
  BY <1>1, <1>2 DEF StreamInv, StreamTypes, InitiatorStands
<1>4. ResponderStands' /\ RelayedInOrder' /\ QueueKept'
  BY <1>1, <1>2 DEF StreamInv, ResponderStands, RelayedInOrder, QueueKept
<1>5. GivenToInitiator' /\ GivenToResponder'
  BY <1>1, <1>2 DEF StreamInv, GivenToInitiator, GivenToResponder
<1> QED
  BY <1>3, <1>4, <1>5 DEF StreamInv

LEMMA DisconnectKeeps == StreamInv /\ Messaging!Disconnect => StreamInv'
<1> SUFFICES ASSUME StreamInv, Messaging!Disconnect PROVE StreamInv'
  OBVIOUS
<1>1. /\ linkOf["responder"] = "dying" /\ linkOf' = [linkOf EXCEPT !["responder"] = "down"]
      /\ toResponder' = <<>> /\ UNCHANGED <<theirs, given>> /\ incoming \in Calls
      /\ mine \in Mine
      /\ incoming' = IF incoming.listed \/ incoming.pending
                     THEN IF incoming.pending
                           THEN Messaging!MarkClosed(Messaging!Forget(incoming),
                                                     "client_disconnected")
                           ELSE Messaging!Forget(incoming)
                     ELSE incoming
      /\ mine' = IF mine.listed
                 THEN Messaging!Unlist(Messaging!FinishMine(Messaging!Push(mine, "gone")))
                 ELSE mine
      /\ Messaging!Back(IF mine.state = "none" THEN <<"refuse">> ELSE <<"gone", "close">>)
  BY DEF Messaging!Disconnect, StreamInv, StreamTypes
<1>2. /\ linkOf' \in [{"initiator", "responder"} -> {"up", "dying", "down"}]
      /\ linkOf'["initiator"] = linkOf["initiator"] /\ linkOf'["responder"] = "down"
  BY <1>1 DEF StreamInv, StreamTypes
<1>3. incoming' \in Calls
  BY <1>1 DEF Messaging!MarkClosed, Messaging!Forget, Calls
<1>4. /\ incoming'.state \in {"none", "terminal"} /\ ~incoming'.listed /\ ~incoming'.pending
      /\ incoming'.state = "none" <=> incoming.state = "none"
      /\ incoming'.request \in {"none", "accepted", "rejected", "accept_failed",
                                "client_disconnected"}
      /\ incoming'.request = "accepted" <=> incoming.request = "accepted"
      /\ incoming.state = "none" => incoming' = incoming
  <2>1. CASE incoming.pending
    BY <1>1, <2>1 DEF Messaging!MarkClosed, Messaging!Forget, Calls, StreamInv,
                      ResponderStands
  <2>2. CASE ~incoming.pending /\ incoming.listed
    BY <1>1, <2>2 DEF Messaging!Forget, Calls, StreamInv, ResponderStands
  <2>3. CASE ~incoming.pending /\ ~incoming.listed
    BY <1>1, <2>3 DEF Calls, StreamInv, ResponderStands
  <2> QED
    BY <2>1, <2>2, <2>3
<1>5. /\ mine' \in Mine /\ ~mine'.listed /\ mine'.state # "accepted"
      /\ mine'.state = "none" <=> mine.state = "none"
      /\ mine'.task = mine.task /\ mine'.closing = mine.closing
      /\ mine'.asked = mine.asked /\ mine'.sent = mine.sent
      /\ mine.state # "accepted" => mine'.queue = mine.queue /\ mine'.events = mine.events
                                    /\ mine'.state = mine.state
      /\ mine.state = "accepted" => AddsTo(mine.queue, mine'.queue, "end")
  <2>1. CASE mine.state = "accepted"
    <3> DEFINE ended == Messaging!FinishMine(Messaging!Push(mine, "gone"))
    <3>1. /\ ended \in Mine /\ ended.state = "terminal" /\ ended.task = mine.task
          /\ ended.closing = mine.closing /\ ended.asked = mine.asked
          /\ ended.sent = mine.sent /\ AddsTo(mine.queue, ended.queue, "end")
      BY <1>1, <2>1, EndOfMine DEF Event
    <3>2. mine' = Messaging!Unlist(ended)
      BY <1>1, <2>1 DEF StreamInv, ResponderStands
    <3> HIDE DEF ended
    <3> QED
      BY <2>1, <3>1, <3>2 DEF Messaging!Unlist, Mine
  <2>2. CASE mine.state # "accepted"
    BY <1>1, <2>2 DEF Messaging!Push, Messaging!FinishMine, Messaging!Unlist, Mine
  <2> QED
    BY <2>1, <2>2
<1>6. /\ toInitiator' \in Seq(Up)
      /\ Count(toInitiator') = Count(toInitiator)
      /\ toInitiator # <<>> => toInitiator' # <<>> /\ Head(toInitiator') = Head(toInitiator)
      /\ First(toInitiator', "accept") /\ Quiet(toInitiator', "closed")
      /\ \A e : Has(toInitiator', e) =>
            \/ Has(toInitiator, e)
            \/ mine.state = "none" /\ e = "refuse"
            \/ mine.state # "none" /\ e \in {"gone", "close"}
  <2>1. /\ toInitiator \in Seq(Up) /\ First(toInitiator, "accept")
        /\ Quiet(toInitiator, "closed")
    BY DEF StreamInv, StreamTypes, RelayedInOrder, GivenToInitiator
  <2>2. CASE linkOf["initiator"] = "down"
    BY <1>1, <2>1, <2>2 DEF Messaging!Back
  <2>3. CASE linkOf["initiator"] # "down" /\ mine.state = "none"
    <3>1. Messaging!Back(<<"refuse">>)
      BY <1>1, <2>3
    <3>2. toInitiator' \in Seq(Up) /\ AddsTo(toInitiator, toInitiator', "refuse")
      BY <2>3, <3>1, BackOne DEF StreamInv, Up
    <3> QED
      BY <2>1, <2>3, <3>2 DEF AddsTo
  <2>4. CASE linkOf["initiator"] # "down" /\ mine.state # "none"
    <3> DEFINE once == Append(toInitiator, "gone")
    <3>1. once \in Seq(Up) /\ AddsTo(toInitiator, once, "gone")
      BY <2>1, Adds DEF Up
    <3>2. Append(once, "close") \in Seq(Up) /\ AddsTo(once, Append(once, "close"), "close")
      BY <3>1, Adds DEF Up
    <3>3. toInitiator' = Append(once, "close")
      <4>1. toInitiator' = toInitiator \o <<"gone", "close">>
        BY <1>1, <2>4 DEF Messaging!Back
      <4> QED
        BY <2>1, <4>1
    <3> HIDE DEF once
    <3> QED
      BY <2>1, <2>4, <3>1, <3>2, <3>3 DEF AddsTo
  <2> QED
    BY <2>2, <2>3, <2>4
<1>7. StreamTypes'
  <2>1. <<>> \in Seq(Down)
    OBVIOUS
  <2> QED
    BY <1>1, <1>2, <1>3, <1>5, <1>6, <2>1 DEF StreamInv, StreamTypes
<1>8. InitiatorStands'
  BY <1>1, <1>2, <1>4 DEF StreamInv, InitiatorStands
<1>9. ResponderStands'
  BY <1>1, <1>2, <1>4, <1>5 DEF StreamInv, ResponderStands
<1>10. RelayedInOrder'
  BY <1>1, <1>2, <1>4, <1>5, <1>6, Nobody DEF StreamInv, RelayedInOrder
<1>11. QueueKept'
  <2>1. Quiet(mine'.queue, "end") /\ Count(mine'.queue) = Count(mine.queue)
    BY <1>5 DEF StreamInv, QueueKept, AddsTo
  <2>2. mine.task = "ended" => mine.state = "terminal" /\ mine'.queue = <<>>
                               /\ mine'.state = "terminal"
    BY <1>5 DEF StreamInv, QueueKept
  <2>3. mine.closing # "no" => mine'.state = "terminal"
    BY <1>5 DEF StreamInv, QueueKept
  <2> QED
    BY <1>2, <1>5, <2>1, <2>2, <2>3 DEF StreamInv, QueueKept
<1>12. GivenToInitiator'
  BY <1>1, <1>5, <1>6 DEF StreamInv, GivenToInitiator
<1>13. GivenToResponder'
  BY <1>1, <1>2, <1>5, Nobody DEF StreamInv, GivenToResponder
<1> QED
  BY <1>7, <1>8, <1>9, <1>10, <1>11, <1>12, <1>13 DEF StreamInv

LEMMA ReceiveKeeps == StreamInv /\ Messaging!Receive => StreamInv'
<1> SUFFICES ASSUME StreamInv, Messaging!Receive PROVE StreamInv'
  OBVIOUS
<1> DEFINE head == Head(mine.events)
<1>1. /\ mine.events # <<>> /\ mine' = [mine EXCEPT !.events = Tail(mine.events)]
      /\ mine \in Mine /\ given \in Given
      /\ UNCHANGED <<toResponder, toInitiator, linkOf, incoming, theirs>>
  BY DEF Messaging!Receive, StreamInv, StreamTypes
<1>2. /\ TakesFrom(mine.events, mine'.events) /\ head \in Event
      /\ mine' \in Mine /\ mine'.state = mine.state /\ mine'.listed = mine.listed
      /\ mine'.queue = mine.queue /\ mine'.task = mine.task /\ mine'.closing = mine.closing
      /\ mine'.asked = mine.asked /\ mine'.sent = mine.sent
  <2>1. /\ Tail(mine.events) \in Seq(Event) /\ head \in Event
        /\ TakesFrom(mine.events, Tail(mine.events))
    BY <1>1, Takes DEF Mine
  <2> QED
    BY <1>1, <2>1 DEF Mine
<1>a. /\ given.initiator \in Nat /\ given.responder \in Nat
      /\ given.initiatorEnd \in Event \cup {"no"} /\ given.responderEnd \in Event \cup {"no"}
      /\ given.ended \in SUBSET {"initiator", "responder"}
  BY <1>1 DEF Given
<1>3. /\ given' \in Given /\ given'.initiator = given.initiator
      /\ given'.initiatorEnd = given.initiatorEnd
      /\ given'.responder = given.responder + (IF head = "message" THEN 1 ELSE 0)
      /\ given'.responderEnd = IF head # "message" /\ given.responderEnd = "no" THEN head
                               ELSE given.responderEnd
  <2> DEFINE many == given.responder + (IF head = "message" THEN 1 ELSE 0)
             last == IF head # "message" /\ given.responderEnd = "no" THEN head
                     ELSE given.responderEnd
             told == IF head = "end" THEN given.ended \cup {"responder"} ELSE given.ended
  <2>1. many \in Nat
    BY <1>a
  <2>2. last \in Event \cup {"no"}
    BY <1>2, <1>a
  <2>3. told \in SUBSET {"initiator", "responder"}
    BY <1>a
  <2>4. (IF head = "message" THEN given.responder + 1 ELSE given.responder) = many
    BY <1>a
  <2>5. (IF head = "message" THEN given.responderEnd
         ELSE IF given.responderEnd = "no" THEN head ELSE given.responderEnd) = last
    OBVIOUS
  <2>6. given' = [given EXCEPT !.responder = many, !.responderEnd = last, !.ended = told]
    <3> HIDE DEF many, last
    <3> QED
      BY <1>1, <2>4, <2>5 DEF Messaging!Receive, Given
  <2> HIDE DEF many, last, told
  <2>7. /\ given' \in Given /\ given'.initiator = given.initiator
        /\ given'.initiatorEnd = given.initiatorEnd
        /\ given'.responder = many /\ given'.responderEnd = last
    BY <1>1, <2>1, <2>2, <2>3, <2>6 DEF Given
  <2> QED
    BY <2>7 DEF many, last
<1> HIDE DEF head
<1>4. mine.state # "none"
  BY <1>1 DEF StreamInv, ResponderStands
<1>5. given'.responder + Count(mine'.events) = given.responder + Count(mine.events)
  BY <1>2, <1>3, <1>a DEF TakesFrom, head
<1>6. StreamTypes' /\ QueueKept' /\ GivenToInitiator'
  BY <1>1, <1>2, <1>3 DEF StreamInv, StreamTypes, QueueKept, GivenToInitiator
<1>7. InitiatorStands' /\ RelayedInOrder'
  BY <1>1, <1>2, <1>3 DEF StreamInv, InitiatorStands, RelayedInOrder
<1>8. ResponderStands'
  BY <1>1, <1>2, <1>3, <1>4 DEF StreamInv, ResponderStands
<1>9. GivenToResponder'
  <2>1. mine'.state = "accepted" /\ linkOf'["responder"] # "down" =>
            given'.responder + Count(mine'.events) + Count(toResponder') = theirs'.sent
    <3> SUFFICES ASSUME mine.state = "accepted", linkOf["responder"] # "down"
                 PROVE  given'.responder + Count(mine'.events) + Count(toResponder) = theirs.sent
      BY <1>1, <1>2
    <3>1. given.responder + Count(mine.events) + Count(toResponder) = theirs.sent
      BY DEF StreamInv, GivenToResponder
    <3> QED
      BY <1>5, <3>1
  <2>2. linkOf["responder"] = "up" =>
          /\ Has(mine'.events, "gone") => Has(mine.events, "gone")
          /\ Quiet(mine'.events, "gone")
    BY <1>2 DEF StreamInv, GivenToResponder, TakesFrom
  <2>3. ASSUME linkOf["responder"] = "up", given'.responderEnd = "gone"
        PROVE  /\ theirs.call \in {"failed", "over"} /\ mine.state = "terminal"
               /\ given'.responder = theirs.sent /\ ~Has(mine'.events, "message")
    <3>1. CASE given.responderEnd = "gone"
      <4>1. ~Has(mine.events, "message") /\ given.responder = theirs.sent
            /\ theirs.call \in {"failed", "over"} /\ mine.state = "terminal"
        BY <2>3, <3>1 DEF StreamInv, GivenToResponder
      <4> QED
        BY <1>2, <1>3, <1>a, <4>1 DEF TakesFrom, head
    <3>2. CASE given.responderEnd # "gone"
      <4>1. head = "gone" /\ Has(mine.events, "gone")
            /\ ~Has(mine'.events, "message") /\ Count(mine'.events) = 0
        BY <1>2, <1>3, <2>3, <3>2 DEF StreamInv, GivenToResponder, TakesFrom, head
      <4>2. /\ theirs.call \in {"failed", "over"} /\ mine.state = "terminal"
            /\ given.responder + Count(mine.events) = theirs.sent
        BY <2>3, <4>1 DEF StreamInv, GivenToResponder
      <4>3. given'.responder + 0 = theirs.sent /\ given'.responder \in Nat
        BY <1>3, <1>5, <4>1, <4>2 DEF Given
      <4> QED
        BY <4>1, <4>2, <4>3
    <3> QED
      BY <3>1, <3>2
  <2> QED
    BY <1>1, <1>2, <1>5, <2>1, <2>2, <2>3 DEF StreamInv, GivenToResponder
<1> QED
  BY <1>6, <1>7, <1>8, <1>9 DEF StreamInv

LEMMA StandingStill == StreamInv /\ UNCHANGED Messaging!vars => StreamInv'
<1> SUFFICES ASSUME StreamInv, UNCHANGED Messaging!vars PROVE StreamInv'
  OBVIOUS
<1>1. UNCHANGED <<toResponder, toInitiator, linkOf, incoming, mine, theirs, given>>
  BY DEF Messaging!vars
<1>2. StreamTypes' /\ InitiatorStands' /\ ResponderStands'
  BY <1>1 DEF StreamInv, StreamTypes, InitiatorStands, ResponderStands
<1>3. RelayedInOrder' /\ QueueKept'
  BY <1>1 DEF StreamInv, RelayedInOrder, QueueKept
<1>4. GivenToInitiator' /\ GivenToResponder'
  BY <1>1 DEF StreamInv, GivenToInitiator, GivenToResponder
<1> QED
  BY <1>2, <1>3, <1>4 DEF StreamInv

LEMMA StreamNextKeeps ==
    MaxMessages \in Nat /\ StreamInv /\ [Messaging!Next]_(Messaging!vars) => StreamInv'
<1> SUFFICES ASSUME MaxMessages \in Nat, StreamInv, [Messaging!Next]_(Messaging!vars)
             PROVE  StreamInv'
  OBVIOUS
<1>1. CASE \/ Messaging!Ask \/ Messaging!GiveUp \/ Messaging!Answered
          \/ Messaging!ReadOutput \/ Messaging!DropOutput
  BY <1>1, AskKeeps, GiveUpKeeps, AnsweredKeeps, ReadOutputKeeps, DropOutputKeeps
<1>2. CASE \/ Messaging!TheySend \/ Messaging!TheyClose
          \/ Messaging!TheyDisconnect \/ Messaging!TheyReceive
  BY <1>2, TheySendKeeps, TheyCloseKeeps, TheyDisconnectKeeps, TheyReceiveKeeps
<1>3. CASE \/ Messaging!HandleOpen \/ Messaging!HandleInitial
          \/ Messaging!HandleMessage \/ Messaging!HandleClose
  BY <1>3, HandleOpenKeeps, HandleInitialKeeps, HandleMessageKeeps, HandleCloseKeeps
<1>4. CASE \/ Messaging!Accept \/ Messaging!Reject \/ Messaging!Send \/ Messaging!SendQueued
  BY <1>4, AcceptKeeps, RejectKeeps, SendKeeps, SendQueuedKeeps
<1>5. CASE \/ Messaging!Close \/ Messaging!CloseEnds \/ Messaging!ChannelCloses
          \/ Messaging!Disconnect \/ Messaging!Receive
  BY <1>5, CloseKeeps, CloseEndsKeeps, ChannelClosesKeeps, DisconnectKeeps, ReceiveKeeps
<1>6. CASE UNCHANGED Messaging!vars
  BY <1>6, StandingStill
<1> QED
  BY <1>1, <1>2, <1>3, <1>4, <1>5, <1>6 DEF Messaging!Next, Messaging!Initiator,
                                            Messaging!Responder

LEMMA WholeByInv ==
    ASSUME MaxMessages \in Nat, StreamInv
    PROVE  ClosedWhole
<1>1. /\ mine.asked \in 0..MaxMessages /\ mine.sent \in 0..MaxMessages
      /\ theirs.sent \in 0..MaxMessages
  <2>1. /\ mine.asked \in Nat /\ mine.sent \in Nat /\ theirs.sent \in Nat
        /\ Count(mine.queue) \in Nat
    BY CountType DEF StreamInv, StreamTypes, Mine, Theirs
  <2>2. /\ mine.sent + Count(mine.queue) <= mine.asked /\ mine.asked <= MaxMessages
        /\ theirs.sent <= MaxMessages
    BY DEF StreamInv, QueueKept, InitiatorStands
  <2> QED
    BY <2>1, <2>2
<1>2. Messaging!TypeOK
  BY <1>1 DEF StreamInv, StreamTypes, Calls, Mine, Theirs, Given, Event, Down, Up, State,
              Messaging!TypeOK
<1>3. Messaging!ClosedWhole
  BY DEF StreamInv, GivenToInitiator, GivenToResponder, QueueKept, Messaging!ClosedWhole
<1>4. Messaging!OneVerdict
  BY DEF StreamInv, ResponderStands, RelayedInOrder, Messaging!OneVerdict
<1>5. Messaging!NoProtocolError
  BY DEF StreamInv, ResponderStands, Messaging!NoProtocolError
<1> QED
  BY <1>2, <1>3, <1>4, <1>5 DEF ClosedWhole

(* The streams of messaging in MCStreams: what happens there to them is a   *)
(* step of theirs, and they start as they do by themselves.                 *)
LEMMA MessagingPart == StreamsSpec => Messaging!Spec
<1>1. StreamsInit => Messaging!Init
  BY DEF StreamsInit
<1>2. [StreamsNext]_allVars => [Messaging!Next]_(Messaging!vars)
  BY DEF StreamsNext, MessagingMoves, CallMoves, allVars, messagingVars, Messaging!vars
<1> QED
  BY <1>1, <1>2, PTL DEF StreamsSpec, Messaging!Spec

(* A stream that one side closes is given to the other side whole, and what *)
(* a send resolved is among it; a request is settled once, and only an      *)
(* accepted one has a stream; neither client breaks the protocol of the     *)
(* other (MessagingStream.close, _send_queued_messages, and the handlers of *)
(* the chunks of a stream in MessagingClient).                              *)
THEOREM StreamsAreWhole ==
    ASSUME MaxMessages \in Nat
    PROVE  StreamsSpec => []ClosedWhole
<1>1. Messaging!Init => StreamInv
  BY StreamInitHolds
<1>2. StreamInv /\ [Messaging!Next]_(Messaging!vars) => StreamInv'
  BY StreamNextKeeps
<1>3. StreamInv => ClosedWhole
  BY WholeByInv
<1> QED
  BY <1>1, <1>2, <1>3, MessagingPart, PTL DEF Messaging!Spec

=============================================================================
