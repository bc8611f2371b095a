------------------------ MODULE SyncDocumentsProofs ------------------------
(***************************************************************************)
(* Theorems about SyncDocuments, for every set of users, edits, objects    *)
(* and streams and every bound.                                            *)
(***************************************************************************)
EXTENDS SyncDocuments, FiniteSetTheorems, TLAPS

-----------------------------------------------------------------------------
(* Streams whose edits are in K *)
ChunkOf(K) == [type: {"start", "state", "sync", "close", "error"}, edits: SUBSET K]

StreamOf(K) ==
    [call: {"opening", "running", "over"}, doc: Objects \cup {None}, open: BOOLEAN,
     link: {"live", "dead"}, served: BOOLEAN, up: Seq(ChunkOf(K)), down: Seq(ChunkOf(K))]

LEMMA ChunkMade ==
    ASSUME NEW K, NEW E \in SUBSET K
    PROVE  /\ Start(E) \in ChunkOf(K) /\ State(E) \in ChunkOf(K) /\ Sync(E) \in ChunkOf(K)
           /\ Close \in ChunkOf(K) /\ Error \in ChunkOf(K)
  BY DEF ChunkOf, Start, State, Sync, Close, Error

LEMMA StreamGrows ==
    ASSUME NEW K, NEW L, K \subseteq L
    PROVE  StreamOf(K) \subseteq StreamOf(L)
<1>1. ChunkOf(K) \subseteq ChunkOf(L)
  BY DEF ChunkOf
<1>2. Seq(ChunkOf(K)) \subseteq Seq(ChunkOf(L))
  BY <1>1
<1> QED
  BY <1>2 DEF StreamOf

LEMMA EndedIs ==
    ASSUME NEW K
    PROVE  /\ Ended \in StreamOf(K) /\ Ended.call = "over" /\ Ended.up = <<>> /\ Ended.down = <<>>
           /\ Ended.served = FALSE /\ Ended.open = FALSE /\ Ended.link = "dead" /\ Ended.doc = None
  BY DEF StreamOf, Ended

LEMMA AskingIs ==
    ASSUME NEW K, NEW E \in SUBSET K
    PROVE  /\ Asking(E) \in StreamOf(K)
           /\ Asking(E).call = "opening" /\ Asking(E).open /\ ~Asking(E).served
           /\ Asking(E).down = <<>>
           /\ Asking(E).up \in {<<>>, <<Start(E)>>}
           /\ room # "lost" => Asking(E).link = "live"
<1>1. <<Start(E)>> \in Seq(ChunkOf(K))
  BY ChunkMade
<1>2. Ended \in StreamOf(K)
  BY EndedIs
<1>3. CASE room = "lost"
  <2>1. Asking(E) = [Ended EXCEPT !.call = "opening", !.open = TRUE]
    BY <1>3 DEF Asking
  <2>2. /\ Asking(E) \in StreamOf(K) /\ Asking(E).call = "opening" /\ Asking(E).open
        /\ Asking(E).served = Ended.served /\ Asking(E).down = Ended.down
        /\ Asking(E).up = Ended.up
    BY <1>2, <2>1 DEF StreamOf
  <2> QED
    BY <1>3, <2>2, EndedIs
<1>4. CASE room # "lost"
  <2> DEFINE q == <<Start(E)>>
  <2>1. Asking(E) = [Ended EXCEPT !.call = "opening", !.open = TRUE, !.link = "live", !.up = q]
    BY <1>4 DEF Asking
  <2>2. q \in Seq(ChunkOf(K))
    BY <1>1
  <2> HIDE DEF q
  <2>3. /\ Asking(E) \in StreamOf(K) /\ Asking(E).call = "opening" /\ Asking(E).open
        /\ Asking(E).link = "live"
        /\ Asking(E).served = Ended.served /\ Asking(E).down = Ended.down
        /\ Asking(E).up = q
    BY <1>2, <2>1, <2>2 DEF StreamOf
  <2> QED
    BY <1>4, <2>3, EndedIs DEF q
<1> QED
  BY <1>3, <1>4

(* A chunk more, a chunk less *)
LEMMA HeadOf ==
    ASSUME NEW K, NEW st \in StreamOf(K)
    PROVE  /\ st.up # <<>> => Head(st.up) \in ChunkOf(K) /\ Tail(st.up) \in Seq(ChunkOf(K))
           /\ st.down # <<>> => Head(st.down) \in ChunkOf(K) /\ Tail(st.down) \in Seq(ChunkOf(K))
  BY DEF StreamOf

LEMMA CloseInputIs ==
    ASSUME NEW K, NEW st \in StreamOf(K)
    PROVE  LET c == CloseInput(st)
           IN /\ c \in StreamOf(K)
              /\ c.call = st.call /\ c.doc = st.doc /\ c.link = st.link /\ c.served = st.served
              /\ c.down = st.down /\ ~c.open
              /\ c.up \in {st.up, Append(st.up, Close)}
<1>1. Close \in ChunkOf(K)
  BY ChunkMade
<1>2. Append(st.up, Close) \in Seq(ChunkOf(K))
  BY <1>1 DEF StreamOf
<1>3. ASSUME NEW q \in Seq(ChunkOf(K))
      PROVE  LET c == [st EXCEPT !.open = FALSE, !.up = q]
             IN /\ c \in StreamOf(K)
                /\ c.call = st.call /\ c.doc = st.doc /\ c.link = st.link /\ c.served = st.served
                /\ c.down = st.down /\ ~c.open /\ c.up = q
  BY DEF StreamOf
<1>4. CASE ~st.open
  BY <1>4 DEF CloseInput
<1>5. CASE st.open
  <2>1. st.up \in Seq(ChunkOf(K))
    BY DEF StreamOf
  <2>2. PICK q \in {st.up, Append(st.up, Close)} : CloseInput(st) = [st EXCEPT !.open = FALSE, !.up = q]
    BY <1>5 DEF CloseInput
  <2>3. q \in Seq(ChunkOf(K))
    BY <1>2, <2>1, <2>2
  <2> DEFINE c == [st EXCEPT !.open = FALSE, !.up = q]
  <2>4. /\ c \in StreamOf(K)
        /\ c.call = st.call /\ c.doc = st.doc /\ c.link = st.link /\ c.served = st.served
        /\ c.down = st.down /\ ~c.open /\ c.up = q
    BY <1>3, <2>3
  <2>5. CloseInput(st) = c
    BY <2>2
  <2> HIDE DEF c
  <2> QED
    BY <2>2, <2>4, <2>5
<1> QED
  BY <1>4, <1>5

LEMMA OverIs ==
    ASSUME NEW K, NEW st \in StreamOf(K)
    PROVE  LET c == Over(st)
           IN /\ c \in StreamOf(K)
              /\ c.call = "over" /\ c.doc = None /\ ~c.open /\ c.down = <<>>
              /\ c.served = st.served
              /\ c.up \in {st.up, Append(st.up, Close)}
              /\ c.up # <<>> => c.link = st.link
<1> DEFINE c == CloseInput(st)
<1>1. /\ c \in StreamOf(K)
      /\ c.call = st.call /\ c.doc = st.doc /\ c.link = st.link /\ c.served = st.served
      /\ c.down = st.down /\ ~c.open
      /\ c.up \in {st.up, Append(st.up, Close)}
  BY CloseInputIs
<1>2. Over(st) = IF c.served \/ c.up # <<>> THEN [c EXCEPT !.call = "over", !.doc = None, !.down = <<>>]
                 ELSE Ended
  BY DEF Over
<1> HIDE DEF c
<1>3. CASE c.served \/ c.up # <<>>
  <2> DEFINE d == [c EXCEPT !.call = "over", !.doc = None, !.down = <<>>]
  <2>0. <<>> \in Seq(ChunkOf(K)) /\ c \in StreamOf(K)
    BY <1>1
  <2>1. d \in StreamOf(K) /\ d.call = "over" /\ d.doc = None /\ d.down = <<>>
        /\ d.open = c.open /\ d.served = c.served /\ d.up = c.up /\ d.link = c.link
    BY <2>0 DEF StreamOf
  <2>2. Over(st) = d
    BY <1>2, <1>3
  <2> HIDE DEF d
  <2> QED
    BY <1>1, <2>1, <2>2
<1>4. CASE ~(c.served \/ c.up # <<>>)
  <2>1. Over(st) = Ended
    BY <1>2, <1>4
  <2>2. c.served = FALSE
    BY <1>1, <1>4 DEF StreamOf
  <2>3. st.served = FALSE /\ c.up = <<>>
    BY <1>1, <1>4, <2>2
  <2>4. st.up = <<>>
    <3> DEFINE q == st.up
    <3>1. q \in Seq(ChunkOf(K)) /\ Close \in ChunkOf(K)
      BY ChunkMade DEF StreamOf
    <3>2. <<>> \in {q, Append(q, Close)}
      BY <1>1, <2>3
    <3> HIDE DEF q
    <3>3. Len(Append(q, Close)) = Len(q) + 1 /\ Len(q) \in Nat /\ Len(<<>>) = 0
      BY <3>1
    <3>4. q = <<>>
      BY <3>2, <3>3
    <3> QED
      BY <3>4 DEF q
  <2> QED
    BY <2>1, <2>3, <2>4, EndedIs
<1> QED
  BY <1>3, <1>4

-----------------------------------------------------------------------------
(* What the operators on all streams do to each of them *)
StreamsOf(K) == [Streams -> StreamOf(K)]

(* The streams are alike but for their queues. *)
Alike(a, b) ==
    a.call = b.call /\ a.doc = b.doc /\ a.open = b.open /\ a.link = b.link /\ a.served = b.served

LEMMA MoreUp ==
    ASSUME NEW K, NEW st \in StreamOf(K), NEW c \in ChunkOf(K),
           NEW a, a = [st EXCEPT !.up = Append(st.up, c)]
    PROVE  a \in StreamOf(K) /\ Alike(a, st) /\ a.down = st.down /\ a.up = Append(st.up, c)
<1> DEFINE q == Append(st.up, c)
<1>1. q \in Seq(ChunkOf(K))
  BY DEF StreamOf
<1> HIDE DEF q
<1>2. a = [st EXCEPT !.up = q]
  BY DEF q
<1>3. a \in StreamOf(K) /\ Alike(a, st) /\ a.down = st.down /\ a.up = q
  BY <1>1, <1>2 DEF StreamOf, Alike
<1> QED
  BY <1>3 DEF q

LEMMA MoreDown ==
    ASSUME NEW K, NEW st \in StreamOf(K), NEW c \in ChunkOf(K),
           NEW a, a = [st EXCEPT !.down = Append(st.down, c)]
    PROVE  a \in StreamOf(K) /\ Alike(a, st) /\ a.up = st.up /\ a.down = Append(st.down, c)
<1> DEFINE q == Append(st.down, c)
<1>1. q \in Seq(ChunkOf(K))
  BY DEF StreamOf
<1> HIDE DEF q
<1>2. a = [st EXCEPT !.down = q]
  BY DEF q
<1>3. a \in StreamOf(K) /\ Alike(a, st) /\ a.up = st.up /\ a.down = q
  BY <1>1, <1>2 DEF StreamOf, Alike
<1> QED
  BY <1>3 DEF q

LEMMA PublishIs ==
    ASSUME NEW K, NEW ss \in StreamsOf(K), NEW t \in Streams \cup {None}, NEW E \in SUBSET K
    PROVE  LET r == Publish(ss, t, E)
           IN /\ r \in StreamsOf(K)
              /\ \A s \in Streams :
                    /\ Alike(r[s], ss[s]) /\ r[s].down = ss[s].down
                    /\ r[s].up = IF s = t /\ E # {} /\ ss[s].open /\ ss[s].link = "live"
                                 THEN Append(ss[s].up, Sync(E)) ELSE ss[s].up
<1>1. Sync(E) \in ChunkOf(K) /\ None \notin Streams
  BY ChunkMade, SyncAssumption
<1>2. CASE t \in Streams /\ E # {} /\ ss[t].open /\ ss[t].link = "live"
  <2>1. Publish(ss, t, E) = [ss EXCEPT ![t] = [ss[t] EXCEPT !.up = Append(@, Sync(E))]]
    BY <1>1, <1>2 DEF Publish
  <2>2. ss[t] \in StreamOf(K)
    BY <1>2 DEF StreamsOf
  <2>3. PICK a : a = [ss[t] EXCEPT !.up = Append(ss[t].up, Sync(E))]
    OBVIOUS
  <2>4. a \in StreamOf(K) /\ Alike(a, ss[t]) /\ a.down = ss[t].down /\ a.up = Append(ss[t].up, Sync(E))
    BY <1>1, <2>2, <2>3, MoreUp
  <2>5. Publish(ss, t, E) = [ss EXCEPT ![t] = a]
    BY <2>1, <2>3
  <2> QED
    BY <1>2, <2>4, <2>5 DEF StreamsOf, Alike
<1>3. CASE ~(t \in Streams /\ E # {} /\ ss[t].open /\ ss[t].link = "live")
  <2>1. Publish(ss, t, E) = ss
    BY <1>3 DEF Publish
  <2> QED
    BY <1>3, <2>1 DEF Alike
<1> QED
  BY <1>2, <1>3

LEMMA TellIs ==
    ASSUME NEW K, NEW ss \in StreamsOf(K), NEW S, NEW c \in ChunkOf(K)
    PROVE  LET r == Tell(ss, S, c)
           IN /\ r \in StreamsOf(K)
              /\ \A s \in Streams :
                    /\ Alike(r[s], ss[s]) /\ r[s].up = ss[s].up
                    /\ r[s].down = IF s \in S /\ ss[s].call # "over" THEN Append(ss[s].down, c)
                                   ELSE ss[s].down
<1> DEFINE r == Tell(ss, S, c)
<1>1. ASSUME NEW s \in Streams
      PROVE  /\ r[s] \in StreamOf(K) /\ Alike(r[s], ss[s]) /\ r[s].up = ss[s].up
             /\ r[s].down = IF s \in S /\ ss[s].call # "over" THEN Append(ss[s].down, c)
                            ELSE ss[s].down
  <2>1. ss[s] \in StreamOf(K)
    BY DEF StreamsOf
  <2>2. CASE s \in S /\ ss[s].call # "over"
    <3>1. r[s] = [ss[s] EXCEPT !.down = Append(ss[s].down, c)]
      BY <2>2 DEF Tell
    <3> HIDE DEF r
    <3>2. r[s] \in StreamOf(K) /\ Alike(r[s], ss[s]) /\ r[s].up = ss[s].up
          /\ r[s].down = Append(ss[s].down, c)
      BY <2>1, <3>1, MoreDown
    <3> QED
      BY <2>2, <3>2
  <2>3. CASE ~(s \in S /\ ss[s].call # "over")
    <3>1. r[s] = ss[s]
      BY <2>3 DEF Tell
    <3> QED
      BY <2>1, <2>3, <3>1 DEF Alike
  <2> QED
    BY <2>2, <2>3
<1>2. r = [s \in Streams |-> r[s]]
  BY DEF Tell
<1> HIDE DEF r
<1>3. r \in StreamsOf(K)
  BY <1>1, <1>2 DEF StreamsOf
<1> QED
  BY <1>1, <1>3 DEF r

LEMMA CutIs ==
    ASSUME NEW K, NEW ss \in StreamsOf(K)
    PROVE  LET r == Cut(ss)
           IN /\ r \in StreamsOf(K)
              /\ \A s \in Streams :
                    /\ r[s].call = ss[s].call /\ r[s].up = <<>> /\ r[s].served = FALSE
                    /\ r[s].link = "dead" /\ (r[s].open => ss[s].open)
                    /\ r[s].down \in {ss[s].down, <<>>}
                    /\ ss[s].call # "over" => r[s].doc = ss[s].doc /\ r[s].open = ss[s].open
                                               /\ r[s].down = ss[s].down
<1> DEFINE r == Cut(ss)
<1>1. ASSUME NEW s \in Streams
      PROVE  /\ r[s] \in StreamOf(K)
             /\ r[s].call = ss[s].call /\ r[s].up = <<>> /\ r[s].served = FALSE
             /\ r[s].link = "dead" /\ (r[s].open => ss[s].open)
             /\ r[s].down \in {ss[s].down, <<>>}
             /\ ss[s].call # "over" => r[s].doc = ss[s].doc /\ r[s].open = ss[s].open
                                        /\ r[s].down = ss[s].down
  <2>1. ss[s] \in StreamOf(K)
    BY DEF StreamsOf
  <2>2. CASE ss[s].call = "over"
    <3>1. r[s] = Ended
      BY <2>2 DEF Cut
    <3> QED
      BY <2>2, <3>1, EndedIs
  <2>3. CASE ss[s].call # "over"
    <3>1. r[s] = [ss[s] EXCEPT !.link = "dead", !.served = FALSE, !.up = <<>>]
      BY <2>3 DEF Cut
    <3>2. <<>> \in Seq(ChunkOf(K))
      OBVIOUS
    <3> HIDE DEF r
    <3> QED
      BY <2>1, <3>1, <3>2 DEF StreamOf
  <2> QED
    BY <2>2, <2>3
<1>2. r = [s \in Streams |-> r[s]]
  BY DEF Cut
<1> HIDE DEF r
<1>3. r \in StreamsOf(K)
  BY <1>1, <1>2 DEF StreamsOf
<1> QED
  BY <1>1, <1>3 DEF r

LEMMA FailedIs ==
    ASSUME NEW K, NEW ss \in StreamsOf(K)
    PROVE  LET r == Failed(ss)
           IN /\ r \in StreamsOf(K)
              /\ \A s \in Streams :
                    /\ Alike(r[s], ss[s]) /\ r[s].up = ss[s].up
                    /\ r[s].down \in {ss[s].down, Append(ss[s].down, Error)}
<1> DEFINE r == Failed(ss)
<1>1. ASSUME NEW s \in Streams
      PROVE  /\ r[s] \in StreamOf(K) /\ Alike(r[s], ss[s]) /\ r[s].up = ss[s].up
             /\ r[s].down \in {ss[s].down, Append(ss[s].down, Error)}
  <2>1. ss[s] \in StreamOf(K) /\ Error \in ChunkOf(K)
    BY ChunkMade DEF StreamsOf
  <2>2. r[s] = ss[s] \/ r[s] = [ss[s] EXCEPT !.down = Append(ss[s].down, Error)]
    BY DEF Failed
  <2> HIDE DEF r
  <2>3. CASE r[s] = ss[s]
    BY <2>1, <2>3 DEF Alike
  <2>4. CASE r[s] = [ss[s] EXCEPT !.down = Append(ss[s].down, Error)]
    BY <2>1, <2>4, MoreDown
  <2> QED
    BY <2>2, <2>3, <2>4
<1>2. r = [s \in Streams |-> r[s]]
  BY DEF Failed
<1> HIDE DEF r
<1>3. r \in StreamsOf(K)
  BY <1>1, <1>2 DEF StreamsOf
<1> QED
  BY <1>1, <1>3 DEF r

LEMMA InputClosedIs ==
    ASSUME NEW K, NEW ss \in StreamsOf(K), table \in Streams \cup {None}
    PROVE  LET r == InputClosed(ss)
           IN /\ r \in StreamsOf(K)
              /\ \A s \in Streams :
                    /\ r[s].call = ss[s].call /\ r[s].doc = ss[s].doc /\ r[s].link = ss[s].link
                    /\ r[s].served = ss[s].served /\ r[s].down = ss[s].down
                    /\ s = table => ~r[s].open
                    /\ s # table => r[s] = ss[s]
                    /\ r[s].up \in {ss[s].up, Append(ss[s].up, Close)}
<1>1. CASE table = None
  BY <1>1, SyncAssumption DEF InputClosed
<1>2. CASE table \in Streams
  <2>1. InputClosed(ss) = [ss EXCEPT ![table] = CloseInput(ss[table])] /\ ss[table] \in StreamOf(K)
    BY <1>2, SyncAssumption DEF InputClosed, StreamsOf
  <2> DEFINE c == CloseInput(ss[table])
  <2>2. /\ c \in StreamOf(K)
        /\ c.call = ss[table].call /\ c.doc = ss[table].doc /\ c.link = ss[table].link
        /\ c.served = ss[table].served /\ c.down = ss[table].down /\ ~c.open
        /\ c.up \in {ss[table].up, Append(ss[table].up, Close)}
    BY <2>1, CloseInputIs
  <2> HIDE DEF c
  <2>3. InputClosed(ss) = [ss EXCEPT ![table] = c]
    BY <2>1 DEF c
  <2> QED
    BY <1>2, <2>2, <2>3 DEF StreamsOf
<1> QED
  BY <1>1, <1>2

LEMMA TakenIs ==
    ASSUME NEW K, stream \in StreamsOf(K), NEW s \in Streams, NEW served \in BOOLEAN,
           stream[s].up # <<>>
    PROVE  LET r == Taken(s, served)
           IN /\ r \in StreamsOf(K)
              /\ \A v \in Streams :
                    /\ r[v].call = stream[v].call
                    /\ v # s => r[v] = stream[v]
                    /\ stream[v].call # "over" =>
                          /\ r[v].doc = stream[v].doc /\ r[v].open = stream[v].open
                          /\ r[v].link = stream[v].link /\ r[v].down = stream[v].down
              /\ r[s].served = served
              /\ stream[s].call # "over" => r[s].up = Tail(stream[s].up)
              /\ stream[s].call = "over" =>
                    /\ r[s].down = <<>> /\ r[s].doc = None /\ ~r[s].open
                    /\ r[s].up \in {Tail(stream[s].up), Append(Tail(stream[s].up), Close)}
                    /\ r[s].up # <<>> => r[s].link = stream[s].link
<1> DEFINE taken == [stream[s] EXCEPT !.up = Tail(@), !.served = served]
           r == Taken(s, served)
<1>1. stream[s] \in StreamOf(K) /\ Tail(stream[s].up) \in Seq(ChunkOf(K))
  BY HeadOf DEF StreamsOf
<1>2. /\ taken \in StreamOf(K) /\ taken.call = stream[s].call /\ taken.doc = stream[s].doc
      /\ taken.open = stream[s].open /\ taken.link = stream[s].link
      /\ taken.down = stream[s].down /\ taken.up = Tail(stream[s].up) /\ taken.served = served
  BY <1>1 DEF StreamOf
<1>3. r = [stream EXCEPT ![s] = IF taken.call = "over" THEN Over(taken) ELSE taken]
  BY DEF Taken
<1> HIDE DEF taken, r
<1>4. CASE stream[s].call = "over"
  <2> DEFINE c == Over(taken)
  <2>1. /\ c \in StreamOf(K)
        /\ c.call = "over" /\ c.doc = None /\ ~c.open /\ c.down = <<>>
        /\ c.served = taken.served
        /\ c.up \in {taken.up, Append(taken.up, Close)}
        /\ c.up # <<>> => c.link = taken.link
    BY <1>2, OverIs
  <2>2. r = [stream EXCEPT ![s] = c]
    BY <1>2, <1>3, <1>4
  <2> HIDE DEF c
  <2>3. r[s] = c /\ \A v \in Streams : v # s => r[v] = stream[v]
    BY <2>2 DEF StreamsOf
  <2>4. r \in StreamsOf(K)
    BY <2>1, <2>2 DEF StreamsOf
  <2> QED
    BY <1>2, <1>4, <2>1, <2>3, <2>4 DEF r
<1>5. CASE stream[s].call # "over"
  <2>1. r = [stream EXCEPT ![s] = taken]
    BY <1>2, <1>3, <1>5
  <2>2. r[s] = taken /\ \A v \in Streams : v # s => r[v] = stream[v]
    BY <2>1 DEF StreamsOf
  <2>3. r \in StreamsOf(K)
    BY <1>2, <2>1 DEF StreamsOf
  <2> QED
    BY <1>2, <1>5, <2>2, <2>3 DEF r
<1> QED
  BY <1>4, <1>5

-----------------------------------------------------------------------------
(* The control of the client: everything but the edits and the streams     *)
ControlOK ==
    /\ room \in {"up", "lost", "offline", "resync", "over", "stopping",
                 "closing", "left"}
    /\ connected \in Objects \cup {None} /\ count \in Nat
    /\ registered \subseteq Objects
    /\ connecting \in Futures
    /\ table \in Streams \cup {None}
    /\ at \in [Tasks -> Task]
    /\ disturbed \in BOOLEAN /\ cancelled \in BOOLEAN
    /\ opens \in 0..MaxOpens /\ losses \in 0..MaxLosses

(* A future somebody waits for is the one of a task that opens. *)
FutureOf(v) == at[v].at = "opening" /\ at[v].future

WaitInv ==
    /\ \A u \in Tasks, v \in Users : at[u] = [at |-> "waiting", on |-> v] => FutureOf(v)
    /\ connecting \in Users => FutureOf(connecting)
    /\ at[Room].at \in {"idle", "closing"}

LEMMA InitControl == Init => ControlOK /\ WaitInv
<1> SUFFICES ASSUME Init PROVE ControlOK /\ WaitInv
  OBVIOUS
<1>1. Idle \in Task
  BY DEF Idle, Task
<1>2. at \in [Tasks -> Task]
  BY <1>1 DEF Init
<1>3. opens \in 0..MaxOpens /\ losses \in 0..MaxLosses /\ count \in Nat
  BY SyncAssumption DEF Init
<1>4. ControlOK
  BY <1>2, <1>3 DEF Init, ControlOK, Futures
<1>5. WaitInv
  BY SyncAssumption DEF Init, WaitInv, Idle, Tasks
<1> QED
  BY <1>4, <1>5

LEMMA UsersAreTasks == Users \subseteq Tasks /\ Room \in Tasks /\ Room \notin Users
  BY SyncAssumption DEF Tasks

(* Where a task can stand *)
LEMMA TaskIs ==
    ASSUME NEW a \in Task
    PROVE  /\ a.at \in {"idle", "resumed", "waiting", "opening", "open", "closing"}
           /\ a.at = "waiting" => a = [at |-> "waiting", on |-> a.on] /\ a.on \in Users \cup {"lost"}
           /\ a.at = "opening" => a = [at |-> "opening", stream |-> a.stream, future |-> a.future]
                                  /\ a.stream \in Streams /\ a.future \in BOOLEAN
           /\ a.at = "open" => a.doc \in Objects
           /\ a.at = "closing" => a.stream \in Streams /\ a.doc \in Objects
           /\ a.at = "idle" => a = Idle
  BY DEF Task, Idle

LEMMA TaskMade ==
    /\ Idle \in Task /\ [at |-> "resumed"] \in Task
    /\ \A v \in Users \cup {"lost"} : [at |-> "waiting", on |-> v] \in Task
    /\ \A s \in Streams, f \in BOOLEAN : [at |-> "opening", stream |-> s, future |-> f] \in Task
    /\ \A o \in Objects : [at |-> "open", doc |-> o] \in Task
    /\ \A s \in Streams, o \in Objects : [at |-> "closing", stream |-> s, doc |-> o] \in Task
  BY DEF Task, Idle

(* Identities that are chosen *)
LEMMA ChosenStream ==
    ASSUME StreamLeft
    PROVE  UnusedStream \in UnusedStreams
  BY DEF StreamLeft, UnusedStream

LEMMA ChosenObject ==
    ASSUME ObjectLeft
    PROVE  UnusedObject \in UnusedObjects
  BY DEF ObjectLeft, UnusedObject

-----------------------------------------------------------------------------
(* What the steps do to the tasks *)

(* The future of u is done: nobody waits for it afterwards. *)
LEMMA WokenTypes ==
    ASSUME ControlOK, NEW u \in Users, NEW next \in Task, NEW to \in Task
    PROVE  Woken(u, next, to) \in [Tasks -> Task]
  BY DEF Woken, ControlOK

LEMMA FutureDoneControl ==
    ASSUME ControlOK, WaitInv, NEW u \in Users, at[u].at = "opening",
           NEW next \in Task, NEW to \in {Idle, [at |-> "resumed"]},
           next.at \in {"idle", "open"}, FutureDone(u, next, to)
    PROVE  /\ at' \in [Tasks -> Task] /\ connecting' \in {connecting, None}
           /\ WaitInv'
<1> USE DEF WaitInv, FutureOf
<1>0. at \in [Tasks -> Task] /\ Users \subseteq Tasks /\ Room \in Tasks /\ u # Room
      /\ Idle \in Task /\ to \in Task /\ at[u] \in Task /\ None \notin Users
  BY TaskMade, UsersAreTasks, SyncAssumption DEF ControlOK
<1>1. CASE at[u].future
  <2>1. connecting' = None /\ at' = Woken(u, next, to)
    BY <1>1 DEF FutureDone
  <2>2. at' \in [Tasks -> Task]
    BY <1>0, <2>1, WokenTypes
  <2>3. ASSUME NEW v \in Tasks, NEW w \in Users, at'[v] = [at |-> "waiting", on |-> w]
        PROVE  at'[w].at = "opening" /\ at'[w].future
    <3>1. at'[v] = at[v] /\ w # u
      BY <1>0, <2>1, <2>3 DEF Woken, Idle
    <3>2. at[w].at = "opening" /\ at[w].future
      BY <2>3, <3>1
    <3>3. at'[w] = at[w]
      BY <1>0, <2>1, <3>1, <3>2 DEF Woken
    <3> QED
      BY <3>2, <3>3
  <2>4. at'[Room].at \in {"idle", "closing"}
    BY <1>0, <2>1 DEF Woken
  <2> QED
    BY <1>0, <2>1, <2>2, <2>3, <2>4
<1>2. CASE ~at[u].future
  <2>1. at' = [at EXCEPT ![u] = Idle] /\ connecting' = connecting
    BY <1>2 DEF FutureDone
  <2>2. ASSUME NEW v \in Tasks, NEW w \in Users, at'[v] = [at |-> "waiting", on |-> w]
        PROVE  at'[w].at = "opening" /\ at'[w].future
    <3>1. at'[v] = at[v]
      BY <1>0, <2>1, <2>2 DEF Idle
    <3> QED
      BY <1>0, <1>2, <2>1, <2>2, <3>1
  <2> QED
    BY <1>0, <1>2, <2>1, <2>2
<1> QED
  BY <1>1, <1>2

LEMMA ProceedControl ==
    ASSUME ControlOK, WaitInv, NEW u \in Users, at[u].at \in {"idle", "resumed"}, Proceed(u)
    PROVE  /\ at' \in [Tasks -> Task] /\ connecting' \in Futures
           /\ count' \in Nat /\ disturbed' \in BOOLEAN /\ UNCHANGED <<connected, registered>>
           /\ WaitInv'
<1> USE DEF WaitInv, FutureOf
<1>0. at \in [Tasks -> Task] /\ Users \subseteq Tasks /\ Room \in Tasks /\ u # Room
      /\ Idle \in Task /\ None \notin Users /\ count \in Nat /\ disturbed \in BOOLEAN
      /\ connecting \in Futures
  BY TaskMade, UsersAreTasks, SyncAssumption DEF ControlOK
<1>1. PICK a \in Task :
        /\ at' = [at EXCEPT ![u] = a] /\ a.at # "waiting"
        /\ \/ connecting' = connecting
           \/ connecting' = None
           \/ connecting' = u /\ a.at = "opening" /\ a.future
  <2>1. CASE Share(u)
    <3>1. [at |-> "open", doc |-> connected] \in Task
      BY <2>1, TaskMade DEF Share, ControlOK
    <3> QED
      BY <2>1, <3>1 DEF Share
  <2>2. CASE StreamLeft /\ connecting' = u
             /\ at' = [at EXCEPT ![u] =
                    [at |-> "opening", stream |-> UnusedStream, future |-> TRUE]]
    <3>1. [at |-> "opening", stream |-> UnusedStream, future |-> TRUE] \in Task
      BY <2>2, ChosenStream, TaskMade DEF UnusedStreams
    <3> QED
      BY <2>2, <3>1
  <2>3. CASE connecting' = None /\ at' = [at EXCEPT ![u] = Idle]
    BY <1>0, <2>3 DEF Idle
  <2> QED
    BY <2>1, <2>2, <2>3 DEF Proceed
<1>2. at' \in [Tasks -> Task] /\ connecting' \in Futures
  BY <1>0, <1>1 DEF Futures
<1>3. count' \in Nat /\ disturbed' \in BOOLEAN /\ UNCHANGED <<connected, registered>>
  <2>1. disturbed' = disturbed \/ disturbed' = (disturbed \/ Opening # {})
    BY DEF Proceed, Share
  <2>2. disturbed' \in BOOLEAN
    BY <1>0, <2>1
  <2>3. count' \in {count, count + 1} /\ UNCHANGED <<connected, registered>>
    BY DEF Proceed, Share, docVars
  <2> QED
    BY <1>0, <2>2, <2>3
<1>4. ASSUME NEW v \in Tasks, NEW w \in Users, at'[v] = [at |-> "waiting", on |-> w]
      PROVE  at'[w].at = "opening" /\ at'[w].future
  <2>1. v # u /\ at'[v] = at[v]
    BY <1>0, <1>1, <1>4
  <2>2. at[w].at = "opening" /\ at[w].future
    BY <1>4, <2>1
  <2> QED
    BY <1>0, <1>1, <2>2
<1>5. connecting' \in Users => at'[connecting'].at = "opening" /\ at'[connecting'].future
  BY <1>0, <1>1
<1>6. at'[Room].at \in {"idle", "closing"}
  BY <1>0, <1>1
<1> QED
  BY <1>2, <1>3, <1>4, <1>5, <1>6

(* A task that does not open goes somewhere else. *)
LEMMA TaskMoves ==
    ASSUME ControlOK, WaitInv, NEW t \in Tasks, at[t].at # "opening",
           NEW a \in Task, a.at # "waiting", t = Room => a.at \in {"idle", "closing"},
           at' = [at EXCEPT ![t] = a], connecting' = connecting
    PROVE  at' \in [Tasks -> Task] /\ WaitInv'
<1> USE DEF WaitInv, FutureOf
<1>0. at \in [Tasks -> Task] /\ Users \subseteq Tasks /\ Room \in Tasks
  BY UsersAreTasks DEF ControlOK
<1>1. at' \in [Tasks -> Task]
  BY <1>0
<1>2. ASSUME NEW v \in Tasks, NEW w \in Users, at'[v] = [at |-> "waiting", on |-> w]
      PROVE  at'[w].at = "opening" /\ at'[w].future
  BY <1>0, <1>2
<1>3. connecting' \in Users => at'[connecting'].at = "opening" /\ at'[connecting'].future
  BY <1>0
<1>4. at'[Room].at \in {"idle", "closing"}
  BY <1>0
<1> QED
  BY <1>1, <1>2, <1>3, <1>4

LEMMA CloseLastControl ==
    ASSUME ControlOK, WaitInv, NEW t \in Tasks, at[t].at # "opening", connected # None,
           CloseLast(t), connecting' = connecting
    PROVE  /\ at' \in [Tasks -> Task] /\ WaitInv'
           /\ connected' = None /\ count' \in Nat /\ registered' \subseteq registered
           /\ table' = None
<1>1. PICK a \in Task : at' = [at EXCEPT ![t] = a] /\ a.at \in {"idle", "closing"}
  <2>1. CASE table # None
    <3>1. [at |-> "closing", stream |-> table, doc |-> connected] \in Task
      BY <2>1, TaskMade DEF ControlOK
    <3> QED
      BY <2>1, <3>1 DEF CloseLast
  <2>2. CASE table = None
    BY <2>2, TaskMade DEF CloseLast, Idle
  <2> QED
    BY <2>1, <2>2
<1>2. at' \in [Tasks -> Task] /\ WaitInv'
  BY <1>1, TaskMoves
<1> QED
  BY <1>2 DEF CloseLast, Unregister, docVars

LEMMA OpenControl ==
    ASSUME ControlOK, WaitInv, NEW u \in Users, Open(u)
    PROVE  ControlOK' /\ WaitInv'
<1>0. opens' \in 0..MaxOpens /\ at[u] = Idle
  BY SyncAssumption DEF Open, ControlOK
<1>1. CASE connecting = None /\ Proceed(u)
  <2>1. at[u].at = "idle"
    BY <1>0 DEF Idle
  <2>2. /\ at' \in [Tasks -> Task] /\ connecting' \in Futures
        /\ count' \in Nat /\ disturbed' \in BOOLEAN /\ UNCHANGED <<connected, registered>>
        /\ WaitInv'
    BY <1>1, <2>1, ProceedControl
  <2> QED
    BY <1>0, <2>2 DEF Open, ControlOK
<1>2. CASE /\ connecting \in Users \cup {"lost"}
           /\ at' = [at EXCEPT ![u] = [at |-> "waiting", on |-> connecting]]
           /\ UNCHANGED <<docVars, connecting, stream, disturbed>>
  <2>0. at \in [Tasks -> Task] /\ u \in Tasks /\ Room \in Tasks /\ u # Room /\ Users \subseteq Tasks
    BY UsersAreTasks DEF ControlOK
  <2>1. at' \in [Tasks -> Task]
    BY <1>2, <2>0, TaskMade
  <2>2. "lost" \notin Users
    BY SyncAssumption
  <2>3. ASSUME NEW v \in Tasks, NEW w \in Users, at'[v] = [at |-> "waiting", on |-> w]
        PROVE  at[w].at = "opening" /\ at[w].future
    <3>1. CASE v = u
      <4>1. [at |-> "waiting", on |-> connecting] = [at |-> "waiting", on |-> w]
        BY <1>2, <2>0, <2>3, <3>1
      <4>2. connecting = w
        BY <4>1
      <4> QED
        BY <4>2 DEF WaitInv, FutureOf
    <3>2. CASE v # u
      BY <1>2, <2>0, <2>3, <3>2 DEF WaitInv, FutureOf
    <3> QED
      BY <3>1, <3>2
  <2>4. ASSUME NEW w \in Users, at[w].at = "opening" PROVE at'[w] = at[w]
    BY <1>0, <1>2, <2>0, <2>4 DEF Idle
  <2>5. WaitInv'
    BY <1>2, <2>0, <2>3, <2>4 DEF WaitInv, FutureOf
  <2> QED
    BY <1>0, <1>2, <2>1, <2>5 DEF Open, ControlOK, docVars
<1> QED
  BY <1>1, <1>2 DEF Open

LEMMA FutureOff ==
    ASSUME NEW a \in Task, a.at = "opening"
    PROVE  [a EXCEPT !.future = FALSE] \in Task /\ [a EXCEPT !.future = FALSE].at = "opening"
<1>1. a \in [at: {"opening"}, stream: Streams, future: BOOLEAN]
  BY DEF Task
<1>2. /\ [a EXCEPT !.future = FALSE] \in [at: {"opening"}, stream: Streams, future: BOOLEAN]
      /\ [a EXCEPT !.future = FALSE].at = "opening"
  BY <1>1
<1> QED
  BY <1>2 DEF Task

LEMMA CancelControl ==
    ASSUME ControlOK, WaitInv, NEW u \in Users, Cancel(u)
    PROVE  ControlOK' /\ WaitInv'
<1>0. /\ at \in [Tasks -> Task] /\ u \in Tasks /\ Room \in Tasks /\ u # Room
      /\ Users \subseteq Tasks /\ at[u] \in Task /\ "lost" \notin Users /\ "cancelled" \notin Users
      /\ "lost" \notin Tasks /\ connecting \in Futures
  BY UsersAreTasks, SyncAssumption DEF ControlOK, Tasks
<1>1. CASE /\ at[u].at = "opening"
           /\ connecting' = IF connecting = u THEN "lost" ELSE connecting
           /\ at' = [v \in Tasks |->
                        IF v = u THEN Idle
                        ELSE IF at[v] = [at |-> "waiting", on |-> u]
                             THEN [at[v] EXCEPT !.on = "lost"] ELSE at[v]]
  <2>1. ASSUME NEW v \in Tasks
        PROVE  at'[v] = IF v = u THEN Idle
                        ELSE IF at[v] = [at |-> "waiting", on |-> u]
                             THEN [at |-> "waiting", on |-> "lost"] ELSE at[v]
    BY <1>1
  <2>2. at' \in [Tasks -> Task]
    BY <1>0, <1>1, <2>1, TaskMade
  <2>3. ASSUME NEW v \in Tasks, NEW w \in Users, at'[v] = [at |-> "waiting", on |-> w]
        PROVE  at'[w].at = "opening" /\ at'[w].future
    <3>1. at'[v] = at[v] /\ w # u
      BY <1>0, <2>1, <2>3 DEF Idle
    <3>2. at[w].at = "opening" /\ at[w].future
      BY <2>3, <3>1 DEF WaitInv, FutureOf
    <3> QED
      BY <1>0, <2>1, <3>1, <3>2
  <2>4. ASSUME connecting' \in Users
        PROVE  at'[connecting'].at = "opening" /\ at'[connecting'].future
    <3>1. connecting' = connecting /\ connecting # u
      BY <1>0, <1>1, <2>4
    <3>2. at[connecting].at = "opening" /\ at[connecting].future
      BY <2>4, <3>1 DEF WaitInv, FutureOf
    <3> QED
      BY <1>0, <2>1, <2>4, <3>1, <3>2
  <2>5. at'[Room].at \in {"idle", "closing"}
    BY <1>0, <2>1 DEF WaitInv
  <2>6. connecting' \in Futures
    BY <1>0, <1>1 DEF Futures
  <2> QED
    BY <2>2, <2>3, <2>4, <2>5, <2>6 DEF WaitInv, FutureOf, Cancel, ControlOK, docVars
<1>2. CASE /\ at[u].at = "waiting"
           /\ connecting' = IF connecting = at[u].on THEN "cancelled" ELSE connecting
           /\ at' = [v \in Tasks |->
                        IF at[v] = at[u] THEN Idle
                        ELSE IF v = at[u].on THEN [at[v] EXCEPT !.future = FALSE] ELSE at[v]]
  <2> DEFINE x == at[u].on
  <2>1. at[u] = [at |-> "waiting", on |-> x] /\ x \in Users \cup {"lost"}
    BY <1>0, <1>2, TaskIs
  <2>2. x \in Users => at[x].at = "opening" /\ at[x].future
    BY <1>0, <2>1 DEF WaitInv, FutureOf
  <2>3. ASSUME NEW v \in Tasks
        PROVE  at'[v] = IF at[v] = at[u] THEN Idle
                        ELSE IF v = x THEN [at[v] EXCEPT !.future = FALSE] ELSE at[v]
    BY <1>2
  <2> HIDE DEF x
  <2>4. ASSUME NEW v \in Tasks, v = x, at[v] # at[u]
        PROVE  [at[v] EXCEPT !.future = FALSE] \in Task /\ [at[v] EXCEPT !.future = FALSE].at = "opening"
    <3>1. v \in Users
      BY <1>0, <2>1, <2>4
    <3>2. at[v].at = "opening" /\ at[v] \in Task
      BY <1>0, <2>2, <2>4, <3>1
    <3> QED
      BY <3>2, FutureOff
  <2>5. at' \in [Tasks -> Task]
    <3>1. \A v \in Tasks : at'[v] \in Task
      BY <1>0, <2>3, <2>4, TaskMade
    <3> QED
      BY <1>2, <3>1
  <2>6. ASSUME NEW v \in Tasks, NEW w \in Users, at'[v] = [at |-> "waiting", on |-> w]
        PROVE  at'[w].at = "opening" /\ at'[w].future
    <3>0. at'[v].at = "waiting"
      BY <2>6
    <3>1. at'[v] = at[v] /\ at[v] # at[u]
      <4>1. at[v] # at[u]
        <5>1. SUFFICES ASSUME at[v] = at[u] PROVE FALSE
          OBVIOUS
        <5>2. at'[v] = Idle
          BY <2>3, <5>1
        <5> QED
          BY <3>0, <5>2 DEF Idle
      <4>2. CASE at[v] # at[u] /\ v = x
        <5>1. at'[v] = [at[v] EXCEPT !.future = FALSE]
          BY <2>3, <4>2
        <5> QED
          BY <2>4, <3>0, <4>2, <5>1
      <4>3. CASE at[v] # at[u] /\ v # x
        BY <2>3, <4>3
      <4> QED
        BY <4>1, <4>2, <4>3
    <3>2. w # x
      BY <2>1, <2>6, <3>1
    <3>3. at[w].at = "opening" /\ at[w].future
      BY <2>6, <3>1 DEF WaitInv, FutureOf
    <3> QED
      BY <1>0, <1>2, <2>3, <3>2, <3>3
  <2>7. ASSUME connecting' \in Users
        PROVE  at'[connecting'].at = "opening" /\ at'[connecting'].future
    <3>1. connecting' = connecting /\ connecting # x
      BY <1>0, <1>2, <2>7 DEF x
    <3>2. at[connecting].at = "opening" /\ at[connecting].future
      BY <2>7, <3>1 DEF WaitInv, FutureOf
    <3> QED
      BY <1>0, <1>2, <2>3, <2>7, <3>1, <3>2
  <2>8. at'[Room].at \in {"idle", "closing"}
    <3>1. Room # x
      BY <1>0, <2>1, UsersAreTasks
    <3>2. at'[Room] = Idle \/ at'[Room] = at[Room]
      BY <1>0, <2>3, <3>1
    <3> QED
      BY <3>2 DEF WaitInv, Idle
  <2>9. connecting' \in Futures
    BY <1>0, <1>2 DEF Futures
  <2> QED
    BY <2>5, <2>6, <2>7, <2>8, <2>9 DEF WaitInv, FutureOf, Cancel, ControlOK, docVars
<1> QED
  BY <1>1, <1>2 DEF Cancel

LEMMA OpenedControl ==
    ASSUME ControlOK, WaitInv, NEW u \in Users, Opened(u)
    PROVE  ControlOK' /\ WaitInv'
<1> DEFINE o == UnusedObject
           fails == ~at[u].future \/ connecting = None
           next == IF fails THEN Idle ELSE [at |-> "open", doc |-> o]
<1>1. o \in Objects
  BY ChosenObject DEF Opened, UnusedObjects
<1>2. at[u].at = "opening" /\ at[u].stream \in Streams
  BY TaskIs, UsersAreTasks DEF Opened, ControlOK
<1>3. next \in Task /\ next.at \in {"idle", "open"}
  BY <1>1, TaskMade DEF Idle
<1>4. FutureDone(u, next, [at |-> "resumed"])
  BY DEF Opened
<1>5. /\ connected' = o /\ count' = 1 /\ registered' = registered \cup {o}
      /\ table' = at[u].stream /\ UNCHANGED <<room, ghosts>>
  BY DEF Opened
<1> HIDE DEF o, fails, next
<1>6. at' \in [Tasks -> Task] /\ connecting' \in {connecting, None} /\ WaitInv'
  BY <1>2, <1>3, <1>4, FutureDoneControl
<1> QED
  BY <1>1, <1>2, <1>5, <1>6 DEF ControlOK, Futures, ghosts, bounds

LEMMA OpenFailsControl ==
    ASSUME ControlOK, WaitInv, NEW u \in Users, OpenFails(u)
    PROVE  ControlOK' /\ WaitInv'
<1>1. at[u].at = "opening" /\ FutureDone(u, Idle, Idle)
      /\ UNCHANGED <<room, docVars, table, ghosts>>
  BY DEF OpenFails
<1>2. at' \in [Tasks -> Task] /\ connecting' \in {connecting, None} /\ WaitInv'
  BY <1>1, FutureDoneControl, TaskMade DEF Idle
<1> QED
  BY <1>1, <1>2 DEF ControlOK, Futures, docVars, ghosts, bounds

LEMMA ResumeControl ==
    ASSUME ControlOK, WaitInv, NEW u \in Users, Resume(u)
    PROVE  ControlOK' /\ WaitInv'
<1>1. at[u].at = "resumed" /\ Proceed(u) /\ UNCHANGED <<room, table, bounds>>
  BY DEF Resume
<1>2. /\ at' \in [Tasks -> Task] /\ connecting' \in Futures
      /\ count' \in Nat /\ disturbed' \in BOOLEAN /\ UNCHANGED <<connected, registered>>
      /\ WaitInv'
  BY <1>1, ProceedControl
<1> QED
  BY <1>1, <1>2 DEF ControlOK, bounds

LEMMA CloseDocumentControl ==
    ASSUME ControlOK, WaitInv, NEW u \in Users, CloseDocument(u)
    PROVE  ControlOK' /\ WaitInv'
<1>1. at[u].at = "open" /\ UNCHANGED <<room, connecting, ghosts>> /\ u \in Tasks /\ u # Room
  BY UsersAreTasks DEF CloseDocument
<1>2. CASE connected # None /\ CloseLast(u)
  <2>1. /\ at' \in [Tasks -> Task] /\ WaitInv'
        /\ connected' = None /\ count' \in Nat /\ registered' \subseteq registered
        /\ table' = None
    BY <1>1, <1>2, CloseLastControl
  <2> QED
    BY <1>1, <2>1 DEF ControlOK, ghosts, bounds
<1>3. CASE /\ at' = [at EXCEPT ![u] = Idle] /\ count' \in {count, count - 1}
           /\ (count' = count - 1 => count > 1)
           /\ UNCHANGED <<connected, registered, table>>
  <2>1. at' \in [Tasks -> Task] /\ WaitInv'
    BY <1>1, <1>3, TaskMoves, TaskMade DEF Idle
  <2>2. count' \in Nat
    BY <1>3 DEF ControlOK
  <2> QED
    BY <1>1, <1>3, <2>1, <2>2 DEF ControlOK, ghosts, bounds
<1>4. CASE connected # None /\ count > 1 /\ count' = count - 1
           /\ at' = [at EXCEPT ![u] = Idle] /\ UNCHANGED <<connected, registered, table>>
  BY <1>3, <1>4
<1>5. CASE at' = [at EXCEPT ![u] = Idle] /\ UNCHANGED <<docVars, table>>
  <2>1. count' = count - 1 => count > 1
    BY <1>5 DEF docVars, ControlOK
  <2> QED
    BY <1>3, <1>5, <2>1 DEF docVars
<1> QED
  BY <1>2, <1>4, <1>5 DEF CloseDocument

LEMMA CloseReturnsControl ==
    ASSUME ControlOK, WaitInv, NEW t \in Tasks, CloseReturns(t)
    PROVE  ControlOK' /\ WaitInv'
<1>1. /\ at[t].at = "closing" /\ at' = [at EXCEPT ![t] = Idle]
      /\ registered' \subseteq registered
      /\ UNCHANGED <<room, connected, count, connecting, table, ghosts>>
  BY DEF CloseReturns, Unregister
<1>2. at' \in [Tasks -> Task] /\ WaitInv'
  BY <1>1, TaskMoves, TaskMade DEF Idle
<1> QED
  BY <1>1, <1>2 DEF ControlOK, ghosts, bounds

LEMMA RoomControl ==
    ASSUME ControlOK, WaitInv, RoomStep,
           room = "resync" => resync.stream \in Streams
    PROVE  ControlOK' /\ WaitInv'
<1>1. CASE UNCHANGED <<connected, count, registered, connecting, at, opens, cancelled>>
           /\ room' \in {"up", "lost", "offline", "resync", "over", "stopping", "closing", "left"}
           /\ table' \in Streams \cup {None} /\ disturbed' \in BOOLEAN /\ losses' \in 0..MaxLosses
  BY <1>1 DEF ControlOK, WaitInv, FutureOf
<1>2. CASE LinkLost
  <2>1. losses' \in 0..MaxLosses
    BY <1>2, SyncAssumption DEF LinkLost, ControlOK
  <2> QED
    BY <1>1, <1>2, <2>1 DEF LinkLost, docVars, ControlOK
<1>3. CASE Disconnected
  BY <1>1, <1>3 DEF Disconnected, Forget, docVars, ghosts, bounds, ControlOK
<1>4. CASE GiveUp
  BY <1>1, <1>4 DEF GiveUp, docVars, ghosts, bounds, ControlOK
<1>5. CASE Reconnect
  BY <1>1, <1>5 DEF Reconnect, docVars, ghosts, bounds, ControlOK
<1>6. CASE AttemptFails
  <2>1. disturbed' \in BOOLEAN
    <3>1. disturbed' = (disturbed \/ \E t \in Tasks : at[t].at \in {"opening", "closing"})
      BY <1>6 DEF AttemptFails
    <3> QED
      BY <3>1
  <2> QED
    BY <1>1, <1>6, <2>1 DEF AttemptFails, Forget, docVars, bounds, ControlOK
<1>7. CASE room = "resync" /\ Reopened
  <2>1. disturbed' \in BOOLEAN
    <3>1. disturbed' = (disturbed \/ resync.doc # connected)
      BY <1>7 DEF Reopened
    <3> QED
      BY <3>1
  <2>2. table' \in Streams /\ room' = "up"
    BY <1>7 DEF Reopened
  <2> QED
    BY <1>1, <1>7, <2>1, <2>2 DEF Reopened, bounds, ControlOK
<1>8. CASE Exit
  BY <1>1, <1>8 DEF Exit, docVars, ghosts, bounds, ControlOK
<1>9. CASE Stop
  <2>1. CASE connected # None /\ CloseLast(Room) /\ room' = "closing"
    <3>0. UNCHANGED <<connecting, ghosts>> /\ Room \in Tasks /\ at[Room].at # "opening"
      BY <1>9, UsersAreTasks DEF Stop, WaitInv
    <3>1. /\ at' \in [Tasks -> Task] /\ WaitInv'
          /\ connected' = None /\ count' \in Nat /\ registered' \subseteq registered
          /\ table' = None
      BY <2>1, <3>0, CloseLastControl
    <3> QED
      BY <2>1, <3>0, <3>1 DEF ControlOK, ghosts, bounds
  <2>2. CASE room' = "closing" /\ UNCHANGED <<docVars, base, table, stream, at>>
    BY <1>1, <1>9, <2>2 DEF Stop, docVars, ghosts, bounds, ControlOK
  <2> QED
    BY <1>9, <2>1, <2>2 DEF Stop
<1>10. CASE StopEnds
  BY <1>1, <1>10 DEF StopEnds, docVars, ghosts, bounds, ControlOK
<1> QED
  BY <1>2, <1>3, <1>4, <1>5, <1>6, <1>7, <1>8, <1>9, <1>10 DEF RoomStep, ResyncEnds

(* The rest does not touch the control. *)
controlVars == <<room, connected, count, registered, connecting, table, at, disturbed,
                 cancelled, opens, losses>>

LEMMA ControlAlone ==
    ASSUME \/ \E u \in Users, e \in LocalEdits : Edit(u, e)
           \/ \E s \in Streams : Consume(s)
           \/ Server
           \/ UNCHANGED vars
    PROVE  UNCHANGED controlVars
<1> USE DEF controlVars, docVars, ghosts, bounds, serverVars
<1>1. ASSUME NEW u \in Users, NEW e \in LocalEdits, Edit(u, e) PROVE UNCHANGED controlVars
  BY <1>1 DEF Edit
<1>2. ASSUME NEW s \in Streams, Consume(s) PROVE UNCHANGED controlVars
  BY <1>2 DEF Consume
<1>3. CASE Server
  BY <1>3 DEF Server, ServerOpens, ServerRefuses, ServerTakes, ServerCloses, ServerEnds,
              PeerEditsDocument
<1>4. CASE UNCHANGED vars
  BY <1>4 DEF vars
<1> QED
  BY <1>1, <1>2, <1>3, <1>4

LEMMA NextControl ==
    ASSUME ControlOK, WaitInv, [Next]_vars, room = "resync" => resync.stream \in Streams
    PROVE  ControlOK' /\ WaitInv'
<1>1. CASE UNCHANGED controlVars
  BY <1>1 DEF ControlOK, WaitInv, FutureOf, controlVars
<1>2. ASSUME NEW u \in Users, User(u) PROVE ControlOK' /\ WaitInv'
  BY <1>1, <1>2, ControlAlone, OpenControl, ResumeControl, OpenedControl, OpenFailsControl,
     CancelControl, CloseDocumentControl DEF User
<1> QED
  BY <1>1, <1>2, ControlAlone, CloseReturnsControl, RoomControl DEF Next

-----------------------------------------------------------------------------
(* The edits there are so far *)
Known == made \cup PeerEdits

(* TypeOK, with no edit anywhere before it is made *)
DataOK ==
    /\ content \in [Objects -> SUBSET Known]
    /\ base \in [known: BOOLEAN, edits: SUBSET Known]
    /\ stream \in StreamsOf(Known)
    /\ resync \in {Idle} \cup [at: {"opening"}, stream: Streams, doc: Objects,
                               payload: SUBSET Known]
    /\ server \subseteq Known /\ made \subseteq LocalEdits

(* What every step of the server does to a stream *)
Same(a, b) == Alike(a, b) /\ a.up = b.up /\ a.down = b.down

(* The server takes the head of the queue. *)
Pulled(a, b) ==
    /\ b.up # <<>> /\ a.call = b.call
    /\ b.call # "over" => /\ a.doc = b.doc /\ a.open = b.open /\ a.link = b.link
                          /\ a.up = Tail(b.up)
    /\ b.call = "over" => /\ a.down = <<>> /\ a.doc = None /\ ~a.open
                          /\ a.up \in {Tail(b.up), Append(Tail(b.up), Close)}
                          /\ a.up # <<>> => a.link = b.link

(* ... and tells the client c, if the call is not over. *)
Told(a, b, c) ==
    a.down = IF b.call # "over" THEN Append(b.down, c) ELSE b.down

LEMMA TakenMoves ==
    ASSUME NEW K, stream \in StreamsOf(K), NEW s \in Streams, NEW served \in BOOLEAN,
           stream[s].up # <<>>
    PROVE  LET r == Taken(s, served)
           IN /\ r \in StreamsOf(K)
              /\ \A v \in Streams \ {s} : Same(r[v], stream[v])
              /\ Pulled(r[s], stream[s]) /\ r[s].served = served
              /\ stream[s].call # "over" => r[s].down = stream[s].down
  BY TakenIs DEF Same, Pulled, Alike

(* Taken, and one chunk down the same stream *)
LEMMA TakenTold ==
    ASSUME NEW K, stream \in StreamsOf(K), NEW s \in Streams, NEW served \in BOOLEAN,
           stream[s].up # <<>>, NEW c \in ChunkOf(K)
    PROVE  LET r == Tell(Taken(s, served), {s}, c)
           IN /\ r \in StreamsOf(K)
              /\ \A v \in Streams \ {s} : Same(r[v], stream[v])
              /\ Pulled(r[s], stream[s]) /\ r[s].served = served
              /\ stream[s].call # "over" => r[s].down = Append(stream[s].down, c)
<1> DEFINE t == Taken(s, served)
           r == Tell(t, {s}, c)
<1>1. /\ t \in StreamsOf(K)
      /\ \A v \in Streams \ {s} : Same(t[v], stream[v])
      /\ Pulled(t[s], stream[s]) /\ t[s].served = served
      /\ stream[s].call # "over" => t[s].down = stream[s].down
  BY TakenMoves
<1> HIDE DEF t
<1>2. /\ r \in StreamsOf(K)
      /\ \A v \in Streams :
            /\ Alike(r[v], t[v]) /\ r[v].up = t[v].up
            /\ r[v].down = IF v \in {s} /\ t[v].call # "over" THEN Append(t[v].down, c)
                           ELSE t[v].down
  BY <1>1, TellIs
<1> HIDE DEF r
<1>3. \A v \in Streams \ {s} : Same(r[v], stream[v])
  BY <1>1, <1>2 DEF Same, Alike
<1>4. Pulled(r[s], stream[s]) /\ r[s].served = served
  BY <1>1, <1>2 DEF Pulled, Alike
<1>5. stream[s].call # "over" => r[s].down = Append(stream[s].down, c)
  BY <1>1, <1>2 DEF Pulled
<1> QED
  BY <1>2, <1>3, <1>4, <1>5 DEF r, t

(* How far the server gets *)
ServerVars == <<room, docVars, connecting, table, base, at, resync, made, ghosts>>

LEMMA AskedIs ==
    ASSUME DataOK, NEW s \in Streams, NEW type, Asked(s, type)
    PROVE  /\ stream[s].up # <<>> /\ Head(stream[s].up).edits \subseteq Known
           /\ Head(stream[s].up) \in ChunkOf(Known) /\ Head(stream[s].up).type = type
<1>1. stream[s] \in StreamOf(Known)
  BY DEF DataOK, StreamsOf
<1> QED
  BY <1>1, HeadOf DEF Asked, ChunkOf

LEMMA ServerOpensIs ==
    ASSUME DataOK, NEW s \in Streams, ServerOpens(s)
    PROVE  /\ stream' \in StreamsOf(Known) /\ UNCHANGED <<ServerVars, server>>
           /\ \A v \in Streams \ {s} : Same(stream'[v], stream[v])
           /\ Pulled(stream'[s], stream[s]) /\ stream'[s].served = TRUE
           /\ stream[s].call # "over" =>
                stream'[s].down = Append(stream[s].down, State(server \ Head(stream[s].up).edits))
<1>1. stream[s].up # <<>>
  BY AskedIs DEF ServerOpens
<1>2. State(server \ Head(stream[s].up).edits) \in ChunkOf(Known)
  BY ChunkMade DEF DataOK
<1>3. UNCHANGED <<ServerVars, server>>
  BY DEF ServerOpens, ServerVars, serverVars
<1>4. stream \in StreamsOf(Known)
      /\ stream' = Tell(Taken(s, TRUE), {s}, State(server \ Head(stream[s].up).edits))
  BY DEF DataOK, ServerOpens
<1>5. PICK c \in ChunkOf(Known) : c = State(server \ Head(stream[s].up).edits)
  BY <1>2
<1>6. stream \in StreamsOf(Known) /\ stream' = Tell(Taken(s, TRUE), {s}, c)
  BY <1>4, <1>5
<1>7. /\ stream' \in StreamsOf(Known)
      /\ \A v \in Streams \ {s} : Same(stream'[v], stream[v])
      /\ Pulled(stream'[s], stream[s]) /\ stream'[s].served = TRUE
      /\ stream[s].call # "over" => stream'[s].down = Append(stream[s].down, c)
  BY <1>1, <1>6, TakenTold, Zenon
<1> QED
  BY <1>3, <1>5, <1>7

LEMMA ServerRefusesIs ==
    ASSUME DataOK, NEW s \in Streams, ServerRefuses(s)
    PROVE  /\ stream' \in StreamsOf(Known) /\ UNCHANGED <<ServerVars, server>>
           /\ \A v \in Streams \ {s} : Same(stream'[v], stream[v])
           /\ Pulled(stream'[s], stream[s]) /\ stream'[s].served = FALSE
           /\ stream[s].call # "over" => stream'[s].down = Append(stream[s].down, Error)
<1>1. stream[s].up # <<>>
  BY AskedIs DEF ServerRefuses
<1>2. Error \in ChunkOf(Known)
  BY ChunkMade DEF DataOK
<1>3. UNCHANGED <<ServerVars, server>>
  BY DEF ServerRefuses, ServerVars, serverVars
<1>4. stream \in StreamsOf(Known) /\ stream' = Tell(Taken(s, FALSE), {s}, Error)
  BY DEF DataOK, ServerRefuses
<1> QED
  BY <1>1, <1>2, <1>3, <1>4, TakenTold

LEMMA ServerTakesIs ==
    ASSUME DataOK, NEW s \in Streams, ServerTakes(s)
    PROVE  /\ stream' \in StreamsOf(Known) /\ UNCHANGED ServerVars
           /\ server' \subseteq Known
           /\ Pulled(stream'[s], stream[s]) /\ stream'[s].served = stream[s].served
           /\ stream[s].call # "over" => stream'[s].down = stream[s].down
           /\ \/ /\ ~stream[s].served /\ server' = server
                 /\ \A v \in Streams \ {s} : Same(stream'[v], stream[v])
              \/ /\ stream[s].served /\ server' = server \cup Head(stream[s].up).edits
                 /\ \A v \in Streams \ {s} :
                       /\ Alike(stream'[v], stream[v]) /\ stream'[v].up = stream[v].up
                       /\ stream'[v].down = IF stream[v].served /\ stream[v].call # "over"
                                            THEN Append(stream[v].down, Sync(Head(stream[s].up).edits))
                                            ELSE stream[v].down
<1> DEFINE E == Head(stream[s].up).edits
<1>1. stream[s].up # <<>> /\ E \subseteq Known
  BY AskedIs DEF ServerTakes
<1>2. stream \in StreamsOf(Known) /\ server \subseteq Known
  BY DEF DataOK
<1>3. UNCHANGED ServerVars
  BY DEF ServerTakes, ServerVars
<1> HIDE DEF E
<1>4. CASE stream[s].served
  <2> DEFINE t == Taken(s, TRUE)
  <2>1. /\ t \in StreamsOf(Known)
        /\ \A v \in Streams \ {s} : Same(t[v], stream[v])
        /\ Pulled(t[s], stream[s]) /\ t[s].served = TRUE
        /\ stream[s].call # "over" => t[s].down = stream[s].down
    BY <1>1, <1>2, TakenMoves
  <2>2. stream' = Tell(t, Served \ {s}, Sync(E)) /\ server' = server \cup E
    BY <1>4 DEF ServerTakes, E
  <2>3. Sync(E) \in ChunkOf(Known)
    BY <1>1, ChunkMade
  <2> HIDE DEF t
  <2>4. /\ stream' \in StreamsOf(Known)
        /\ \A v \in Streams :
              /\ Alike(stream'[v], t[v]) /\ stream'[v].up = t[v].up
              /\ stream'[v].down = IF v \in Served \ {s} /\ t[v].call # "over"
                                   THEN Append(t[v].down, Sync(E)) ELSE t[v].down
    BY <2>1, <2>2, <2>3, TellIs
  <2>5. stream[s].served = TRUE
    BY <1>2, <1>4 DEF StreamsOf, StreamOf
  <2>6. Pulled(stream'[s], stream[s]) /\ stream'[s].served = stream[s].served
        /\ (stream[s].call # "over" => stream'[s].down = stream[s].down)
    BY <2>1, <2>4, <2>5 DEF Pulled, Alike
  <2>7. ASSUME NEW v \in Streams \ {s}
        PROVE  /\ Alike(stream'[v], stream[v]) /\ stream'[v].up = stream[v].up
               /\ stream'[v].down = IF stream[v].served /\ stream[v].call # "over"
                                    THEN Append(stream[v].down, Sync(E)) ELSE stream[v].down
    <3>1. v \in Served \ {s} <=> stream[v].served
      BY DEF Served
    <3> QED
      BY <2>1, <2>4, <3>1 DEF Same, Alike
  <2>8. server' \subseteq Known
    BY <1>1, <1>2, <2>2
  <2> QED
    BY <1>3, <1>4, <2>2, <2>4, <2>6, <2>7, <2>8 DEF E
<1>5. CASE ~stream[s].served
  <2>1. stream' = Taken(s, FALSE) /\ server' = server
    BY <1>5 DEF ServerTakes
  <2>2. stream[s].served = FALSE
    BY <1>2, <1>5 DEF StreamsOf, StreamOf
  <2>3. /\ stream' \in StreamsOf(Known)
        /\ \A v \in Streams \ {s} : Same(stream'[v], stream[v])
        /\ Pulled(stream'[s], stream[s]) /\ stream'[s].served = FALSE
        /\ stream[s].call # "over" => stream'[s].down = stream[s].down
    BY <1>1, <1>2, <2>1, TakenMoves
  <2> QED
    BY <1>2, <1>3, <1>5, <2>1, <2>2, <2>3
<1> QED
  BY <1>4, <1>5

LEMMA ServerClosesIs ==
    ASSUME DataOK, NEW s \in Streams, ServerCloses(s)
    PROVE  /\ stream' \in StreamsOf(Known) /\ UNCHANGED <<ServerVars, server>>
           /\ \A v \in Streams \ {s} : Same(stream'[v], stream[v])
           /\ Pulled(stream'[s], stream[s]) /\ stream'[s].served = FALSE
           /\ stream[s].call # "over" =>
                stream'[s].down \in {stream[s].down, Append(stream[s].down, Close)}
<1>1. stream[s].up # <<>>
  BY AskedIs DEF ServerCloses
<1>2. Close \in ChunkOf(Known)
  BY ChunkMade DEF DataOK
<1>3. UNCHANGED <<ServerVars, server>>
  BY DEF ServerCloses, ServerVars, serverVars
<1>4. stream \in StreamsOf(Known)
  BY DEF DataOK
<1>5. CASE stream[s].served
  <2>1. stream' = Tell(Taken(s, FALSE), {s}, Close)
    BY <1>5 DEF ServerCloses
  <2> QED
    BY <1>1, <1>2, <1>3, <1>4, <2>1, TakenTold
<1>6. CASE ~stream[s].served
  <2>1. stream' = Taken(s, FALSE)
    BY <1>6 DEF ServerCloses
  <2> QED
    BY <1>1, <1>3, <1>4, <2>1, TakenMoves
<1> QED
  BY <1>5, <1>6

LEMMA ServerEndsIs ==
    ASSUME DataOK, NEW s \in Streams, ServerEnds(s)
    PROVE  /\ stream' \in StreamsOf(Known) /\ UNCHANGED <<ServerVars, server>>
           /\ \A v \in Streams \ {s} : Same(stream'[v], stream[v])
           /\ stream'[s].served = FALSE /\ stream'[s].call = stream[s].call
           /\ stream[s].call # "over" =>
                /\ stream'[s].doc = stream[s].doc /\ stream'[s].open = stream[s].open
                /\ stream'[s].link = stream[s].link /\ stream'[s].up = stream[s].up
                /\ stream'[s].down = Append(stream[s].down, Close)
           /\ stream[s].call = "over" => stream'[s].down = <<>> /\ ~stream'[s].open
<1>1. Close \in ChunkOf(Known) /\ stream[s] \in StreamOf(Known) /\ stream \in StreamsOf(Known)
  BY ChunkMade DEF DataOK, StreamsOf
<1>2. UNCHANGED <<ServerVars, server>>
  BY DEF ServerEnds, ServerVars, serverVars
<1> DEFINE b == [stream[s] EXCEPT !.served = FALSE]
<1>3. /\ b \in StreamOf(Known) /\ b.call = stream[s].call /\ b.doc = stream[s].doc
      /\ b.open = stream[s].open /\ b.link = stream[s].link /\ b.up = stream[s].up
      /\ b.down = stream[s].down /\ b.served = FALSE
  BY <1>1 DEF StreamOf
<1>4. CASE stream[s].call = "over"
  <2> DEFINE c == Over(b)
  <2>1. stream' = [stream EXCEPT ![s] = c]
    BY <1>4 DEF ServerEnds
  <2> HIDE DEF b
  <2>2. c \in StreamOf(Known) /\ c.call = "over" /\ ~c.open /\ c.down = <<>> /\ c.served = FALSE
    BY <1>3, OverIs
  <2> HIDE DEF c
  <2>3. stream' \in StreamsOf(Known) /\ stream'[s] = c /\ \A v \in Streams \ {s} : stream'[v] = stream[v]
    BY <1>1, <2>1, <2>2 DEF StreamsOf
  <2> QED
    BY <1>2, <1>4, <2>2, <2>3 DEF Same, Alike
<1>5. CASE stream[s].call # "over"
  <2> DEFINE t == [stream EXCEPT ![s] = b]
  <2>1. stream' = Tell(t, {s}, Close)
    BY <1>5 DEF ServerEnds
  <2> HIDE DEF b
  <2>2. t \in StreamsOf(Known) /\ t[s] = b /\ \A v \in Streams \ {s} : t[v] = stream[v]
    BY <1>1, <1>3 DEF StreamsOf
  <2> HIDE DEF t
  <2>3. /\ stream' \in StreamsOf(Known)
        /\ \A v \in Streams :
              /\ Alike(stream'[v], t[v]) /\ stream'[v].up = t[v].up
              /\ stream'[v].down = IF v \in {s} /\ t[v].call # "over" THEN Append(t[v].down, Close)
                                   ELSE t[v].down
    BY <1>1, <2>1, <2>2, TellIs
  <2>4. \A v \in Streams \ {s} : Same(stream'[v], stream[v])
    BY <2>2, <2>3 DEF Same, Alike
  <2>5. /\ stream'[s].served = FALSE /\ stream'[s].call = stream[s].call
        /\ stream'[s].doc = stream[s].doc /\ stream'[s].open = stream[s].open
        /\ stream'[s].link = stream[s].link /\ stream'[s].up = stream[s].up
        /\ stream'[s].down = Append(stream[s].down, Close)
    BY <1>3, <1>5, <2>2, <2>3 DEF Alike
  <2> QED
    BY <1>2, <1>5, <2>3, <2>4, <2>5
<1> QED
  BY <1>4, <1>5

LEMMA PeerEditsIs ==
    ASSUME DataOK, NEW e \in PeerEdits, PeerEditsDocument(e)
    PROVE  /\ stream' \in StreamsOf(Known) /\ UNCHANGED ServerVars
           /\ server' = server \cup {e} /\ server' \subseteq Known
           /\ \A v \in Streams :
                 /\ Alike(stream'[v], stream[v]) /\ stream'[v].up = stream[v].up
                 /\ stream'[v].down = IF stream[v].served /\ stream[v].call # "over"
                                      THEN Append(stream[v].down, Sync({e})) ELSE stream[v].down
<1> DEFINE c == Sync({e})
<1>1. {e} \subseteq Known /\ stream \in StreamsOf(Known) /\ server \subseteq Known
  BY DEF DataOK, Known
<1>2. UNCHANGED ServerVars /\ stream' = Tell(stream, Served, c) /\ server' = server \cup {e}
  BY DEF PeerEditsDocument, ServerVars
<1>3. c \in ChunkOf(Known)
  BY <1>1, ChunkMade
<1>4. \A v \in Streams : v \in Served <=> stream[v].served
  BY DEF Served
<1> HIDE DEF c
<1>5. /\ stream' \in StreamsOf(Known)
      /\ \A v \in Streams :
            /\ Alike(stream'[v], stream[v]) /\ stream'[v].up = stream[v].up
            /\ stream'[v].down = IF v \in Served /\ stream[v].call # "over"
                                 THEN Append(stream[v].down, c) ELSE stream[v].down
  BY <1>1, <1>2, <1>3, TellIs
<1>6. server' \subseteq Known
  BY <1>1, <1>2
<1> QED
  BY <1>2, <1>4, <1>5, <1>6 DEF c

-----------------------------------------------------------------------------
(* What the steps of the client do to the streams *)

LEMMA SameIs == \A a : Same(a, a)
  BY DEF Same, Alike

(* A stream is asked for, with the vector E. *)
Fresh(a, E) ==
    /\ a.call = "opening" /\ a.open /\ ~a.served /\ a.down = <<>>
    /\ a.up \in {<<>>, <<Start(E)>>} /\ (room # "lost" => a.link = "live")

LEMMA AskedFor ==
    ASSUME DataOK, StreamLeft, NEW E \in SUBSET Known,
           stream' = [stream EXCEPT ![UnusedStream] = Asking(E)]
    PROVE  /\ stream' \in StreamsOf(Known) /\ UnusedStream \in Streams
           /\ \A v \in Streams \ {UnusedStream} : stream'[v] = stream[v]
           /\ Fresh(stream'[UnusedStream], E)
           /\ stream[UnusedStream].call = "over" /\ UnusedStream # table
<1>1. UnusedStream \in Streams /\ stream[UnusedStream].call = "over" /\ UnusedStream # table
  BY ChosenStream DEF UnusedStreams
<1>2. Asking(E) \in StreamOf(Known) /\ Fresh(Asking(E), E)
  BY AskingIs DEF Fresh
<1>3. stream \in StreamsOf(Known)
  BY DEF DataOK
<1>4. /\ stream' \in StreamsOf(Known) /\ stream'[UnusedStream] = Asking(E)
      /\ \A v \in Streams \ {UnusedStream} : stream'[v] = stream[v]
  BY <1>1, <1>2, <1>3 DEF StreamsOf
<1> QED
  BY <1>1, <1>2, <1>4

(* A stream answered with the state is attached to the document o. *)
LEMMA AttachedIs ==
    ASSUME NEW K, stream \in StreamsOf(K), NEW s \in Streams, NEW o \in Objects,
           stream[s].down # <<>>
    PROVE  LET r == [stream EXCEPT ![s].call = "running", ![s].doc = o, ![s].down = Tail(@)]
           IN /\ r \in StreamsOf(K) /\ \A v \in Streams \ {s} : r[v] = stream[v]
              /\ r[s].call = "running" /\ r[s].doc = o /\ r[s].open = stream[s].open
              /\ r[s].link = stream[s].link /\ r[s].served = stream[s].served
              /\ r[s].up = stream[s].up /\ r[s].down = Tail(stream[s].down)
<1> DEFINE r == [stream EXCEPT ![s].call = "running", ![s].doc = o, ![s].down = Tail(@)]
<1>1. stream[s] \in StreamOf(K) /\ Tail(stream[s].down) \in Seq(ChunkOf(K))
  BY HeadOf DEF StreamsOf
<1>2. PICK a : a = [stream[s] EXCEPT !.call = "running", !.doc = o, !.down = Tail(stream[s].down)]
  OBVIOUS
<1>3. /\ a \in StreamOf(K) /\ a.call = "running" /\ a.doc = o /\ a.open = stream[s].open
      /\ a.link = stream[s].link /\ a.served = stream[s].served
      /\ a.up = stream[s].up /\ a.down = Tail(stream[s].down)
  BY <1>1, <1>2 DEF StreamOf
<1>4. r = [stream EXCEPT ![s] = a]
  BY <1>2 DEF StreamsOf
<1> HIDE DEF r
<1>5. r \in StreamsOf(K) /\ r[s] = a /\ \A v \in Streams \ {s} : r[v] = stream[v]
  BY <1>3, <1>4 DEF StreamsOf
<1> QED
  BY <1>3, <1>5 DEF r

LEMMA OpenedIs ==
    ASSUME ControlOK, DataOK, NEW u \in Users, Opened(u)
    PROVE  LET s == at[u].stream
               E == Head(stream[s].down).edits
           IN /\ s \in Streams /\ UnusedObject \in UnusedObjects /\ E \subseteq Known
              /\ stream[s].down # <<>> /\ Head(stream[s].down).type = "state"
              /\ stream' \in StreamsOf(Known)
              /\ \A v \in Streams \ {s} : Same(stream'[v], stream[v])
              /\ stream'[s].call = "running" /\ stream'[s].doc = UnusedObject
              /\ stream'[s].link = stream[s].link /\ stream'[s].served = stream[s].served
              /\ stream'[s].down = Tail(stream[s].down)
              /\ stream'[s].open => at[u].future /\ connecting # None
              /\ \E q \in {stream[s].up, Append(stream[s].up, Sync(E))} :
                    stream'[s].up \in {q, Append(q, Close)}
<1> DEFINE s == at[u].stream
           o == UnusedObject
           E == Head(stream[s].down).edits
           fails == ~at[u].future \/ connecting = None
           attached == [stream EXCEPT ![s].call = "running", ![s].doc = o, ![s].down = Tail(@)]
           echoed == Publish(attached, s, E)
<1>1. s \in Streams /\ o \in UnusedObjects /\ o \in Objects
  BY TaskIs, UsersAreTasks, ChosenObject DEF Opened, ControlOK, UnusedObjects
<1>2. stream[s].down # <<>> /\ Head(stream[s].down).type = "state"
      /\ stream' = IF fails THEN [echoed EXCEPT ![s] = CloseInput(@)] ELSE echoed
  BY DEF Opened
<1>3. stream \in StreamsOf(Known) /\ E \subseteq Known
  <2>1. stream \in StreamsOf(Known) /\ stream[s] \in StreamOf(Known)
    BY <1>1 DEF DataOK, StreamsOf
  <2>2. Head(stream[s].down) \in ChunkOf(Known)
    BY <1>2, <2>1, HeadOf
  <2> QED
    BY <2>1, <2>2 DEF ChunkOf
<1> HIDE DEF s, o, E, fails
<1>4. /\ attached \in StreamsOf(Known) /\ \A v \in Streams \ {s} : attached[v] = stream[v]
      /\ attached[s].call = "running" /\ attached[s].doc = o /\ attached[s].open = stream[s].open
      /\ attached[s].link = stream[s].link /\ attached[s].served = stream[s].served
      /\ attached[s].up = stream[s].up /\ attached[s].down = Tail(stream[s].down)
  BY <1>1, <1>2, <1>3, AttachedIs
<1> HIDE DEF attached
<1>5. /\ echoed \in StreamsOf(Known)
      /\ \A v \in Streams :
            /\ Alike(echoed[v], attached[v]) /\ echoed[v].down = attached[v].down
            /\ echoed[v].up = IF v = s /\ E # {} /\ attached[v].open /\ attached[v].link = "live"
                              THEN Append(attached[v].up, Sync(E)) ELSE attached[v].up
  BY <1>1, <1>3, <1>4, PublishIs
<1> HIDE DEF echoed
<1>6. /\ echoed[s].call = "running" /\ echoed[s].doc = o
      /\ echoed[s].link = stream[s].link /\ echoed[s].served = stream[s].served
      /\ echoed[s].down = Tail(stream[s].down)
      /\ echoed[s].up \in {stream[s].up, Append(stream[s].up, Sync(E))}
      /\ \A v \in Streams \ {s} : Same(echoed[v], stream[v])
  <2>1. /\ Alike(echoed[s], attached[s]) /\ echoed[s].down = attached[s].down
        /\ echoed[s].up \in {attached[s].up, Append(attached[s].up, Sync(E))}
    BY <1>1, <1>5
  <2>2. ASSUME NEW v \in Streams \ {s} PROVE Same(echoed[v], stream[v])
    <3>1. attached[v] = stream[v] /\ Alike(echoed[v], attached[v])
          /\ echoed[v].down = attached[v].down /\ echoed[v].up = attached[v].up
      BY <1>4, <1>5
    <3> QED
      BY <3>1 DEF Same
  <2> QED
    BY <1>4, <2>1, <2>2 DEF Alike
<1>7. CASE fails
  <2> DEFINE c == CloseInput(echoed[s])
  <2>1. stream' = [echoed EXCEPT ![s] = c] /\ echoed[s] \in StreamOf(Known)
    BY <1>1, <1>2, <1>5, <1>7 DEF StreamsOf
  <2>2. /\ c \in StreamOf(Known)
        /\ c.call = echoed[s].call /\ c.doc = echoed[s].doc /\ c.link = echoed[s].link
        /\ c.served = echoed[s].served /\ c.down = echoed[s].down /\ ~c.open
        /\ c.up \in {echoed[s].up, Append(echoed[s].up, Close)}
    BY <2>1, CloseInputIs
  <2> HIDE DEF c
  <2>3. stream' \in StreamsOf(Known) /\ stream'[s] = c /\ \A v \in Streams \ {s} : stream'[v] = echoed[v]
    BY <1>1, <1>5, <2>1, <2>2 DEF StreamsOf
  <2>4. \A v \in Streams \ {s} : Same(stream'[v], stream[v])
    BY <1>6, <2>3
  <2> QED
    BY <1>1, <1>2, <1>3, <1>6, <2>2, <2>3, <2>4 DEF s, o, E
<1>8. CASE ~fails
  <2>1. stream' = echoed /\ at[u].future /\ connecting # None
    BY <1>2, <1>8 DEF fails
  <2> QED
    BY <1>1, <1>2, <1>3, <1>5, <1>6, <2>1 DEF s, o, E
<1> QED
  BY <1>7, <1>8

(* A call is over. *)
Finished(a, b) ==
    /\ a.call = "over" /\ a.doc = None /\ ~a.open /\ a.down = <<>> /\ a.served = b.served
    /\ a.up \in {b.up, Append(b.up, Close)} /\ (a.up # <<>> => a.link = b.link)

LEMMA OverMoves ==
    ASSUME NEW K, stream \in StreamsOf(K), NEW s \in Streams,
           stream' = [stream EXCEPT ![s] = Over(@)]
    PROVE  /\ stream' \in StreamsOf(K) /\ Finished(stream'[s], stream[s])
           /\ \A v \in Streams \ {s} : stream'[v] = stream[v]
<1>1. stream[s] \in StreamOf(K)
  BY DEF StreamsOf
<1>2. Over(stream[s]) \in StreamOf(K) /\ Finished(Over(stream[s]), stream[s])
  BY <1>1, OverIs DEF Finished
<1>3. stream' = [stream EXCEPT ![s] = Over(stream[s])]
  OBVIOUS
<1> QED
  BY <1>2, <1>3 DEF StreamsOf

(* The input of the stream in the table ends. *)
Shut(a, b) ==
    /\ a.call = b.call /\ a.doc = b.doc /\ a.link = b.link /\ a.served = b.served
    /\ a.down = b.down /\ ~a.open /\ a.up \in {b.up, Append(b.up, Close)}

LEMMA CloseLastIs ==
    ASSUME ControlOK, DataOK, NEW t \in Tasks, connected # None, CloseLast(t)
    PROVE  /\ stream' \in StreamsOf(Known)
           /\ \A v \in Streams : v # table => stream'[v] = stream[v]
           /\ table # None => Shut(stream'[table], stream[table])
           /\ content' \in [Objects -> SUBSET Known]
           /\ \A o \in Objects : o # connected => content'[o] = content[o]
<1>1. stream \in StreamsOf(Known) /\ content \in [Objects -> SUBSET Known] /\ connected \in Objects
  BY DEF DataOK, ControlOK
<1>2. CASE table # None
  <2>1. table \in Streams /\ stream[table] \in StreamOf(Known)
    BY <1>1, <1>2 DEF ControlOK, StreamsOf
  <2>2. stream' = [stream EXCEPT ![table] = CloseInput(stream[table])] /\ content' = content
    BY <1>2 DEF CloseLast
  <2>3. CloseInput(stream[table]) \in StreamOf(Known) /\ Shut(CloseInput(stream[table]), stream[table])
    BY <2>1, CloseInputIs DEF Shut
  <2>4. /\ stream' \in StreamsOf(Known) /\ stream'[table] = CloseInput(stream[table])
        /\ \A v \in Streams \ {table} : stream'[v] = stream[v]
    BY <1>1, <2>1, <2>2, <2>3 DEF StreamsOf
  <2> QED
    BY <1>1, <2>2, <2>3, <2>4
<1>3. CASE table = None
  <2>1. stream' = stream /\ content' = [content EXCEPT ![connected] = {}]
    BY <1>3 DEF CloseLast, Unregister
  <2> QED
    BY <1>1, <1>3, <2>1
<1> QED
  BY <1>2, <1>3

LEMMA EditIs ==
    ASSUME ControlOK, DataOK, NEW u \in Users, NEW e \in LocalEdits, Edit(u, e)
    PROVE  /\ Known' = Known \cup {e} /\ e \notin made /\ made' = made \cup {e}
           /\ at[u].at = "open" /\ at[u].doc \in registered /\ at[u].doc \in Objects
           /\ content' = [content EXCEPT ![at[u].doc] = content[at[u].doc] \cup {e}]
           /\ stream' \in StreamsOf(Known')
           /\ \A s \in Streams :
                 /\ Alike(stream'[s], stream[s]) /\ stream'[s].down = stream[s].down
                 /\ stream'[s].up = IF s = table /\ stream[s].open /\ stream[s].link = "live"
                                    THEN Append(stream[s].up, Sync({e})) ELSE stream[s].up
<1>1. /\ e \notin made /\ made' = made \cup {e} /\ at[u].at = "open" /\ at[u].doc \in registered
      /\ content' = [content EXCEPT ![at[u].doc] = content[at[u].doc] \cup {e}]
  BY DEF Edit
<1>2. Known' = Known \cup {e}
  BY <1>1 DEF Known
<1>3. StreamOf(Known) \subseteq StreamOf(Known')
  BY <1>2, StreamGrows
<1>4. stream \in StreamsOf(Known') /\ table \in Streams \cup {None}
  BY <1>3 DEF StreamsOf, DataOK, ControlOK
<1> DEFINE E == {e}
<1>5. E \in SUBSET Known' /\ E # {} /\ stream' = Publish(stream, table, E)
  BY <1>2 DEF Edit
<1> HIDE DEF E
<1>6. /\ stream' \in StreamsOf(Known')
      /\ \A s \in Streams :
            /\ Alike(stream'[s], stream[s]) /\ stream'[s].down = stream[s].down
            /\ stream'[s].up = IF s = table /\ E # {} /\ stream[s].open /\ stream[s].link = "live"
                               THEN Append(stream[s].up, Sync(E)) ELSE stream[s].up
  BY <1>4, <1>5, PublishIs
<1>7. at[u].doc \in Objects
  BY <1>1 DEF ControlOK
<1> QED
  BY <1>1, <1>2, <1>5, <1>6, <1>7 DEF E

LEMMA ConsumeIs ==
    ASSUME ControlOK, DataOK, NEW s \in Streams, Consume(s)
    PROVE  /\ stream[s].call = "running" /\ stream[s].down # <<>>
           /\ Head(stream[s].down) \in ChunkOf(Known)
           /\ stream' \in StreamsOf(Known) /\ content' \in [Objects -> SUBSET Known]
           /\ LET c == Head(stream[s].down)
                  o == stream[s].doc
              IN \/ /\ c.type = "sync" /\ o \in registered /\ o \in Objects
                    /\ content' = [content EXCEPT ![o] = content[o] \cup c.edits]
                    /\ stream'[s].down = Tail(stream[s].down)
                    /\ \A v \in Streams : /\ Alike(stream'[v], stream[v])
                                          /\ v # s => stream'[v].down = stream[v].down
                                          /\ \/ stream'[v].up = stream[v].up
                                             \/ v = table /\ stream'[v].up
                                                  = Append(stream[v].up, Sync(c.edits \ content[o]))
                 \/ /\ c.type # "sync" \/ o \notin registered
                    /\ content' = content /\ Finished(stream'[s], stream[s])
                    /\ \A v \in Streams \ {s} : stream'[v] = stream[v]
<1> DEFINE c == Head(stream[s].down)
           o == stream[s].doc
           taken == [stream EXCEPT ![s].down = Tail(@)]
<1>1. stream[s].call = "running" /\ stream[s].down # <<>>
  BY DEF Consume
<1>2. /\ stream \in StreamsOf(Known) /\ stream[s] \in StreamOf(Known)
      /\ content \in [Objects -> SUBSET Known]
  BY DEF DataOK, StreamsOf
<1>3. c \in ChunkOf(Known) /\ Tail(stream[s].down) \in Seq(ChunkOf(Known))
  BY <1>1, <1>2, HeadOf
<1>4. c.edits \subseteq Known
  BY <1>3 DEF ChunkOf
<1>5. PICK a : a = [stream[s] EXCEPT !.down = Tail(stream[s].down)]
  OBVIOUS
<1>6. a \in StreamOf(Known) /\ Alike(a, stream[s]) /\ a.up = stream[s].up /\ a.down = Tail(stream[s].down)
  BY <1>2, <1>3, <1>5 DEF StreamOf, Alike
<1>7. taken = [stream EXCEPT ![s] = a]
  BY <1>5 DEF StreamsOf
<1> HIDE DEF taken
<1>8. taken \in StreamsOf(Known) /\ taken[s] = a /\ \A v \in Streams \ {s} : taken[v] = stream[v]
  BY <1>2, <1>6, <1>7 DEF StreamsOf
<1>9. CASE /\ c.type = "sync" /\ o \in registered
           /\ content' = Learned(o, c.edits)
           /\ stream' = Publish(taken, table, c.edits \ content[o])
  <2> DEFINE E == c.edits \ content[o]
  <2>1. o \in Objects /\ table \in Streams \cup {None} /\ E \in SUBSET Known
    BY <1>4, <1>9 DEF ControlOK
  <2>2. content' = [content EXCEPT ![o] = content[o] \cup c.edits]
    BY <1>9 DEF Learned
  <2>3. content' \in [Objects -> SUBSET Known]
    BY <1>2, <1>4, <2>1, <2>2
  <2>0. stream' = Publish(taken, table, E)
    BY <1>9
  <2> HIDE DEF E
  <2>4. /\ stream' \in StreamsOf(Known)
        /\ \A v \in Streams :
              /\ Alike(stream'[v], taken[v]) /\ stream'[v].down = taken[v].down
              /\ stream'[v].up = IF v = table /\ E # {} /\ taken[v].open /\ taken[v].link = "live"
                                 THEN Append(taken[v].up, Sync(E)) ELSE taken[v].up
    BY <1>8, <2>0, <2>1, PublishIs
  <2>5. stream'[s].down = Tail(stream[s].down)
    BY <1>6, <1>8, <2>4
  <2>6. ASSUME NEW v \in Streams
        PROVE  /\ Alike(stream'[v], stream[v])
               /\ v # s => stream'[v].down = stream[v].down
               /\ \/ stream'[v].up = stream[v].up
                  \/ v = table /\ stream'[v].up = Append(stream[v].up, Sync(E))
    <3>1. Alike(taken[v], stream[v]) /\ taken[v].up = stream[v].up
          /\ (v # s => taken[v].down = stream[v].down)
      BY <1>6, <1>8 DEF Alike
    <3>2. /\ Alike(stream'[v], taken[v]) /\ stream'[v].down = taken[v].down
          /\ \/ stream'[v].up = taken[v].up
             \/ v = table /\ stream'[v].up = Append(taken[v].up, Sync(E))
      BY <2>4
    <3>3. Alike(stream'[v], stream[v])
      BY <3>1, <3>2 DEF Alike
    <3> QED
      BY <3>1, <3>2, <3>3
  <2> QED
    BY <1>1, <1>3, <1>9, <2>1, <2>2, <2>3, <2>4, <2>5, <2>6 DEF E
<1>10. CASE /\ c.type # "sync" \/ o \notin registered
            /\ stream' = [taken EXCEPT ![s] = Over(@)]
            /\ UNCHANGED content
  <2>1. stream' = [stream EXCEPT ![s] = Over(a)]
    BY <1>2, <1>7, <1>10 DEF StreamsOf
  <2>2. Over(a) \in StreamOf(Known) /\ Finished(Over(a), stream[s])
    BY <1>6, OverIs DEF Finished, Alike
  <2>3. stream' \in StreamsOf(Known) /\ stream'[s] = Over(a) /\ \A v \in Streams \ {s} : stream'[v] = stream[v]
    BY <1>2, <2>1, <2>2 DEF StreamsOf
  <2> QED
    BY <1>1, <1>2, <1>3, <1>10, <2>2, <2>3
<1> QED
  BY <1>9, <1>10 DEF Consume, taken

-----------------------------------------------------------------------------
(* What the room does to the streams *)

(* A chunk that says nothing but that the call is over *)
Silent(q, p) == q \in {p, Append(p, Error)}

LEMMA DisconnectedIs ==
    ASSUME ControlOK, DataOK, Disconnected
    PROVE  /\ stream' \in StreamsOf(Known)
           /\ \A s \in Streams :
                 /\ stream'[s].call = stream[s].call /\ stream'[s].doc = stream[s].doc
                 /\ stream'[s].link = stream[s].link /\ stream'[s].served = stream[s].served
                 /\ s = table => ~stream'[s].open
                 /\ s # table => stream'[s].open = stream[s].open /\ stream'[s].up = stream[s].up
                 /\ stream'[s].up \in {stream[s].up, Append(stream[s].up, Close)}
                 /\ Silent(stream'[s].down, stream[s].down)
<1> DEFINE closed == InputClosed(stream)
<1>1. stream \in StreamsOf(Known) /\ table \in Streams \cup {None} /\ stream' = Failed(closed)
  BY DEF DataOK, ControlOK, Disconnected
<1>2. /\ closed \in StreamsOf(Known)
      /\ \A s \in Streams :
            /\ closed[s].call = stream[s].call /\ closed[s].doc = stream[s].doc
            /\ closed[s].link = stream[s].link
            /\ closed[s].served = stream[s].served /\ closed[s].down = stream[s].down
            /\ s = table => ~closed[s].open
            /\ s # table => closed[s] = stream[s]
            /\ closed[s].up \in {stream[s].up, Append(stream[s].up, Close)}
  BY <1>1, InputClosedIs
<1> HIDE DEF closed
<1>3. /\ stream' \in StreamsOf(Known)
      /\ \A s \in Streams :
            /\ Alike(stream'[s], closed[s]) /\ stream'[s].up = closed[s].up
            /\ stream'[s].down \in {closed[s].down, Append(closed[s].down, Error)}
  BY <1>1, <1>2, FailedIs
<1>4. ASSUME NEW s \in Streams
      PROVE  /\ stream'[s].call = stream[s].call /\ stream'[s].doc = stream[s].doc
             /\ stream'[s].link = stream[s].link /\ stream'[s].served = stream[s].served
             /\ s = table => ~stream'[s].open
             /\ s # table => stream'[s].open = stream[s].open /\ stream'[s].up = stream[s].up
             /\ stream'[s].up \in {stream[s].up, Append(stream[s].up, Close)}
             /\ Silent(stream'[s].down, stream[s].down)
  BY <1>2, <1>3 DEF Alike, Silent
<1> QED
  BY <1>3, <1>4

LEMMA LinkLostIs ==
    ASSUME DataOK, LinkLost
    PROVE  /\ stream' \in StreamsOf(Known)
           /\ \A s \in Streams :
                 /\ stream'[s].call = stream[s].call /\ stream'[s].up = <<>>
                 /\ stream'[s].served = FALSE
                 /\ (stream'[s].open => stream[s].open)
                 /\ stream'[s].down \in {stream[s].down, <<>>}
                 /\ stream[s].call # "over" => stream'[s].doc = stream[s].doc
<1>1. stream \in StreamsOf(Known) /\ stream' = Cut(stream)
  BY DEF DataOK, LinkLost
<1> QED
  BY <1>1, CutIs

LEMMA ExitIs ==
    ASSUME DataOK, Exit
    PROVE  /\ stream' \in StreamsOf(Known)
           /\ \A s \in Streams :
                 /\ stream'[s].call = stream[s].call /\ stream'[s].up = <<>>
                 /\ stream'[s].served = FALSE
                 /\ stream'[s].down \in {stream[s].down, <<>>}
                        \cup {Append(stream[s].down, Error), Append(<<>>, Error)}
<1> DEFINE cut == Cut(stream)
<1>1. stream \in StreamsOf(Known) /\ stream' = Failed(cut)
  BY DEF DataOK, Exit
<1>2. /\ cut \in StreamsOf(Known)
      /\ \A s \in Streams :
            /\ cut[s].call = stream[s].call /\ cut[s].up = <<>>
            /\ cut[s].served = FALSE /\ cut[s].down \in {stream[s].down, <<>>}
  BY <1>1, CutIs
<1> HIDE DEF cut
<1>3. /\ stream' \in StreamsOf(Known)
      /\ \A s \in Streams :
            /\ Alike(stream'[s], cut[s]) /\ stream'[s].up = cut[s].up
            /\ stream'[s].down \in {cut[s].down, Append(cut[s].down, Error)}
  BY <1>1, <1>2, FailedIs
<1> QED
  BY <1>2, <1>3 DEF Alike

LEMMA AttemptFailsIs ==
    ASSUME ControlOK, DataOK, AttemptFails, resync.stream \in Streams
    PROVE  /\ stream' \in StreamsOf(Known) /\ stream'[resync.stream] = Ended
           /\ \A s \in Streams \ {resync.stream} :
                 /\ stream'[s].call = stream[s].call /\ stream'[s].up = <<>>
                 /\ stream'[s].served = FALSE
                 /\ stream'[s].down \in {stream[s].down, <<>>}
<1> DEFINE closed == InputClosed(stream)
           cut == Cut(closed)
<1>1. stream \in StreamsOf(Known) /\ table \in Streams \cup {None}
      /\ stream' = [cut EXCEPT ![resync.stream] = Ended]
  BY DEF DataOK, ControlOK, AttemptFails
<1>2. /\ closed \in StreamsOf(Known)
      /\ \A s \in Streams : closed[s].call = stream[s].call /\ closed[s].down = stream[s].down
  BY <1>1, InputClosedIs
<1> HIDE DEF closed
<1>3. /\ cut \in StreamsOf(Known)
      /\ \A s \in Streams :
            /\ cut[s].call = closed[s].call /\ cut[s].up = <<>>
            /\ cut[s].served = FALSE /\ cut[s].down \in {closed[s].down, <<>>}
  BY <1>2, CutIs
<1> HIDE DEF cut
<1>4. Ended \in StreamOf(Known)
  BY EndedIs
<1>5. stream' \in StreamsOf(Known) /\ stream'[resync.stream] = Ended
      /\ \A s \in Streams \ {resync.stream} : stream'[s] = cut[s]
  BY <1>1, <1>3, <1>4 DEF StreamsOf
<1> QED
  BY <1>2, <1>3, <1>5

LEMMA ResyncTypes ==
    ASSUME DataOK, resync # Idle
    PROVE  /\ resync.at = "opening" /\ resync.stream \in Streams /\ resync.doc \in Objects
           /\ resync.payload \in SUBSET Known
  BY DEF DataOK, Idle

LEMMA ReopenedIs ==
    ASSUME ControlOK, DataOK, resync # Idle, stream[resync.stream].down # <<>>, Reopened
    PROVE  LET s == resync.stream
               o == resync.doc
               E == Head(stream[s].down).edits
               N == E \ content[o]
           IN /\ E \subseteq Known /\ stream' \in StreamsOf(Known)
              /\ content' = [content EXCEPT ![o] = content[o] \cup E]
              /\ content' \in [Objects -> SUBSET Known]
              /\ \A v \in Streams \ {s} : Same(stream'[v], stream[v])
              /\ stream'[s].call = "running" /\ stream'[s].doc = o
              /\ stream'[s].open = stream[s].open /\ stream'[s].link = stream[s].link
              /\ stream'[s].served = stream[s].served
              /\ stream'[s].down = Tail(stream[s].down)
              /\ \E q \in {stream[s].up, Append(stream[s].up, Sync(N))} :
                    stream'[s].up = IF /\ resync.payload # {} /\ stream[s].open
                                       /\ stream[s].link = "live"
                                    THEN Append(q, Sync(resync.payload)) ELSE q
<1> DEFINE s == resync.stream
           o == resync.doc
           P == resync.payload
           E == Head(stream[s].down).edits
           N == E \ content[o]
           attached == [stream EXCEPT ![s].call = "running", ![s].doc = o, ![s].down = Tail(@)]
           echoed == Publish(attached, s, N)
<1>1. s \in Streams /\ o \in Objects /\ P \in SUBSET Known /\ stream[s].down # <<>>
  BY ResyncTypes
<1>2. stream' = Publish(echoed, s, P) /\ content' = [content EXCEPT ![o] = content[o] \cup E]
  BY DEF Reopened, Resent, Learned
<1>3. stream \in StreamsOf(Known) /\ E \subseteq Known /\ content \in [Objects -> SUBSET Known]
  <2>1. stream \in StreamsOf(Known) /\ stream[s] \in StreamOf(Known)
    BY <1>1 DEF DataOK, StreamsOf
  <2>2. Head(stream[s].down) \in ChunkOf(Known)
    BY <1>1, <2>1, HeadOf
  <2> QED
    BY <2>1, <2>2 DEF ChunkOf, DataOK
<1>4. N \in SUBSET Known
  BY <1>3
<1> HIDE DEF s, o, P, E, N
<1>5. /\ attached \in StreamsOf(Known) /\ \A v \in Streams \ {s} : attached[v] = stream[v]
      /\ attached[s].call = "running" /\ attached[s].doc = o /\ attached[s].open = stream[s].open
      /\ attached[s].link = stream[s].link /\ attached[s].served = stream[s].served
      /\ attached[s].up = stream[s].up /\ attached[s].down = Tail(stream[s].down)
  BY <1>1, <1>3, AttachedIs
<1> HIDE DEF attached
<1>6. /\ echoed \in StreamsOf(Known)
      /\ \A v \in Streams :
            /\ Alike(echoed[v], attached[v]) /\ echoed[v].down = attached[v].down
            /\ echoed[v].up = IF v = s /\ N # {} /\ attached[v].open /\ attached[v].link = "live"
                              THEN Append(attached[v].up, Sync(N)) ELSE attached[v].up
  BY <1>1, <1>4, <1>5, PublishIs
<1> HIDE DEF echoed
<1>7. /\ stream' \in StreamsOf(Known)
      /\ \A v \in Streams :
            /\ Alike(stream'[v], echoed[v]) /\ stream'[v].down = echoed[v].down
            /\ stream'[v].up = IF v = s /\ P # {} /\ echoed[v].open /\ echoed[v].link = "live"
                               THEN Append(echoed[v].up, Sync(P)) ELSE echoed[v].up
  BY <1>1, <1>2, <1>6, PublishIs
<1>8. ASSUME NEW v \in Streams \ {s} PROVE Same(stream'[v], stream[v])
  <2>1. Same(echoed[v], stream[v])
    BY <1>5, <1>6 DEF Same
  <2>2. Same(stream'[v], echoed[v])
    BY <1>7 DEF Same
  <2> QED
    BY <2>1, <2>2 DEF Same, Alike
<1>9. /\ echoed[s].call = "running" /\ echoed[s].doc = o /\ echoed[s].open = stream[s].open
      /\ echoed[s].link = stream[s].link /\ echoed[s].served = stream[s].served
      /\ echoed[s].up \in {stream[s].up, Append(stream[s].up, Sync(N))}
      /\ echoed[s].down = Tail(stream[s].down)
  <2>1. /\ Alike(echoed[s], attached[s]) /\ echoed[s].down = attached[s].down
        /\ echoed[s].up \in {attached[s].up, Append(attached[s].up, Sync(N))}
    BY <1>1, <1>6
  <2> QED
    BY <1>5, <2>1 DEF Alike
<1>10. /\ stream'[s].call = "running" /\ stream'[s].doc = o /\ stream'[s].open = stream[s].open
       /\ stream'[s].link = stream[s].link /\ stream'[s].served = stream[s].served
       /\ stream'[s].down = Tail(stream[s].down)
  BY <1>1, <1>7, <1>9 DEF Alike
<1>11. \E q \in {stream[s].up, Append(stream[s].up, Sync(N))} :
          stream'[s].up = IF P # {} /\ stream[s].open /\ stream[s].link = "live"
                          THEN Append(q, Sync(P)) ELSE q
  <2>1. stream'[s].up = IF P # {} /\ stream[s].open /\ stream[s].link = "live"
                        THEN Append(echoed[s].up, Sync(P)) ELSE echoed[s].up
    BY <1>1, <1>7, <1>9
  <2> QED
    BY <1>9, <2>1
<1>12. content' \in [Objects -> SUBSET Known]
  BY <1>1, <1>2, <1>3
<1> QED
  BY <1>2, <1>3, <1>7, <1>8, <1>10, <1>11, <1>12 DEF s, o, P, E, N

(* _on_room_disconnect *)
LEMMA ForgetIs ==
    ASSUME ControlOK, DataOK, Forget
    PROVE  base' \in [known: BOOLEAN, edits: SUBSET Known] /\ table' = None
<1>1. connected # None => content[connected] \in SUBSET Known
  BY DEF ControlOK, DataOK
<1> QED
  BY <1>1 DEF Forget, DataOK

LEMMA NoBaseIs == NoBase \in [known: BOOLEAN, edits: SUBSET Known] /\ ~NoBase.known
  BY DEF NoBase

LEMMA MissedIs ==
    ASSUME ControlOK, DataOK, connected # None
    PROVE  Missed \in SUBSET Known /\ Missed \subseteq content[connected]
           /\ content[connected] \in SUBSET Known
  BY DEF ControlOK, DataOK, Missed

-----------------------------------------------------------------------------
(* Streams that are opening belong to one task each. *)
StreamsInv ==
    /\ \A u \in Opening : stream[at[u].stream].call = "opening"
    /\ \A u, v \in Opening : u # v => at[u].stream # at[v].stream
    /\ room = "resync" <=> resync # Idle
    /\ resync # Idle =>
          /\ stream[resync.stream].call = "opening"
          /\ stream[resync.stream].open /\ stream[resync.stream].link = "live"
          /\ \A u \in Opening : at[u].stream # resync.stream
    /\ table # None => stream[table].call # "opening"

Typed == ControlOK /\ WaitInv /\ DataOK /\ StreamsInv

(* Nobody begins to open, and who still opens keeps the stream. *)
StillOpening ==
    \A u \in Users : at'[u].at = "opening" =>
        at[u].at = "opening" /\ at'[u].stream = at[u].stream

LEMMA StreamsKept ==
    ASSUME StreamsInv, StillOpening,
           \A u \in Users : at'[u].at = "opening" => stream'[at[u].stream].call = "opening",
           room' = "resync" <=> resync' # Idle,
           resync' # Idle => /\ resync' = resync
                             /\ stream'[resync.stream].call = "opening"
                             /\ stream'[resync.stream].open
                             /\ stream'[resync.stream].link = "live",
           table' # None => stream'[table'].call # "opening"
    PROVE  StreamsInv'
<1>1. ASSUME NEW u \in Opening'
      PROVE  u \in Opening /\ at'[u].stream = at[u].stream /\ stream'[at[u].stream].call = "opening"
  BY DEF Opening, StillOpening
<1>2. \A u \in Opening' : stream'[at'[u].stream].call = "opening"
  BY <1>1
<1>3. \A u, v \in Opening' : u # v => at'[u].stream # at'[v].stream
  BY <1>1 DEF StreamsInv
<1>4. resync' # Idle => \A u \in Opening' : at'[u].stream # resync'.stream
  BY <1>1 DEF StreamsInv
<1> QED
  BY <1>2, <1>3, <1>4 DEF StreamsInv

(* Nothing is asked for, and nothing that is asked for ends. *)
CallsStay ==
    \A s \in Streams :
        /\ stream'[s].call = "opening" <=> stream[s].call = "opening"
        /\ stream[s].call = "opening" => stream'[s].open = stream[s].open
                                         /\ stream'[s].link = stream[s].link

LEMMA OpeningStreams ==
    ASSUME ControlOK
    PROVE  \A u \in Users : at[u].at = "opening" => at[u].stream \in Streams
  BY TaskIs, UsersAreTasks DEF ControlOK

LEMMA StreamsStay ==
    ASSUME Typed, CallsStay, StillOpening, resync' = resync,
           room' = "resync" <=> room = "resync", table' \in {table, None}
    PROVE  StreamsInv'
<1>1. StreamsInv /\ table \in Streams \cup {None} /\ (resync # Idle => resync.stream \in Streams)
  BY ResyncTypes DEF Typed, ControlOK
<1>2. \A u \in Users : at'[u].at = "opening" => stream'[at[u].stream].call = "opening"
  BY <1>1, OpeningStreams DEF Typed, StillOpening, CallsStay, StreamsInv, Opening
<1>3. resync' # Idle => /\ resync' = resync
                        /\ stream'[resync.stream].call = "opening"
                        /\ stream'[resync.stream].open
                        /\ stream'[resync.stream].link = "live"
  BY <1>1 DEF CallsStay, StreamsInv
<1>4. table' # None => stream'[table'].call # "opening"
  BY <1>1 DEF CallsStay, StreamsInv
<1>5. room' = "resync" <=> resync' # Idle
  BY <1>1 DEF StreamsInv
<1> QED
  BY <1>1, <1>2, <1>3, <1>4, <1>5, StreamsKept

(* A task waits no more. *)
LEMMA FutureDoneIs ==
    ASSUME ControlOK, NEW u \in Users, NEW next, NEW to, FutureDone(u, next, to)
    PROVE  /\ at'[u] \in {next, Idle}
           /\ \A v \in Tasks \ {u} : at'[v] = at[v] \/ (at[v].at = "waiting" /\ at'[v] = to)
<1>1. at \in [Tasks -> Task] /\ u \in Tasks
  BY UsersAreTasks DEF ControlOK
<1>2. CASE at[u].future
  <2>1. at' = Woken(u, next, to)
    BY <1>2 DEF FutureDone
  <2>2. at'[u] = next
    BY <1>1, <2>1 DEF Woken
  <2>3. ASSUME NEW v \in Tasks \ {u} PROVE at'[v] = at[v] \/ (at[v].at = "waiting" /\ at'[v] = to)
    BY <1>1, <2>1 DEF Woken
  <2> QED
    BY <2>2, <2>3
<1>3. CASE ~at[u].future
  BY <1>1, <1>3 DEF FutureDone
<1> QED
  BY <1>2, <1>3

(* Who is cancelled, or woken by it, opens no more. *)
LEMMA CancelIs ==
    ASSUME ControlOK, NEW u \in Users, Cancel(u)
    PROVE  /\ at'[u] = Idle
           /\ StillOpening
<1>0. at \in [Tasks -> Task] /\ u \in Tasks /\ Users \subseteq Tasks
  BY UsersAreTasks DEF ControlOK
<1>1. CASE at[u].at = "opening" /\
           at' = [v \in Tasks |->
                        IF v = u THEN Idle
                        ELSE IF at[v] = [at |-> "waiting", on |-> u]
                             THEN [at[v] EXCEPT !.on = "lost"] ELSE at[v]]
  <2>1. ASSUME NEW v \in Users, at'[v].at = "opening" PROVE at'[v] = at[v]
    <3>1. at'[v] = IF v = u THEN Idle
                   ELSE IF at[v] = [at |-> "waiting", on |-> u]
                        THEN [at |-> "waiting", on |-> "lost"] ELSE at[v]
      BY <1>0, <1>1
    <3> QED
      BY <2>1, <3>1 DEF Idle
  <2> QED
    BY <1>0, <1>1, <2>1 DEF StillOpening
<1>2. CASE at[u].at = "waiting" /\
           at' = [v \in Tasks |->
                        IF at[v] = at[u] THEN Idle
                        ELSE IF v = at[u].on THEN [at[v] EXCEPT !.future = FALSE] ELSE at[v]]
  <2>1. ASSUME NEW v \in Users, at'[v].at = "opening"
        PROVE  at[v].at = "opening" /\ at'[v].stream = at[v].stream
    <3>1. \/ at'[v] = Idle \/ at'[v] = at[v] \/ at'[v] = [at[v] EXCEPT !.future = FALSE]
      BY <1>0, <1>2
    <3>0. at[v] \in Task
      BY <1>0
    <3>2. CASE at'[v] = [at[v] EXCEPT !.future = FALSE]
      BY <2>1, <3>0, <3>2 DEF Task
    <3>3. CASE at'[v] = Idle
      BY <2>1, <3>3 DEF Idle
    <3>4. CASE at'[v] = at[v]
      BY <2>1, <3>4
    <3> QED
      BY <3>1, <3>2, <3>3, <3>4
  <2> QED
    BY <1>0, <1>2, <2>1 DEF StillOpening
<1> QED
  BY <1>1, <1>2 DEF Cancel

LEMMA ServerTyped ==
    ASSUME Typed, Server
    PROVE  /\ stream' \in StreamsOf(Known) /\ server' \subseteq Known
           /\ UNCHANGED ServerVars /\ CallsStay
<1>0. DataOK
  BY DEF Typed
<1>1. ASSUME NEW s \in Streams, stream' \in StreamsOf(Known), server' \subseteq Known,
             UNCHANGED ServerVars, \A v \in Streams \ {s} : Same(stream'[v], stream[v]),
             Pulled(stream'[s], stream[s])
      PROVE  /\ stream' \in StreamsOf(Known) /\ server' \subseteq Known
             /\ UNCHANGED ServerVars /\ CallsStay
  BY <1>1 DEF CallsStay, Same, Alike, Pulled
<1>2. server \subseteq Known
  BY <1>0 DEF DataOK
<1>3. ASSUME NEW s \in Streams, ServerOpens(s) PROVE UNCHANGED ServerVars /\ stream' \in StreamsOf(Known) /\ server' \subseteq Known /\ CallsStay
  BY <1>0, <1>1, <1>2, <1>3, ServerOpensIs
<1>4. ASSUME NEW s \in Streams, ServerRefuses(s) PROVE UNCHANGED ServerVars /\ stream' \in StreamsOf(Known) /\ server' \subseteq Known /\ CallsStay
  BY <1>0, <1>1, <1>2, <1>4, ServerRefusesIs
<1>5. ASSUME NEW s \in Streams, ServerTakes(s) PROVE UNCHANGED ServerVars /\ stream' \in StreamsOf(Known) /\ server' \subseteq Known /\ CallsStay
  <2>1. /\ stream' \in StreamsOf(Known) /\ UNCHANGED ServerVars /\ server' \subseteq Known
        /\ Pulled(stream'[s], stream[s])
        /\ \A v \in Streams \ {s} : Alike(stream'[v], stream[v])
    BY <1>0, <1>5, ServerTakesIs DEF Same
  <2> QED
    BY <2>1 DEF CallsStay, Alike, Pulled
<1>6. ASSUME NEW s \in Streams, ServerCloses(s) PROVE UNCHANGED ServerVars /\ stream' \in StreamsOf(Known) /\ server' \subseteq Known /\ CallsStay
  BY <1>0, <1>1, <1>2, <1>6, ServerClosesIs
<1>7. ASSUME NEW s \in Streams, ServerEnds(s) PROVE UNCHANGED ServerVars /\ stream' \in StreamsOf(Known) /\ server' \subseteq Known /\ CallsStay
  BY <1>0, <1>2, <1>7, ServerEndsIs DEF CallsStay, Same, Alike
<1>8. ASSUME NEW e \in PeerEdits, PeerEditsDocument(e) PROVE UNCHANGED ServerVars /\ stream' \in StreamsOf(Known) /\ server' \subseteq Known /\ CallsStay
  BY <1>0, <1>8, PeerEditsIs DEF CallsStay, Alike
<1> QED
  BY <1>3, <1>4, <1>5, <1>6, <1>7, <1>8 DEF Server

-----------------------------------------------------------------------------
(* Every step keeps the types and the streams apart. *)

LEMMA ProceedTyped ==
    ASSUME Typed, NEW u \in Users, at[u].at \in {"idle", "resumed"}, Proceed(u),
           UNCHANGED <<room, table, base, resync, serverVars>>
    PROVE  DataOK' /\ StreamsInv'
<1>0. /\ ControlOK /\ DataOK /\ StreamsInv /\ at \in [Tasks -> Task] /\ u \in Tasks
      /\ Users \subseteq Tasks /\ Known' = Known
  BY UsersAreTasks DEF Typed, ControlOK, Known, serverVars
<1>1. CASE UNCHANGED <<docVars, stream>> /\ (\E a : a.at # "opening" /\ at' = [at EXCEPT ![u] = a])
  <2>1. DataOK'
    BY <1>0, <1>1 DEF DataOK, docVars, serverVars
  <2>2. StillOpening /\ CallsStay
    BY <1>0, <1>1 DEF StillOpening, CallsStay
  <2> QED
    BY <2>1, <2>2, StreamsStay
<1>2. CASE Share(u)
  <2>1. DataOK'
    BY <1>0, <1>2 DEF Share, DataOK, serverVars
  <2>2. StillOpening /\ CallsStay
    BY <1>0, <1>2 DEF StillOpening, CallsStay, Share
  <2> QED
    BY <2>1, <2>2, StreamsStay
<1>3. CASE /\ ~TakesRequests /\ at' = [at EXCEPT ![u] = Idle] /\ UNCHANGED <<docVars, stream>>
  BY <1>1, <1>3 DEF Idle
<1>4. CASE /\ StreamLeft
           /\ at' = [at EXCEPT ![u] =
                    [at |-> "opening", stream |-> UnusedStream, future |-> TRUE]]
           /\ stream' = [stream EXCEPT ![UnusedStream] = Asking({})]
           /\ UNCHANGED docVars
  <2> DEFINE us == UnusedStream
             a == [at |-> "opening", stream |-> us, future |-> TRUE]
  <2>1. /\ stream' \in StreamsOf(Known) /\ us \in Streams
        /\ \A v \in Streams \ {us} : stream'[v] = stream[v]
        /\ Fresh(stream'[us], {})
        /\ stream[us].call = "over" /\ us # table
    <3> DEFINE none == {}
    <3>1. none \in SUBSET Known /\ stream' = [stream EXCEPT ![UnusedStream] = Asking(none)]
      BY <1>4
    <3> HIDE DEF none
    <3>2. /\ stream' \in StreamsOf(Known) /\ UnusedStream \in Streams
          /\ \A v \in Streams \ {UnusedStream} : stream'[v] = stream[v]
          /\ Fresh(stream'[UnusedStream], none)
          /\ stream[UnusedStream].call = "over" /\ UnusedStream # table
      BY <1>0, <1>4, <3>1, AskedFor
    <3> QED
      BY <3>2 DEF none
  <2>2. DataOK'
    BY <1>0, <1>4, <2>1 DEF DataOK, docVars, serverVars
  <2>3. /\ at'[u] = a /\ a.at = "opening" /\ a.stream = us
        /\ \A v \in Users \ {u} : at'[v] = at[v]
    BY <1>0, <1>4
  <2> HIDE DEF us, a
  <2>4. stream'[us].call = "opening"
    BY <2>1 DEF Fresh
  <2>5. \A v \in Users : at[v].at = "opening" => at[v].stream \in Streams \ {us}
    BY <1>0, <2>1, OpeningStreams DEF StreamsInv, Opening
  <2>6. resync # Idle => resync.stream \in Streams \ {us}
    BY <1>0, <2>1, ResyncTypes DEF StreamsInv
  <2>7. \A v \in Opening' : v = u \/ (v \in Opening /\ at'[v] = at[v])
    BY <2>3 DEF Opening
  <2>8. \A v \in Opening' : stream'[at'[v].stream].call = "opening"
    BY <1>0, <2>1, <2>3, <2>4, <2>5, <2>7 DEF StreamsInv, Opening
  <2>9. \A v, w \in Opening' : v # w => at'[v].stream # at'[w].stream
    BY <1>0, <2>3, <2>5, <2>7 DEF StreamsInv, Opening
  <2>10. resync' # Idle =>
          /\ stream'[resync'.stream].call = "opening"
          /\ stream'[resync'.stream].open /\ stream'[resync'.stream].link = "live"
          /\ \A v \in Opening' : at'[v].stream # resync'.stream
    BY <1>0, <2>1, <2>3, <2>6, <2>7 DEF StreamsInv
  <2>11. table' # None => stream'[table'].call # "opening"
    BY <1>0, <2>1 DEF StreamsInv, ControlOK
  <2>12. room' = "resync" <=> resync' # Idle
    BY <1>0 DEF StreamsInv
  <2> QED
    BY <2>2, <2>8, <2>9, <2>10, <2>11, <2>12 DEF StreamsInv
<1> QED
  BY <1>2, <1>3, <1>4 DEF Proceed

LEMMA OpenTyped ==
    ASSUME Typed, NEW u \in Users, Open(u)
    PROVE  DataOK' /\ StreamsInv'
<1>0. at[u] = Idle /\ at \in [Tasks -> Task] /\ u \in Tasks /\ Users \subseteq Tasks
      /\ UNCHANGED <<room, table, base, resync, serverVars>>
  BY UsersAreTasks DEF Open, Typed, ControlOK
<1>1. CASE Proceed(u)
  <2>1. at[u].at = "idle"
    BY <1>0 DEF Idle
  <2> QED
    BY <1>0, <1>1, <2>1, ProceedTyped
<1>2. CASE /\ at' = [at EXCEPT ![u] = [at |-> "waiting", on |-> connecting]]
           /\ UNCHANGED <<docVars, connecting, stream, disturbed>>
  <2>1. DataOK'
    BY <1>0, <1>2 DEF Typed, DataOK, docVars, serverVars, Known
  <2>2. StillOpening /\ CallsStay
    BY <1>0, <1>2 DEF StillOpening, CallsStay
  <2> QED
    BY <1>0, <2>1, <2>2, StreamsStay
<1> QED
  BY <1>1, <1>2 DEF Open

LEMMA OpenedTyped ==
    ASSUME Typed, NEW u \in Users, Opened(u)
    PROVE  DataOK' /\ StreamsInv'
<1> DEFINE s == at[u].stream
           o == UnusedObject
           E == Head(stream[s].down).edits
<1>0. ControlOK /\ DataOK /\ StreamsInv /\ at[u].at = "opening"
      /\ UNCHANGED <<room, resync, serverVars>>
  BY DEF Typed, Opened
<1>1. /\ s \in Streams /\ o \in UnusedObjects /\ E \subseteq Known
      /\ stream' \in StreamsOf(Known)
      /\ \A v \in Streams \ {s} : Same(stream'[v], stream[v])
      /\ stream'[s].call = "running"
  BY <1>0, OpenedIs
<1>2. content' = [content EXCEPT ![o] = E] /\ table' = s /\ base' = NoBase
      /\ \E next : /\ next.at # "opening" /\ FutureDone(u, next, [at |-> "resumed"])
  BY DEF Opened, Idle
<1> HIDE DEF s, o, E
<1>3. DataOK'
  <2>1. content' \in [Objects -> SUBSET Known]
    BY <1>0, <1>1, <1>2 DEF DataOK, UnusedObjects
  <2> QED
    BY <1>0, <1>1, <1>2, <2>1, NoBaseIs DEF DataOK, serverVars, Known
<1>4. at'[u].at # "opening" /\ \A v \in Users \ {u} : at'[v].at = "opening" => at'[v] = at[v]
  BY <1>0, <1>2, FutureDoneIs, UsersAreTasks DEF Idle
<1>5. StillOpening
  BY <1>4 DEF StillOpening
<1>6. \A v \in Users \ {u} : at[v].at = "opening" => at[v].stream \in Streams \ {s}
  BY <1>0, OpeningStreams DEF StreamsInv, Opening, s
<1>7. \A v \in Users : at'[v].at = "opening" => stream'[at[v].stream].call = "opening"
  BY <1>0, <1>1, <1>4, <1>6 DEF StreamsInv, Opening, Same, Alike
<1>8. resync' # Idle => /\ resync' = resync
                        /\ stream'[resync.stream].call = "opening"
                        /\ stream'[resync.stream].open
                        /\ stream'[resync.stream].link = "live"
  <2>1. resync # Idle => resync.stream \in Streams \ {s}
    BY <1>0, ResyncTypes DEF StreamsInv, Opening, s
  <2> QED
    BY <1>0, <1>1, <2>1 DEF StreamsInv, Same, Alike
<1>9. table' # None => stream'[table'].call # "opening"
  BY <1>1, <1>2
<1>10. room' = "resync" <=> resync' # Idle
  BY <1>0 DEF StreamsInv
<1> QED
  BY <1>0, <1>3, <1>5, <1>7, <1>8, <1>9, <1>10, StreamsKept

(* A call of open is over. *)
LEMMA OverTyped ==
    ASSUME Typed, NEW u \in Users, at[u].at = "opening", at'[u].at # "opening",
           StillOpening, stream' = [stream EXCEPT ![at[u].stream] = Over(@)],
           UNCHANGED <<room, docVars, table, base, resync, serverVars>>
    PROVE  DataOK' /\ StreamsInv'
<1> DEFINE s == at[u].stream
<1>0. ControlOK /\ DataOK /\ StreamsInv /\ stream \in StreamsOf(Known) /\ Known' = Known
  BY DEF Typed, DataOK, Known, serverVars
<1>1. s \in Streams
  BY <1>0, OpeningStreams
<1>2. /\ stream' \in StreamsOf(Known) /\ Finished(stream'[s], stream[s])
      /\ \A v \in Streams \ {s} : stream'[v] = stream[v]
  BY <1>0, <1>1, OverMoves
<1>3. DataOK'
  BY <1>0, <1>2 DEF DataOK, docVars, serverVars
<1>6. \A v \in Users \ {u} : at[v].at = "opening" => at[v].stream \in Streams \ {s}
  BY <1>0, OpeningStreams DEF StreamsInv, Opening
<1>7. \A v \in Users : at'[v].at = "opening" => stream'[at[v].stream].call = "opening"
  BY <1>0, <1>2, <1>6 DEF StreamsInv, Opening, StillOpening
<1>8. resync' # Idle => /\ resync' = resync
                        /\ stream'[resync.stream].call = "opening"
                        /\ stream'[resync.stream].open
                        /\ stream'[resync.stream].link = "live"
  <2>1. resync # Idle => resync.stream \in Streams \ {s}
    BY <1>0, ResyncTypes DEF StreamsInv, Opening
  <2> QED
    BY <1>0, <1>2, <2>1 DEF StreamsInv
<1>9. table' # None => stream'[table'].call # "opening"
  <2>1. table # None => table \in Streams \ {s}
    BY <1>0 DEF StreamsInv, Opening, ControlOK
  <2> QED
    BY <1>0, <1>2, <2>1 DEF StreamsInv
<1>10. room' = "resync" <=> resync' # Idle
  BY <1>0 DEF StreamsInv
<1> QED
  BY <1>0, <1>3, <1>7, <1>8, <1>9, <1>10, StreamsKept

LEMMA OpenFailsTyped ==
    ASSUME Typed, NEW u \in Users, OpenFails(u)
    PROVE  DataOK' /\ StreamsInv'
<1>1. /\ ControlOK /\ at[u].at = "opening" /\ FutureDone(u, Idle, Idle)
      /\ stream' = [stream EXCEPT ![at[u].stream] = Over(@)]
      /\ UNCHANGED <<room, docVars, table, base, resync, serverVars>>
  BY DEF OpenFails, Typed
<1>2. at'[u].at # "opening" /\ StillOpening
  BY <1>1, FutureDoneIs, UsersAreTasks DEF Idle, StillOpening
<1> QED
  BY <1>1, <1>2, OverTyped

LEMMA CancelTyped ==
    ASSUME Typed, NEW u \in Users, Cancel(u)
    PROVE  DataOK' /\ StreamsInv'
<1>1. ControlOK /\ UNCHANGED <<room, docVars, table, base, resync, serverVars>>
  BY DEF Cancel, Typed
<1>2. at'[u].at # "opening" /\ StillOpening
  BY <1>1, CancelIs DEF Idle
<1>3. CASE at[u].at = "opening" /\ stream' = [stream EXCEPT ![at[u].stream] = Over(@)]
  BY <1>1, <1>2, <1>3, OverTyped
<1>4. CASE UNCHANGED stream
  <2>1. DataOK' /\ CallsStay
    BY <1>1, <1>4 DEF Typed, DataOK, docVars, serverVars, Known, CallsStay
  <2> QED
    BY <1>1, <1>2, <2>1, StreamsStay
<1> QED
  BY <1>3, <1>4 DEF Cancel

LEMMA CloseLastTyped ==
    ASSUME Typed, NEW t \in Tasks, connected # None, CloseLast(t),
           UNCHANGED <<resync, serverVars>>, room' = "resync" <=> room = "resync"
    PROVE  DataOK' /\ StreamsInv'
<1>0. ControlOK /\ DataOK /\ StreamsInv /\ Known' = Known
  BY DEF Typed, Known, serverVars
<1>1. /\ stream' \in StreamsOf(Known)
      /\ \A v \in Streams : v # table => stream'[v] = stream[v]
      /\ table # None => Shut(stream'[table], stream[table])
      /\ content' \in [Objects -> SUBSET Known]
  BY <1>0, CloseLastIs
<1>2. base' = NoBase /\ table' = None /\ \E a : a.at # "opening" /\ at' = [at EXCEPT ![t] = a]
  BY DEF CloseLast, Idle
<1>3. DataOK'
  BY <1>0, <1>1, <1>2, NoBaseIs DEF DataOK, serverVars
<1>4. CallsStay
  BY <1>0, <1>1, SyncAssumption DEF CallsStay, Shut, StreamsInv, ControlOK
<1>5. StillOpening
  BY <1>0, <1>2, UsersAreTasks DEF StillOpening, ControlOK
<1> QED
  BY <1>2, <1>3, <1>4, <1>5, StreamsStay

LEMMA CloseDocumentTyped ==
    ASSUME Typed, NEW u \in Users, CloseDocument(u)
    PROVE  DataOK' /\ StreamsInv'
<1>0. UNCHANGED <<room, resync, serverVars>> /\ u \in Tasks
  BY UsersAreTasks DEF CloseDocument
<1>1. CASE connected # None /\ CloseLast(u)
  BY <1>0, <1>1, CloseLastTyped
<1>2. CASE at' = [at EXCEPT ![u] = Idle] /\ UNCHANGED <<content, base, table, stream>>
  <2>1. DataOK' /\ CallsStay
    BY <1>0, <1>2 DEF Typed, DataOK, serverVars, Known, CallsStay
  <2>2. StillOpening
    BY <1>0, <1>2 DEF StillOpening, Typed, ControlOK, Idle
  <2> QED
    BY <1>0, <1>2, <2>1, <2>2, StreamsStay
<1> QED
  BY <1>1, <1>2 DEF CloseDocument, docVars

LEMMA CloseReturnsTyped ==
    ASSUME Typed, NEW t \in Tasks, CloseReturns(t)
    PROVE  DataOK' /\ StreamsInv'
<1>0. /\ UNCHANGED <<room, base, table, stream, resync, serverVars>> /\ at[t].at = "closing"
      /\ content' = [content EXCEPT ![at[t].doc] = {}] /\ at' = [at EXCEPT ![t] = Idle]
  BY DEF CloseReturns, Unregister
<1>1. at[t].doc \in Objects
  BY <1>0, TaskIs DEF Typed, ControlOK
<1>2. content' \in [Objects -> SUBSET Known]
  BY <1>0, <1>1 DEF Typed, DataOK
<1>3. DataOK' /\ CallsStay
  BY <1>0, <1>2 DEF Typed, DataOK, serverVars, Known, CallsStay
<1>4. StillOpening
  BY <1>0, UsersAreTasks DEF StillOpening, Typed, ControlOK, Idle
<1> QED
  BY <1>0, <1>3, <1>4, StreamsStay

LEMMA EditTyped ==
    ASSUME Typed, NEW u \in Users, NEW e \in LocalEdits, Edit(u, e)
    PROVE  DataOK' /\ StreamsInv'
<1>0. ControlOK /\ DataOK /\ UNCHANGED <<room, table, base, at, resync, server>>
  BY DEF Typed, Edit
<1>1. /\ Known' = Known \cup {e} /\ made' = made \cup {e} /\ at[u].doc \in Objects
      /\ content' = [content EXCEPT ![at[u].doc] = content[at[u].doc] \cup {e}]
      /\ stream' \in StreamsOf(Known')
      /\ \A s \in Streams : Alike(stream'[s], stream[s])
  BY <1>0, EditIs
<1>2. content' \in [Objects -> SUBSET (Known')]
  BY <1>0, <1>1 DEF DataOK
<1>3. base' \in [known: BOOLEAN, edits: SUBSET (Known')]
  BY <1>0, <1>1 DEF DataOK
<1>4. resync' \in {Idle} \cup [at: {"opening"}, stream: Streams, doc: Objects,
                               payload: SUBSET (Known')]
  BY <1>0, <1>1 DEF DataOK
<1>5. DataOK'
  BY <1>0, <1>1, <1>2, <1>3, <1>4 DEF DataOK
<1>6. CallsStay /\ StillOpening
  BY <1>0, <1>1 DEF CallsStay, Alike, StillOpening
<1> QED
  BY <1>0, <1>5, <1>6, StreamsStay

LEMMA ConsumeTyped ==
    ASSUME Typed, NEW s \in Streams, Consume(s)
    PROVE  DataOK' /\ StreamsInv'
<1>0. ControlOK /\ DataOK /\ UNCHANGED <<room, table, base, at, resync, serverVars>> /\ Known' = Known
  BY DEF Typed, Consume, serverVars, Known
<1>1. /\ stream[s].call = "running"
      /\ stream' \in StreamsOf(Known) /\ content' \in [Objects -> SUBSET Known]
      /\ \/ \A v \in Streams : Alike(stream'[v], stream[v])
         \/ Finished(stream'[s], stream[s]) /\ \A v \in Streams \ {s} : stream'[v] = stream[v]
  BY <1>0, ConsumeIs
<1>2. DataOK'
  BY <1>0, <1>1 DEF DataOK, serverVars
<1>3. CallsStay /\ StillOpening
  BY <1>0, <1>1 DEF CallsStay, Alike, Finished, StillOpening
<1> QED
  BY <1>0, <1>2, <1>3, StreamsStay

(* Nothing is reopened then. *)
LEMMA StreamsAlone ==
    ASSUME Typed, StillOpening, resync' = Idle, room' # "resync",
           \A u \in Users : at'[u].at = "opening" => stream'[at[u].stream].call = "opening",
           table' # None => stream'[table'].call # "opening"
    PROVE  StreamsInv'
  BY StreamsKept DEF Typed

LEMMA NotResync ==
    ASSUME Typed, room # "resync"
    PROVE  resync = Idle
  BY DEF Typed, StreamsInv

LEMMA StreamsCut ==
    ASSUME Typed, room # "resync", room' # "resync", UNCHANGED <<at, resync>>,
           \A s \in Streams : stream'[s].call = stream[s].call, table' \in {table, None}
    PROVE  StreamsInv'
<1>1. ControlOK /\ StreamsInv /\ resync' = Idle
  BY NotResync DEF Typed
<1>2. \A u \in Users : at'[u].at = "opening" => stream'[at[u].stream].call = "opening"
  BY <1>1, OpeningStreams DEF StreamsInv, Opening
<1>3. table' # None => stream'[table'].call # "opening"
  BY <1>1 DEF StreamsInv, ControlOK
<1> QED
  BY <1>1, <1>2, <1>3, StreamsAlone DEF StillOpening

LEMMA ReconnectTyped ==
    ASSUME Typed, Reconnect
    PROVE  DataOK' /\ StreamsInv'
<1>0. /\ ControlOK /\ DataOK /\ StreamsInv /\ Known' = Known /\ room = "offline"
      /\ UNCHANGED <<docVars, table, at, serverVars>>
  BY DEF Typed, Reconnect, Known, serverVars
<1>1. CASE connected = None /\ room' = "up" /\ UNCHANGED <<base, stream, resync>>
  <2>1. DataOK'
    BY <1>0, <1>1 DEF DataOK, docVars, serverVars
  <2> QED
    BY <1>0, <1>1, <2>1, StreamsCut
<1>2. CASE /\ connected # None /\ StreamLeft
           /\ room' = "resync"
           /\ resync' = [at |-> "opening", stream |-> UnusedStream, doc |-> connected,
                         payload |-> Missed]
           /\ base' = NoBase
           /\ stream' = [stream EXCEPT ![UnusedStream] = Asking(content[connected])]
  <2> DEFINE us == UnusedStream
             E == content[connected]
             P == Missed
  <2>1. E \in SUBSET Known /\ P \in SUBSET Known /\ connected \in Objects
    BY <1>0, <1>2, MissedIs DEF ControlOK
  <2>2. /\ stream' \in StreamsOf(Known) /\ us \in Streams
        /\ \A v \in Streams \ {us} : stream'[v] = stream[v]
        /\ Fresh(stream'[us], E)
        /\ stream[us].call = "over" /\ us # table
    BY <1>0, <1>2, <2>1, AskedFor
  <2>3. /\ resync' = [at |-> "opening", stream |-> us, doc |-> connected, payload |-> P]
        /\ resync'.stream = us /\ resync' # Idle
    BY <1>2 DEF Idle
  <2> HIDE DEF us, E, P
  <2>4. resync' \in [at: {"opening"}, stream: Streams, doc: Objects, payload: SUBSET Known]
    BY <2>1, <2>2, <2>3
  <2>5. DataOK'
    BY <1>0, <1>2, <2>2, <2>4, NoBaseIs DEF DataOK, docVars, serverVars
  <2>6. \A v \in Users : at[v].at = "opening" => at[v].stream \in Streams \ {us}
    BY <1>0, <2>2, OpeningStreams DEF StreamsInv, Opening
  <2>7. \A u \in Opening' : u \in Opening /\ stream'[at'[u].stream].call = "opening" /\ at'[u].stream # us
    BY <1>0, <2>2, <2>6 DEF StreamsInv, Opening
  <2>8. \A u, v \in Opening' : u # v => at'[u].stream # at'[v].stream
    BY <1>0, <2>7 DEF StreamsInv
  <2>9. /\ stream'[resync'.stream].call = "opening"
        /\ stream'[resync'.stream].open /\ stream'[resync'.stream].link = "live"
    BY <1>0, <2>2, <2>3 DEF Fresh
  <2>10. table' # None => stream'[table'].call # "opening"
    BY <1>0, <2>2 DEF StreamsInv, ControlOK
  <2> QED
    BY <1>2, <2>3, <2>5, <2>7, <2>8, <2>9, <2>10 DEF StreamsInv
<1> QED
  BY <1>1, <1>2 DEF Reconnect

LEMMA ResyncEndsTyped ==
    ASSUME Typed, ResyncEnds
    PROVE  DataOK' /\ StreamsInv'
<1>0. ControlOK /\ DataOK /\ StreamsInv /\ room = "resync" /\ resync # Idle
  BY DEF Typed, ResyncEnds, StreamsInv
<1>1. resync.stream \in Streams
  BY <1>0, ResyncTypes
<1>2. \A u \in Users : at[u].at = "opening" => at[u].stream \in Streams \ {resync.stream}
  BY <1>0, OpeningStreams DEF StreamsInv, Opening
<1>3. CASE AttemptFails
  <2>0. /\ UNCHANGED <<docVars, at, serverVars>> /\ resync' = Idle /\ room' # "resync" /\ Forget
        /\ Known' = Known
    BY <1>3 DEF AttemptFails, Known, serverVars
  <2>1. /\ stream' \in StreamsOf(Known)
        /\ \A s \in Streams \ {resync.stream} : stream'[s].call = stream[s].call
    BY <1>0, <1>1, <1>3, AttemptFailsIs
  <2>2. DataOK' /\ table' = None
    BY <1>0, <2>0, <2>1, ForgetIs DEF DataOK, docVars, serverVars
  <2>3. \A u \in Users : at'[u].at = "opening" => stream'[at[u].stream].call = "opening"
    BY <1>0, <1>2, <2>0, <2>1 DEF StreamsInv, Opening
  <2> QED
    BY <2>0, <2>2, <2>3, StreamsAlone DEF StillOpening
<1>4. CASE stream[resync.stream].down # <<>> /\ Reopened
  <2>0. /\ UNCHANGED <<base, at, serverVars>> /\ resync' = Idle /\ room' # "resync"
        /\ table' = resync.stream /\ Known' = Known
    BY <1>4 DEF Reopened, Known, serverVars
  <2>1. /\ stream' \in StreamsOf(Known) /\ content' \in [Objects -> SUBSET Known]
        /\ \A v \in Streams \ {resync.stream} : Same(stream'[v], stream[v])
        /\ stream'[resync.stream].call = "running"
    BY <1>0, <1>4, ReopenedIs
  <2>2. DataOK'
    BY <1>0, <2>0, <2>1 DEF DataOK, serverVars
  <2>3. \A u \in Users : at'[u].at = "opening" => stream'[at[u].stream].call = "opening"
    BY <1>0, <1>2, <2>0, <2>1 DEF StreamsInv, Opening, Same, Alike
  <2>4. table' # None => stream'[table'].call # "opening"
    BY <2>0, <2>1
  <2> QED
    BY <2>0, <2>2, <2>3, <2>4, StreamsAlone DEF StillOpening
<1> QED
  BY <1>3, <1>4 DEF ResyncEnds

LEMMA RoomTyped ==
    ASSUME Typed, RoomStep
    PROVE  DataOK' /\ StreamsInv'
<1>0. ControlOK /\ DataOK
  BY DEF Typed
<1>1. CASE /\ UNCHANGED <<content, at, resync, serverVars>>
           /\ stream' \in StreamsOf(Known) /\ \A s \in Streams : stream'[s].call = stream[s].call
           /\ base' \in [known: BOOLEAN, edits: SUBSET Known]
           /\ room # "resync" /\ room' # "resync" /\ table' \in {table, None}
  <2>1. DataOK'
    BY <1>0, <1>1 DEF DataOK, serverVars, Known
  <2> QED
    BY <1>1, <2>1, StreamsCut
<1>2. stream \in StreamsOf(Known) /\ base \in [known: BOOLEAN, edits: SUBSET Known]
  BY <1>0 DEF DataOK
<1>3. CASE LinkLost
  BY <1>0, <1>1, <1>2, <1>3, LinkLostIs DEF LinkLost, docVars
<1>4. CASE Disconnected
  BY <1>0, <1>1, <1>2, <1>4, DisconnectedIs, ForgetIs DEF Disconnected, docVars
<1>5. CASE GiveUp
  BY <1>0, <1>1, <1>2, <1>5 DEF GiveUp, docVars
<1>6. CASE Exit
  BY <1>0, <1>1, <1>2, <1>6, ExitIs DEF Exit, docVars
<1>7. CASE Stop
  <2>1. CASE connected # None /\ CloseLast(Room)
    BY <1>7, <2>1, CloseLastTyped, UsersAreTasks DEF Stop
  <2>2. CASE UNCHANGED <<docVars, base, table, stream, at>>
    BY <1>0, <1>1, <1>2, <1>7, <2>2 DEF Stop, docVars
  <2> QED
    BY <1>7, <2>1, <2>2 DEF Stop
<1>8. CASE StopEnds
  BY <1>0, <1>1, <1>2, <1>8, NoBaseIs DEF StopEnds, docVars
<1> QED
  BY <1>3, <1>4, <1>5, <1>6, <1>7, <1>8, ReconnectTyped, ResyncEndsTyped DEF RoomStep

LEMMA InitTyped == Init => Typed
<1> SUFFICES ASSUME Init PROVE Typed
  OBVIOUS
<1>1. stream \in StreamsOf(Known)
  BY EndedIs DEF Init, StreamsOf
<1>2. content \in [Objects -> SUBSET Known] /\ base \in [known: BOOLEAN, edits: SUBSET Known]
  BY NoBaseIs DEF Init
<1>3. DataOK
  BY <1>1, <1>2 DEF Init, DataOK
<1>4. StreamsInv
  BY UsersAreTasks DEF Init, StreamsInv, Opening, Idle
<1> QED
  BY <1>3, <1>4, InitControl DEF Typed

LEMMA NextTyped ==
    ASSUME Typed, [Next]_vars
    PROVE  Typed'
<1>0. ControlOK' /\ WaitInv'
  <2>1. room = "resync" => resync.stream \in Streams
    BY ResyncTypes DEF Typed, StreamsInv
  <2> QED
    BY <2>1, NextControl DEF Typed
<1>1. CASE UNCHANGED vars
  <2>1. DataOK' /\ StreamsInv'
    BY <1>1 DEF vars, docVars, serverVars, ghosts, bounds, Typed, DataOK, StreamsInv, Opening, Known
  <2> QED
    BY <1>0, <2>1 DEF Typed
<1>2. ASSUME NEW u \in Users, User(u) PROVE DataOK' /\ StreamsInv'
  <2>1. CASE Resume(u)
    BY <2>1, ProceedTyped DEF Resume
  <2> QED
    BY <1>2, <2>1, OpenTyped, OpenedTyped, OpenFailsTyped, CancelTyped, CloseDocumentTyped, EditTyped
    DEF User
<1>3. CASE Server
  <2>1. /\ stream' \in StreamsOf(Known) /\ server' \subseteq Known
        /\ UNCHANGED ServerVars /\ CallsStay
    BY <1>3, ServerTyped
  <2>2. DataOK' /\ StillOpening /\ UNCHANGED <<room, resync, table>>
    BY <2>1 DEF Typed, DataOK, ServerVars, docVars, Known, StillOpening
  <2> QED
    BY <1>0, <2>1, <2>2, StreamsStay DEF Typed
<1>4. DataOK' /\ StreamsInv' => Typed'
  BY <1>0 DEF Typed
<1> QED
  BY <1>1, <1>2, <1>3, <1>4, CloseReturnsTyped, ConsumeTyped, RoomTyped DEF Next

LEMMA TypedGivesTypeOK == Typed => TypeOK
<1> SUFFICES ASSUME Typed PROVE TypeOK
  OBVIOUS
<1>1. Known \subseteq Edits
  BY DEF Typed, DataOK, Known, Edits
<1>2. StreamOf(Known) \subseteq StreamOf(Edits)
  BY <1>1, StreamGrows
<1>3. StreamOf(Edits) = StreamRecord
  BY DEF StreamOf, StreamRecord, ChunkOf, Chunk
<1>4. stream \in [Streams -> StreamRecord]
  BY <1>2, <1>3 DEF Typed, DataOK, StreamsOf
<1>5. /\ content \in [Objects -> SUBSET Edits] /\ base \in [known: BOOLEAN, edits: SUBSET Edits]
      /\ resync \in {Idle} \cup [at: {"opening"}, stream: Streams, doc: Objects,
                                 payload: SUBSET Edits]
      /\ server \subseteq Edits /\ made \subseteq LocalEdits
  BY <1>1 DEF Typed, DataOK
<1> QED
  BY <1>4, <1>5 DEF TypeOK, Typed, ControlOK

LEMMA AlwaysTyped == Spec => []Typed
  BY InitTyped, NextTyped, PTL DEF Spec

(* Every variable has its type, whatever the instance. *)
THEOREM TypeCorrect == Spec => []TypeOK
  BY AlwaysTyped, TypedGivesTypeOK, PTL

-----------------------------------------------------------------------------
(* Nobody closes the document that is connected. *)
ClosingInv == \A t \in Tasks : at[t].at = "closing" => at[t].doc # connected

NobodyCloses == \A t \in Tasks : at'[t].at = "closing" => at'[t] = at[t]

LEMMA ClosingStays ==
    ASSUME ClosingInv, NobodyCloses, connected' = connected
    PROVE  ClosingInv'
  BY DEF ClosingInv, NobodyCloses

LEMMA CloseLastCloses ==
    ASSUME Typed, ClosingInv, NEW t \in Tasks, connected # None, CloseLast(t)
    PROVE  ClosingInv'
<1>1. connected' = None /\ connected \in Objects /\ at \in [Tasks -> Task] /\ None \notin Objects
  BY SyncAssumption DEF CloseLast, Typed, ControlOK
<1>2. ASSUME NEW v \in Tasks, at'[v].at = "closing" PROVE at'[v].doc \in Objects
  <2>1. at'[v] = at[v] \/ at'[v] = Idle
        \/ at'[v] = [at |-> "closing", stream |-> table, doc |-> connected]
    BY <1>1 DEF CloseLast
  <2>2. at[v].at = "closing" => at[v].doc \in Objects
    BY <1>1, TaskIs
  <2> QED
    BY <1>1, <1>2, <2>1, <2>2 DEF Idle
<1> QED
  BY <1>1, <1>2 DEF ClosingInv

LEMMA OpenedCloses ==
    ASSUME Typed, ClosingInv, NEW u \in Users, Opened(u)
    PROVE  ClosingInv'
<1>1. connected' = UnusedObject /\ UnusedObject \in UnusedObjects
      /\ \E next : next.at # "closing" /\ FutureDone(u, next, [at |-> "resumed"])
  BY ChosenObject DEF Opened, Idle
<1>2. \A t \in Tasks : at[t].at = "closing" => at[t].doc # UnusedObject
  BY <1>1 DEF UnusedObjects
<1>3. NobodyCloses
  BY <1>1, FutureDoneIs, UsersAreTasks DEF NobodyCloses, Typed, Idle
<1> QED
  BY <1>1, <1>2, <1>3 DEF ClosingInv, NobodyCloses

LEMMA ProceedCloses ==
    ASSUME Typed, NEW u \in Users, Proceed(u)
    PROVE  NobodyCloses /\ connected' = connected
<1>1. at \in [Tasks -> Task] /\ u \in Tasks
  BY UsersAreTasks DEF Typed, ControlOK
<1>2. \E a : a.at # "closing" /\ at' = [at EXCEPT ![u] = a]
  BY DEF Proceed, Share, Idle
<1>3. connected' = connected
  BY DEF Proceed, Share, docVars
<1> QED
  BY <1>1, <1>2, <1>3 DEF NobodyCloses

LEMMA CancelCloses ==
    ASSUME Typed, NEW u \in Users, Cancel(u)
    PROVE  NobodyCloses /\ connected' = connected
<1>0. at \in [Tasks -> Task] /\ u \in Tasks /\ Users \subseteq Tasks
  BY UsersAreTasks DEF Typed, ControlOK
<1>1. ASSUME NEW v \in Tasks, at'[v].at = "closing" PROVE at'[v] = at[v]
  <2>1. CASE at' = [w \in Tasks |->
                        IF w = u THEN Idle
                        ELSE IF at[w] = [at |-> "waiting", on |-> u]
                             THEN [at[w] EXCEPT !.on = "lost"] ELSE at[w]]
    <3>1. at'[v] = IF v = u THEN Idle
                   ELSE IF at[v] = [at |-> "waiting", on |-> u]
                        THEN [at |-> "waiting", on |-> "lost"] ELSE at[v]
      BY <2>1
    <3> QED
      BY <1>1, <3>1 DEF Idle
  <2>2. CASE at[u].at = "waiting" /\
             at' = [w \in Tasks |->
                        IF at[w] = at[u] THEN Idle
                        ELSE IF w = at[u].on THEN [at[w] EXCEPT !.future = FALSE] ELSE at[w]]
    <3>1. \/ at'[v] = Idle \/ at'[v] = at[v]
          \/ v = at[u].on /\ at'[v] = [at[v] EXCEPT !.future = FALSE]
      BY <2>2
    <3>2. CASE v = at[u].on /\ at'[v] = [at[v] EXCEPT !.future = FALSE]
      <4>1. at[u] = [at |-> "waiting", on |-> v] /\ v \in Users
        <5>1. at[u] = [at |-> "waiting", on |-> at[u].on] /\ at[u].on \in Users \cup {"lost"}
          BY <1>0, <2>2, TaskIs
        <5> QED
          BY <3>2, <5>1, SyncAssumption DEF Tasks
      <4>2. at[v].at = "opening" /\ at[v] \in Task
        BY <1>0, <4>1 DEF Typed, WaitInv, FutureOf
      <4>3. [at[v] EXCEPT !.future = FALSE].at = "opening"
        BY <4>2, FutureOff
      <4> QED
        BY <1>1, <3>2, <4>3
    <3> QED
      BY <1>1, <3>1, <3>2 DEF Idle
  <2> QED
    BY <2>1, <2>2 DEF Cancel
<1>2. connected' = connected
  BY DEF Cancel, docVars
<1> QED
  BY <1>1, <1>2 DEF NobodyCloses

LEMMA NextCloses ==
    ASSUME Typed, ClosingInv, [Next]_vars
    PROVE  ClosingInv'
<1>0. at \in [Tasks -> Task] /\ ControlOK
  BY DEF Typed, ControlOK
<1>1. CASE UNCHANGED controlVars
  BY <1>1, ClosingStays DEF NobodyCloses, controlVars
<1>2. ASSUME NEW u \in Users, User(u) PROVE ClosingInv'
  <2>1. CASE Open(u)
    <3>1. CASE Proceed(u)
      BY <3>1, ProceedCloses, ClosingStays
    <3>2. CASE at' = [at EXCEPT ![u] = [at |-> "waiting", on |-> connecting]] /\ UNCHANGED docVars
      BY <1>0, <3>2, ClosingStays, UsersAreTasks DEF NobodyCloses, docVars
    <3> QED
      BY <2>1, <3>1, <3>2 DEF Open, docVars
  <2>2. CASE Resume(u)
    BY <2>2, ProceedCloses, ClosingStays DEF Resume
  <2>3. CASE OpenFails(u)
    <3>1. NobodyCloses /\ connected' = connected
      BY <1>0, <2>3, FutureDoneIs, UsersAreTasks DEF OpenFails, NobodyCloses, docVars, Idle
    <3> QED
      BY <3>1, ClosingStays
  <2>4. CASE CloseDocument(u)
    <3>1. CASE connected # None /\ CloseLast(u)
      BY <3>1, CloseLastCloses, UsersAreTasks
    <3>2. CASE at' = [at EXCEPT ![u] = Idle] /\ connected' = connected
      BY <1>0, <3>2, ClosingStays, UsersAreTasks DEF NobodyCloses, Idle
    <3> QED
      BY <2>4, <3>1, <3>2 DEF CloseDocument, docVars
  <2> QED
    BY <1>1, <1>2, <2>1, <2>2, <2>3, <2>4, OpenedCloses, CancelCloses, ClosingStays, ControlAlone
    DEF User
<1>3. ASSUME NEW t \in Tasks, CloseReturns(t) PROVE ClosingInv'
  BY <1>0, <1>3, ClosingStays DEF NobodyCloses, CloseReturns, Idle
<1>4. CASE RoomStep
  <2>1. CASE connected' = connected /\ UNCHANGED at
    BY <2>1, ClosingStays DEF NobodyCloses
  <2>2. CASE connected # None /\ CloseLast(Room)
    BY <2>2, CloseLastCloses, UsersAreTasks
  <2> QED
    BY <1>4, <2>1, <2>2 DEF RoomStep, LinkLost, Disconnected, GiveUp, Reconnect, ResyncEnds,
       AttemptFails, Reopened, Exit, Stop, StopEnds, docVars
<1> QED
  BY <1>1, <1>2, <1>3, <1>4, ControlAlone DEF Next

LEMMA AlwaysClosing == Spec => []ClosingInv
<1>1. Init => ClosingInv
  BY DEF Init, ClosingInv, Idle
<1> QED
  BY <1>1, NextCloses, AlwaysTyped, PTL DEF Spec

-----------------------------------------------------------------------------
(* Who holds the document, while no open has been cancelled or overtaken   *)
(* and the room has not closed it: one task opens it at a time, while it   *)
(* is not open, and the stream in the table is its own.                    *)
Regular == ~disturbed /\ room \notin {"stopping", "closing", "left"}

OneOpens ==
    /\ \A u \in Opening : connecting = u /\ at[u].future
    /\ connecting # None => connecting \in Opening
    /\ Opening # {} => connected = None

TableIsOurs ==
    /\ table # None => connected # None
    /\ table # None /\ stream[table].open =>
          stream[table].call = "running" /\ stream[table].doc = connected

Counted ==
    /\ \A u \in Held : at[u].doc = connected
    /\ connected # None => count = Cardinality(Held) /\ connected \in registered
    /\ connected = None => Held = {}

HoldersInv == Regular => OneOpens /\ TableIsOurs /\ Counted

LEMMA HeldIs == Held \subseteq Users /\ IsFiniteSet(Held)
  BY SyncAssumption, FS_Subset DEF Held

(* Nothing changes but streams, and none of those that are open. *)
OpenStay ==
    \A s \in Streams :
        stream'[s].open => /\ stream[s].open
                           /\ stream[s].call # "over" =>
                                stream'[s].call = stream[s].call /\ stream'[s].doc = stream[s].doc

LEMMA TableStays ==
    ASSUME Typed, TableIsOurs, OpenStay, table' \in {table, None}, connected' = connected
    PROVE  TableIsOurs'
<1>1. table # None => table \in Streams
  BY DEF Typed, ControlOK
<1> QED
  BY <1>1 DEF TableIsOurs, OpenStay

LEMMA TasksStay ==
    ASSUME OneOpens, Counted, UNCHANGED <<at, connected, count, connecting>>,
           connected # None /\ connected \in registered => connected \in registered'
    PROVE  OneOpens' /\ Counted'
  BY DEF OneOpens, Counted, Opening, Held

LEMMA ProceedHolders ==
    ASSUME Typed, OneOpens, TableIsOurs, Counted,
           NEW u \in Users, at[u].at \in {"idle", "resumed"}, Proceed(u),
           UNCHANGED table, ~disturbed'
    PROVE  OneOpens' /\ TableIsOurs' /\ Counted'
<1>0. at \in [Tasks -> Task] /\ u \in Tasks /\ Users \subseteq Tasks /\ count \in Nat
      /\ None \notin Objects /\ connected \in Objects \cup {None} /\ None \notin Users
  BY UsersAreTasks, SyncAssumption DEF Typed, ControlOK
<1>1. CASE Share(u)
  <2>1. /\ connected # None /\ count' = count + 1 /\ at' = [at EXCEPT ![u] = [at |-> "open", doc |-> connected]]
        /\ UNCHANGED <<connected, content, registered, connecting, stream, disturbed>>
    BY <1>1 DEF Share
  <2>2. Opening = {} /\ Opening' = {}
    BY <1>0, <2>1 DEF OneOpens, Opening
  <2>3. OneOpens'
    BY <2>1, <2>2 DEF OneOpens
  <2>4. Held' = Held \cup {u} /\ u \notin Held
    BY <1>0, <2>1 DEF Held
  <2>5. Cardinality(Held') = Cardinality(Held) + 1
    BY <2>4, HeldIs, FS_AddElement
  <2>6. \A v \in Held' : at'[v].doc = connected
    BY <1>0, <2>1, <2>4 DEF Counted, Held
  <2>7. Counted'
    BY <2>1, <2>5, <2>6 DEF Counted
  <2>8. TableIsOurs'
    BY <2>1 DEF TableIsOurs
  <2> QED
    BY <2>3, <2>7, <2>8
<1>2. CASE /\ connected = None
           /\ disturbed' = (disturbed \/ Opening # {})
           /\ UNCHANGED docVars
  <2>1. Opening = {} /\ table = None /\ Held = {} /\ connected' = None
    BY <1>2 DEF TableIsOurs, Counted, docVars
  <2>2. CASE /\ connecting' = u
             /\ at' = [at EXCEPT ![u] = [at |-> "opening", stream |-> UnusedStream, future |-> TRUE]]
    <3>1. at'[u].at = "opening" /\ at'[u].future /\ \A v \in Users \ {u} : at'[v] = at[v]
      BY <1>0, <2>2
    <3>2. Opening' = {u} /\ Held' = {}
      BY <2>1, <3>1 DEF Opening, Held
    <3> QED
      BY <2>1, <2>2, <3>1, <3>2 DEF OneOpens, TableIsOurs, Counted
  <2>3. CASE connecting' = None /\ at' = [at EXCEPT ![u] = Idle]
    <3>1. Opening' = {} /\ Held' = {}
      BY <1>0, <2>1, <2>3 DEF Opening, Held, Idle
    <3> QED
      BY <2>1, <2>3, <3>1 DEF OneOpens, TableIsOurs, Counted
  <2> QED
    BY <1>1, <1>2, <2>2, <2>3 DEF Proceed
<1> QED
  BY <1>1, <1>2 DEF Proceed

LEMMA OpenHolders ==
    ASSUME Typed, OneOpens, TableIsOurs, Counted, NEW u \in Users, Open(u), ~disturbed'
    PROVE  OneOpens' /\ TableIsOurs' /\ Counted'
<1>0. at[u] = Idle /\ at \in [Tasks -> Task] /\ u \in Tasks /\ Users \subseteq Tasks
      /\ UNCHANGED table
  BY UsersAreTasks DEF Open, Typed, ControlOK
<1>1. CASE Proceed(u)
  <2>1. at[u].at = "idle"
    BY <1>0 DEF Idle
  <2> QED
    BY <1>0, <1>1, <2>1, ProceedHolders
<1>2. CASE /\ at' = [at EXCEPT ![u] = [at |-> "waiting", on |-> connecting]]
           /\ UNCHANGED <<docVars, connecting, stream, disturbed>>
  <2>1. /\ Opening' = Opening /\ Held' = Held /\ u \notin Opening \cup Held
        /\ \A v \in Users \ {u} : at'[v] = at[v]
    BY <1>0, <1>2 DEF Opening, Held, Idle
  <2> QED
    BY <1>0, <1>2, <2>1, HeldIs DEF OneOpens, TableIsOurs, Counted, docVars, Opening
<1> QED
  BY <1>1, <1>2 DEF Open

(* The one task that opens does so no more; whoever waits is woken. *)
LEMMA OneIsDone ==
    ASSUME Typed, OneOpens, NEW u \in Opening, NEW next, NEW to,
           next.at # "opening", to.at \notin {"opening", "open"}, FutureDone(u, next, to)
    PROVE  /\ connecting' = None /\ Opening' = {} /\ at'[u] = next
           /\ Held' = (Held \cup {u}) \ (IF next.at = "open" THEN {} ELSE {u})
           /\ \A v \in Held : at'[v] = at[v]
<1>0. at \in [Tasks -> Task] /\ u \in Users /\ Users \subseteq Tasks /\ at[u].at = "opening"
      /\ at[u].future /\ Opening = {u}
  BY UsersAreTasks DEF Typed, ControlOK, Opening, OneOpens
<1>1. connecting' = None /\ at' = Woken(u, next, to)
  BY <1>0 DEF FutureDone
<1>2. at'[u] = next
  BY <1>0, <1>1 DEF Woken
<1>3. \A v \in Users \ {u} : at'[v] = at[v] \/ (at[v].at = "waiting" /\ at'[v] = to)
  BY <1>0, <1>1 DEF Woken
<1>4. Opening' = {}
  BY <1>0, <1>2, <1>3 DEF Opening
<1>5. Held' = (Held \cup {u}) \ (IF next.at = "open" THEN {} ELSE {u})
  BY <1>0, <1>2, <1>3 DEF Held
<1>6. \A v \in Held : at'[v] = at[v]
  BY <1>0, <1>3 DEF Held
<1> QED
  BY <1>1, <1>2, <1>4, <1>5, <1>6

LEMMA OpenedHolders ==
    ASSUME Typed, OneOpens, TableIsOurs, Counted, NEW u \in Users, Opened(u)
    PROVE  OneOpens' /\ TableIsOurs' /\ Counted'
<1> DEFINE o == UnusedObject
           s == at[u].stream
<1>0. ControlOK /\ DataOK /\ u \in Opening /\ at[u].future /\ connecting # None
      /\ None \notin Objects /\ None \notin Users
  BY SyncAssumption DEF Typed, Opened, Opening, OneOpens
<1>1. /\ s \in Streams /\ o \in UnusedObjects
      /\ stream'[s].call = "running" /\ stream'[s].doc = o
  BY <1>0, OpenedIs
<1>2. /\ connected' = o /\ count' = 1 /\ registered' = registered \cup {o} /\ table' = s
      /\ FutureDone(u, [at |-> "open", doc |-> o], [at |-> "resumed"])
  BY <1>0 DEF Opened
<1>3. /\ connecting' = None /\ Opening' = {} /\ at'[u] = [at |-> "open", doc |-> o]
      /\ Held' = Held \cup {u}
  BY <1>0, <1>2, OneIsDone
<1>4. Held = {} /\ Held' = {u}
  BY <1>0, <1>3 DEF OneOpens, Counted
<1>5. Cardinality(Held') = 1
  BY <1>4, FS_Singleton
<1>6. o # None
  BY <1>0, <1>1 DEF UnusedObjects
<1>7. OneOpens'
  BY <1>3 DEF OneOpens
<1>8. TableIsOurs'
  BY <1>1, <1>2, <1>6 DEF TableIsOurs
<1>9. Counted'
  BY <1>2, <1>3, <1>4, <1>5, <1>6 DEF Counted
<1> QED
  BY <1>7, <1>8, <1>9

LEMMA OpenFailsHolders ==
    ASSUME Typed, OneOpens, TableIsOurs, Counted, NEW u \in Users, OpenFails(u)
    PROVE  OneOpens' /\ TableIsOurs' /\ Counted'
<1>0. u \in Opening /\ FutureDone(u, Idle, Idle) /\ UNCHANGED <<docVars, table>>
      /\ connected = None /\ Held = {} /\ table = None
  BY DEF OpenFails, Opening, OneOpens, Counted, TableIsOurs
<1>1. connecting' = None /\ Opening' = {} /\ Held' = {}
  BY <1>0, OneIsDone DEF Idle
<1> QED
  BY <1>0, <1>1 DEF OneOpens, TableIsOurs, Counted, docVars

LEMMA CloseDocumentHolders ==
    ASSUME Typed, OneOpens, TableIsOurs, Counted, NEW u \in Users, CloseDocument(u)
    PROVE  OneOpens' /\ TableIsOurs' /\ Counted'
<1>0. at \in [Tasks -> Task] /\ u \in Tasks /\ Users \subseteq Tasks /\ u \in Held
      /\ UNCHANGED connecting /\ count \in Nat
  BY UsersAreTasks DEF Typed, ControlOK, CloseDocument, Held
<1>1. connected # None /\ Opening = {}
  BY <1>0 DEF Counted, OneOpens
<1>2. Cardinality(Held \ {u}) = Cardinality(Held) - 1 /\ IsFiniteSet(Held \ {u})
  BY <1>0, HeldIs, FS_RemoveElement
<1>3. ASSUME at'[u].at \in {"idle", "closing"}, \A v \in Tasks \ {u} : at'[v] = at[v]
      PROVE  /\ Opening' = {} /\ Held' = Held \ {u} /\ \A v \in Held' : at'[v] = at[v]
  BY <1>0, <1>1, <1>3 DEF Opening, Held
<1>4. CASE count = 1 /\ CloseLast(u)
  <2>1. at'[u].at \in {"idle", "closing"} /\ \A v \in Tasks \ {u} : at'[v] = at[v]
    BY <1>0, <1>4 DEF CloseLast, Idle
  <2>2. Opening' = {} /\ Held' = Held \ {u}
    BY <1>3, <2>1
  <2>3. Held' = {}
    <3>1. Cardinality(Held \ {u}) = 0
      BY <1>1, <1>2, <1>4 DEF Counted
    <3> QED
      BY <1>2, <2>2, <3>1, FS_EmptySet
  <2>4. connected' = None /\ table' = None
    BY <1>4 DEF CloseLast
  <2> QED
    BY <1>0, <1>1, <2>2, <2>3, <2>4 DEF OneOpens, TableIsOurs, Counted
<1>5. CASE /\ count > 1 /\ count' = count - 1 /\ at' = [at EXCEPT ![u] = Idle]
           /\ UNCHANGED <<connected, content, registered, base, table, stream>>
  <2>0. at'[u].at \in {"idle", "closing"} /\ \A v \in Tasks \ {u} : at'[v] = at[v]
    BY <1>0, <1>5 DEF Idle
  <2>1. /\ Opening' = {} /\ Held' = Held \ {u} /\ \A v \in Held' : at'[v] = at[v]
    BY <1>3, <2>0
  <2>2. Counted'
    BY <1>1, <1>2, <1>5, <2>1 DEF Counted
  <2> QED
    BY <1>0, <1>1, <1>5, <2>1, <2>2 DEF OneOpens, TableIsOurs
<1> QED
  BY <1>1, <1>4, <1>5 DEF CloseDocument

LEMMA CloseReturnsHolders ==
    ASSUME Typed, ClosingInv, OneOpens, TableIsOurs, Counted, NEW t \in Tasks, CloseReturns(t)
    PROVE  OneOpens' /\ TableIsOurs' /\ Counted'
<1>0. at \in [Tasks -> Task] /\ Users \subseteq Tasks /\ at[t].doc # connected /\ at[t].at = "closing"
      /\ at' = [at EXCEPT ![t] = Idle] /\ registered' = registered \ {at[t].doc}
      /\ UNCHANGED <<connected, count, connecting, table, stream>>
  BY UsersAreTasks DEF Typed, ControlOK, CloseReturns, Unregister, ClosingInv
<1>1. Opening' = Opening /\ Held' = Held /\ \A v \in Opening \cup Held : at'[v] = at[v]
  BY <1>0 DEF Opening, Held, Idle
<1> QED
  BY <1>0, <1>1 DEF OneOpens, TableIsOurs, Counted

LEMMA ServerHolders ==
    ASSUME Typed, OneOpens, TableIsOurs, Counted, Server
    PROVE  OneOpens' /\ TableIsOurs' /\ Counted'
<1>1. UNCHANGED ServerVars /\ DataOK
  BY ServerTyped DEF Typed
<1>2. ASSUME NEW s \in Streams, \A v \in Streams \ {s} : Alike(stream'[v], stream[v]),
             \/ Pulled(stream'[s], stream[s])
             \/ IF stream[s].call = "over" THEN ~stream'[s].open
                ELSE stream'[s].call = stream[s].call /\ stream'[s].doc = stream[s].doc
                     /\ stream'[s].open = stream[s].open
      PROVE OpenStay
  BY <1>2 DEF OpenStay, Alike, Pulled
<1>3. OpenStay
  <2>1. ASSUME NEW s \in Streams, ServerOpens(s) \/ ServerRefuses(s) \/ ServerCloses(s) PROVE OpenStay
    BY <1>1, <1>2, <2>1, ServerOpensIs, ServerRefusesIs, ServerClosesIs DEF Same
  <2>2. ASSUME NEW s \in Streams, ServerTakes(s) PROVE OpenStay
    <3>1. Pulled(stream'[s], stream[s]) /\ \A v \in Streams \ {s} : Alike(stream'[v], stream[v])
      BY <1>1, <2>2, ServerTakesIs DEF Same
    <3> QED
      BY <1>2, <3>1
  <2>3. ASSUME NEW s \in Streams, ServerEnds(s) PROVE OpenStay
    <3>1. /\ \A v \in Streams \ {s} : Alike(stream'[v], stream[v])
          /\ IF stream[s].call = "over" THEN ~stream'[s].open
             ELSE stream'[s].call = stream[s].call /\ stream'[s].doc = stream[s].doc
                  /\ stream'[s].open = stream[s].open
      BY <1>1, <2>3, ServerEndsIs DEF Same
    <3> QED
      BY <1>2, <3>1
  <2>4. ASSUME NEW e \in PeerEdits, PeerEditsDocument(e) PROVE OpenStay
    BY <1>1, <2>4, PeerEditsIs DEF OpenStay, Alike
  <2> QED
    BY <2>1, <2>2, <2>3, <2>4 DEF Server
<1> QED
  BY <1>1, <1>3, TableStays, TasksStay DEF ServerVars, docVars

LEMMA RoomHolders ==
    ASSUME Typed, Regular, OneOpens, TableIsOurs, Counted, RoomStep, Regular'
    PROVE  OneOpens' /\ TableIsOurs' /\ Counted'
<1>0. ControlOK /\ DataOK
  BY DEF Typed
<1>1. CASE /\ UNCHANGED <<at, connecting, docVars>> /\ table' \in {table, None}
           /\ (table' # None => OpenStay)
  <2>1. OneOpens' /\ Counted'
    BY <1>1, TasksStay DEF docVars
  <2>2. CASE table' = None
    BY <2>1, <2>2 DEF TableIsOurs
  <2>3. CASE OpenStay
    BY <1>1, <2>1, <2>3, TableStays DEF docVars
  <2> QED
    BY <1>1, <2>2, <2>3, <2>1
<1>2. CASE LinkLost
  <2>1. OpenStay
    BY <1>0, <1>2, LinkLostIs DEF OpenStay
  <2> QED
    BY <1>1, <1>2, <2>1 DEF LinkLost
<1>3. CASE Disconnected
  BY <1>1, <1>3 DEF Disconnected, Forget
<1>4. CASE GiveUp
  BY <1>1, <1>4 DEF GiveUp, OpenStay
<1>5. CASE Reconnect
  <2>1. CASE UNCHANGED stream
    BY <1>1, <1>5, <2>1 DEF Reconnect, OpenStay
  <2>2. CASE connected # None /\ StreamLeft
             /\ stream' = [stream EXCEPT ![UnusedStream] = Asking(content[connected])]
    <3>1. \A v \in Streams \ {UnusedStream} : stream'[v] = stream[v]
      BY <1>0, <2>2, AskedFor, MissedIs
    <3>2. UnusedStream # table /\ UnusedStream \in Streams
      BY <2>2, ChosenStream DEF UnusedStreams
    <3>3. TableIsOurs'
      BY <1>0, <1>5, <3>1, <3>2 DEF TableIsOurs, Reconnect, docVars, ControlOK
    <3>4. OneOpens' /\ Counted'
      BY <1>5, TasksStay DEF Reconnect, docVars
    <3> QED
      BY <3>3, <3>4
  <2> QED
    BY <1>5, <2>1, <2>2 DEF Reconnect
<1>6. CASE AttemptFails
  BY <1>1, <1>6 DEF AttemptFails, Forget
<1>7. CASE room = "resync" /\ stream[resync.stream].down # <<>> /\ Reopened
  <2>1. resync # Idle /\ resync.doc \in Objects /\ resync.stream \in Streams /\ None \notin Objects
    BY <1>0, <1>7, ResyncTypes, SyncAssumption DEF Typed, StreamsInv
  <2>2. disturbed' = (disturbed \/ resync.doc # connected) /\ table' = resync.stream
        /\ UNCHANGED <<connected, count, registered, connecting, at>>
    BY <1>7 DEF Reopened
  <2>3. resync.doc = connected
    BY <2>2 DEF Regular
  <2>4. stream'[resync.stream].call = "running" /\ stream'[resync.stream].doc = resync.doc
    BY <1>0, <1>7, <2>1, ReopenedIs
  <2>5. TableIsOurs'
    BY <2>1, <2>2, <2>3, <2>4 DEF TableIsOurs
  <2>6. OneOpens' /\ Counted'
    BY <2>2, TasksStay
  <2> QED
    BY <2>5, <2>6
<1>8. CASE Exit \/ Stop \/ StopEnds
  BY <1>8 DEF Exit, Stop, StopEnds, Regular
<1> QED
  BY <1>2, <1>3, <1>4, <1>5, <1>6, <1>7, <1>8 DEF RoomStep, ResyncEnds

(* What has become irregular stays so. *)
LEMMA RegularBefore ==
    ASSUME Typed, [Next]_vars, Regular'
    PROVE  Regular
<1> USE DEF Regular
<1>1. disturbed \in BOOLEAN
  BY DEF Typed, ControlOK
<1>2. CASE UNCHANGED controlVars
  BY <1>2 DEF controlVars
<1>3. ASSUME NEW u \in Users, User(u) PROVE Regular
  <2>1. CASE Proceed(u) /\ UNCHANGED room
    <3>1. disturbed' = disturbed \/ disturbed' = (disturbed \/ Opening # {})
      BY <2>1 DEF Proceed, Share
    <3> QED
      BY <1>1, <2>1, <3>1
  <2>2. CASE UNCHANGED <<room, disturbed>>
    BY <2>2
  <2>3. CASE Cancel(u)
    BY <2>3 DEF Cancel
  <2> QED
    BY <1>2, <1>3, <2>1, <2>2, <2>3, ControlAlone
    DEF User, Open, Resume, Opened, OpenFails, CloseDocument, ghosts, bounds
<1>4. ASSUME NEW t \in Tasks, CloseReturns(t) PROVE Regular
  BY <1>4 DEF CloseReturns, ghosts
<1>5. CASE RoomStep
  <2>1. CASE room = "resync" /\ AttemptFails
    <3>1. disturbed' = (disturbed \/ \E t \in Tasks : at[t].at \in {"opening", "closing"})
      BY <2>1 DEF AttemptFails
    <3> QED
      BY <1>1, <2>1, <3>1
  <2>2. CASE room = "resync" /\ Reopened
    <3>1. disturbed' = (disturbed \/ resync.doc # connected)
      BY <2>2 DEF Reopened
    <3> QED
      BY <1>1, <2>2, <3>1
  <2>3. CASE LinkLost \/ Disconnected \/ GiveUp \/ Reconnect \/ Exit \/ Stop \/ StopEnds
    BY <2>3 DEF LinkLost, Disconnected, GiveUp, Reconnect, Exit, Stop, StopEnds, ghosts
  <2> QED
    BY <1>5, <2>1, <2>2, <2>3 DEF RoomStep, ResyncEnds
<1> QED
  BY <1>2, <1>3, <1>4, <1>5, ControlAlone DEF Next

LEMMA NextHolders ==
    ASSUME Typed, ClosingInv, HoldersInv, [Next]_vars
    PROVE  HoldersInv'
<1> SUFFICES ASSUME Regular' PROVE OneOpens' /\ TableIsOurs' /\ Counted'
  BY DEF HoldersInv
<1>0. Regular /\ OneOpens /\ TableIsOurs /\ Counted /\ ControlOK /\ DataOK
  BY RegularBefore DEF HoldersInv, Typed
<1>1. CASE UNCHANGED vars
  BY <1>0, <1>1 DEF vars, docVars, OneOpens, TableIsOurs, Counted, Opening, Held
<1>2. ASSUME NEW u \in Users, User(u) PROVE OneOpens' /\ TableIsOurs' /\ Counted'
  <2>1. CASE Open(u)
    BY <1>0, <2>1, OpenHolders DEF Regular
  <2>2. CASE Resume(u)
    BY <1>0, <2>2, ProceedHolders DEF Regular, Resume
  <2>3. CASE Cancel(u)
    BY <2>3 DEF Cancel, Regular
  <2>4. ASSUME NEW e \in LocalEdits, Edit(u, e) PROVE OneOpens' /\ TableIsOurs' /\ Counted'
    <3>1. OpenStay
      BY <1>0, <2>4, EditIs DEF OpenStay, Alike
    <3> QED
      BY <1>0, <2>4, <3>1, TableStays, TasksStay DEF Edit
  <2> QED
    BY <1>0, <1>2, <2>1, <2>2, <2>3, <2>4, OpenedHolders, OpenFailsHolders, CloseDocumentHolders
    DEF User
<1>3. ASSUME NEW s \in Streams, Consume(s) PROVE OneOpens' /\ TableIsOurs' /\ Counted'
  <2>1. OpenStay
    <3>1. \/ \A v \in Streams : Alike(stream'[v], stream[v])
          \/ Finished(stream'[s], stream[s]) /\ \A v \in Streams \ {s} : stream'[v] = stream[v]
      BY <1>0, <1>3, ConsumeIs
    <3> QED
      BY <3>1 DEF OpenStay, Alike, Finished
  <2> QED
    BY <1>0, <1>3, <2>1, TableStays, TasksStay DEF Consume
<1> QED
  BY <1>0, <1>1, <1>2, <1>3, CloseReturnsHolders, ServerHolders, RoomHolders DEF Next

LEMMA AlwaysHolders == Spec => []HoldersInv
<1>1. Init => HoldersInv
  <2> SUFFICES ASSUME Init PROVE OneOpens /\ TableIsOurs /\ Counted
    BY DEF HoldersInv
  <2>1. Opening = {} /\ Held = {}
    BY UsersAreTasks DEF Init, Opening, Held, Idle
  <2> QED
    BY <2>1 DEF Init, OneOpens, TableIsOurs, Counted
<1> QED
  BY <1>1, NextHolders, AlwaysTyped, AlwaysClosing, PTL DEF Spec

(* The document is open as often as it is held, by everybody who holds it, *)
(* and what is held can be edited, until an open is cancelled or overtaken *)
(* or the room closes the document (open, close, _RefCount).               *)
THEOREM HoldersAreCounted == Spec => []HeldAsCounted
<1>1. HoldersInv => HeldAsCounted
  BY DEF HoldersInv, HeldAsCounted, Regular, Counted
<1> QED
  BY <1>1, AlwaysHolders, PTL

-----------------------------------------------------------------------------
(* While the room is offline, what the server had is known of the document *)
(* that is connected.                                                      *)
BaseInv ==
    /\ base.known => connected # None
    /\ room \in {"closing", "left"} => ~base.known
    /\ room = "offline" /\ table = None /\ connected # None => base.known

LEMMA ForgetKnows ==
    ASSUME Typed, BaseInv, Forget, connected' = connected, room' \notin {"closing", "left"}
    PROVE  BaseInv'
<1>1. CASE connected # None /\ ~base.known
  BY <1>1 DEF Forget, BaseInv
<1>2. CASE ~(connected # None /\ ~base.known)
  BY <1>2 DEF Forget, BaseInv
<1> QED
  BY <1>1, <1>2

LEMMA NextBase ==
    ASSUME Typed, BaseInv, [Next]_vars
    PROVE  BaseInv'
<1>1. CASE UNCHANGED <<base, connected, table, room>>
  BY <1>1 DEF BaseInv
<1>2. ASSUME NEW t \in Tasks, CloseLast(t), room' = "closing" \/ room' = room PROVE BaseInv'
  BY <1>2, NoBaseIs DEF CloseLast, BaseInv
<1>3. ASSUME NEW u \in Users, User(u) PROVE BaseInv'
  <2>1. CASE Open(u) \/ Resume(u)
    <3>1. UNCHANGED <<base, table, room>> /\ connected' = connected
      BY <2>1 DEF Open, Resume, Proceed, Share, docVars
    <3> QED
      BY <1>1, <3>1
  <2>2. CASE Opened(u)
    <3>1. connected' \in Objects /\ table' \in Streams /\ base' = NoBase
      BY <2>2, OpenedIs DEF Opened, Typed, UnusedObjects
    <3> QED
      BY <3>1, NoBaseIs, SyncAssumption DEF BaseInv
  <2>3. CASE OpenFails(u) \/ Cancel(u)
    BY <1>1, <2>3 DEF OpenFails, Cancel, docVars
  <2>4. CASE CloseDocument(u)
    BY <1>1, <1>2, <2>4, UsersAreTasks DEF CloseDocument, docVars
  <2>5. ASSUME NEW e \in LocalEdits, Edit(u, e) PROVE BaseInv'
    BY <1>1, <2>5 DEF Edit
  <2> QED
    BY <1>3, <2>1, <2>2, <2>3, <2>4, <2>5 DEF User
<1>4. ASSUME NEW t \in Tasks, CloseReturns(t) PROVE BaseInv'
  BY <1>1, <1>4 DEF CloseReturns
<1>5. ASSUME NEW s \in Streams, Consume(s) PROVE BaseInv'
  BY <1>1, <1>5 DEF Consume
<1>6. CASE Server
  BY <1>1, <1>6, ServerTyped DEF ServerVars, docVars
<1>7. CASE RoomStep
  <2>1. CASE LinkLost \/ GiveUp \/ Exit
    BY <2>1 DEF LinkLost, GiveUp, Exit, BaseInv, docVars
  <2>2. CASE Disconnected
    BY <2>2, ForgetKnows DEF Disconnected, docVars
  <2>3. CASE Reconnect
    BY <2>3, NoBaseIs DEF Reconnect, BaseInv, docVars
  <2>4. CASE AttemptFails
    BY <2>4, ForgetKnows DEF AttemptFails, docVars
  <2>5. CASE room = "resync" /\ Reopened
    BY <2>5 DEF Reopened, BaseInv
  <2>6. CASE Stop
    <3>1. CASE CloseLast(Room)
      BY <1>2, <2>6, <3>1, UsersAreTasks DEF Stop
    <3>2. CASE connected = None /\ UNCHANGED <<docVars, base, table, stream, at>>
      BY <2>6, <3>2 DEF Stop, BaseInv, docVars
    <3> QED
      BY <2>6, <3>1, <3>2 DEF Stop
  <2>7. CASE StopEnds
    BY <2>7, NoBaseIs DEF StopEnds, BaseInv, docVars
  <2> QED
    BY <1>7, <2>1, <2>2, <2>3, <2>4, <2>5, <2>6, <2>7 DEF RoomStep, ResyncEnds
<1>8. CASE UNCHANGED vars
  BY <1>1, <1>8 DEF vars, docVars
<1> QED
  BY <1>3, <1>4, <1>5, <1>6, <1>7, <1>8 DEF Next

LEMMA AlwaysBase == Spec => []BaseInv
<1>1. Init => BaseInv
  BY NoBaseIs DEF Init, BaseInv
<1> QED
  BY <1>1, NextBase, AlwaysTyped, PTL DEF Spec

-----------------------------------------------------------------------------
(* What is kept for the server *)
KeptStep ==
    \/ Kept \cup (IF room = "offline" /\ table = None THEN made' \ made ELSE {})
         \subseteq Kept' \cup Carried(stream') \cup server'
    \/ disturbed \/ connected' # connected
    \/ room = "resync" /\ room' = "offline"

(* It stays where the document only grows. *)
LEMMA KeptStays ==
    ASSUME UNCHANGED <<connected, base, resync, made>>,
           connected # None => content[connected] \subseteq content'[connected]
    PROVE  KeptStep
<1>1. Kept \subseteq Kept'
  BY DEF Kept, Missed
<1> QED
  BY <1>1 DEF KeptStep

LEMMA CarriedBy ==
    ASSUME NEW K, NEW ss \in StreamsOf(K), NEW s \in Streams, ss[s].link = "live",
           NEW q \in Seq(ChunkOf(K)), NEW E \in SUBSET K, ss[s].up = Append(q, Sync(E))
    PROVE  E \subseteq Carried(ss)
<1>1. Len(ss[s].up) = Len(q) + 1 /\ Len(q) \in Nat /\ ss[s].up[Len(q) + 1] = Sync(E)
  BY ChunkMade
<1>2. Len(q) + 1 \in 1..Len(ss[s].up)
  BY <1>1
<1>3. ss[s].up[Len(q) + 1].type = "sync" /\ ss[s].up[Len(q) + 1].edits = E
  BY <1>1 DEF Sync
<1> QED
  BY <1>2, <1>3 DEF Carried

LEMMA EditKept ==
    ASSUME Typed, BaseInv, HoldersInv, NEW u \in Users, NEW e \in LocalEdits, Edit(u, e)
    PROVE  KeptStep
<1>0. ControlOK /\ DataOK /\ StreamsInv /\ UNCHANGED <<room, connected, table, base, resync>>
  BY DEF Typed, Edit
<1>1. /\ e \notin made /\ made' = made \cup {e} /\ at[u].at = "open" /\ at[u].doc \in Objects
      /\ content' = [content EXCEPT ![at[u].doc] = content[at[u].doc] \cup {e}]
  BY <1>0, EditIs
<1>2. connected # None => content[connected] \subseteq content'[connected]
  BY <1>0, <1>1 DEF ControlOK, DataOK
<1>3. Kept \subseteq Kept'
  BY <1>0, <1>2 DEF Kept, Missed
<1>4. ASSUME room = "offline", table = None, ~disturbed PROVE e \in Kept'
  <2>1. Counted /\ u \in Held
    BY <1>1, <1>4 DEF HoldersInv, Regular, Held
  <2>2. connected = at[u].doc /\ connected # None
    BY <2>1 DEF Counted
  <2>3. base.known /\ resync = Idle
    BY <1>0, <1>4, <2>2 DEF BaseInv, StreamsInv
  <2>4. base.edits \subseteq made \cup PeerEdits /\ e \notin PeerEdits
    BY <1>0, SyncAssumption DEF DataOK, Known
  <2>5. e \in content'[connected] /\ e \notin base.edits
    BY <1>0, <1>1, <2>2, <2>4 DEF DataOK
  <2> QED
    BY <1>0, <2>2, <2>3, <2>5 DEF Kept, Missed
<1> QED
  BY <1>1, <1>3, <1>4 DEF KeptStep

LEMMA RoomKept ==
    ASSUME Typed, BaseInv, RoomStep
    PROVE  KeptStep
<1>0. ControlOK /\ DataOK /\ StreamsInv
  BY DEF Typed
<1>1. CASE LinkLost \/ GiveUp \/ Exit
  BY <1>1, KeptStays DEF LinkLost, GiveUp, Exit, docVars, serverVars
<1>2. CASE Disconnected
  <2>1. resync = Idle /\ UNCHANGED <<connected, content, resync, made>>
    BY <1>0, <1>2 DEF StreamsInv, Disconnected, docVars, serverVars
  <2>2. CASE connected = None \/ base.known
    <3>1. base' = base
      BY <1>2, <2>2 DEF Disconnected, Forget
    <3> QED
      BY <2>1, <3>1, KeptStays
  <2>3. CASE ~base.known
    BY <2>1, <2>3 DEF KeptStep, Kept, Missed
  <2> QED
    BY <2>2, <2>3
<1>3. CASE Reconnect
  <2>0. resync = Idle /\ UNCHANGED <<connected, content, made>>
    BY <1>0, <1>3 DEF StreamsInv, Reconnect, docVars, serverVars
  <2>1. CASE connected = None /\ UNCHANGED <<base, stream, resync>>
    BY <2>0, <2>1, KeptStays
  <2>2. CASE connected # None /\ resync'.payload = Missed /\ resync' # Idle
    BY <2>0, <2>2 DEF KeptStep, Kept
  <2> QED
    BY <1>3, <2>1, <2>2 DEF Reconnect, Idle
<1>4. CASE room = "resync" /\ AttemptFails
  BY <1>4 DEF AttemptFails, KeptStep
<1>5. CASE room = "resync" /\ stream[resync.stream].down # <<>> /\ Reopened
  <2> DEFINE s == resync.stream
             P == resync.payload
  <2>1. resync # Idle /\ stream[s].open /\ stream[s].link = "live" /\ made' = made
    BY <1>0, <1>5 DEF StreamsInv, Reopened, serverVars
  <2>2. s \in Streams /\ P \in SUBSET Known
    BY <1>0, <2>1, ResyncTypes
  <2>3. PICK E : /\ E \subseteq Known /\ stream' \in StreamsOf(Known)
                 /\ stream'[s].link = stream[s].link
                 /\ \E q \in {stream[s].up, Append(stream[s].up, Sync(E))} :
                       stream'[s].up = IF P # {} /\ stream[s].open /\ stream[s].link = "live"
                                       THEN Append(q, Sync(P)) ELSE q
    <3> DEFINE D == Head(stream[s].down).edits
               N == D \ content[resync.doc]
    <3>1. /\ D \subseteq Known /\ stream' \in StreamsOf(Known)
          /\ stream'[s].link = stream[s].link
          /\ \E q \in {stream[s].up, Append(stream[s].up, Sync(N))} :
                stream'[s].up = IF P # {} /\ stream[s].open /\ stream[s].link = "live"
                                THEN Append(q, Sync(P)) ELSE q
      BY <1>0, <1>5, <2>1, ReopenedIs
    <3>2. N \subseteq Known
      BY <3>1
    <3> QED
      BY <3>1, <3>2
  <2>4. P \subseteq Carried(stream')
    <3>1. CASE P # {}
      <4>1. PICK q \in {stream[s].up, Append(stream[s].up, Sync(E))} :
               stream'[s].up = Append(q, Sync(P))
        BY <2>1, <2>3, <3>1
      <4>2. stream[s].up \in Seq(ChunkOf(Known)) /\ Sync(E) \in ChunkOf(Known)
        BY <1>0, <2>2, <2>3, ChunkMade DEF DataOK, StreamsOf, StreamOf
      <4>3. q \in Seq(ChunkOf(Known))
        <5>1. ASSUME NEW p \in Seq(ChunkOf(Known)), NEW c \in ChunkOf(Known)
              PROVE  Append(p, c) \in Seq(ChunkOf(Known))
          OBVIOUS
        <5> QED
          BY <4>1, <4>2, <5>1
      <4> QED
        BY <2>1, <2>2, <2>3, <4>1, <4>3, CarriedBy
    <3> QED
      BY <3>1
  <2>5. Kept = P
    BY <2>1 DEF Kept
  <2> QED
    BY <2>1, <2>4, <2>5 DEF KeptStep
<1>6. CASE Stop
  <2>1. CASE connected # None /\ CloseLast(Room)
    BY <2>1 DEF CloseLast, KeptStep
  <2>2. CASE UNCHANGED <<docVars, base, table, stream, at>>
    BY <1>6, <2>2, KeptStays DEF Stop, docVars, serverVars
  <2> QED
    BY <1>6, <2>1, <2>2 DEF Stop
<1>7. CASE StopEnds
  <2>1. resync = Idle /\ ~base.known /\ made' = made
    BY <1>0, <1>7 DEF StopEnds, BaseInv, StreamsInv, serverVars
  <2> QED
    BY <2>1 DEF KeptStep, Kept, Missed
<1> QED
  BY <1>1, <1>2, <1>3, <1>4, <1>5, <1>6, <1>7 DEF RoomStep, ResyncEnds

LEMMA NextKept ==
    ASSUME Typed, ClosingInv, BaseInv, HoldersInv, [Next]_vars
    PROVE  KeptStep \/ UNCHANGED vars
<1>0. ControlOK /\ DataOK
  BY DEF Typed
<1>1. ASSUME NEW t \in Tasks, connected # None, CloseLast(t) PROVE KeptStep
  BY <1>1 DEF CloseLast, KeptStep
<1>2. ASSUME NEW u \in Users, User(u) PROVE KeptStep
  <2>1. CASE Open(u) \/ Resume(u)
    <3>1. UNCHANGED <<connected, content, base, resync, made>>
      BY <2>1 DEF Open, Resume, Proceed, Share, docVars, serverVars
    <3> QED
      BY <3>1, KeptStays
  <2>2. CASE Opened(u)
    <3>1. connected' = UnusedObject /\ UnusedObject # connected
      BY <2>2, ChosenObject DEF Opened, UnusedObjects
    <3> QED
      BY <3>1 DEF KeptStep
  <2>3. CASE OpenFails(u) \/ Cancel(u)
    BY <2>3, KeptStays DEF OpenFails, Cancel, docVars, serverVars
  <2>4. CASE CloseDocument(u)
    <3>1. CASE UNCHANGED <<connected, content, base>>
      BY <2>4, <3>1, KeptStays DEF CloseDocument, serverVars
    <3> QED
      BY <1>1, <2>4, <3>1, UsersAreTasks DEF CloseDocument, docVars
  <2> QED
    BY <1>2, <2>1, <2>2, <2>3, <2>4, EditKept DEF User
<1>3. ASSUME NEW t \in Tasks, CloseReturns(t) PROVE KeptStep
  <2>1. /\ UNCHANGED <<connected, base, resync, made>> /\ at[t].doc # connected
        /\ content' = [content EXCEPT ![at[t].doc] = {}]
    BY <1>3 DEF CloseReturns, Unregister, serverVars, ClosingInv
  <2>2. connected # None => content[connected] \subseteq content'[connected]
    BY <1>0, <2>1 DEF ControlOK, DataOK
  <2> QED
    BY <2>1, <2>2, KeptStays
<1>4. ASSUME NEW s \in Streams, Consume(s) PROVE KeptStep
  <2>1. UNCHANGED <<connected, base, resync, made>>
    BY <1>4 DEF Consume, serverVars
  <2> DEFINE o == stream[s].doc
             E == Head(stream[s].down).edits
  <2>2. \/ content' = content
        \/ o \in Objects /\ content' = [content EXCEPT ![o] = content[o] \cup E]
    BY <1>0, <1>4, ConsumeIs
  <2> HIDE DEF o, E
  <2>3. connected # None => content[connected] \subseteq content'[connected]
    BY <1>0, <2>2 DEF ControlOK, DataOK
  <2> QED
    BY <2>1, <2>3, KeptStays
<1>5. CASE Server
  BY <1>5, ServerTyped, KeptStays DEF ServerVars, docVars
<1> QED
  BY <1>2, <1>3, <1>4, <1>5, RoomKept DEF Next

(* An edit made offline of a document that the disconnect found open is    *)
(* kept, and what is kept leaves only for the server, unless the document  *)
(* is closed or opened again, or the resynchronisation that was to send it *)
(* fails (_on_room_disconnect, _on_room_reconnect).  A document opened     *)
(* offline is not such a one (OpenedOffline).                              *)
THEOREM EditsAreKept == Spec => OfflineEditsKept
<1>1. Typed /\ ClosingInv /\ BaseInv /\ HoldersInv /\ [Next]_vars
        => [Keeps(IF room = "offline" /\ ~OpenedOffline THEN made' \ made ELSE {})]_vars
  BY NextKept DEF KeptStep, Keeps, OpenedOffline
<1> QED
  BY <1>1, AlwaysTyped, AlwaysClosing, AlwaysBase, AlwaysHolders, PTL
  DEF Spec, OfflineEditsKept

-----------------------------------------------------------------------------
(* What is in a queue *)
Chunks(q) == {q[i] : i \in 1..Len(q)}

LEMMA ChunksEmpty == Chunks(<<>>) = {}
  BY DEF Chunks

(* p is q and c after it. *)
Grown(p, q, c) ==
    /\ Len(q) \in Nat /\ Len(p) = Len(q) + 1 /\ p[Len(q) + 1] = c
    /\ \A i \in 1..Len(q) : p[i] = q[i]

LEMMA ChunksMore ==
    ASSUME NEW p, NEW q, NEW c, Grown(p, q, c)
    PROVE  Chunks(p) = Chunks(q) \cup {c}
<1> DEFINE n == Len(q)
<1>2. Len(p) = n + 1 /\ n \in Nat /\ p[n + 1] = c /\ \A i \in 1..n : p[i] = q[i]
  BY DEF Grown
<1>3. 1..Len(p) = 1..n \cup {n + 1}
  BY <1>2
<1>4. ASSUME NEW x \in Chunks(p) PROVE x \in Chunks(q) \cup {c}
  BY <1>2, <1>3 DEF Chunks
<1>5. ASSUME NEW x \in Chunks(q) \cup {c} PROVE x \in Chunks(p)
  BY <1>2, <1>3 DEF Chunks
<1> QED
  BY <1>4, <1>5

LEMMA ChunksHead ==
    ASSUME NEW S, NEW q \in Seq(S), q # <<>>
    PROVE  Chunks(q) = {Head(q)} \cup Chunks(Tail(q)) /\ Head(q) \in S /\ Tail(q) \in Seq(S)
<1> DEFINE p == Tail(q)
           n == Len(q)
<1>1. n \in Nat \ {0} /\ Len(p) = n - 1 /\ Head(q) = q[1] /\ Head(q) \in S /\ p \in Seq(S)
      /\ \A i \in 1..Len(p) : p[i] = q[i + 1]
  OBVIOUS
<1> HIDE DEF p, n
<1>2. ASSUME NEW x \in Chunks(q) PROVE x \in {Head(q)} \cup Chunks(p)
  <2>1. PICK i \in 1..n : x = q[i]
    BY DEF Chunks, n
  <2>2. CASE i = 1
    BY <1>1, <2>1, <2>2
  <2>3. CASE i # 1
    <3>1. i - 1 \in 1..Len(p) /\ p[i - 1] = q[i - 1 + 1] /\ i - 1 + 1 = i
      BY <1>1, <2>1, <2>3
    <3> QED
      BY <2>1, <3>1 DEF Chunks
  <2> QED
    BY <2>2, <2>3
<1>3. ASSUME NEW x \in {Head(q)} \cup Chunks(p) PROVE x \in Chunks(q)
  <2>1. CASE x = Head(q)
    BY <1>1, <2>1 DEF Chunks, n
  <2>2. CASE x \in Chunks(p)
    <3>1. PICK i \in 1..Len(p) : x = p[i]
      BY <2>2 DEF Chunks
    <3>2. i + 1 \in 1..n /\ x = q[i + 1]
      BY <1>1, <3>1
    <3> QED
      BY <3>2 DEF Chunks, n
  <2> QED
    BY <1>3, <2>1, <2>2
<1> QED
  BY <1>1, <1>2, <1>3 DEF p

LEMMA ChunksIn ==
    ASSUME NEW S, NEW q \in Seq(S)
    PROVE  Chunks(q) \subseteq S
  BY DEF Chunks

-----------------------------------------------------------------------------
(* What comes from the server, the server has.  A stream is asked for      *)
(* first, and then only changes and its end go out on it.                  *)
DownOK(st, S) == \A c \in Chunks(st.down) : c.edits \subseteq S

AskOK(st) ==
    /\ st.call = "opening" =>
          \/ st.up = <<>>
          \/ /\ st.up # <<>> /\ Tail(st.up) = <<>> /\ Head(st.up).type = "start" /\ ~st.served
             /\ \A c \in Chunks(st.down) : c.type # "state"
    /\ st.call = "running" => \A c \in Chunks(st.up) : c.type # "start"

Good(st, S) == DownOK(st, S) /\ AskOK(st)

WireInv == \A s \in Streams : Good(stream[s], server)

LEMMA GoodSame ==
    ASSUME NEW a, NEW b, NEW S, NEW T, S \subseteq T, Same(a, b), Good(b, S)
    PROVE  Good(a, T)
<1>1. DownOK(a, T)
  BY DEF Same, Good, DownOK
<1>2. AskOK(a)
  BY DEF Same, Alike, Good, AskOK
<1> QED
  BY <1>1, <1>2 DEF Good

(* The server takes the head, and says c or nothing. *)
LEMMA GoodPulled ==
    ASSUME NEW K, NEW a \in StreamOf(K), NEW b \in StreamOf(K), NEW S, NEW T, S \subseteq T,
           Pulled(a, b), Good(b, S), NEW c \in ChunkOf(K), c.edits \subseteq T,
           b.call # "over" => a.down \in {b.down, Append(b.down, c)}
    PROVE  Good(a, T)
<1>1. b.up \in Seq(ChunkOf(K)) /\ b.down \in Seq(ChunkOf(K))
  BY DEF StreamOf
<1>2. DownOK(a, T)
  <2>1. CASE b.call = "over"
    BY <2>1, ChunksEmpty DEF Pulled, DownOK
  <2>2. CASE b.call # "over"
    <3>1. CASE a.down = b.down
      BY <3>1 DEF Good, DownOK
    <3>2. CASE a.down = Append(b.down, c)
      <4>1. Grown(a.down, b.down, c)
        BY <1>1, <3>2 DEF Grown
      <4>2. Chunks(a.down) = Chunks(b.down) \cup {c}
        BY <4>1, ChunksMore
      <4> QED
        BY <4>1, <4>2 DEF Good, DownOK
    <3> QED
      BY <2>2, <3>1, <3>2
  <2> QED
    BY <2>1, <2>2
<1>3. AskOK(a)
  <2>1. CASE b.call = "opening"
    BY <2>1 DEF Pulled, AskOK, Good
  <2>2. CASE b.call = "running"
    <3>1. a.call = "running" /\ a.up = Tail(b.up) /\ b.up # <<>>
      BY <2>2 DEF Pulled
    <3> QED
      BY <1>1, <2>2, <3>1, ChunksHead DEF AskOK, Good
  <2>3. CASE b.call = "over"
    BY <2>3 DEF Pulled, AskOK
  <2> QED
    BY <2>1, <2>2, <2>3 DEF StreamOf
<1> QED
  BY <1>2, <1>3 DEF Good

(* Something comes that is not the answer. *)
LEMMA GoodTold ==
    ASSUME NEW K, NEW a \in StreamOf(K), NEW b \in StreamOf(K), NEW S, NEW T, S \subseteq T,
           a.call = b.call, a.up = b.up, a.served => b.served, Good(b, S),
           NEW c \in ChunkOf(K), c.edits \subseteq T, c.type # "state",
           a.down \in {b.down, Append(b.down, c)}
    PROVE  Good(a, T)
<1>1. Chunks(a.down) \subseteq Chunks(b.down) \cup {c}
  <2>1. b.down \in Seq(ChunkOf(K))
    BY DEF StreamOf
  <2>2. CASE a.down = Append(b.down, c)
    <3>1. Grown(a.down, b.down, c)
      BY <2>1, <2>2 DEF Grown
    <3> QED
      BY <3>1, ChunksMore
  <2> QED
    BY <2>2
<1>2. DownOK(a, T)
  BY <1>1 DEF Good, DownOK
<1>3. AskOK(a)
  BY <1>1 DEF Good, AskOK
<1> QED
  BY <1>2, <1>3 DEF Good

(* Nothing is under way on the input. *)
LEMMA GoodCut ==
    ASSUME NEW K, NEW a \in StreamOf(K), NEW b \in StreamOf(K), NEW S, NEW T, S \subseteq T,
           a.up = <<>>, Good(b, S),
           a.down \in {b.down, <<>>} \cup {Append(b.down, Error), Append(<<>>, Error)}
    PROVE  Good(a, T)
<1>1. <<>> \in Seq(ChunkOf(K)) /\ b.down \in Seq(ChunkOf(K)) /\ Error \in ChunkOf(K)
  BY ChunkMade DEF StreamOf
<1>2. Chunks(a.down) \subseteq Chunks(b.down) \cup {Error}
  <2>1. CASE a.down \in {b.down, <<>>}
    BY <2>1, ChunksEmpty
  <2>2. CASE a.down = Append(b.down, Error)
    <3>1. Grown(a.down, b.down, Error)
      BY <1>1, <2>2 DEF Grown
    <3> QED
      BY <3>1, ChunksMore
  <2>3. CASE a.down = Append(<<>>, Error)
    <3> DEFINE none == <<>>
    <3>1. none \in Seq(ChunkOf(K)) /\ a.down = Append(none, Error) /\ Chunks(none) = {}
      BY <1>1, <2>3, ChunksEmpty
    <3> HIDE DEF none
    <3>2. Grown(a.down, none, Error)
      BY <1>1, <3>1 DEF Grown
    <3>3. Chunks(a.down) = Chunks(none) \cup {Error}
      BY <3>2, ChunksMore
    <3> QED
      BY <3>1, <3>3
  <2> QED
    BY <2>1, <2>2, <2>3
<1>3. Chunks(a.down) \subseteq Chunks(b.down) \cup {Error} /\ Error.edits = {}
  BY <1>2 DEF Error
<1>4. DownOK(a, T)
  BY <1>3 DEF Good, DownOK
<1>5. AskOK(a)
  BY ChunksEmpty DEF AskOK
<1> QED
  BY <1>4, <1>5 DEF Good

(* A change or the end goes out on a stream that is not opening. *)
LEMMA GoodPushed ==
    ASSUME NEW K, NEW a \in StreamOf(K), NEW b \in StreamOf(K), NEW S, NEW T, S \subseteq T,
           a.call \in {b.call, "over"}, b.call # "opening", Good(b, S),
           NEW c \in ChunkOf(K), c.type # "start", a.up \in {b.up, Append(b.up, c)},
           \/ a.down \in {b.down, <<>>}
           \/ b.down # <<>> /\ a.down = Tail(b.down)
    PROVE  Good(a, T)
<1>1. b.up \in Seq(ChunkOf(K)) /\ b.down \in Seq(ChunkOf(K))
  BY DEF StreamOf
<1>2. Chunks(a.down) \subseteq Chunks(b.down)
  BY <1>1, ChunksHead, ChunksEmpty
<1>3. Chunks(a.up) \subseteq Chunks(b.up) \cup {c}
  <2>1. CASE a.up = Append(b.up, c)
    <3>1. Grown(a.up, b.up, c)
      BY <1>1, <2>1 DEF Grown
    <3> QED
      BY <3>1, ChunksMore
  <2> QED
    BY <2>1
<1>4. DownOK(a, T)
  BY <1>2 DEF Good, DownOK
<1>5. AskOK(a)
  BY <1>3 DEF Good, AskOK
<1> QED
  BY <1>4, <1>5 DEF Good

(* The stream has been answered: nothing is under way on its input. *)
LEMMA AnsweredIs ==
    ASSUME NEW K, NEW b \in StreamOf(K), NEW S, Good(b, S), b.call = "opening",
           b.down # <<>>, Head(b.down).type = "state"
    PROVE  b.up = <<>> /\ Head(b.down).edits \subseteq S /\ Head(b.down) \in ChunkOf(K)
<1>1. b.down \in Seq(ChunkOf(K))
  BY DEF StreamOf
<1>2. Head(b.down) \in Chunks(b.down) /\ Head(b.down) \in ChunkOf(K)
  BY <1>1, ChunksHead
<1> QED
  BY <1>2 DEF Good, DownOK, AskOK

LEMMA ChunkSays ==
    \A E : /\ State(E).type = "state" /\ State(E).edits = E
           /\ Sync(E).type = "sync" /\ Sync(E).edits = E
           /\ Start(E).type = "start" /\ Start(E).edits = E
           /\ Close.type = "close" /\ Close.edits = {}
           /\ Error.type = "error" /\ Error.edits = {}
  BY DEF State, Sync, Start, Close, Error

(* At most two chunks more *)
LEMMA TwoMore ==
    ASSUME NEW K, NEW p, NEW b \in Seq(ChunkOf(K)), NEW c \in ChunkOf(K), NEW d \in ChunkOf(K),
           \E q \in {b, Append(b, c)} : p \in {q, Append(q, d)}
    PROVE  Chunks(p) \subseteq Chunks(b) \cup {c, d}
<1>1. PICK q \in {b, Append(b, c)} : p \in {q, Append(q, d)}
  OBVIOUS
<1>2. q \in Seq(ChunkOf(K)) /\ Chunks(q) \subseteq Chunks(b) \cup {c}
  <2>1. CASE q = Append(b, c)
    <3>1. Grown(q, b, c)
      BY <2>1 DEF Grown
    <3> QED
      BY <2>1, <3>1, ChunksMore
  <2> QED
    BY <1>1, <2>1
<1>3. CASE p = Append(q, d)
  <2>1. Grown(p, q, d)
    BY <1>2, <1>3 DEF Grown
  <2> QED
    BY <1>2, <2>1, ChunksMore
<1> QED
  BY <1>1, <1>2, <1>3

LEMMA GoodFresh ==
    ASSUME NEW a, NEW E, NEW S, Fresh(a, E)
    PROVE  Good(a, S)
<1>1. DownOK(a, S) /\ \A c \in Chunks(a.down) : c.type # "state"
  BY ChunksEmpty DEF DownOK, Fresh
<1>2. a.up = <<>> \/ (a.up # <<>> /\ Tail(a.up) = <<>> /\ Head(a.up).type = "start")
  <2>1. \A c : <<c>> # <<>> /\ Tail(<<c>>) = <<>> /\ Head(<<c>>) = c
    OBVIOUS
  <2>2. CASE a.up = <<Start(E)>>
    BY <2>1, <2>2, ChunkSays
  <2> QED
    BY <2>2 DEF Fresh
<1>3. a.call = "opening" /\ ~a.served
  BY DEF Fresh
<1>4. AskOK(a)
  BY <1>1, <1>2, <1>3 DEF AskOK
<1> QED
  BY <1>1, <1>4 DEF Good

LEMMA GoodOver ==
    ASSUME NEW a, NEW S, a.call = "over", a.down = <<>>
    PROVE  Good(a, S)
  BY ChunksEmpty DEF Good, DownOK, AskOK

(* The answer is taken, and changes go out. *)
LEMMA GoodAnswered ==
    ASSUME NEW K, NEW a \in StreamOf(K), NEW b \in StreamOf(K), NEW S, Good(b, S),
           b.down # <<>>, a.call = "running", a.down = Tail(b.down),
           \A c \in Chunks(a.up) : c.type # "start"
    PROVE  Good(a, S)
<1>1. b.down \in Seq(ChunkOf(K))
  BY DEF StreamOf
<1>2. Chunks(a.down) \subseteq Chunks(b.down)
  BY <1>1, ChunksHead
<1> QED
  BY <1>2 DEF Good, DownOK, AskOK

(* The input ends, and maybe the output. *)
LEMMA GoodEnded ==
    ASSUME NEW K, NEW a \in StreamOf(K), NEW b \in StreamOf(K), NEW S, Good(b, S),
           a.call = b.call, b.call # "opening",
           a.up \in {b.up, Append(b.up, Close)}, Silent(a.down, b.down)
    PROVE  Good(a, S)
<1>1. b.up \in Seq(ChunkOf(K)) /\ b.down \in Seq(ChunkOf(K))
      /\ Close \in ChunkOf(K) /\ Error \in ChunkOf(K)
  BY ChunkMade DEF StreamOf
<1>2. Chunks(a.up) \subseteq Chunks(b.up) \cup {Close, Close}
  BY <1>1, TwoMore
<1>3. Chunks(a.down) \subseteq Chunks(b.down) \cup {Error, Error}
  BY <1>1, TwoMore DEF Silent
<1>4. DownOK(a, S)
  BY <1>3, ChunkSays DEF Good, DownOK
<1>5. AskOK(a)
  BY <1>2, ChunkSays DEF Good, AskOK
<1> QED
  BY <1>4, <1>5 DEF Good

-----------------------------------------------------------------------------
(* What is on the wire stays true. *)
LEMMA ServerWire ==
    ASSUME Typed, WireInv, Server
    PROVE  WireInv'
<1>0. /\ DataOK /\ stream \in StreamsOf(Known) /\ stream' \in StreamsOf(Known)
      /\ \A v \in Streams : /\ stream[v] \in StreamOf(Known) /\ stream'[v] \in StreamOf(Known)
                            /\ Good(stream[v], server)
  BY ServerTyped DEF Typed, DataOK, StreamsOf, WireInv
<1>1. ASSUME NEW s \in Streams, NEW c \in ChunkOf(Known), c.edits \subseteq server',
             server \subseteq server', Pulled(stream'[s], stream[s]),
             stream[s].call # "over" => stream'[s].down \in {stream[s].down, Append(stream[s].down, c)},
             \A v \in Streams \ {s} : Same(stream'[v], stream[v])
      PROVE  WireInv'
  <2>1. Good(stream'[s], server')
    BY <1>0, <1>1, GoodPulled
  <2>2. \A v \in Streams \ {s} : Good(stream'[v], server')
    BY <1>0, <1>1, GoodSame
  <2> QED
    BY <2>1, <2>2 DEF WireInv
<1>2. ASSUME NEW v \in Streams, NEW E \in SUBSET Known, E \subseteq server', server \subseteq server',
             Alike(stream'[v], stream[v]), stream'[v].up = stream[v].up,
             stream'[v].down \in {stream[v].down, Append(stream[v].down, Sync(E))}
      PROVE  Good(stream'[v], server')
  <2>1. Sync(E) \in ChunkOf(Known) /\ Sync(E).edits \subseteq server' /\ Sync(E).type # "state"
    BY <1>2, ChunkMade, ChunkSays
  <2>2. stream'[v].call = stream[v].call /\ stream'[v].served = stream[v].served
    BY <1>2 DEF Alike
  <2> QED
    BY <1>0, <1>2, <2>1, <2>2, GoodTold
<1>3. ASSUME NEW s \in Streams, ServerOpens(s) PROVE WireInv'
  <2> DEFINE E == server \ Head(stream[s].up).edits
  <2>1. E \in SUBSET Known /\ E \subseteq server /\ server' = server
    BY <1>0, <1>3, ServerOpensIs DEF DataOK
  <2>2. /\ Pulled(stream'[s], stream[s]) /\ \A v \in Streams \ {s} : Same(stream'[v], stream[v])
        /\ stream[s].call # "over" => stream'[s].down = Append(stream[s].down, State(E))
    BY <1>0, <1>3, ServerOpensIs
  <2> HIDE DEF E
  <2>3. State(E) \in ChunkOf(Known) /\ State(E).edits \subseteq server'
    BY <2>1, ChunkMade, ChunkSays
  <2> QED
    BY <1>1, <2>1, <2>2, <2>3
<1>4. ASSUME NEW s \in Streams, ServerRefuses(s) PROVE WireInv'
  <2>1. Error \in ChunkOf(Known) /\ Error.edits \subseteq server'
    BY ChunkMade, ChunkSays DEF Known
  <2> QED
    BY <1>0, <1>1, <1>4, <2>1, ServerRefusesIs
<1>5. ASSUME NEW s \in Streams, ServerTakes(s) PROVE WireInv'
  <2> DEFINE E == Head(stream[s].up).edits
  <2>1. E \in SUBSET Known
    BY <1>0, <1>5, AskedIs DEF ServerTakes
  <2>2. /\ Pulled(stream'[s], stream[s])
        /\ stream[s].call # "over" => stream'[s].down = stream[s].down
        /\ \/ server' = server /\ \A v \in Streams \ {s} : Same(stream'[v], stream[v])
           \/ /\ server' = server \cup E
              /\ \A v \in Streams \ {s} :
                    /\ Alike(stream'[v], stream[v]) /\ stream'[v].up = stream[v].up
                    /\ stream'[v].down \in {stream[v].down, Append(stream[v].down, Sync(E))}
    BY <1>0, <1>5, ServerTakesIs
  <2> HIDE DEF E
  <2>3. Error \in ChunkOf(Known) /\ Error.edits \subseteq server' /\ server \subseteq server'
    BY <2>2, ChunkMade, ChunkSays
  <2>4. Good(stream'[s], server')
    BY <1>0, <2>2, <2>3, GoodPulled
  <2>5. CASE \A v \in Streams \ {s} : Same(stream'[v], stream[v])
    BY <1>1, <2>2, <2>3, <2>5
  <2>6. CASE /\ server' = server \cup E
             /\ \A v \in Streams \ {s} :
                    /\ Alike(stream'[v], stream[v]) /\ stream'[v].up = stream[v].up
                    /\ stream'[v].down \in {stream[v].down, Append(stream[v].down, Sync(E))}
    <3>1. \A v \in Streams \ {s} : Good(stream'[v], server')
      BY <1>2, <2>1, <2>3, <2>6
    <3> QED
      BY <2>4, <3>1 DEF WireInv
  <2> QED
    BY <2>2, <2>5, <2>6
<1>6. ASSUME NEW s \in Streams, ServerCloses(s) PROVE WireInv'
  <2>1. Close \in ChunkOf(Known) /\ Close.edits \subseteq server'
    BY ChunkMade, ChunkSays DEF Known
  <2> QED
    BY <1>0, <1>1, <1>6, <2>1, ServerClosesIs
<1>7. ASSUME NEW s \in Streams, ServerEnds(s) PROVE WireInv'
  <2>1. /\ server' = server /\ \A v \in Streams \ {s} : Same(stream'[v], stream[v])
        /\ stream'[s].served = FALSE /\ stream'[s].call = stream[s].call
        /\ stream[s].call # "over" => /\ stream'[s].up = stream[s].up
                                      /\ stream'[s].down = Append(stream[s].down, Close)
        /\ stream[s].call = "over" => stream'[s].down = <<>>
    BY <1>0, <1>7, ServerEndsIs
  <2>2. \A v \in Streams \ {s} : Good(stream'[v], server')
    BY <1>0, <2>1, GoodSame
  <2>3. Close \in ChunkOf(Known) /\ Close.edits \subseteq server' /\ Close.type # "state"
    BY ChunkMade, ChunkSays
  <2>4. CASE stream[s].call # "over"
    BY <1>0, <2>1, <2>2, <2>3, <2>4, GoodTold DEF WireInv
  <2>5. CASE stream[s].call = "over"
    BY <2>1, <2>2, <2>5, GoodOver DEF WireInv
  <2> QED
    BY <2>4, <2>5
<1>8. ASSUME NEW e \in PeerEdits, PeerEditsDocument(e) PROVE WireInv'
  <2> DEFINE E == {e}
  <2>1. /\ E \in SUBSET Known /\ E \subseteq server' /\ server \subseteq server'
        /\ \A v \in Streams :
              /\ Alike(stream'[v], stream[v]) /\ stream'[v].up = stream[v].up
              /\ stream'[v].down \in {stream[v].down, Append(stream[v].down, Sync(E))}
    BY <1>0, <1>8, PeerEditsIs DEF Known
  <2> HIDE DEF E
  <2> QED
    BY <1>2, <2>1 DEF WireInv
<1> QED
  BY <1>3, <1>4, <1>5, <1>6, <1>7, <1>8 DEF Server

(* No stream changes, or only one, which is Good. *)
LEMMA WireAlone ==
    ASSUME WireInv, server' = server,
           \A s \in Streams : Same(stream'[s], stream[s]) \/ Good(stream'[s], server)
    PROVE  WireInv'
  BY GoodSame DEF WireInv

LEMMA WireIs ==
    ASSUME Typed, WireInv
    PROVE  /\ DataOK /\ ControlOK /\ StreamsInv /\ stream \in StreamsOf(Known)
           /\ \A v \in Streams : stream[v] \in StreamOf(Known) /\ Good(stream[v], server)
           /\ Close \in ChunkOf(Known) /\ Error \in ChunkOf(Known)
  BY ChunkMade DEF Typed, DataOK, StreamsOf, WireInv

(* A stream is asked for. *)
LEMMA AskedWire ==
    ASSUME Typed, WireInv, StreamLeft, NEW E \in SUBSET Known, server' = server,
           stream' = [stream EXCEPT ![UnusedStream] = Asking(E)]
    PROVE  WireInv'
<1>1. /\ \A v \in Streams \ {UnusedStream} : stream'[v] = stream[v]
      /\ Fresh(stream'[UnusedStream], E)
  BY AskedFor DEF Typed
<1>2. Good(stream'[UnusedStream], server)
  BY <1>1, GoodFresh
<1> QED
  BY <1>1, <1>2, SameIs, WireAlone

LEMMA ProceedWire ==
    ASSUME Typed, WireInv, NEW u \in Users, Proceed(u), server' = server
    PROVE  WireInv'
<1>1. CASE UNCHANGED stream
  BY <1>1, SameIs, WireAlone
<1>2. CASE StreamLeft /\ stream' = [stream EXCEPT ![UnusedStream] = Asking({})]
  <2> DEFINE none == {}
  <2>1. none \in SUBSET Known /\ stream' = [stream EXCEPT ![UnusedStream] = Asking(none)]
    BY <1>2
  <2> HIDE DEF none
  <2> QED
    BY <1>2, <2>1, AskedWire
<1> QED
  BY <1>1, <1>2 DEF Proceed, Share

LEMMA OpenedWire ==
    ASSUME Typed, WireInv, NEW u \in Users, Opened(u)
    PROVE  WireInv'
<1> DEFINE s == at[u].stream
           E == Head(stream[s].down).edits
<1>0. /\ DataOK /\ ControlOK /\ StreamsInv /\ server' = server
      /\ \A v \in Streams : stream[v] \in StreamOf(Known) /\ Good(stream[v], server)
      /\ Close \in ChunkOf(Known)
  BY WireIs DEF Opened, serverVars
<1>1. /\ s \in Streams /\ E \subseteq Known
      /\ stream[s].down # <<>> /\ Head(stream[s].down).type = "state"
      /\ stream' \in StreamsOf(Known)
      /\ \A v \in Streams \ {s} : Same(stream'[v], stream[v])
      /\ stream'[s].call = "running" /\ stream'[s].down = Tail(stream[s].down)
      /\ \E q \in {stream[s].up, Append(stream[s].up, Sync(E))} :
            stream'[s].up \in {q, Append(q, Close)}
  BY <1>0, OpenedIs
<1>2. stream[s].call = "opening"
  BY <1>0 DEF Opened, StreamsInv, Opening
<1> HIDE DEF s, E
<1>3. stream[s].up = <<>>
  BY <1>0, <1>1, <1>2, AnsweredIs
<1>4. stream[s].up \in Seq(ChunkOf(Known)) /\ Sync(E) \in ChunkOf(Known)
      /\ stream[s] \in StreamOf(Known) /\ stream'[s] \in StreamOf(Known)
  BY <1>0, <1>1, ChunkMade DEF StreamOf, StreamsOf
<1>5. Chunks(stream'[s].up) \subseteq Chunks(stream[s].up) \cup {Sync(E), Close}
  <2>1. PICK c \in ChunkOf(Known) : c = Sync(E)
    BY <1>4
  <2> DEFINE b == stream[s].up
             p == stream'[s].up
  <2>2. \E q \in {b, Append(b, c)} : p \in {q, Append(q, Close)}
    BY <1>1, <2>1
  <2>3. Chunks(p) \subseteq Chunks(b) \cup {c, Close}
    <3>1. b \in Seq(ChunkOf(Known))
      BY <1>4
    <3> HIDE DEF b, p
    <3> QED
      BY <1>0, <2>2, <3>1, TwoMore
  <2> QED
    BY <2>1, <2>3
<1>6. \A c \in Chunks(stream'[s].up) : c.type # "start"
  BY <1>3, <1>5, ChunksEmpty, ChunkSays
<1>7. Good(stream'[s], server)
  BY <1>0, <1>1, <1>4, <1>6, GoodAnswered
<1> QED
  BY <1>0, <1>1, <1>7, WireAlone

LEMMA OverWire ==
    ASSUME Typed, WireInv, NEW s \in Streams, server' = server,
           stream' = [stream EXCEPT ![s] = Over(@)]
    PROVE  WireInv'
<1>1. Finished(stream'[s], stream[s]) /\ \A v \in Streams \ {s} : stream'[v] = stream[v]
  BY OverMoves, WireIs
<1>2. Good(stream'[s], server)
  BY <1>1, GoodOver DEF Finished
<1> QED
  BY <1>1, <1>2, SameIs, WireAlone

LEMMA CloseLastWire ==
    ASSUME Typed, WireInv, NEW t \in Tasks, connected # None, CloseLast(t), server' = server
    PROVE  WireInv'
<1>0. /\ DataOK /\ ControlOK /\ StreamsInv
      /\ \A v \in Streams : stream[v] \in StreamOf(Known) /\ Good(stream[v], server)
  BY WireIs
<1>1. /\ stream' \in StreamsOf(Known)
      /\ \A v \in Streams : v # table => stream'[v] = stream[v]
      /\ table # None => Shut(stream'[table], stream[table])
  BY <1>0, CloseLastIs
<1>2. ASSUME table # None PROVE Good(stream'[table], server)
  <2>1. /\ table \in Streams /\ stream[table].call # "opening"
        /\ stream[table] \in StreamOf(Known) /\ stream'[table] \in StreamOf(Known)
    BY <1>0, <1>1, <1>2 DEF StreamsInv, ControlOK, StreamsOf
  <2>2. /\ stream'[table].call = stream[table].call
        /\ stream'[table].up \in {stream[table].up, Append(stream[table].up, Close)}
        /\ Silent(stream'[table].down, stream[table].down)
    BY <1>1, <1>2 DEF Shut, Silent
  <2> QED
    BY <1>0, <2>1, <2>2, GoodEnded
<1>3. \A v \in Streams : v # table \/ table # None
  BY SyncAssumption
<1> QED
  BY <1>1, <1>2, <1>3, SameIs, WireAlone

LEMMA EditWire ==
    ASSUME Typed, WireInv, NEW u \in Users, NEW e \in LocalEdits, Edit(u, e)
    PROVE  WireInv'
<1> DEFINE K == Known'
           E == {e}
<1>0. /\ DataOK /\ ControlOK /\ StreamsInv /\ server' = server
      /\ \A v \in Streams : stream[v] \in StreamOf(Known) /\ Good(stream[v], server)
  BY WireIs DEF Edit
<1>1. /\ K = Known \cup E /\ stream' \in StreamsOf(K)
      /\ \A v \in Streams :
            /\ Alike(stream'[v], stream[v]) /\ stream'[v].down = stream[v].down
            /\ stream'[v].up = IF v = table /\ stream[v].open /\ stream[v].link = "live"
                               THEN Append(stream[v].up, Sync(E)) ELSE stream[v].up
  BY <1>0, EditIs
<1> HIDE DEF K, E
<1>2. E \in SUBSET K /\ StreamOf(Known) \subseteq StreamOf(K)
  BY <1>1, StreamGrows
<1>3. Sync(E) \in ChunkOf(K) /\ Sync(E).type # "start"
  BY <1>2, ChunkMade, ChunkSays
<1>4. ASSUME NEW v \in Streams PROVE Same(stream'[v], stream[v]) \/ Good(stream'[v], server)
  <2>1. CASE v # table
    BY <1>1, <2>1 DEF Same
  <2>2. CASE v = table
    <3>1. stream[v].call # "opening" /\ stream[v] \in StreamOf(K) /\ stream'[v] \in StreamOf(K)
      BY <1>0, <1>1, <1>2, <2>2, SyncAssumption DEF StreamsInv, StreamsOf
    <3>2. /\ stream'[v].call = stream[v].call /\ stream'[v].down = stream[v].down
          /\ stream'[v].up \in {stream[v].up, Append(stream[v].up, Sync(E))}
      BY <1>1 DEF Alike
    <3>3. Good(stream'[v], server)
      BY <1>0, <1>3, <3>1, <3>2, GoodPushed
    <3> QED
      BY <3>3
  <2> QED
    BY <2>1, <2>2
<1> QED
  BY <1>0, <1>4, WireAlone

LEMMA ConsumeWire ==
    ASSUME Typed, WireInv, NEW s \in Streams, Consume(s)
    PROVE  WireInv'
<1> DEFINE c == Head(stream[s].down)
           E == c.edits \ content[stream[s].doc]
<1>0. /\ DataOK /\ ControlOK /\ StreamsInv /\ server' = server
      /\ \A v \in Streams : stream[v] \in StreamOf(Known) /\ Good(stream[v], server)
  BY WireIs DEF Consume, serverVars
<1>1. /\ stream[s].call = "running" /\ stream[s].down # <<>> /\ c \in ChunkOf(Known)
      /\ stream' \in StreamsOf(Known)
      /\ \/ /\ stream'[s].down = Tail(stream[s].down)
            /\ \A v \in Streams : /\ Alike(stream'[v], stream[v])
                                  /\ v # s => stream'[v].down = stream[v].down
                                  /\ \/ stream'[v].up = stream[v].up
                                     \/ v = table /\ stream'[v].up = Append(stream[v].up, Sync(E))
         \/ /\ Finished(stream'[s], stream[s])
            /\ \A v \in Streams \ {s} : stream'[v] = stream[v]
  BY <1>0, ConsumeIs
<1>2. E \in SUBSET Known
  BY <1>1 DEF ChunkOf
<1> HIDE DEF c, E
<1>3. Sync(E) \in ChunkOf(Known) /\ Sync(E).type # "start"
  BY <1>2, ChunkMade, ChunkSays
<1>4. CASE /\ stream'[s].down = Tail(stream[s].down)
           /\ \A v \in Streams : /\ Alike(stream'[v], stream[v])
                                 /\ v # s => stream'[v].down = stream[v].down
                                 /\ \/ stream'[v].up = stream[v].up
                                    \/ v = table /\ stream'[v].up = Append(stream[v].up, Sync(E))
  <2>1. ASSUME NEW v \in Streams PROVE Same(stream'[v], stream[v]) \/ Good(stream'[v], server)
    <3>1. CASE v # s /\ v # table
      BY <1>4, <3>1 DEF Same
    <3>2. CASE v = s \/ v = table
      <4>1. stream[v].call # "opening" /\ stream[v] \in StreamOf(Known)
            /\ stream'[v] \in StreamOf(Known)
        BY <1>0, <1>1, <3>2, SyncAssumption DEF StreamsInv, StreamsOf
      <4>2. /\ stream'[v].call = stream[v].call
            /\ stream'[v].up \in {stream[v].up, Append(stream[v].up, Sync(E))}
            /\ \/ stream'[v].down = stream[v].down
               \/ stream[v].down # <<>> /\ stream'[v].down = Tail(stream[v].down)
        BY <1>1, <1>4 DEF Alike
      <4>3. Good(stream'[v], server)
        BY <1>0, <1>3, <4>1, <4>2, GoodPushed
      <4> QED
        BY <4>3
    <3> QED
      BY <3>1, <3>2
  <2> QED
    BY <1>0, <2>1, WireAlone
<1>5. CASE Finished(stream'[s], stream[s]) /\ \A v \in Streams \ {s} : stream'[v] = stream[v]
  <2>1. Good(stream'[s], server)
    BY <1>5, GoodOver DEF Finished
  <2> QED
    BY <1>0, <1>5, <2>1, SameIs, WireAlone
<1> QED
  BY <1>1, <1>4, <1>5

LEMMA RoomWire ==
    ASSUME Typed, WireInv, RoomStep
    PROVE  WireInv'
<1>0. /\ DataOK /\ ControlOK /\ StreamsInv /\ stream \in StreamsOf(Known)
      /\ \A v \in Streams : stream[v] \in StreamOf(Known) /\ Good(stream[v], server)
      /\ Close \in ChunkOf(Known) /\ Error \in ChunkOf(Known)
  BY WireIs
<1>1. server' = server
  BY DEF RoomStep, LinkLost, Disconnected, GiveUp, Reconnect, ResyncEnds, AttemptFails,
         Reopened, Exit, Stop, StopEnds, serverVars
<1>2. CASE UNCHANGED stream
  BY <1>1, <1>2, SameIs, WireAlone
<1>3. ASSUME NEW s \in Streams, stream' \in StreamsOf(Known), stream'[s].up = <<>>,
             stream'[s].down \in {stream[s].down, <<>>}
                  \cup {Append(stream[s].down, Error), Append(<<>>, Error)}
      PROVE  Good(stream'[s], server)
  <2>1. stream[s] \in StreamOf(Known) /\ stream'[s] \in StreamOf(Known)
    BY <1>0, <1>3 DEF StreamsOf
  <2> QED
    BY <1>0, <1>3, <2>1, GoodCut
<1>4. CASE LinkLost \/ Exit
  <2>1. /\ stream' \in StreamsOf(Known)
        /\ \A s \in Streams :
              /\ stream'[s].up = <<>>
              /\ stream'[s].down \in {stream[s].down, <<>>}
                    \cup {Append(stream[s].down, Error), Append(<<>>, Error)}
    BY <1>0, <1>4, LinkLostIs, ExitIs
  <2>2. \A s \in Streams : Good(stream'[s], server)
    BY <1>3, <2>1
  <2> QED
    BY <1>1, <2>2, WireAlone
<1>5. CASE Disconnected
  <2>1. /\ stream' \in StreamsOf(Known)
        /\ \A s \in Streams :
              /\ stream'[s].call = stream[s].call /\ stream'[s].served = stream[s].served
              /\ s # table => stream'[s].up = stream[s].up
              /\ stream'[s].up \in {stream[s].up, Append(stream[s].up, Close)}
              /\ Silent(stream'[s].down, stream[s].down)
    BY <1>0, <1>5, DisconnectedIs
  <2>2. ASSUME NEW s \in Streams PROVE Good(stream'[s], server)
    <3>1. stream[s] \in StreamOf(Known) /\ stream'[s] \in StreamOf(Known)
      BY <1>0, <2>1 DEF StreamsOf
    <3>2. CASE s = table
      <4>1. stream[s].call # "opening"
        BY <1>0, <3>2, SyncAssumption DEF StreamsInv
      <4> QED
        BY <1>0, <2>1, <3>1, <4>1, GoodEnded
    <3>3. CASE s # table
      <4>1. Error.edits \subseteq server /\ Error.type # "state"
        BY ChunkSays
      <4>2. stream'[s].down \in {stream[s].down, Append(stream[s].down, Error)}
        BY <2>1 DEF Silent
      <4> QED
        BY <1>0, <2>1, <3>1, <3>3, <4>1, <4>2, GoodTold
    <3> QED
      BY <3>2, <3>3
  <2> QED
    BY <1>1, <2>2, WireAlone
<1>6. CASE Reconnect
  <2>1. CASE connected # None /\ StreamLeft
             /\ stream' = [stream EXCEPT ![UnusedStream] = Asking(content[connected])]
    <3> DEFINE E == content[connected]
    <3>1. E \in SUBSET Known /\ stream' = [stream EXCEPT ![UnusedStream] = Asking(E)]
      BY <1>0, <2>1, MissedIs
    <3> HIDE DEF E
    <3> QED
      BY <1>1, <2>1, <3>1, AskedWire
  <2> QED
    BY <1>2, <1>6, <2>1 DEF Reconnect
<1>7. CASE room = "resync" /\ AttemptFails
  <2>1. resync.stream \in Streams
    BY <1>0, <1>7, ResyncTypes DEF StreamsInv
  <2>2. /\ stream' \in StreamsOf(Known) /\ stream'[resync.stream] = Ended
        /\ \A s \in Streams \ {resync.stream} :
              stream'[s].up = <<>> /\ stream'[s].down \in {stream[s].down, <<>>}
    BY <1>0, <1>7, <2>1, AttemptFailsIs
  <2>3. Good(stream'[resync.stream], server)
    BY <2>2, EndedIs, GoodOver
  <2>4. \A s \in Streams \ {resync.stream} : Good(stream'[s], server)
    BY <1>3, <2>2
  <2> QED
    BY <1>1, <2>3, <2>4, WireAlone
<1>8. CASE /\ room = "resync" /\ stream[resync.stream].down # <<>>
           /\ Head(stream[resync.stream].down).type = "state" /\ Reopened
  <2> DEFINE s == resync.stream
             E == Head(stream[s].down).edits \ content[resync.doc]
             P == resync.payload
  <2>0. resync # Idle /\ s \in Streams /\ P \in SUBSET Known /\ stream[s].call = "opening"
    BY <1>0, <1>8, ResyncTypes DEF StreamsInv
  <2>1. /\ stream' \in StreamsOf(Known) /\ Head(stream[s].down).edits \subseteq Known
        /\ \A v \in Streams \ {s} : Same(stream'[v], stream[v])
        /\ stream'[s].call = "running" /\ stream'[s].down = Tail(stream[s].down)
        /\ \E q \in {stream[s].up, Append(stream[s].up, Sync(E))} :
              stream'[s].up \in {q, Append(q, Sync(P))}
    BY <1>0, <1>8, <2>0, ReopenedIs
  <2>2. stream[s].down # <<>> /\ Head(stream[s].down).type = "state" /\ E \in SUBSET Known
    BY <1>8, <2>1
  <2> HIDE DEF s, E, P
  <2>3. stream[s].up = <<>>
    BY <1>0, <2>0, <2>2, AnsweredIs
  <2>4. stream[s].up \in Seq(ChunkOf(Known)) /\ stream[s] \in StreamOf(Known)
        /\ stream'[s] \in StreamOf(Known)
    BY <1>0, <2>0, <2>1 DEF StreamOf, StreamsOf
  <2>5. PICK c \in ChunkOf(Known) : c = Sync(E)
    BY <2>2, ChunkMade
  <2>6. PICK d \in ChunkOf(Known) : d = Sync(P)
    BY <2>0, ChunkMade
  <2>7. Chunks(stream'[s].up) \subseteq Chunks(stream[s].up) \cup {c, d}
    <3> DEFINE b == stream[s].up
               p == stream'[s].up
    <3>1. b \in Seq(ChunkOf(Known)) /\ \E q \in {b, Append(b, c)} : p \in {q, Append(q, d)}
      BY <2>1, <2>4, <2>5, <2>6
    <3>2. Chunks(p) \subseteq Chunks(b) \cup {c, d}
      <4> HIDE DEF b, p
      <4> QED
        BY <3>1, TwoMore
    <3> QED
      BY <3>2
  <2>8. \A x \in Chunks(stream'[s].up) : x.type # "start"
    BY <2>3, <2>5, <2>6, <2>7, ChunksEmpty, ChunkSays
  <2>9. Good(stream'[s], server)
    BY <1>0, <2>0, <2>1, <2>2, <2>4, <2>8, GoodAnswered
  <2> QED
    BY <1>1, <2>1, <2>9, WireAlone
<1>9. CASE Stop
  BY <1>1, <1>2, <1>9, CloseLastWire, UsersAreTasks DEF Stop
<1> QED
  BY <1>2, <1>4, <1>5, <1>6, <1>7, <1>8, <1>9 DEF RoomStep, ResyncEnds, GiveUp, StopEnds

LEMMA NextWire ==
    ASSUME Typed, WireInv, [Next]_vars
    PROVE  WireInv'
<1>1. CASE UNCHANGED <<stream, server>>
  BY <1>1, SameIs, WireAlone
<1>2. CASE UNCHANGED vars
  BY <1>1, <1>2 DEF vars, serverVars
<1>3. ASSUME NEW u \in Users, User(u) PROVE WireInv'
  <2>1. CASE Open(u) \/ Resume(u)
    BY <1>1, <2>1, ProceedWire DEF Open, Resume, serverVars
  <2>2. CASE OpenFails(u)
    <3>1. at[u].stream \in Streams /\ server' = server
          /\ stream' = [stream EXCEPT ![at[u].stream] = Over(@)]
      BY <2>2, OpeningStreams DEF OpenFails, serverVars, Typed
    <3> QED
      BY <3>1, OverWire
  <2>3. CASE Cancel(u)
    <3>1. CASE at[u].at = "opening" /\ stream' = [stream EXCEPT ![at[u].stream] = Over(@)]
      <4>1. at[u].stream \in Streams /\ server' = server
        BY <2>3, <3>1, OpeningStreams DEF Cancel, serverVars, Typed
      <4> QED
        BY <3>1, <4>1, OverWire
    <3> QED
      BY <1>1, <2>3, <3>1 DEF Cancel, serverVars
  <2>4. CASE CloseDocument(u)
    BY <1>1, <2>4, CloseLastWire, UsersAreTasks DEF CloseDocument, serverVars
  <2> QED
    BY <1>3, <2>1, <2>2, <2>3, <2>4, OpenedWire, EditWire DEF User
<1>4. ASSUME NEW t \in Tasks, CloseReturns(t) PROVE WireInv'
  BY <1>1, <1>4 DEF CloseReturns, serverVars
<1> QED
  BY <1>2, <1>3, <1>4, ConsumeWire, RoomWire, ServerWire DEF Next

LEMMA AlwaysWire == Spec => []WireInv
<1>1. Init => WireInv
  <2> SUFFICES ASSUME Init, NEW s \in Streams PROVE Good(stream[s], server)
    BY DEF WireInv
  <2>1. stream[s].call = "over" /\ stream[s].down = <<>>
    BY EndedIs DEF Init
  <2> QED
    BY <2>1, GoodOver
<1> QED
  BY <1>1, NextWire, AlwaysTyped, PTL DEF Spec

-----------------------------------------------------------------------------
(* What the server has and E has not is on its way on a stream it serves;  *)
(* what is asked for is asked for from E at most; the changes that go out  *)
(* are in S.                                                               *)
Brings(a, S, E) == a.served => \A e \in S \ E : \E c \in Chunks(a.down) : e \in c.edits

Asks(a, E) == \A c \in Chunks(a.up) : c.type = "start" => c.edits \subseteq E

Sends(a, S) == \A c \in Chunks(a.up) : c.type = "sync" => c.edits \subseteq S

Awaited(a, S, E) == Brings(a, S, E) /\ Asks(a, E)

Current(a, S, E) == a.open => Brings(a, S, E) /\ Sends(a, S \cup E)

(* As long as nothing irregular has happened: what a task, the             *)
(* resynchronisation or the document waits for comes on its stream.        *)
Flow ==
    /\ \A u \in Opening : Awaited(stream[at[u].stream], server, {})
    /\ resync # Idle /\ resync.doc = connected =>
          /\ Awaited(stream[resync.stream], server, content[connected])
          /\ resync.payload \subseteq content[connected]
    /\ table # None => Current(stream[table], server, content[connected])

FlowInv == Regular => Flow

-----------------------------------------------------------------------------
(* One stream *)
LEMMA AwaitedSame ==
    ASSUME NEW a, NEW b, NEW S, NEW E, Same(a, b)
    PROVE  /\ Awaited(b, S, E) => Awaited(a, S, E)
           /\ Current(b, S, E) => Current(a, S, E)
  BY DEF Same, Alike, Awaited, Current, Brings, Asks, Sends

LEMMA AwaitedMore ==
    ASSUME NEW a, NEW S, NEW E, NEW F, E \subseteq F
    PROVE  /\ Awaited(a, S, E) => Awaited(a, S, F)
           /\ Current(a, S, E) => Current(a, S, F)
  BY DEF Awaited, Current, Brings, Asks, Sends

(* A chunk comes, with all that is new on the server. *)
LEMMA AwaitedTold ==
    ASSUME NEW K, NEW b \in StreamOf(K), NEW a, NEW S, NEW T, NEW E, NEW c,
           Alike(a, b), a.up = b.up, a.down = Append(b.down, c),
           S \subseteq T, T \subseteq S \cup c.edits
    PROVE  /\ Awaited(b, S, E) => Awaited(a, T, E)
           /\ Current(b, S, E) => Current(a, T, E)
<1>1. b.down \in Seq(ChunkOf(K))
  BY DEF StreamOf
<1>2. Grown(a.down, b.down, c)
  BY <1>1 DEF Grown
<1>3. Chunks(a.down) = Chunks(b.down) \cup {c}
  BY <1>2, ChunksMore
<1>4. Brings(b, S, E) => Brings(a, T, E)
  BY <1>3 DEF Brings, Alike
<1> QED
  BY <1>4 DEF Awaited, Current, Asks, Sends, Alike

(* A stream that is not served brings nothing. *)
LEMMA AwaitedUnserved ==
    ASSUME NEW a, NEW b, NEW S, NEW T, NEW E, ~a.served, Chunks(a.up) \subseteq Chunks(b.up),
           S \subseteq T, a.open => b.open
    PROVE  /\ Awaited(b, S, E) => Awaited(a, T, E)
           /\ Current(b, S, E) => Current(a, T, E)
  BY DEF Awaited, Current, Brings, Asks, Sends

-----------------------------------------------------------------------------
(* What is waited for keeps coming, as long as nobody begins to wait. *)
LEMMA FlowStays ==
    ASSUME Typed, Flow, TableIsOurs, StillOpening, resync' \in {resync, Idle},
           table' \in {table, None}, table' # None => connected' # None,
           connected' # None => /\ connected' = connected
                                /\ content[connected] \subseteq content'[connected],
           \A s \in Streams : \A E :
                stream[s].call = "opening" /\ Awaited(stream[s], server, E)
                    => Awaited(stream'[s], server', E),
           table' # None => Current(stream'[table], server', content'[connected])
    PROVE  Flow'
<1>0. /\ StreamsInv /\ DataOK /\ ControlOK /\ None \notin Objects
      /\ resync # Idle => resync.stream \in Streams /\ resync.doc \in Objects
  BY ResyncTypes, SyncAssumption DEF Typed
<1>1. ASSUME NEW u \in Opening' PROVE Awaited(stream'[at'[u].stream], server', {})
  <2> DEFINE none == {}
             s == at[u].stream
  <2>1. u \in Opening /\ at'[u].stream = s /\ s \in Streams
    BY <1>0, OpeningStreams DEF StillOpening, Opening
  <2>2. stream[s].call = "opening" /\ Awaited(stream[s], server, none)
    BY <1>0, <2>1 DEF StreamsInv, Flow
  <2> HIDE DEF none, s
  <2>3. Awaited(stream'[s], server', none)
    BY <2>1, <2>2
  <2> QED
    BY <2>1, <2>3 DEF none
<1>2. ASSUME resync' # Idle, resync'.doc = connected'
      PROVE  /\ Awaited(stream'[resync'.stream], server', content'[connected'])
             /\ resync'.payload \subseteq content'[connected']
  <2> DEFINE s == resync.stream
             E == content[connected]
             F == content'[connected]
  <2>1. /\ resync' = resync /\ connected' # None /\ connected' = connected /\ s \in Streams
        /\ E \subseteq F /\ stream[s].call = "opening"
    BY <1>0, <1>2 DEF StreamsInv
  <2>2. Awaited(stream[s], server, E) /\ resync.payload \subseteq E
    BY <1>2, <2>1 DEF Flow
  <2> HIDE DEF s, E, F
  <2>3. Awaited(stream'[s], server', E)
    BY <2>1, <2>2
  <2>4. Awaited(stream'[s], server', F)
    BY <2>1, <2>3, AwaitedMore
  <2> QED
    BY <2>1, <2>2, <2>4 DEF s, E, F
<1>3. table' # None => Current(stream'[table'], server', content'[connected'])
  BY <1>0
<1> QED
  BY <1>1, <1>2, <1>3 DEF Flow

(* ... above all when the streams stay as they are. *)
LEMMA FlowAlone ==
    ASSUME Typed, Flow, TableIsOurs, StillOpening, resync' \in {resync, Idle},
           table' \in {table, None}, server' = server,
           connected' = connected \/ (connected' = None /\ table' = None),
           connected # None => content[connected] \subseteq content'[connected] \/ connected' = None,
           \A s \in Streams : (s = table /\ table' = None) \/ Same(stream'[s], stream[s])
    PROVE  Flow'
<1>0. ControlOK /\ StreamsInv
  BY DEF Typed
<1>1. ASSUME NEW s \in Streams, NEW E, stream[s].call = "opening", Awaited(stream[s], server, E)
      PROVE  Awaited(stream'[s], server', E)
  <2>1. s # table
    BY <1>0, <1>1, SyncAssumption DEF StreamsInv
  <2> QED
    BY <1>1, <2>1, AwaitedSame
<1>2. ASSUME table' # None PROVE Current(stream'[table], server', content'[connected])
  <2> DEFINE E == content[connected]
             F == content'[connected]
  <2>1. table # None /\ table \in Streams /\ Same(stream'[table], stream[table])
        /\ connected # None /\ connected' # None
    BY <1>0, <1>2 DEF ControlOK, TableIsOurs
  <2>2. Current(stream[table], server, E) /\ E \subseteq F
    BY <2>1 DEF Flow
  <2> HIDE DEF E, F
  <2>3. Current(stream'[table], server, E)
    BY <2>1, <2>2, AwaitedSame
  <2> QED
    BY <2>2, <2>3, AwaitedMore DEF E, F
<1>3. table' # None => connected' # None
  BY DEF TableIsOurs
<1> QED
  BY <1>1, <1>2, <1>3, FlowStays

-----------------------------------------------------------------------------
(* The server *)
LEMMA AwaitedFromServer ==
    ASSUME NEW K, NEW b \in StreamOf(K), NEW a, NEW S, NEW T, NEW E, NEW c,
           Alike(a, b), a.up = b.up,
           a.down = IF b.served /\ b.call # "over" THEN Append(b.down, c) ELSE b.down,
           S \subseteq T, T \subseteq S \cup c.edits
    PROVE  /\ b.call # "over" /\ Awaited(b, S, E) => Awaited(a, T, E)
           /\ (b.open => b.call # "over") /\ Current(b, S, E) => Current(a, T, E)
<1>1. CASE b.served /\ b.call # "over"
  BY <1>1, AwaitedTold
<1>2. CASE ~b.served
  <2>1. ~a.served /\ Chunks(a.up) \subseteq Chunks(b.up) /\ (a.open => b.open)
    BY <1>2 DEF Alike
  <2> QED
    BY <2>1, AwaitedUnserved
<1>3. CASE b.call = "over"
  BY <1>3 DEF Current, Alike
<1> QED
  BY <1>1, <1>2, <1>3

(* The stream s is served no more. *)
LEMMA UnservedFlow ==
    ASSUME Typed, Flow, TableIsOurs, UNCHANGED <<ServerVars, server>>, NEW s \in Streams,
           \A v \in Streams \ {s} : Same(stream'[v], stream[v]),
           stream'[s].served = FALSE,
           stream[s].call # "over" => /\ Chunks(stream'[s].up) \subseteq Chunks(stream[s].up)
                                      /\ stream'[s].open = stream[s].open,
           stream[s].call = "over" => ~stream'[s].open
    PROVE  Flow'
<1>0. UNCHANGED <<content, connected, table, resync, at>> /\ (table # None => table \in Streams)
  BY DEF ServerVars, docVars, Typed, ControlOK
<1>1. ASSUME NEW v \in Streams, NEW E
      PROVE  /\ stream[v].call = "opening" /\ Awaited(stream[v], server, E) => Awaited(stream'[v], server, E)
             /\ Current(stream[v], server, E) => Current(stream'[v], server, E)
  <2>1. CASE v # s
    BY <2>1, AwaitedSame
  <2>2. CASE v = s /\ stream[s].call # "over"
    BY <2>2, AwaitedUnserved
  <2>3. CASE v = s /\ stream[s].call = "over"
    BY <2>3 DEF Current
  <2> QED
    BY <2>1, <2>2, <2>3
<1>2. table' # None => Current(stream'[table], server', content'[connected'])
  <2> DEFINE E == content[connected]
  <2>1. table # None => Current(stream[table], server, E)
    BY DEF Flow
  <2>2. content'[connected'] = E /\ server' = server
    BY <1>0
  <2> HIDE DEF E
  <2> QED
    BY <1>0, <1>1, <2>1, <2>2
<1>3. StillOpening
  BY <1>0 DEF StillOpening
<1>4. table' # None => connected' # None
  BY <1>0 DEF TableIsOurs
<1> QED
  BY <1>0, <1>1, <1>2, <1>3, <1>4, FlowStays

(* The queue without its head *)
LEMMA PulledIs ==
    ASSUME NEW K, NEW a, NEW b \in StreamOf(K), Pulled(a, b)
    PROVE  /\ Head(b.up) \in Chunks(b.up)
           /\ b.call # "over" => Chunks(a.up) \subseteq Chunks(b.up) /\ a.open = b.open
           /\ b.call = "over" => ~a.open
  BY ChunksHead DEF Pulled, StreamOf

LEMMA ServerFlow ==
    ASSUME Typed, WireInv, Flow, TableIsOurs, Server
    PROVE  Flow'
<1>0. /\ DataOK /\ ControlOK /\ StreamsInv
      /\ \A v \in Streams : stream[v] \in StreamOf(Known) /\ Good(stream[v], server)
      /\ UNCHANGED ServerVars
  BY WireIs, ServerTyped
<1>1. /\ UNCHANGED <<content, connected, table, resync, at>> /\ StillOpening
      /\ (table # None => table \in Streams) /\ (table' # None => connected' # None)
  BY <1>0 DEF ServerVars, docVars, ControlOK, StillOpening, TableIsOurs
<1>2. ASSUME NEW s \in Streams, ServerRefuses(s) \/ ServerCloses(s) PROVE Flow'
  <2>1. /\ UNCHANGED <<ServerVars, server>> /\ Pulled(stream'[s], stream[s])
        /\ \A v \in Streams \ {s} : Same(stream'[v], stream[v])
        /\ stream'[s].served = FALSE
    BY <1>0, <1>2, ServerRefusesIs, ServerClosesIs
  <2>2. /\ stream[s].call # "over" => /\ Chunks(stream'[s].up) \subseteq Chunks(stream[s].up)
                                      /\ stream'[s].open = stream[s].open
        /\ stream[s].call = "over" => ~stream'[s].open
    BY <1>0, <2>1, PulledIs
  <2> QED
    BY <2>1, <2>2, UnservedFlow
<1>3. ASSUME NEW s \in Streams, ServerEnds(s) PROVE Flow'
  <2>1. /\ UNCHANGED <<ServerVars, server>>
        /\ \A v \in Streams \ {s} : Same(stream'[v], stream[v])
        /\ stream'[s].served = FALSE
        /\ stream[s].call # "over" => /\ stream'[s].up = stream[s].up
                                      /\ stream'[s].open = stream[s].open
        /\ stream[s].call = "over" => ~stream'[s].open
    BY <1>0, <1>3, ServerEndsIs
  <2> QED
    BY <2>1, UnservedFlow
<1>4. ASSUME NEW s \in Streams, ServerOpens(s) PROVE Flow'
  <2> DEFINE V == Head(stream[s].up).edits
             c == State(server \ V)
  <2>1. /\ server' = server /\ Pulled(stream'[s], stream[s])
        /\ \A v \in Streams \ {s} : Same(stream'[v], stream[v])
        /\ stream[s].call # "over" => stream'[s].down = Append(stream[s].down, c)
    BY <1>0, <1>4, ServerOpensIs
  <2>2. Head(stream[s].up).type = "start"
    BY <1>0, <1>4, AskedIs DEF ServerOpens
  <2>3. c.edits = server \ V
    BY ChunkSays
  <2>4. /\ Head(stream[s].up) \in Chunks(stream[s].up)
        /\ stream[s].call # "over" => /\ Chunks(stream'[s].up) \subseteq Chunks(stream[s].up)
                                      /\ stream'[s].open = stream[s].open
        /\ stream[s].call = "over" => ~stream'[s].open
    BY <1>0, <2>1, PulledIs
  <2>5. ASSUME NEW v \in Streams, NEW E, stream[v].call = "opening", Awaited(stream[v], server, E)
        PROVE  Awaited(stream'[v], server', E)
    <3>1. CASE v # s
      BY <2>1, <2>5, <3>1, AwaitedSame
    <3>2. CASE v = s
      <4>1. V \subseteq E
        BY <2>2, <2>4, <2>5, <3>2 DEF Awaited, Asks
      <4>2. stream'[s].down = Append(stream[s].down, c)
        BY <2>1, <2>5, <3>2
      <4> HIDE DEF c, V
      <4>3. Grown(stream'[s].down, stream[s].down, c)
        <5>1. stream[s].down \in Seq(ChunkOf(Known))
          BY <1>0 DEF StreamOf
        <5> QED
          BY <4>2, <5>1 DEF Grown
      <4>4. c \in Chunks(stream'[s].down)
        BY <4>3, ChunksMore
      <4>5. Brings(stream'[s], server, E)
        BY <2>3, <4>1, <4>4 DEF Brings
      <4>6. Asks(stream'[s], E)
        BY <2>4, <2>5, <3>2 DEF Awaited, Asks
      <4> QED
        BY <2>1, <3>2, <4>5, <4>6 DEF Awaited
    <3> QED
      BY <3>1, <3>2
  <2>6. ASSUME table' # None PROVE Current(stream'[table], server', content'[connected'])
    <3>1. CASE table # s
      <4> DEFINE E == content[connected]
      <4>1. Current(stream[table], server, E) /\ Same(stream'[table], stream[table])
        BY <1>1, <2>1, <2>6, <3>1 DEF Flow
      <4>2. content'[connected'] = E /\ server' = server
        BY <1>1, <2>1
      <4> HIDE DEF E
      <4> QED
        BY <4>1, <4>2, AwaitedSame
    <3>2. CASE table = s
      <4>1. stream[s].open => stream[s].call = "running"
        BY <1>1, <2>6, <3>2 DEF TableIsOurs
      <4>2. stream[s].call # "running"
        BY <1>0, <2>2, <2>4 DEF Good, AskOK
      <4>3. ~stream'[s].open
        BY <2>4, <4>1, <4>2
      <4> QED
        BY <3>2, <4>3 DEF Current
    <3> QED
      BY <3>1, <3>2
  <2> QED
    BY <1>1, <2>5, <2>6, FlowStays
<1>5. ASSUME NEW v \in Streams, NEW E, NEW c, stream[v].call # "over" \/ ~stream[v].open,
             Alike(stream'[v], stream[v]), stream'[v].up = stream[v].up,
             stream'[v].down = IF stream[v].served /\ stream[v].call # "over"
                               THEN Append(stream[v].down, c) ELSE stream[v].down,
             server \subseteq server', server' \subseteq server \cup c.edits
      PROVE  /\ stream[v].call = "opening" /\ Awaited(stream[v], server, E)
                    => Awaited(stream'[v], server', E)
             /\ Current(stream[v], server, E) => Current(stream'[v], server', E)
  BY <1>0, <1>5, AwaitedFromServer
<1>6. table # None => /\ Current(stream[table], server, content[connected])
                      /\ stream[table].call # "over" \/ ~stream[table].open
  BY DEF Flow, TableIsOurs
<1>7. ASSUME NEW s \in Streams, ServerTakes(s) PROVE Flow'
  <2> DEFINE D == Head(stream[s].up).edits
             c == Sync(D)
  <2>1. /\ Pulled(stream'[s], stream[s]) /\ stream'[s].served = stream[s].served
        /\ stream[s].call # "over" => stream'[s].down = stream[s].down
        /\ \/ /\ ~stream[s].served /\ server' = server
              /\ \A v \in Streams \ {s} : Same(stream'[v], stream[v])
           \/ /\ stream[s].served /\ server' = server \cup D
              /\ \A v \in Streams \ {s} :
                    /\ Alike(stream'[v], stream[v]) /\ stream'[v].up = stream[v].up
                    /\ stream'[v].down = IF stream[v].served /\ stream[v].call # "over"
                                         THEN Append(stream[v].down, c) ELSE stream[v].down
    BY <1>0, <1>7, ServerTakesIs
  <2>2. Head(stream[s].up).type = "sync"
    BY <1>0, <1>7, AskedIs DEF ServerTakes
  <2>3. /\ Head(stream[s].up) \in Chunks(stream[s].up)
        /\ stream[s].call # "over" => /\ Chunks(stream'[s].up) \subseteq Chunks(stream[s].up)
                                      /\ stream'[s].open = stream[s].open
        /\ stream[s].call = "over" => ~stream'[s].open
    BY <1>0, <2>1, PulledIs
  <2>4. CASE ~stream[s].served /\ server' = server
             /\ \A v \in Streams \ {s} : Same(stream'[v], stream[v])
    <3>1. stream'[s].served = FALSE
      BY <1>0, <2>1, <2>4 DEF StreamOf
    <3>2. UNCHANGED <<ServerVars, server>>
      BY <1>0, <2>4
    <3> QED
      BY <2>3, <2>4, <3>1, <3>2, UnservedFlow
  <2>5. CASE /\ stream[s].served /\ server' = server \cup D
             /\ \A v \in Streams \ {s} :
                   /\ Alike(stream'[v], stream[v]) /\ stream'[v].up = stream[v].up
                   /\ stream'[v].down = IF stream[v].served /\ stream[v].call # "over"
                                        THEN Append(stream[v].down, c) ELSE stream[v].down
    <3>1. stream[s].call # "opening"
      BY <1>0, <2>1, <2>2 DEF Good, AskOK, Pulled
    <3>2. c.edits = D
      BY ChunkSays
    <3> HIDE DEF c
    <3>3. ASSUME NEW v \in Streams, NEW E, stream[v].call = "opening", Awaited(stream[v], server, E)
          PROVE  Awaited(stream'[v], server', E)
      BY <1>5, <2>5, <3>1, <3>2, <3>3
    <3>4. ASSUME table' # None PROVE Current(stream'[table], server', content'[connected'])
      <4> DEFINE E == content[connected]
      <4>1. /\ table \in Streams /\ Current(stream[table], server, E)
            /\ stream[table].call # "over" \/ ~stream[table].open
            /\ content'[connected'] = E
        BY <1>1, <1>6, <3>4
      <4> HIDE DEF E
      <4>2. CASE table # s
        BY <1>5, <2>5, <3>2, <4>1, <4>2
      <4>3. CASE table = s /\ stream'[s].open
        <5>1. stream[s].call # "over" /\ stream[s].open
          BY <2>3, <4>3
        <5>2. Brings(stream[s], server, E) /\ Sends(stream[s], server \cup E)
          BY <4>1, <4>3, <5>1 DEF Current
        <5>3. D \subseteq server \cup E
          BY <2>2, <2>3, <5>2 DEF Sends
        <5>4. Brings(stream'[s], server', E)
          BY <2>1, <2>5, <5>1, <5>2, <5>3 DEF Brings
        <5>5. Sends(stream'[s], server' \cup E)
          BY <2>3, <2>5, <5>1, <5>2 DEF Sends
        <5> QED
          BY <4>1, <4>3, <5>4, <5>5 DEF Current
      <4>4. CASE table = s /\ ~stream'[s].open
        BY <4>4 DEF Current
      <4> QED
        BY <4>2, <4>3, <4>4
    <3> QED
      BY <1>1, <3>3, <3>4, FlowStays
  <2> QED
    BY <2>1, <2>4, <2>5
<1>8. ASSUME NEW e \in PeerEdits, PeerEditsDocument(e) PROVE Flow'
  <2> DEFINE c == Sync({e})
  <2>1. /\ server' = server \cup {e}
        /\ \A v \in Streams :
              /\ Alike(stream'[v], stream[v]) /\ stream'[v].up = stream[v].up
              /\ stream'[v].down = IF stream[v].served /\ stream[v].call # "over"
                                   THEN Append(stream[v].down, c) ELSE stream[v].down
    BY <1>0, <1>8, PeerEditsIs
  <2>2. c.edits = {e}
    BY ChunkSays
  <2> HIDE DEF c
  <2>3. server \subseteq server' /\ server' \subseteq server \cup c.edits
    BY <2>1, <2>2
  <2>4. \A v \in Streams : \A E : stream[v].call = "opening" /\ Awaited(stream[v], server, E)
                                    => Awaited(stream'[v], server', E)
    BY <1>5, <2>1, <2>3
  <2>5. ASSUME table' # None PROVE Current(stream'[table], server', content'[connected'])
    <3> DEFINE E == content[connected]
    <3>1. /\ table \in Streams /\ Current(stream[table], server, E)
          /\ stream[table].call # "over" \/ ~stream[table].open
          /\ content'[connected'] = E
      BY <1>1, <1>6, <2>5
    <3> HIDE DEF E
    <3> QED
      BY <1>5, <2>1, <2>3, <3>1
  <2> QED
    BY <1>1, <2>4, <2>5, FlowStays
<1> QED
  BY <1>2, <1>3, <1>4, <1>7, <1>8 DEF Server

-----------------------------------------------------------------------------
(* The users *)
LEMMA AwaitedFresh ==
    ASSUME NEW a, NEW E, NEW F, NEW S, Fresh(a, E), E \subseteq F
    PROVE  Awaited(a, S, F)
<1>1. \A c : Chunks(<<c>>) = {c}
  BY DEF Chunks
<1>2. \A c \in Chunks(a.up) : c = Start(E)
  BY <1>1, ChunksEmpty DEF Fresh
<1> QED
  BY <1>2, ChunkSays DEF Fresh, Awaited, Brings, Asks

LEMMA ProceedFlow ==
    ASSUME Typed, OneOpens, TableIsOurs, Flow,
           NEW u \in Users, at[u].at \in {"idle", "resumed"}, Proceed(u),
           UNCHANGED <<table, resync, serverVars>>, ~disturbed'
    PROVE  Flow'
<1>0. /\ DataOK /\ ControlOK /\ StreamsInv /\ at \in [Tasks -> Task] /\ u \in Tasks
      /\ Users \subseteq Tasks /\ None \notin Objects /\ server' = server
      /\ resync # Idle => resync.doc \in Objects
  BY UsersAreTasks, SyncAssumption, ResyncTypes DEF Typed, ControlOK, serverVars
<1>1. CASE UNCHANGED <<connected, content, stream>> /\ \E a : a.at # "opening" /\ at' = [at EXCEPT ![u] = a]
  <2>1. StillOpening
    BY <1>0, <1>1 DEF StillOpening
  <2> QED
    BY <1>0, <1>1, <2>1, SameIs, FlowAlone
<1>2. CASE Share(u)
  BY <1>1, <1>2 DEF Share
<1>3. CASE connected = None /\ ~TakesRequests /\ UNCHANGED docVars
           /\ at' = [at EXCEPT ![u] = Idle] /\ UNCHANGED stream
  BY <1>1, <1>3 DEF Idle, docVars
<1>4. CASE /\ connected = None /\ disturbed' = (disturbed \/ Opening # {}) /\ UNCHANGED docVars
           /\ StreamLeft
           /\ at' = [at EXCEPT ![u] = [at |-> "opening", stream |-> UnusedStream, future |-> TRUE]]
           /\ stream' = [stream EXCEPT ![UnusedStream] = Asking({})]
  <2> DEFINE s == UnusedStream
             none == {}
  <2>1. Opening = {} /\ table' = None /\ connected' = None
    BY <1>0, <1>4 DEF TableIsOurs, docVars
  <2>2. none \in SUBSET Known /\ stream' = [stream EXCEPT ![UnusedStream] = Asking(none)]
    BY <1>4
  <2> HIDE DEF none
  <2>3. Fresh(stream'[s], none)
    BY <1>0, <1>4, <2>2, AskedFor
  <2>4. Awaited(stream'[s], server, none)
    BY <2>3, AwaitedFresh
  <2>5. at'[u].stream = s /\ \A v \in Users \ {u} : at'[v] = at[v]
    BY <1>0, <1>4
  <2>6. Opening' \subseteq {u}
    BY <2>1, <2>5 DEF Opening
  <2>7. \A v \in Opening' : Awaited(stream'[at'[v].stream], server', {})
    BY <1>0, <2>4, <2>5, <2>6 DEF none
  <2> QED
    BY <1>0, <2>1, <2>7 DEF Flow
<1> QED
  BY <1>2, <1>3, <1>4 DEF Proceed

LEMMA OpenFlow ==
    ASSUME Typed, OneOpens, TableIsOurs, Flow, NEW u \in Users, Open(u), ~disturbed'
    PROVE  Flow'
<1>0. at[u] = Idle /\ at \in [Tasks -> Task] /\ u \in Tasks /\ Users \subseteq Tasks
      /\ UNCHANGED <<table, resync, serverVars>>
  BY UsersAreTasks DEF Open, Typed, ControlOK
<1>1. CASE Proceed(u)
  <2>1. at[u].at = "idle"
    BY <1>0 DEF Idle
  <2> QED
    BY <1>0, <1>1, <2>1, ProceedFlow
<1>2. CASE /\ at' = [at EXCEPT ![u] = [at |-> "waiting", on |-> connecting]]
           /\ UNCHANGED <<docVars, connecting, stream, disturbed>>
  <2>1. StillOpening /\ UNCHANGED <<connected, content, stream, server>>
    BY <1>0, <1>2 DEF StillOpening, docVars, serverVars
  <2> QED
    BY <1>0, <2>1, SameIs, FlowAlone
<1> QED
  BY <1>1, <1>2 DEF Open

(* The state has come: the stream goes on from it. *)
LEMMA AnswerTaken ==
    ASSUME NEW K, NEW b \in StreamOf(K), NEW a, NEW S, NEW E, NEW F,
           b.down # <<>>, a.down = Tail(b.down), a.served = b.served,
           Brings(b, S, E), E \cup Head(b.down).edits \subseteq F
    PROVE  Brings(a, S, F)
<1>1. Chunks(b.down) = {Head(b.down)} \cup Chunks(a.down)
  BY ChunksHead DEF StreamOf
<1> QED
  BY <1>1 DEF Brings

LEMMA OpenedFlow ==
    ASSUME Typed, WireInv, OneOpens, TableIsOurs, Counted, Flow, NEW u \in Users, Opened(u)
    PROVE  Flow'
<1> DEFINE s == at[u].stream
           o == UnusedObject
           E == Head(stream[s].down).edits
<1>0. /\ DataOK /\ ControlOK /\ StreamsInv /\ u \in Opening /\ at[u].future /\ connecting # None
      /\ None \notin Objects /\ None \notin Users
      /\ \A v \in Streams : stream[v] \in StreamOf(Known) /\ Good(stream[v], server)
      /\ Close \in ChunkOf(Known) /\ UNCHANGED <<server, resync>>
      /\ resync # Idle => resync.at = "opening" /\ resync.doc \in Objects
  BY WireIs, ResyncTypes, SyncAssumption DEF Opened, Opening, OneOpens, serverVars
<1>1. /\ s \in Streams /\ o \in UnusedObjects /\ E \subseteq Known
      /\ stream[s].down # <<>> /\ Head(stream[s].down).type = "state"
      /\ stream' \in StreamsOf(Known)
      /\ stream'[s].served = stream[s].served
      /\ stream'[s].down = Tail(stream[s].down)
      /\ \E q \in {stream[s].up, Append(stream[s].up, Sync(E))} :
            stream'[s].up \in {q, Append(q, Close)}
  BY <1>0, OpenedIs
<1>2. /\ connected' = o /\ table' = s /\ content' = [content EXCEPT ![o] = E]
      /\ FutureDone(u, [at |-> "open", doc |-> o], [at |-> "resumed"])
  BY <1>0 DEF Opened
<1>3. Opening' = {}
  BY <1>0, <1>2, OneIsDone
<1>4. o \in Objects /\ content'[o] = E /\ (resync # Idle => resync.doc # o)
  BY <1>0, <1>1, <1>2 DEF UnusedObjects, DataOK
<1>5. stream[s].call = "opening" /\ Brings(stream[s], server, {})
  BY <1>0 DEF StreamsInv, Flow, Awaited
<1> HIDE DEF s, o
<1>6. stream[s].up = <<>> /\ E \subseteq server
  BY <1>0, <1>1, <1>5, AnsweredIs
<1>7. Brings(stream'[s], server, E)
  <2> DEFINE none == {}
  <2>1. Brings(stream[s], server, none) /\ none \cup Head(stream[s].down).edits \subseteq E
    BY <1>5
  <2> HIDE DEF none, E
  <2> QED
    BY <1>0, <1>1, <2>1, AnswerTaken
<1> HIDE DEF E
<1>8. \A x \in Chunks(stream'[s].up) : x.edits \subseteq server \cup E
  <2>1. PICK c \in ChunkOf(Known) : c = Sync(E)
    BY <1>1, ChunkMade
  <2> DEFINE b == stream[s].up
             p == stream'[s].up
  <2>2. b \in Seq(ChunkOf(Known)) /\ \E q \in {b, Append(b, c)} : p \in {q, Append(q, Close)}
    BY <1>0, <1>1, <2>1 DEF StreamOf
  <2>3. Chunks(p) \subseteq Chunks(b) \cup {c, Close}
    <3> HIDE DEF b, p
    <3> QED
      BY <1>0, <2>2, TwoMore
  <2> QED
    BY <1>6, <2>1, <2>3, ChunksEmpty, ChunkSays
<1>9. Current(stream'[s], server, E)
  BY <1>7, <1>8 DEF Current, Sends
<1> QED
  BY <1>0, <1>2, <1>3, <1>4, <1>9 DEF Flow

LEMMA OpenFailsFlow ==
    ASSUME Typed, OneOpens, TableIsOurs, NEW u \in Users, OpenFails(u)
    PROVE  Flow'
<1>0. /\ u \in Opening /\ FutureDone(u, Idle, Idle) /\ connected = None /\ table = None
      /\ UNCHANGED <<connected, table, resync>> /\ None \notin Objects
      /\ resync # Idle => resync.doc \in Objects
  BY ResyncTypes, SyncAssumption DEF OpenFails, Opening, OneOpens, TableIsOurs, docVars, Typed
<1>1. Opening' = {}
  BY <1>0, OneIsDone DEF Idle
<1> QED
  BY <1>0, <1>1 DEF Flow

LEMMA CloseDocumentFlow ==
    ASSUME Typed, Flow, TableIsOurs, Counted, NEW u \in Users, CloseDocument(u)
    PROVE  Flow'
<1>0. /\ ControlOK /\ DataOK /\ at \in [Tasks -> Task] /\ u \in Tasks /\ Users \subseteq Tasks
      /\ connected # None /\ UNCHANGED <<resync, server>>
  BY UsersAreTasks DEF Typed, ControlOK, CloseDocument, Counted, Held, serverVars
<1>1. StillOpening
  BY <1>0 DEF CloseDocument, CloseLast, StillOpening, Idle
<1>2. CASE CloseLast(u)
  <2>1. connected' = None /\ table' = None /\ \A v \in Streams : v # table => stream'[v] = stream[v]
    BY <1>0, <1>2, CloseLastIs DEF CloseLast
  <2> QED
    BY <1>0, <1>1, <2>1, SameIs, FlowAlone
<1>3. CASE UNCHANGED <<connected, content, table, stream>>
  BY <1>0, <1>1, <1>3, SameIs, FlowAlone
<1> QED
  BY <1>0, <1>2, <1>3 DEF CloseDocument

LEMMA CloseReturnsFlow ==
    ASSUME Typed, ClosingInv, Flow, TableIsOurs, NEW t \in Tasks, CloseReturns(t)
    PROVE  Flow'
<1>0. /\ at \in [Tasks -> Task] /\ Users \subseteq Tasks /\ at[t].doc # connected
      /\ at' = [at EXCEPT ![t] = Idle] /\ content' = [content EXCEPT ![at[t].doc] = {}]
      /\ UNCHANGED <<connected, table, stream, resync, server>>
      /\ content \in [Objects -> SUBSET Known] /\ connected \in Objects \cup {None}
  BY UsersAreTasks DEF Typed, ControlOK, DataOK, CloseReturns, Unregister, ClosingInv, serverVars
<1>1. StillOpening
  BY <1>0 DEF StillOpening, Idle
<1>2. connected # None => content[connected] \subseteq content'[connected]
  BY <1>0
<1> QED
  BY <1>0, <1>1, <1>2, SameIs, FlowAlone

-----------------------------------------------------------------------------
(* Edits and the room *)

(* A change goes out on the stream in the table, and what came before it   *)
(* is still on its way. *)
LEMMA CurrentSends ==
    ASSUME NEW K, NEW b \in StreamOf(K), NEW a, NEW S, NEW E, NEW F, NEW D,
           Alike(a, b), a.up \in {b.up, Append(b.up, Sync(D))},
           Current(b, S, E), E \subseteq F, D \subseteq S \cup F,
           Brings(b, S, E) => Brings(a, S, F)
    PROVE  Current(a, S, F)
<1> DEFINE c == Sync(D)
<1>1. b.up \in Seq(ChunkOf(K)) /\ c.edits = D
  BY ChunkSays DEF StreamOf
<1>2. a.up \in {b.up, Append(b.up, c)}
  OBVIOUS
<1> HIDE DEF c
<1>3. Chunks(a.up) \subseteq Chunks(b.up) \cup {c}
  <2>1. CASE a.up = Append(b.up, c)
    <3>1. Grown(a.up, b.up, c)
      BY <1>1, <2>1 DEF Grown
    <3> QED
      BY <3>1, ChunksMore
  <2> QED
    BY <1>2, <2>1
<1>4. a.open = b.open
  BY DEF Alike
<1> QED
  BY <1>1, <1>3, <1>4 DEF Current, Sends

LEMMA EditFlow ==
    ASSUME Typed, Flow, OneOpens, TableIsOurs, Counted, NEW u \in Users, NEW e \in LocalEdits, Edit(u, e)
    PROVE  Flow'
<1> DEFINE D == {e}
           F == content'[connected]
           E == content[connected]
<1>0. /\ DataOK /\ ControlOK /\ StreamsInv
      /\ UNCHANGED <<server, connected, table, resync, at>>
  BY DEF Typed, Edit
<1>1. u \in Held /\ at[u].doc = connected /\ connected # None /\ connected \in Objects
  BY <1>0 DEF Counted, Held, Edit, ControlOK
<1>2. /\ content' = [content EXCEPT ![connected] = content[connected] \cup D]
      /\ \A s \in Streams :
            /\ Alike(stream'[s], stream[s]) /\ stream'[s].down = stream[s].down
            /\ stream'[s].up = IF s = table /\ stream[s].open /\ stream[s].link = "live"
                               THEN Append(stream[s].up, Sync(D)) ELSE stream[s].up
  BY <1>0, <1>1, EditIs
<1>3. F = E \cup D
  BY <1>0, <1>1, <1>2 DEF DataOK
<1>4. StillOpening
  BY <1>0 DEF StillOpening
<1>5. \A s \in Streams : \A X : stream[s].call = "opening" /\ Awaited(stream[s], server, X)
                                => Awaited(stream'[s], server', X)
  <2> SUFFICES ASSUME NEW s \in Streams, NEW X, stream[s].call = "opening", Awaited(stream[s], server, X)
               PROVE  Awaited(stream'[s], server, X)
    BY <1>0
  <2>1. s # table
    BY <1>0, SyncAssumption DEF StreamsInv
  <2>2. Same(stream'[s], stream[s])
    BY <1>2, <2>1 DEF Same
  <2> QED
    BY <2>2, AwaitedSame
<1>6. ASSUME table' # None PROVE Current(stream'[table], server', content'[connected'])
  <2>1. /\ table \in Streams /\ stream[table] \in StreamOf(Known)
        /\ Current(stream[table], server, E)
    BY <1>0, <1>6 DEF ControlOK, DataOK, StreamsOf, Flow
  <2>2. /\ Alike(stream'[table], stream[table])
        /\ stream'[table].up \in {stream[table].up, Append(stream[table].up, Sync(D))}
        /\ stream'[table].down = stream[table].down
    BY <1>2, <2>1
  <2> HIDE DEF D, E, F
  <2>3. Brings(stream[table], server, E) => Brings(stream'[table], server, F)
    BY <1>3, <2>2 DEF Brings, Alike
  <2>4. E \subseteq F /\ D \subseteq server \cup F
    BY <1>3
  <2>5. Current(stream'[table], server, F)
    BY <2>1, <2>2, <2>3, <2>4, CurrentSends
  <2> QED
    BY <1>0, <2>5 DEF F
<1>7. content[connected] \subseteq content'[connected]
  BY <1>3
<1> QED
  BY <1>0, <1>1, <1>4, <1>5, <1>6, <1>7, FlowStays

LEMMA ConsumeFlow ==
    ASSUME Typed, WireInv, Flow, TableIsOurs, NEW s \in Streams, Consume(s)
    PROVE  Flow'
<1> DEFINE c == Head(stream[s].down)
           o == stream[s].doc
           D == c.edits \ content[o]
           E == content[connected]
           F == content'[connected]
<1>0. /\ DataOK /\ ControlOK /\ StreamsInv
      /\ UNCHANGED <<server, connected, table, resync, at>>
      /\ \A v \in Streams : stream[v] \in StreamOf(Known) /\ Good(stream[v], server)
  BY WireIs DEF Consume, serverVars
<1>1. stream[s].call = "running" /\ stream[s].down # <<>> /\ c \in Chunks(stream[s].down)
      /\ c \in ChunkOf(Known)
  <2>1. stream[s].down \in Seq(ChunkOf(Known))
    BY <1>0 DEF StreamOf
  <2> QED
    BY <1>0, <2>1, ConsumeIs, ChunksHead
<1>2. c.edits \subseteq server
  BY <1>0, <1>1 DEF Good, DownOK
<1>3. StillOpening /\ (table # None => connected # None /\ table \in Streams)
      /\ (connected # None => connected \in Objects)
  BY <1>0 DEF StillOpening, TableIsOurs, ControlOK
<1>4. CASE /\ o \in Objects /\ content' = [content EXCEPT ![o] = content[o] \cup c.edits]
           /\ stream'[s].down = Tail(stream[s].down)
           /\ \A v \in Streams : /\ Alike(stream'[v], stream[v])
                                 /\ v # s => stream'[v].down = stream[v].down
                                 /\ \/ stream'[v].up = stream[v].up
                                    \/ v = table /\ stream'[v].up = Append(stream[v].up, Sync(D))
  <2>1. connected # None => E \subseteq F /\ (o = connected => c.edits \subseteq F)
    BY <1>0, <1>3, <1>4 DEF DataOK
  <2>2. ASSUME NEW v \in Streams, NEW X, stream[v].call = "opening", Awaited(stream[v], server, X)
        PROVE  Awaited(stream'[v], server', X)
    <3>1. v # table /\ v # s
      BY <1>0, <1>1, <2>2, SyncAssumption DEF StreamsInv
    <3>2. Same(stream'[v], stream[v])
      BY <1>4, <3>1 DEF Same
    <3> QED
      BY <1>0, <2>2, <3>2, AwaitedSame
  <2>3. ASSUME table' # None PROVE Current(stream'[table], server', content'[connected'])
    <3>1. table # None /\ table \in Streams /\ connected # None /\ stream[table] \in StreamOf(Known)
          /\ Current(stream[table], server, E)
      BY <1>0, <1>3, <2>3 DEF Flow
    <3>2. /\ Alike(stream'[table], stream[table])
          /\ stream'[table].up \in {stream[table].up, Append(stream[table].up, Sync(D))}
      BY <1>4, <3>1
    <3>3. E \subseteq F /\ D \subseteq server \cup F
      BY <1>2, <2>1, <3>1
    <3>4. ASSUME stream[table].open, Brings(stream[table], server, E)
          PROVE  Brings(stream'[table], server, F)
      <4>1. CASE table # s
        BY <1>4, <3>1, <3>2, <3>3, <3>4, <4>1 DEF Brings, Alike
      <4>2. CASE table = s
        <5>1. o = connected
          BY <3>1, <3>4, <4>2 DEF TableIsOurs
        <5>2. E \cup c.edits \subseteq F /\ stream'[s].served = stream[s].served
          BY <2>1, <3>1, <3>2, <4>2, <5>1 DEF Alike
        <5> HIDE DEF E, F
        <5> QED
          BY <1>1, <1>4, <3>1, <3>4, <4>2, <5>2, AnswerTaken
      <4> QED
        BY <4>1, <4>2
    <3> HIDE DEF D, E, F
    <3>5. Current(stream'[table], server, F)
      <4>1. CASE stream[table].open
        <5>1. Brings(stream[table], server, E)
          BY <3>1, <4>1 DEF Current
        <5>2. Brings(stream[table], server, E) => Brings(stream'[table], server, F)
          BY <3>4, <4>1
        <5> QED
          BY <3>1, <3>2, <3>3, <5>2, CurrentSends
      <4>2. CASE ~stream[table].open
        BY <3>2, <4>2 DEF Current, Alike
      <4> QED
        BY <4>1, <4>2
    <3> QED
      BY <1>0, <3>5 DEF F
  <2> QED
    BY <1>0, <1>3, <2>1, <2>2, <2>3, FlowStays
<1>5. CASE /\ content' = content /\ Finished(stream'[s], stream[s])
           /\ \A v \in Streams \ {s} : stream'[v] = stream[v]
  <2>1. ASSUME NEW v \in Streams, NEW X, stream[v].call = "opening", Awaited(stream[v], server, X)
        PROVE  Awaited(stream'[v], server', X)
    BY <1>0, <1>1, <1>5, <2>1
  <2>2. ASSUME table' # None PROVE Current(stream'[table], server', content'[connected'])
    <3>1. CASE table = s
      BY <1>5, <3>1 DEF Current, Finished
    <3>2. CASE table # s
      BY <1>0, <1>3, <1>5, <2>2, <3>2 DEF Flow
    <3> QED
      BY <3>1, <3>2
  <2> QED
    BY <1>0, <1>3, <1>5, <2>1, <2>2, FlowStays
<1> QED
  BY <1>0, <1>4, <1>5, ConsumeIs

LEMMA RoomFlow ==
    ASSUME Typed, WireInv, Regular, Flow, OneOpens, TableIsOurs, Counted, RoomStep, Regular'
    PROVE  Flow'
<1>0. /\ DataOK /\ ControlOK /\ StreamsInv /\ None \notin Objects
      /\ \A v \in Streams : stream[v] \in StreamOf(Known) /\ Good(stream[v], server)
      /\ table # None => connected # None
      /\ resync # Idle => resync.stream \in Streams /\ resync.doc \in Objects
                          /\ resync.payload \in SUBSET Known
  BY WireIs, ResyncTypes, SyncAssumption DEF TableIsOurs
<1>1. CASE LinkLost
  <2>1. UNCHANGED <<connected, content, table, resync, at, server>> /\ StillOpening
    BY <1>1 DEF LinkLost, docVars, serverVars, StillOpening
  <2>2. ASSUME NEW v \in Streams, NEW X
        PROVE  /\ Awaited(stream[v], server, X) => Awaited(stream'[v], server, X)
               /\ Current(stream[v], server, X) => Current(stream'[v], server, X)
    <3>1. ~stream'[v].served /\ stream'[v].up = <<>> /\ (stream'[v].open => stream[v].open)
      BY <1>0, <1>1, LinkLostIs
    <3>2. Chunks(stream'[v].up) \subseteq Chunks(stream[v].up)
      BY <3>1, ChunksEmpty
    <3> QED
      BY <3>1, <3>2, AwaitedUnserved
  <2>3. table' # None => Current(stream'[table], server', content'[connected'])
    <3> DEFINE E == content[connected]
    <3>1. table # None => Current(stream[table], server, E) /\ table \in Streams
      BY <1>0 DEF Flow, ControlOK
    <3>2. content'[connected'] = E
      BY <2>1
    <3> HIDE DEF E
    <3> QED
      BY <2>1, <2>2, <3>1, <3>2
  <2> QED
    BY <1>0, <2>1, <2>2, <2>3, FlowStays
<1>2. CASE Disconnected
  <2>1. UNCHANGED <<connected, content, resync, at, server>> /\ StillOpening /\ table' = None
    BY <1>2 DEF Disconnected, Forget, docVars, serverVars, StillOpening
  <2>2. ASSUME NEW v \in Streams, NEW X, stream[v].call = "opening", Awaited(stream[v], server, X)
        PROVE  Awaited(stream'[v], server', X)
    <3>1. v # table
      BY <1>0, <2>2, SyncAssumption DEF StreamsInv
    <3>2. Alike(stream'[v], stream[v]) /\ stream'[v].up = stream[v].up
          /\ stream'[v].down \in {stream[v].down, Append(stream[v].down, Error)}
      BY <1>0, <1>2, <3>1, DisconnectedIs DEF Alike, Silent
    <3>3. CASE stream'[v].down = stream[v].down
      BY <2>1, <2>2, <3>2, <3>3, AwaitedSame DEF Same
    <3>4. CASE stream'[v].down = Append(stream[v].down, Error)
      <4>1. server \subseteq server' /\ server' \subseteq server \cup Error.edits
        BY <2>1
      <4> QED
        BY <1>0, <2>2, <3>2, <3>4, <4>1, AwaitedTold
    <3> QED
      BY <3>2, <3>3, <3>4
  <2> QED
    BY <1>0, <2>1, <2>2, FlowStays
<1>3. CASE GiveUp
  <2>1. UNCHANGED <<connected, content, table, resync, at, server, stream>> /\ StillOpening
    BY <1>3 DEF GiveUp, docVars, serverVars, StillOpening
  <2> QED
    BY <1>0, <2>1, SameIs, FlowAlone
<1>4. CASE Reconnect
  <2>1. UNCHANGED <<connected, content, table, at, server>> /\ StillOpening
    BY <1>4 DEF Reconnect, docVars, serverVars, StillOpening
  <2>2. CASE UNCHANGED <<stream, resync>>
    BY <1>0, <2>1, <2>2, SameIs, FlowAlone
  <2>3. CASE /\ connected # None /\ StreamLeft
             /\ resync' = [at |-> "opening", stream |-> UnusedStream, doc |-> connected,
                           payload |-> Missed]
             /\ stream' = [stream EXCEPT ![UnusedStream] = Asking(content[connected])]
    <3> DEFINE E == content[connected]
               s == UnusedStream
               P == Missed
    <3>1. P \subseteq E /\ E \in SUBSET Known /\ Opening' = {}
      BY <1>0, <2>1, <2>3, MissedIs DEF OneOpens, Opening
    <3>2. stream' = [stream EXCEPT ![UnusedStream] = Asking(E)]
          /\ resync'.stream = s /\ resync'.payload = P
      BY <2>3
    <3>3. table # None => Current(stream[table], server, E) /\ table \in Streams
      BY <1>0 DEF Flow, ControlOK
    <3> HIDE DEF E, P
    <3>4. Fresh(stream'[s], E) /\ s # table /\ \A v \in Streams \ {s} : stream'[v] = stream[v]
      BY <1>0, <2>3, <3>1, <3>2, AskedFor
    <3> HIDE DEF s
    <3>5. Awaited(stream'[s], server, E)
      BY <3>4, AwaitedFresh
    <3>6. table' # None => Current(stream'[table'], server', E)
      BY <2>1, <3>3, <3>4
    <3>7. E = content'[connected']
      BY <2>1 DEF E
    <3> QED
      BY <2>1, <3>1, <3>2, <3>5, <3>6, <3>7 DEF Flow
  <2> QED
    BY <1>4, <2>2, <2>3 DEF Reconnect
<1>5. CASE room = "resync" /\ AttemptFails
  <2>1. UNCHANGED <<connected, content, at, server>> /\ StillOpening /\ table' = None /\ resync' = Idle
    BY <1>5 DEF AttemptFails, Forget, docVars, serverVars, StillOpening
  <2>2. ASSUME NEW v \in Streams, NEW X, stream[v].call = "opening", Awaited(stream[v], server, X)
        PROVE  Awaited(stream'[v], server', X)
    <3>1. resync.stream \in Streams
      BY <1>0, <1>5 DEF StreamsInv
    <3>2. ~stream'[v].served /\ stream'[v].up = <<>>
      BY <1>0, <1>5, <3>1, AttemptFailsIs, EndedIs
    <3> QED
      BY <3>2, ChunksEmpty DEF Awaited, Brings, Asks
  <2> QED
    BY <1>0, <2>1, <2>2, FlowStays
<1>6. CASE /\ room = "resync" /\ stream[resync.stream].down # <<>>
           /\ Head(stream[resync.stream].down).type = "state" /\ Reopened
  <2> DEFINE s == resync.stream
             V == Head(stream[s].down).edits
             N == V \ content[resync.doc]
             P == resync.payload
             E == content[connected]
             F == content'[connected]
  <2>0. resync # Idle /\ stream[s].call = "opening" /\ s \in Streams /\ P \in SUBSET Known
    BY <1>0, <1>6 DEF StreamsInv
  <2>1. /\ disturbed' = (disturbed \/ resync.doc # connected) /\ table' = s /\ resync' = Idle
        /\ UNCHANGED <<connected, at, server>>
    BY <1>6 DEF Reopened, serverVars
  <2>2. resync.doc = connected /\ connected \in Objects /\ connected # None
    BY <1>0, <2>0, <2>1 DEF Regular
  <2>3. /\ V \subseteq Known /\ stream' \in StreamsOf(Known)
        /\ content' = [content EXCEPT ![resync.doc] = content[resync.doc] \cup V]
        /\ stream'[s].served = stream[s].served
        /\ stream'[s].down = Tail(stream[s].down)
        /\ \E q \in {stream[s].up, Append(stream[s].up, Sync(N))} :
              stream'[s].up \in {q, Append(q, Sync(P))}
    BY <1>0, <1>6, <2>0, ReopenedIs
  <2>4. F = E \cup V
    BY <1>0, <2>2, <2>3 DEF DataOK
  <2>5. Opening' = {}
    BY <2>1, <2>2 DEF OneOpens, Opening
  <2>6. Brings(stream[s], server, E) /\ P \subseteq E
    BY <2>0, <2>2 DEF Flow, Awaited
  <2>7. N \in SUBSET Known /\ N \subseteq V
    BY <2>3
  <2>8. stream[s].down # <<>> /\ Head(stream[s].down).type = "state" /\ E \cup Head(stream[s].down).edits \subseteq F
    BY <1>6, <2>4
  <2> HIDE DEF s, P, N, E, F
  <2>9. stream[s].up = <<>> /\ V \subseteq server
    BY <1>0, <2>0, <2>8, AnsweredIs
  <2>10. Brings(stream'[s], server, F)
    BY <1>0, <2>0, <2>3, <2>6, <2>8, AnswerTaken
  <2> HIDE DEF V
  <2>11. PICK c \in ChunkOf(Known) : c = Sync(N)
    BY <2>7, ChunkMade
  <2>12. PICK d \in ChunkOf(Known) : d = Sync(P)
    BY <2>0, ChunkMade
  <2>13. Chunks(stream'[s].up) \subseteq Chunks(stream[s].up) \cup {c, d}
    <3> DEFINE b == stream[s].up
               p == stream'[s].up
    <3>1. b \in Seq(ChunkOf(Known)) /\ \E q \in {b, Append(b, c)} : p \in {q, Append(q, d)}
      BY <1>0, <2>0, <2>3, <2>11, <2>12 DEF StreamOf
    <3>2. Chunks(p) \subseteq Chunks(b) \cup {c, d}
      <4> HIDE DEF b, p
      <4> QED
        BY <3>1, TwoMore
    <3> QED
      BY <3>2
  <2>14. c.edits \subseteq server \cup F /\ d.edits \subseteq server \cup F
    BY <2>4, <2>6, <2>7, <2>9, <2>11, <2>12, ChunkSays
  <2>15. \A x \in Chunks(stream'[s].up) : x.edits \subseteq server \cup F
    BY <2>9, <2>13, <2>14, ChunksEmpty
  <2>16. Current(stream'[s], server, F)
    BY <2>10, <2>15 DEF Current, Sends
  <2>17. F = content'[connected']
    BY <2>1 DEF F
  <2> QED
    BY <2>1, <2>5, <2>16, <2>17 DEF Flow
<1>7. CASE Exit \/ Stop \/ StopEnds
  BY <1>7 DEF Exit, Stop, StopEnds, Regular
<1> QED
  BY <1>1, <1>2, <1>3, <1>4, <1>5, <1>6, <1>7 DEF RoomStep, ResyncEnds

LEMMA NextFlow ==
    ASSUME Typed, WireInv, ClosingInv, HoldersInv, FlowInv, [Next]_vars
    PROVE  FlowInv'
<1> SUFFICES ASSUME Regular' PROVE Flow'
  BY DEF FlowInv
<1>0. Regular /\ OneOpens /\ TableIsOurs /\ Counted /\ Flow
  BY RegularBefore DEF HoldersInv, FlowInv
<1>1. CASE UNCHANGED vars
  BY <1>0, <1>1 DEF vars, docVars, serverVars, Flow, Opening
<1>2. ASSUME NEW u \in Users, User(u) PROVE Flow'
  <2>1. CASE Open(u)
    BY <1>0, <2>1, OpenFlow DEF Regular
  <2>2. CASE Resume(u)
    BY <1>0, <2>2, ProceedFlow DEF Regular, Resume
  <2>3. CASE Cancel(u)
    BY <2>3 DEF Cancel, Regular
  <2> QED
    BY <1>0, <1>2, <2>1, <2>2, <2>3, OpenedFlow, OpenFailsFlow, CloseDocumentFlow, EditFlow
    DEF User
<1> QED
  BY <1>0, <1>1, <1>2, CloseReturnsFlow, ConsumeFlow, RoomFlow, ServerFlow DEF Next

LEMMA AlwaysFlow == Spec => []FlowInv
<1>1. Init => FlowInv
  <2> SUFFICES ASSUME Init PROVE Flow
    BY DEF FlowInv
  <2>1. Opening = {} /\ resync = Idle /\ table = None
    BY UsersAreTasks DEF Init, Opening, Idle
  <2> QED
    BY <2>1 DEF Flow
<1> QED
  BY <1>1, NextFlow, AlwaysTyped, AlwaysWire, AlwaysClosing, AlwaysHolders, PTL DEF Spec

(* Once nothing is under way, the document has all that the server has,    *)
(* whatever was lost on the way (_apply_sync_payload, the vector of        *)
(* _open_stream).                                                          *)
THEOREM DocumentCatchesUp == Spec => []CaughtUp
<1>1. ASSUME Typed, FlowInv, AtRest, Live, ~disturbed PROVE server \subseteq content[connected]
  <2>1. table \in Streams /\ stream[table].down = <<>>
    BY <1>1 DEF AtRest, Live, Typed, ControlOK
  <2>2. Brings(stream[table], server, content[connected])
    BY <1>1 DEF FlowInv, Regular, AtRest, Live, Flow, Current
  <2> QED
    BY <1>1, <2>1, <2>2, ChunksEmpty DEF Brings, Live
<1>2. Typed /\ FlowInv => CaughtUp
  BY <1>1 DEF CaughtUp
<1> QED
  BY <1>2, AlwaysTyped, AlwaysFlow, PTL

=============================================================================
