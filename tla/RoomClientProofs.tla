-------------------------- MODULE RoomClientProofs --------------------------
(***************************************************************************)
(* Theorems about RoomClient, for every set of requests, every number of   *)
(* documents and every bound.                                              *)
(***************************************************************************)
EXTENDS RoomClient, TLAPS

-----------------------------------------------------------------------------
(* Closing a link, or sending on it, gives a link. *)
LEMMA CloseAsType ==
    ASSUME NEW l \in LinkRecord, NEW kind \in {"client", "server", "error"}
    PROVE  CloseAs(l, kind) \in LinkRecord
  BY DEF CloseAs, LinkRecord

LEMMA SendAsType ==
    ASSUME NEW l \in LinkRecord, NEW owner \in Owners, l.nextId <= MaxId
    PROVE  /\ SendAs(l, owner) \in LinkRecord
           /\ l.nextId \in Ids
<1>1. l.nextId \in Nat \ {0} /\ l.asked \in SUBSET (Ids \X Owners)
  BY DEF LinkRecord
<1>2. l.nextId \in Ids /\ l.nextId + 1 \in Nat \ {0}
  BY <1>1, RoomAssumption DEF Ids
<1> DEFINE more == l.asked \cup {<<l.nextId, owner>>}
<1>3. more \in SUBSET (Ids \X Owners)
  BY <1>1, <1>2
<1> HIDE DEF more
<1>4. [l EXCEPT !.nextId = l.nextId + 1, !.asked = more] \in LinkRecord
  BY <1>2, <1>3 DEF LinkRecord
<1> QED
  BY <1>2, <1>4 DEF SendAs, more

LEMMA LinkUpdate ==
    ASSUME NEW ls \in [Links -> LinkRecord], NEW c \in Links, NEW l \in LinkRecord
    PROVE  [ls EXCEPT ![c] = l] \in [Links -> LinkRecord]
  OBVIOUS

LEMMA InitTypes == Init => TypeOK
<1> SUFFICES ASSUME Init PROVE TypeOK
  OBVIOUS
<1>1. NewLink \in LinkRecord
  BY DEF NewLink, LinkRecord
<1>2. LinksOK
  BY <1>1, RoomAssumption DEF Init, LinksOK, Links
<1>3. TaskOK /\ FlagsOK
  BY DEF Init, TaskOK, FlagsOK
<1>4. TableOK
  BY DEF Init, TableOK, RequestRecord, Owners
<1> QED
  BY <1>2, <1>3, <1>4 DEF TypeOK

LEMMA ConnectTypes ==
    ASSUME TypeOK, Connect
    PROVE  link' \in [Links -> LinkRecord] /\ ignored' \in SUBSET Ids
<1>1. CASE Messaging /\ ~terminal /\ CanQueue
  <2>1. link[cur] \in LinkRecord /\ link[cur].nextId <= MaxId
    BY <1>1 DEF TypeOK, LinksOK, CanQueue
  <2>2. SendAs(link[cur], Nowait) \in LinkRecord /\ link[cur].nextId \in Ids
    BY <2>1, SendAsType DEF Owners
  <2> QED
    BY <1>1, <2>2, LinkUpdate DEF TypeOK, LinksOK, TableOK, Connect
<1>2. CASE ~(Messaging /\ ~terminal /\ CanQueue)
  BY <1>2 DEF TypeOK, LinksOK, TableOK, Connect
<1> QED
  BY <1>1, <1>2

(* A reconnect reopens the documents that happen to be open. *)
LEMMA ReconnectReopens ==
    ASSUME ReconnectSucceeds
    PROVE  \E open \in Nat : Resynchronise(open)
<1>1. PICK open \in 0..Documents : Resynchronise(open)
  BY DEF ReconnectSucceeds
<1>2. open \in Nat
  BY RoomAssumption
<1> QED
  BY <1>1, <1>2

LEMMA ResynchroniseTypes ==
    ASSUME TypeOK, NEW left \in Nat, Resynchronise(left)
    PROVE  /\ link' \in [Links -> LinkRecord]
           /\ pending' \in [Ids -> Owners] /\ ignored' \in SUBSET Ids
           /\ todo' \in Nat /\ resync' \in {"idle", "waiting"}
           /\ phase' \in {"watching", "resync", "closing"}
           /\ after' \in {after, "retry"}
           /\ retrying' \in {retrying, FALSE} /\ expired' \in {expired, FALSE}
           /\ entered' \in {entered, TRUE} /\ connected' \in {connected, TRUE}
<1>1. CASE left = 0
  <2>1. /\ Connect
        /\ todo' = 0 /\ resync' = "idle"
        /\ UNCHANGED <<after, pending>>
    BY <1>1 DEF Resynchronise
  <2>2. link' \in [Links -> LinkRecord] /\ ignored' \in SUBSET Ids
    BY <2>1, ConnectTypes
  <2> QED
    BY <2>1, <2>2 DEF Connect, TypeOK, TableOK
<1>2. CASE left # 0 /\ ~terminal /\ CanQueue
  <2>1. link[cur] \in LinkRecord /\ link[cur].nextId <= MaxId
    BY <1>2 DEF TypeOK, LinksOK, CanQueue
  <2>2. SendAs(link[cur], Resync) \in LinkRecord
    BY <2>1, SendAsType DEF Owners
  <2>3. /\ link' = [link EXCEPT ![cur] = SendAs(link[cur], Resync)]
        /\ pending' = [pending EXCEPT ![link[cur].nextId] = Resync]
        /\ todo' = left - 1 /\ resync' = "waiting"
        /\ phase' = "resync"
        /\ UNCHANGED <<after, retrying, expired, entered, connected, ignored>>
    BY <1>2 DEF Resynchronise
  <2>4. link' \in [Links -> LinkRecord]
    BY <2>2, <2>3, LinkUpdate DEF TypeOK, LinksOK
  <2>5. pending' \in [Ids -> Owners]
    BY <2>3 DEF TypeOK, TableOK, Owners
  <2> QED
    BY <1>2, <2>3, <2>4, <2>5 DEF TypeOK, TableOK
<1>3. CASE left # 0 /\ ~(~terminal /\ CanQueue)
  <2>1. CloseAs(link[cur], "client") \in LinkRecord
    BY CloseAsType DEF TypeOK, LinksOK
  <2>2. /\ TearDown("retry")
        /\ todo' = 0 /\ resync' = "idle"
        /\ UNCHANGED <<retrying, expired, entered, connected, pending, ignored>>
    BY <1>3 DEF Resynchronise
  <2>3. link' \in [Links -> LinkRecord]
    BY <2>1, <2>2, LinkUpdate DEF TypeOK, LinksOK, TearDown
  <2> QED
    BY <2>2, <2>3 DEF TearDown, TypeOK, TableOK
<1> QED
  BY <1>1, <1>2, <1>3

(* The other ways in which an action changes one link *)
LEMMA LinkStateType ==
    ASSUME NEW l \in LinkRecord,
           NEW s \in {"new", "dialing", "open", "closed", "failed"}
    PROVE  [l EXCEPT !.state = s] \in LinkRecord
  BY DEF LinkRecord

LEMMA LinkInboxType ==
    ASSUME NEW l \in LinkRecord, NEW q \in Seq(Message)
    PROVE  [l EXCEPT !.inbox = q] \in LinkRecord
  BY DEF LinkRecord

LEMMA TakeType ==
    ASSUME TypeOK, NEW c \in Links, NEW type, Take(c, type)
    PROVE  link' \in [Links -> LinkRecord]
<1>1. link[c] \in LinkRecord /\ link[c].inbox \in Seq(Message) /\ link[c].inbox # <<>>
  BY DEF TypeOK, LinksOK, LinkRecord, Take
<1>2. Tail(link[c].inbox) \in Seq(Message)
  BY <1>1
<1>3. [link[c] EXCEPT !.inbox = Tail(link[c].inbox)] \in LinkRecord
  BY <1>1, <1>2, LinkInboxType
<1>4. link' = [link EXCEPT ![c] = [link[c] EXCEPT !.inbox = Tail(link[c].inbox)]]
  BY DEF Take
<1> QED
  BY <1>3, <1>4, LinkUpdate DEF TypeOK, LinksOK

(* A message arrives on the current link *)
LEMMA ArriveType ==
    ASSUME TypeOK, NEW m \in Message
    PROVE  [link[cur] EXCEPT !.inbox = Append(link[cur].inbox, m)] \in LinkRecord
<1>1. link[cur] \in LinkRecord /\ link[cur].inbox \in Seq(Message)
  BY DEF TypeOK, LinksOK, LinkRecord
<1>2. Append(link[cur].inbox, m) \in Seq(Message)
  BY <1>1
<1> QED
  BY <1>1, <1>2, LinkInboxType

LEMMA LinkTypes == TypeOK /\ [Next]_vars => LinksOK'
<1> SUFFICES ASSUME TypeOK, [Next]_vars PROVE LinksOK'
  OBVIOUS
<1> USE DEF vars, taskVars, flagVars, tableVars
<1>0. /\ link \in [Links -> LinkRecord] /\ cur \in Links
      /\ dismissTask \in Links \cup {0} /\ watcher \in Links \cup {0}
      /\ link[cur] \in LinkRecord
  BY DEF TypeOK, LinksOK
<1>1. CASE Enter \/ DialSucceeds
  <2>1. PICK s \in {"dialing", "open"} : link' = [link EXCEPT ![cur].state = s]
    BY <1>1 DEF Enter, DialSucceeds
  <2>2. link' = [link EXCEPT ![cur] = [link[cur] EXCEPT !.state = s]]
    BY <2>1
  <2>3. link' \in [Links -> LinkRecord]
    BY <1>0, <2>2, LinkStateType, LinkUpdate
  <2> QED
    BY <1>0, <1>1, <2>3 DEF Enter, DialSucceeds, LinksOK
<1>2. CASE DialFails \/ AttemptTimesOut
  <2>1. link' = [link EXCEPT ![cur] = Abandon(link[cur])]
    BY <1>2 DEF DialFails, AttemptTimesOut
  <2>2. Abandon(link[cur]) \in LinkRecord
    BY <1>0, CloseAsType, LinkStateType DEF Abandon
  <2>3. link' \in [Links -> LinkRecord]
    BY <1>0, <2>1, <2>2, LinkUpdate
  <2> QED
    BY <1>0, <1>2, <2>3 DEF DialFails, AttemptTimesOut, tableVars, LinksOK
<1>3. CASE ReopenFails \/ Exit \/ DismissCloses \/ LinkDrops
  <2>1. PICK c \in Links, kind \in {"client", "server", "error"} :
          link' = [link EXCEPT ![c] = CloseAs(link[c], kind)]
    BY <1>0, <1>3 DEF ReopenFails, TearDown, Exit, DismissCloses, LinkDrops
  <2>2. link' \in [Links -> LinkRecord]
    BY <1>0, <2>1, CloseAsType, LinkUpdate
  <2> QED
    BY <1>0, <1>3, <2>2 DEF ReopenFails, Exit, DismissCloses, LinkDrops, LinksOK
<1>4. CASE StartupSucceeds
  BY <1>0, <1>4, ConnectTypes DEF StartupSucceeds, LinksOK
<1>5. CASE ReconnectSucceeds
  <2>1. link' \in [Links -> LinkRecord]
    <3>1. PICK open \in Nat : Resynchronise(open)
      BY <1>5, ReconnectReopens
    <3> QED
      BY <3>1, ResynchroniseTypes
  <2> QED
    BY <1>0, <1>5, <2>1 DEF ReconnectSucceeds, LinksOK
<1>6. CASE ReopenNext
  <2>1. link' \in [Links -> LinkRecord]
    BY <1>6, ResynchroniseTypes DEF ReopenNext, TypeOK, TaskOK
  <2> QED
    BY <1>0, <1>6, <2>1 DEF ReopenNext, LinksOK
<1>7. CASE LinkClosed \/ Wake
  <2>1. CASE UNCHANGED <<cur, link>>
    BY <1>0, <1>7, <2>1 DEF LinkClosed, Wake, LinksOK
  <2>2. CASE /\ cur < MaxLinks /\ cur' = cur + 1
             /\ link' = [link EXCEPT ![cur + 1].state = "dialing"]
    <3>1. cur + 1 \in Links
      BY <1>0, <2>2, RoomAssumption DEF Links
    <3>2. link' = [link EXCEPT ![cur + 1] = [link[cur + 1] EXCEPT !.state = "dialing"]]
      BY <2>2
    <3>3. link' \in [Links -> LinkRecord]
      BY <1>0, <3>1, <3>2, LinkStateType, LinkUpdate
    <3> QED
      BY <1>0, <1>7, <2>2, <3>1, <3>3 DEF LinkClosed, Wake, LinksOK
  <2> QED
    BY <1>7, <2>1, <2>2 DEF LinkClosed, Wake, FirstAttempt, Attempt
<1>8. ASSUME NEW r \in Requests, Dispatch(r) PROVE LinksOK'
  <2>1. link[cur].nextId <= MaxId /\ r \in Owners
    BY <1>8 DEF Dispatch, CanQueue, Owners
  <2>2. link' = [link EXCEPT ![cur] = SendAs(link[cur], r)]
    BY <1>8 DEF Dispatch
  <2>3. link' \in [Links -> LinkRecord]
    BY <1>0, <2>1, <2>2, SendAsType, LinkUpdate
  <2> QED
    BY <1>0, <1>8, <2>3 DEF Dispatch, LinksOK
<1>9. ASSUME NEW c \in Links, HandleReady(c) \/ HandleDismiss(c) \/ HandleResponse(c)
      PROVE  LinksOK'
  <2>1. link' \in [Links -> LinkRecord]
    BY <1>9, TakeType DEF HandleReady, HandleDismiss, HandleResponse
  <2> QED
    BY <1>0, <1>9, <2>1 DEF HandleReady, HandleDismiss, HandleResponse, WatcherAfter, LinksOK
<1>10. CASE ServerIsReady \/ ServerDismisses
  <2>1. PICK m \in Message : link' = [link EXCEPT ![cur].inbox = Append(@, m)]
    BY <1>10 DEF ServerIsReady, ServerDismisses, Message
  <2>2. link' = [link EXCEPT ![cur] =
                   [link[cur] EXCEPT !.inbox = Append(link[cur].inbox, m)]]
    BY <2>1
  <2>3. link' \in [Links -> LinkRecord]
    BY <1>0, <2>2, ArriveType, LinkUpdate
  <2> QED
    BY <1>0, <1>10, <2>3 DEF ServerIsReady, ServerDismisses, LinksOK
<1>11. CASE ServerAnswers
  <2>1. PICK q \in link[cur].asked, ok \in BOOLEAN :
          link' = [link EXCEPT
             ![cur].inbox = Append(@, [type |-> "response", id |-> q[1],
                                       to |-> q[2], ok |-> ok]),
             ![cur].asked = @ \ {q}]
    BY <1>11 DEF ServerAnswers
  <2> DEFINE m == [type |-> "response", id |-> q[1], to |-> q[2], ok |-> ok]
  <2>2. link[cur].asked \in SUBSET (Ids \X Owners)
    BY <1>0 DEF LinkRecord
  <2>3. m \in Message
    BY <2>2 DEF Message, Response
  <2> DEFINE l == [link[cur] EXCEPT !.inbox = Append(link[cur].inbox, m)]
  <2> HIDE DEF m
  <2>4. l \in LinkRecord
    BY <2>3, ArriveType
  <2>5. l.asked = link[cur].asked
    BY <1>0 DEF LinkRecord
  <2>6. link' = [link EXCEPT ![cur] = [l EXCEPT !.asked = link[cur].asked \ {q}]]
    BY <1>0, <2>1 DEF m
  <2> HIDE DEF l
  <2>7. [l EXCEPT !.asked = link[cur].asked \ {q}] \in LinkRecord
    BY <2>2, <2>4 DEF LinkRecord
  <2>8. link' \in [Links -> LinkRecord]
    BY <1>0, <2>6, <2>7, LinkUpdate
  <2> QED
    BY <1>0, <1>11, <2>8 DEF ServerAnswers, LinksOK
<1>12. ASSUME NEW r \in Requests, Cancel(r) PROVE LinksOK'
  BY <1>0, <1>12 DEF Cancel, WatcherAfter, LinksOK
<1>13. CASE \/ OpeningFails \/ DeadlinePasses \/ LinkLost \/ ExitCompletes
            \/ DispatchOnClosedLink \/ WatcherFires \/ Terminated \/ UNCHANGED vars
  BY <1>0, <1>13 DEF OpeningFails, DeadlinePasses, LinkLost, ExitCompletes,
     DispatchOnClosedLink, WatcherFires, Terminated, LinksOK
<1> QED
  BY <1>1, <1>2, <1>3, <1>4, <1>5, <1>6, <1>7, <1>8, <1>9, <1>10, <1>11, <1>12, <1>13
     DEF Next, RoomTask, Handlers, Server, Users

(* What _fail_pending_work does to the requests *)
LEMMA FailPendingTypes ==
    ASSUME TypeOK, FailPendingWork
    PROVE  /\ pending' \in [Ids -> Owners] /\ req' \in [Requests -> RequestRecord]
           /\ resync' \in {resync, "error"}
<1>1. ASSUME NEW r \in Requests
      PROVE  (IF Waiting(r) THEN [req[r] EXCEPT !.state = "failed"] ELSE req[r])
                \in RequestRecord
  BY DEF TypeOK, TableOK, RequestRecord
<1> QED
  BY <1>1 DEF FailPendingWork, Owners

LEMMA TableTypes == TypeOK /\ [Next]_vars => TableOK'
<1> SUFFICES ASSUME TypeOK, [Next]_vars PROVE TableOK'
  OBVIOUS
<1> USE DEF vars, taskVars, flagVars, tableVars
<1>0. /\ pending \in [Ids -> Owners] /\ ignored \in SUBSET Ids
      /\ req \in [Requests -> RequestRecord]
      /\ link[cur] \in LinkRecord /\ cur \in Links
  BY DEF TypeOK, TableOK, LinksOK
<1>1. CASE StartupSucceeds
  BY <1>0, <1>1, ConnectTypes DEF StartupSucceeds, TableOK
<1>2. CASE ReconnectSucceeds
  <2>1. pending' \in [Ids -> Owners] /\ ignored' \in SUBSET Ids
    <3>1. PICK open \in Nat : Resynchronise(open)
      BY <1>2, ReconnectReopens
    <3> QED
      BY <3>1, ResynchroniseTypes
  <2> QED
    BY <1>0, <1>2, <2>1 DEF ReconnectSucceeds, TableOK
<1>3. CASE ReopenNext
  <2>1. pending' \in [Ids -> Owners] /\ ignored' \in SUBSET Ids
    BY <1>3, ResynchroniseTypes DEF ReopenNext, TypeOK, TaskOK
  <2> QED
    BY <1>0, <1>3, <2>1 DEF ReopenNext, TableOK
<1>4. CASE AttemptTimesOut
  BY <1>0, <1>4 DEF AttemptTimesOut, TableOK, Owners
<1>5. CASE LinkLost \/ Exit \/ WatcherFires
  <2>1. CASE FailPendingWork
    BY <1>0, <1>5, <2>1, FailPendingTypes
       DEF LinkLost, Exit, WatcherFires, MarkDisconnected, TableOK
  <2>2. CASE LinkLost /\ closing
    BY <1>0, <2>2 DEF LinkLost, TableOK
  <2> QED
    BY <1>5, <2>1, <2>2 DEF LinkLost, Exit, WatcherFires
<1>6. ASSUME NEW r \in Requests, Dispatch(r) PROVE TableOK'
  <2>1. link[cur].nextId \in Ids
    BY <1>0, <1>6, RoomAssumption DEF Dispatch, CanQueue, LinkRecord, Ids
  <2>2. [state |-> "pending", link |-> cur, id |-> link[cur].nextId,
         answer |-> Nobody] \in RequestRecord
    BY <1>0, <2>1 DEF RequestRecord, Owners
  <2>3. req' \in [Requests -> RequestRecord]
    BY <1>0, <1>6, <2>2 DEF Dispatch
  <2>4. pending' \in [Ids -> Owners]
    BY <1>0, <1>6 DEF Dispatch, Owners
  <2> QED
    BY <1>0, <1>6, <2>3, <2>4 DEF Dispatch, TableOK
<1>7. ASSUME NEW r \in Requests, Cancel(r) PROVE TableOK'
  <2>1. ASSUME NEW v \in Requests
        PROVE  [req[v] EXCEPT !.state = "cancelled"] \in RequestRecord
    BY <1>0 DEF RequestRecord
  <2>2. req' \in [Requests -> RequestRecord]
    BY <1>0, <1>7, <2>1 DEF Cancel
  <2>3. pending' \in [Ids -> Owners]
    BY <1>0, <1>7 DEF Cancel, Owners
  <2> QED
    BY <1>0, <1>7, <2>2, <2>3 DEF Cancel, TableOK
<1>8. ASSUME NEW c \in Links, HandleReady(c) \/ HandleDismiss(c) PROVE TableOK'
  BY <1>0, <1>8 DEF HandleReady, HandleDismiss, TableOK
<1>9. ASSUME NEW c \in Links, HandleResponse(c) PROVE TableOK'
  <2> DEFINE m == Head(link[c].inbox)
  <2>1. m \in Message /\ m.type = "response"
    <3>1. link[c].inbox \in Seq(Message) /\ link[c].inbox # <<>>
      BY <1>9 DEF HandleResponse, Take, TypeOK, LinksOK, LinkRecord
    <3>2. m \in Message
      BY <3>1
    <3>3. m.type = "response"
      BY <1>9 DEF HandleResponse, Take
    <3> QED
      BY <3>2, <3>3
  <2>2. m.id \in Ids /\ m.to \in Owners
    BY <2>1 DEF Message, Response, ReadyMessage, DismissMessage
  <2> DEFINE owner == IF IsCurrent(c) THEN pending[m.id] ELSE Nobody
  <2>3. req' = [r \in Requests |->
                  IF r = owner THEN [req[r] EXCEPT !.state = "answered", !.answer = m.to]
                  ELSE req[r]]
    BY <1>9 DEF HandleResponse
  <2>4. pending' = IF IsCurrent(c) THEN [pending EXCEPT ![m.id] = Nobody] ELSE pending
    BY <1>9 DEF HandleResponse
  <2>5. ignored' \in {ignored, ignored \ {m.id}}
    BY <1>9 DEF HandleResponse
  <2> HIDE DEF m, owner
  <2>6. ASSUME NEW r \in Requests
        PROVE  [req[r] EXCEPT !.state = "answered", !.answer = m.to] \in RequestRecord
    BY <1>0, <2>2 DEF RequestRecord
  <2>7. req' \in [Requests -> RequestRecord]
    BY <1>0, <2>3, <2>6
  <2>8. pending' \in [Ids -> Owners]
    BY <1>0, <2>4 DEF Owners
  <2> QED
    BY <1>0, <2>5, <2>7, <2>8 DEF TableOK
<1>10. CASE \/ Enter \/ DialSucceeds \/ DialFails \/ OpeningFails \/ ReopenFails
            \/ LinkClosed \/ Wake \/ DeadlinePasses \/ ExitCompletes \/ DismissCloses
            \/ DispatchOnClosedLink \/ Server \/ Terminated \/ UNCHANGED vars
  BY <1>0, <1>10 DEF Enter, DialSucceeds, DialFails, OpeningFails, ReopenFails,
     LinkClosed, Wake, DeadlinePasses, ExitCompletes, DismissCloses,
     DispatchOnClosedLink, Server, ServerIsReady, ServerDismisses, ServerAnswers,
     LinkDrops, Terminated, TableOK
<1> QED
  BY <1>1, <1>2, <1>3, <1>4, <1>5, <1>6, <1>7, <1>8, <1>9, <1>10
     DEF Next, RoomTask, Handlers, Users

LEMMA TaskTypes == TypeOK /\ [Next]_vars => TaskOK'
<1> SUFFICES ASSUME TypeOK, [Next]_vars PROVE TaskOK'
  OBVIOUS
<1> USE DEF TypeOK, TaskOK, vars, taskVars
<1>1. CASE ReconnectSucceeds
  <2>1. PICK open \in Nat : Resynchronise(open)
    BY <1>1, ReconnectReopens
  <2>2. /\ todo' \in Nat /\ resync' \in {"idle", "waiting"}
        /\ phase' \in {"watching", "resync", "closing"} /\ after' \in {after, "retry"}
        /\ retrying' \in {retrying, FALSE} /\ expired' \in {expired, FALSE}
    BY <2>1, ResynchroniseTypes
  <2> QED
    BY <1>1, <2>2 DEF ReconnectSucceeds
<1>2. CASE ReopenNext
  <2>1. Resynchronise(todo) /\ UNCHANGED <<ready, exit>> /\ todo \in Nat
    BY <1>2 DEF ReopenNext
  <2>2. /\ todo' \in Nat /\ resync' \in {"idle", "waiting"}
        /\ phase' \in {"watching", "resync", "closing"} /\ after' \in {after, "retry"}
        /\ retrying' \in {retrying, FALSE} /\ expired' \in {expired, FALSE}
    BY <2>1, ResynchroniseTypes
  <2> QED
    BY <2>1, <2>2
<1>3. CASE DialFails \/ OpeningFails
  BY <1>3 DEF DialFails, OpeningFails, LeaveOpening, AfterFailedOpening, Conclude
<1>4. CASE LinkClosed \/ Wake
  BY <1>4 DEF LinkClosed, Wake, FirstAttempt, Attempt, Loop, Sleep, TimedOut, Conclude
<1>5. CASE LinkLost \/ Exit \/ WatcherFires
  BY <1>5 DEF LinkLost, Exit, WatcherFires, FailPendingWork
<1>6. CASE StartupSucceeds
  BY <1>6 DEF StartupSucceeds, Connect
<1>7. CASE ReopenFails \/ AttemptTimesOut
  BY <1>7 DEF ReopenFails, TearDown, AttemptTimesOut
<1>8. CASE \/ Enter \/ DialSucceeds \/ DeadlinePasses \/ ExitCompletes
           \/ DismissCloses \/ DispatchOnClosedLink \/ Terminated \/ UNCHANGED vars
  BY <1>8 DEF Enter, DialSucceeds, DeadlinePasses, ExitCompletes, DismissCloses,
     DispatchOnClosedLink, Terminated
<1>9. CASE Server
  <2>1. UNCHANGED <<taskVars, exit>>
    BY <1>9 DEF Server, ServerIsReady, ServerDismisses, ServerAnswers, LinkDrops
  <2> QED
    BY <2>1
<1>10. ASSUME NEW r \in Requests, Dispatch(r) \/ Cancel(r) PROVE TaskOK'
  BY <1>10 DEF Dispatch, Cancel
<1>11. ASSUME NEW c \in Links, HandleReady(c) \/ HandleDismiss(c) \/ HandleResponse(c)
      PROVE  TaskOK'
  <2>1. CASE HandleReady(c)
    BY <2>1 DEF HandleReady, IsCurrent
  <2>2. CASE HandleDismiss(c)
    BY <2>2 DEF HandleDismiss
  <2>3. CASE HandleResponse(c)
    <3>1. resync' \in {resync, "ok", "error"}
      BY <2>3 DEF HandleResponse
    <3> QED
      BY <2>3, <3>1 DEF HandleResponse
  <2> QED
    BY <1>11, <2>1, <2>2, <2>3
<1> QED
  BY <1>1, <1>2, <1>3, <1>4, <1>5, <1>6, <1>7, <1>8, <1>9, <1>10, <1>11
     DEF Next, RoomTask, Handlers, Users

LEMMA FlagTypes == TypeOK /\ [Next]_vars => FlagsOK'
<1> SUFFICES ASSUME TypeOK, [Next]_vars PROVE FlagsOK'
  OBVIOUS
<1> USE DEF TypeOK, FlagsOK, vars, flagVars
<1>1. CASE ReconnectSucceeds \/ ReopenNext
  <2>1. entered' \in BOOLEAN /\ connected' \in BOOLEAN
    <3>1. PICK open \in Nat : Resynchronise(open)
      BY <1>1, ReconnectReopens DEF ReopenNext, TaskOK
    <3> QED
      BY <3>1, ResynchroniseTypes
  <2> QED
    BY <1>1, <2>1 DEF ReconnectSucceeds, ReopenNext
<1>2. CASE DialFails \/ OpeningFails
  BY <1>2 DEF DialFails, OpeningFails, LeaveOpening, Conclude
<1>3. CASE LinkClosed \/ Wake
  BY <1>3 DEF LinkClosed, Wake, FirstAttempt, Attempt, Loop, Sleep, TimedOut, Conclude
<1>4. CASE \/ Enter \/ DialSucceeds \/ StartupSucceeds \/ ReopenFails
           \/ AttemptTimesOut \/ DeadlinePasses \/ LinkLost \/ Exit \/ ExitCompletes
           \/ DismissCloses \/ DispatchOnClosedLink \/ WatcherFires \/ Server
           \/ Terminated \/ UNCHANGED vars
  BY <1>4 DEF Enter, DialSucceeds, StartupSucceeds, Connect, ReopenFails,
     AttemptTimesOut, DeadlinePasses, LinkLost, MarkDisconnected, Exit, ExitCompletes,
     DismissCloses, DispatchOnClosedLink, WatcherFires, Server, ServerIsReady,
     ServerDismisses, ServerAnswers, LinkDrops, Terminated
<1>5. ASSUME NEW r \in Requests, Dispatch(r) \/ Cancel(r) PROVE FlagsOK'
  BY <1>5 DEF Dispatch, Cancel
<1>6. ASSUME NEW c \in Links, HandleReady(c) \/ HandleDismiss(c) \/ HandleResponse(c)
      PROVE  FlagsOK'
  BY <1>6 DEF HandleReady, HandleDismiss, HandleResponse
<1> QED
  BY <1>1, <1>2, <1>3, <1>4, <1>5, <1>6 DEF Next, RoomTask, Handlers, Users

(* Every variable keeps its type, whatever the constants.                  *)
THEOREM TypeCorrect == Spec => []TypeOK
<1>1. TypeOK /\ [Next]_vars => TypeOK'
  BY LinkTypes, TaskTypes, FlagTypes, TableTypes DEF TypeOK
<1> QED
  BY <1>1, InitTypes, PTL DEF Spec

-----------------------------------------------------------------------------
(* Why abandoned links are silent: only an open link receives anything, so *)
(* a link that was never opened has an empty inbox, and the next link is   *)
(* made when _close_protocol is over for the current one.                  *)
UnopenedLinksEmpty ==
    \A c \in Links :
        c > cur \/ link[c].state \in {"new", "dialing", "failed"} => link[c].inbox = <<>>

SilentInv ==
    /\ StaleLinksSilent
    /\ UnopenedLinksEmpty
    /\ phase = "created" => link[cur].state \in {"new", "failed"}
    /\ phase = "backoff" => Torn(cur)

LEMMA InitSilent == Init => SilentInv
  BY RoomAssumption DEF Init, SilentInv, StaleLinksSilent, UnopenedLinksEmpty, NewLink, Links

(* The effect of CloseAs and Abandon on what SilentInv is about *)
LEMMA ClosedLink ==
    ASSUME NEW l \in LinkRecord, NEW kind \in {"client", "server", "error"}
    PROVE  /\ CloseAs(l, kind).inbox = l.inbox
           /\ CloseAs(l, kind).state \in {"closed", "failed"}
           /\ l.state = "closed" => CloseAs(l, kind).state = "closed"
           /\ CloseAs(l, kind).state = "failed" <=> l.state \in {"new", "failed"}
  BY DEF CloseAs, LinkRecord

LEMMA AbandonedLink ==
    ASSUME NEW l \in LinkRecord
    PROVE  /\ Abandon(l).inbox = l.inbox
           /\ Abandon(l).state \in {"closed", "failed"}
           /\ Abandon(l).state = "failed" => l.state \in {"new", "dialing", "failed"}
<1>1. CloseAs(l, "client") \in LinkRecord
  BY CloseAsType
<1>2. CASE l.state = "dialing"
  BY <1>1, <1>2, ClosedLink DEF Abandon, LinkRecord
<1>3. CASE l.state # "dialing"
  BY <1>3, ClosedLink DEF Abandon
<1> QED
  BY <1>2, <1>3

(* A link that changes without a new message and without coming back to    *)
(* life                                                                    *)
LEMMA LinkEnds ==
    ASSUME TypeOK, SilentInv, NEW c \in Links, NEW l,
           link' = [link EXCEPT ![c] = l], cur' = cur,
           l.inbox = link[c].inbox, l.state \in {"closed", "failed"},
           l.state = "failed" => link[c].state \in {"new", "dialing", "failed"}
    PROVE  StaleLinksSilent' /\ UnopenedLinksEmpty'
  BY DEF TypeOK, LinksOK, SilentInv, StaleLinksSilent, UnopenedLinksEmpty, Links

(* A link is closed, in whatever phase *)
LEMMA CloseKeepsSilent ==
    ASSUME TypeOK, SilentInv, NEW c \in Links, NEW kind \in {"client", "server", "error"},
           link' = [link EXCEPT ![c] = CloseAs(link[c], kind)],
           cur' = cur, phase' \in {phase, "closing", "ended"}
    PROVE  SilentInv'
<1> DEFINE l == CloseAs(link[c], kind)
<1>0. link[c] \in LinkRecord /\ cur \in Links /\ link \in [Links -> LinkRecord]
  BY DEF TypeOK, LinksOK
<1>1. /\ l.inbox = link[c].inbox /\ l.state \in {"closed", "failed"}
      /\ link[c].state = "closed" => l.state = "closed"
      /\ l.state = "failed" <=> link[c].state \in {"new", "failed"}
  BY <1>0, ClosedLink
<1>2. link' = [link EXCEPT ![c] = l]
  OBVIOUS
<1> HIDE DEF l
<1>3. StaleLinksSilent' /\ UnopenedLinksEmpty'
  BY <1>1, <1>2, LinkEnds
<1>4. (phase = "created" => link[cur].state \in {"new", "failed"})'
  BY <1>0, <1>1, <1>2 DEF SilentInv
<1>5. (phase = "backoff" => Torn(cur))'
  BY <1>0, <1>1, <1>2 DEF SilentInv, Torn, Done
<1> QED
  BY <1>3, <1>4, <1>5 DEF SilentInv

(* Nothing happens to the state and the inbox of any link *)
LEMMA SameLinksSilent ==
    ASSUME SilentInv, cur' = cur,
           \A c \in Links : link'[c].state = link[c].state /\ link'[c].inbox = link[c].inbox
    PROVE  StaleLinksSilent' /\ UnopenedLinksEmpty'
  BY DEF SilentInv, StaleLinksSilent, UnopenedLinksEmpty

LEMMA SendKeepsSilent ==
    ASSUME TypeOK, SilentInv, NEW owner, cur' = cur,
           link' \in {link, [link EXCEPT ![cur] = SendAs(link[cur], owner)]},
           phase' \in {"watching", "resync"}
    PROVE  SilentInv'
<1> DEFINE l == SendAs(link[cur], owner)
<1>0. link[cur] \in LinkRecord /\ cur \in Links /\ link \in [Links -> LinkRecord]
  BY DEF TypeOK, LinksOK
<1>1. l.state = link[cur].state /\ l.inbox = link[cur].inbox
  BY <1>0 DEF LinkRecord, SendAs
<1>2. link' \in {link, [link EXCEPT ![cur] = l]}
  OBVIOUS
<1> HIDE DEF l
<1>3. \A c \in Links : link'[c].state = link[c].state /\ link'[c].inbox = link[c].inbox
  BY <1>0, <1>1, <1>2
<1> QED
  BY <1>3, SameLinksSilent DEF SilentInv

LEMMA ResynchroniseSilent ==
    ASSUME TypeOK, SilentInv, NEW left \in Nat, Resynchronise(left), cur' = cur
    PROVE  SilentInv'
<1>1. CASE left = 0 \/ (~terminal /\ CanQueue)
  <2>1. /\ phase' \in {"watching", "resync"}
        /\ \E owner : link' \in {link, [link EXCEPT ![cur] = SendAs(link[cur], owner)]}
    BY <1>1 DEF Resynchronise, Connect
  <2> QED
    BY <2>1, SendKeepsSilent
<1>2. CASE left # 0 /\ ~(~terminal /\ CanQueue)
  <2>1. link' = [link EXCEPT ![cur] = CloseAs(link[cur], "client")] /\ phase' = "closing"
    BY <1>2 DEF Resynchronise, TearDown
  <2> QED
    BY <2>1, CloseKeepsSilent DEF TypeOK, LinksOK
<1> QED
  BY <1>1, <1>2

(* Only the current link has something to handle *)
LEMMA TakeKeepsSilent ==
    ASSUME TypeOK, SilentInv, NEW c \in Links, NEW type, Take(c, type),
           cur' = cur, phase' = phase
    PROVE  SilentInv'
<1>1. link' = [link EXCEPT ![c] = [link[c] EXCEPT !.inbox = Tail(link[c].inbox)]]
      /\ link[c].inbox # <<>>
  BY DEF Take
<1>2. c = cur /\ link[c].state \notin {"new", "dialing", "failed"}
  BY <1>1 DEF TypeOK, LinksOK, SilentInv, StaleLinksSilent, UnopenedLinksEmpty, Links
<1>3. \A d \in Links : /\ link'[d].state = link[d].state
                       /\ d # cur => link'[d].inbox = link[d].inbox
  BY <1>1, <1>2 DEF TypeOK, LinksOK, LinkRecord
<1>4. StaleLinksSilent' /\ UnopenedLinksEmpty'
  BY <1>2, <1>3 DEF SilentInv, StaleLinksSilent, UnopenedLinksEmpty, TypeOK, LinksOK, Links
<1>5. phase # "created" /\ phase # "backoff"
  BY <1>1, <1>2 DEF SilentInv, Torn, Done
<1> QED
  BY <1>4, <1>5 DEF SilentInv

LEMMA NextSilent == TypeOK /\ SilentInv /\ [Next]_vars => SilentInv'
<1> SUFFICES ASSUME TypeOK, SilentInv, [Next]_vars PROVE SilentInv'
  OBVIOUS
<1> USE DEF vars, taskVars, flagVars, tableVars
<1>0. /\ link \in [Links -> LinkRecord] /\ cur \in Links
      /\ link[cur] \in LinkRecord
  BY DEF TypeOK, LinksOK
<1>1. CASE Enter \/ DialSucceeds
  <2>1. PICK s \in {"dialing", "open"} :
          /\ link' = [link EXCEPT ![cur].state = s]
          /\ s = "open" => link[cur].state = "dialing"
          /\ s = "dialing" => phase = "created"
    BY <1>1 DEF Enter, DialSucceeds
  <2>2. link[cur].inbox = <<>>
    BY <1>0, <1>1, <2>1 DEF Enter, DialSucceeds, SilentInv, UnopenedLinksEmpty
  <2>3. /\ \A c \in Links : c # cur => link'[c] = link[c]
        /\ link'[cur].inbox = <<>> /\ link'[cur].state = s
        /\ cur' = cur
    BY <1>0, <1>1, <2>1, <2>2 DEF LinkRecord, Enter, DialSucceeds
  <2>4. StaleLinksSilent' /\ UnopenedLinksEmpty'
    BY <1>0, <2>3 DEF SilentInv, StaleLinksSilent, UnopenedLinksEmpty, Links
  <2>5. phase' \notin {"created", "backoff"}
    BY <1>0, <1>1 DEF Enter, DialSucceeds, SilentInv, Torn, Done
  <2> QED
    BY <2>4, <2>5 DEF SilentInv
<1>2. CASE DialFails \/ AttemptTimesOut
  <2>1. link' = [link EXCEPT ![cur] = Abandon(link[cur])] /\ cur' = cur
    BY <1>2 DEF DialFails, AttemptTimesOut
  <2>2. StaleLinksSilent' /\ UnopenedLinksEmpty'
    BY <1>0, <2>1, AbandonedLink, LinkEnds
  <2>3. phase' \in {"closing", "ended"}
    BY <1>2 DEF DialFails, AttemptTimesOut, LeaveOpening, Conclude
  <2> QED
    BY <2>2, <2>3 DEF SilentInv
<1>3. CASE ReopenFails \/ Exit \/ DismissCloses \/ LinkDrops
  <2>1. PICK c \in Links, kind \in {"client", "server", "error"} :
          link' = [link EXCEPT ![c] = CloseAs(link[c], kind)]
    BY <1>0, <1>3 DEF ReopenFails, TearDown, Exit, DismissCloses, LinkDrops, TypeOK, LinksOK
  <2>2. cur' = cur /\ phase' \in {phase, "closing", "ended"}
    BY <1>3 DEF ReopenFails, TearDown, Exit, DismissCloses, LinkDrops
  <2> QED
    BY <2>1, <2>2, CloseKeepsSilent
<1>4. CASE StartupSucceeds
  <2>1. /\ cur' = cur /\ phase' = "watching"
        /\ \E owner : link' \in {link, [link EXCEPT ![cur] = SendAs(link[cur], owner)]}
    BY <1>4 DEF StartupSucceeds, Connect
  <2> QED
    BY <2>1, SendKeepsSilent
<1>5. CASE ReconnectSucceeds \/ ReopenNext
  <2>1. PICK open \in Nat : Resynchronise(open)
    BY <1>5, ReconnectReopens DEF ReopenNext, TypeOK, TaskOK
  <2>2. cur' = cur
    BY <1>5 DEF ReconnectSucceeds, ReopenNext
  <2> QED
    BY <2>1, <2>2, ResynchroniseSilent
<1>6. CASE LinkClosed \/ Wake
  <2>1. Torn(cur)
    BY <1>6 DEF LinkClosed, Wake, SilentInv
  <2>2. phase' # "created"
    BY <1>6 DEF LinkClosed, Wake, FirstAttempt, Attempt, Loop, Sleep, TimedOut, Conclude
  <2>3. CASE UNCHANGED <<cur, link>>
    BY <2>1, <2>2, <2>3 DEF SilentInv, StaleLinksSilent, UnopenedLinksEmpty, Torn, Done
  <2>4. CASE /\ cur < MaxLinks /\ cur' = cur + 1 /\ phase' = "opening"
             /\ link' = [link EXCEPT ![cur + 1].state = "dialing"]
    <3>1. link[cur].state \in {"closed", "failed"} /\ link[cur].inbox = <<>>
      BY <1>0, <2>1 DEF Torn, Done, SilentInv, UnopenedLinksEmpty
    <3>2. cur + 1 \in Links /\ link[cur + 1].inbox = <<>>
      BY <1>0, <2>4, RoomAssumption DEF Links, SilentInv, UnopenedLinksEmpty
    <3>3. /\ \A c \in Links : c # cur + 1 => link'[c] = link[c]
          /\ link'[cur + 1].inbox = <<>>
      BY <1>0, <2>4, <3>2 DEF LinkRecord
    <3>4. StaleLinksSilent' /\ UnopenedLinksEmpty'
      BY <1>0, <2>4, <3>1, <3>3
         DEF SilentInv, StaleLinksSilent, UnopenedLinksEmpty, Links
    <3> QED
      BY <2>4, <3>4 DEF SilentInv
  <2> QED
    BY <1>6, <2>3, <2>4 DEF LinkClosed, Wake, FirstAttempt, Attempt
<1>7. ASSUME NEW r \in Requests, Dispatch(r) PROVE SilentInv'
  <2>1. \A c \in Links : link'[c].state = link[c].state /\ link'[c].inbox = link[c].inbox
    BY <1>0, <1>7 DEF Dispatch, SendAs, LinkRecord
  <2>2. StaleLinksSilent' /\ UnopenedLinksEmpty'
    BY <1>7, <2>1, SameLinksSilent DEF Dispatch
  <2> QED
    BY <1>0, <1>7, <2>1, <2>2 DEF Dispatch, SilentInv, Torn, Done
<1>8. ASSUME NEW r \in Requests, Cancel(r) PROVE SilentInv'
  BY <1>8 DEF Cancel, SilentInv, StaleLinksSilent, UnopenedLinksEmpty, Torn, Done
<1>9. ASSUME NEW c \in Links, HandleReady(c) \/ HandleDismiss(c) \/ HandleResponse(c)
      PROVE  SilentInv'
  BY <1>9, TakeKeepsSilent DEF HandleReady, HandleDismiss, HandleResponse
<1>10. CASE ServerIsReady \/ ServerDismisses \/ ServerAnswers
  <2>1. /\ link[cur].state = "open" /\ cur' = cur /\ phase' = phase
        /\ \A c \in Links : c # cur => link'[c] = link[c]
    BY <1>0, <1>10 DEF ServerIsReady, ServerDismisses, ServerAnswers
  <2>2. ASSUME ServerIsReady \/ ServerDismisses PROVE link'[cur].state = "open"
    BY <1>0, <2>1, <2>2 DEF ServerIsReady, ServerDismisses, LinkRecord
  <2>3. ASSUME ServerAnswers PROVE link'[cur].state = "open"
    BY <1>0, <2>1, <2>3 DEF ServerAnswers, LinkRecord
  <2>4. link'[cur].state = "open"
    BY <1>10, <2>2, <2>3
  <2>5. StaleLinksSilent' /\ UnopenedLinksEmpty'
    BY <1>0, <2>1, <2>4 DEF SilentInv, StaleLinksSilent, UnopenedLinksEmpty, Links
  <2> QED
    BY <2>1, <2>4, <2>5 DEF SilentInv, Torn, Done
<1>11. CASE \/ OpeningFails \/ DeadlinePasses \/ LinkLost \/ ExitCompletes
            \/ DispatchOnClosedLink \/ WatcherFires \/ Terminated \/ UNCHANGED vars
  <2>1. UNCHANGED <<link, cur>> /\ phase' \in {phase, "closing", "ended"}
    BY <1>11 DEF OpeningFails, LeaveOpening, Conclude, DeadlinePasses, LinkLost,
       ExitCompletes, DispatchOnClosedLink, WatcherFires, Terminated
  <2> QED
    BY <2>1 DEF SilentInv, StaleLinksSilent, UnopenedLinksEmpty, Torn, Done
<1> QED
  BY <1>1, <1>2, <1>3, <1>4, <1>5, <1>6, <1>7, <1>8, <1>9, <1>10, <1>11
     DEF Next, RoomTask, Handlers, Server, Users

(* An abandoned link has nothing left to say, so no answer, dismissal or   *)
(* ready message of an old connection can ever be handled in a new one.    *)
THEOREM StaleSilent == Spec => []StaleLinksSilent
<1>1. Init => TypeOK /\ SilentInv
  BY InitTypes, InitSilent
<1>2. TypeOK /\ SilentInv /\ [Next]_vars => (TypeOK /\ SilentInv)'
  BY NextSilent, LinkTypes, TaskTypes, FlagTypes, TableTypes DEF TypeOK
<1>3. TypeOK /\ SilentInv => StaleLinksSilent
  BY DEF SilentInv
<1> QED
  BY <1>1, <1>2, <1>3, PTL DEF Spec

-----------------------------------------------------------------------------
(* With reconnect_timeout = 0 the retry loop is never entered: the first   *)
(* opening is final, and so is the first loss of the link.                 *)
ZeroInv ==
    ReconnectTimeout = "zero" =>
        /\ cur = 1 /\ ~retrying /\ after # "retry"
        /\ phase \notin {"backoff", "resync"}
        /\ phase \in {"created", "opening"} => ~entered

LEMMA NextZero == TypeOK /\ ZeroInv /\ [Next]_vars => ZeroInv'
<1> SUFFICES ASSUME TypeOK, ZeroInv, [Next]_vars, ReconnectTimeout = "zero"
             PROVE  ZeroInv'
  BY DEF ZeroInv
<1> USE DEF ZeroInv, vars, taskVars, flagVars
<1>1. CASE DialFails \/ OpeningFails
  BY <1>1 DEF DialFails, OpeningFails, LeaveOpening, AfterFailedOpening, Conclude
<1>2. CASE LinkClosed \/ Wake
  BY <1>2 DEF LinkClosed, Wake, MayReconnect, TimedOut, Conclude
<1>3. CASE StartupSucceeds
  BY <1>3 DEF StartupSucceeds, Connect
<1>4. CASE \/ ReconnectSucceeds \/ ReopenNext \/ ReopenFails \/ AttemptTimesOut
           \/ DeadlinePasses
  BY <1>4 DEF ReconnectSucceeds, ReopenNext, ReopenFails, AttemptTimesOut, DeadlinePasses
<1>5. CASE \/ Enter \/ DialSucceeds \/ LinkLost \/ Exit \/ ExitCompletes \/ DismissCloses
           \/ DispatchOnClosedLink \/ WatcherFires \/ Terminated \/ UNCHANGED vars
  BY <1>5 DEF Enter, DialSucceeds, LinkLost, Exit, ExitCompletes, DismissCloses,
     DispatchOnClosedLink, WatcherFires, Terminated
<1>6. CASE Server
  <2>1. UNCHANGED <<cur, taskVars, flagVars>>
    BY <1>6 DEF Server, ServerIsReady, ServerDismisses, ServerAnswers, LinkDrops
  <2> QED
    BY <2>1
<1>7. ASSUME NEW r \in Requests, Dispatch(r) \/ Cancel(r) PROVE ZeroInv'
  BY <1>7 DEF Dispatch, Cancel
<1>8. ASSUME NEW c \in Links, HandleReady(c) \/ HandleDismiss(c) \/ HandleResponse(c)
      PROVE  ZeroInv'
  BY <1>8 DEF HandleReady, HandleDismiss, HandleResponse
<1> QED
  BY <1>1, <1>2, <1>3, <1>4, <1>5, <1>6, <1>7, <1>8 DEF Next, RoomTask, Handlers, Users

(* reconnect_timeout = 0: one link in the life of a room, whatever fails.  *)
THEOREM OneLinkAtZero == Spec => []NoReconnectAtZero
<1>1. Init => ZeroInv
  BY DEF Init, ZeroInv
<1>2. ZeroInv => NoReconnectAtZero
  BY DEF ZeroInv, NoReconnectAtZero
<1>3. Spec => []TypeOK
  BY TypeCorrect
<1> QED
  BY <1>1, <1>2, <1>3, NextZero, PTL DEF Spec

-----------------------------------------------------------------------------
(* What a step does to the links, to one of them or to none, and to the    *)
(* table: a request enters it when it is sent, otherwise it only shrinks.  *)
Changed(c, l) == link' = [link EXCEPT ![c] = l] /\ cur' = cur

Closed == \E c \in Links, kind \in {"client", "server", "error"} :
              Changed(c, CloseAs(link[c], kind)) /\ c \in {cur, dismissTask}
Abandoned == Changed(cur, Abandon(link[cur])) /\ phase \in {"opening", "resync"}
Sent ==
    \E owner \in Owners :
        /\ Changed(cur, SendAs(link[cur], owner)) /\ CanQueue
        /\ pending' = IF owner = Nowait THEN pending
                      ELSE [pending EXCEPT ![link[cur].nextId] = owner]
Shrunk == \A i \in Ids : pending'[i] \in {pending[i], Nobody}
Handled ==
    \E c \in Links :
        /\ link[c].inbox # <<>>
        /\ Changed(c, [link[c] EXCEPT !.inbox = Tail(link[c].inbox)])
Arrived ==
    /\ link[cur].state = "open"
    /\ \E m \in Message, asked \in SUBSET link[cur].asked :
           /\ m.type = "response" => <<m.id, m.to>> \in link[cur].asked
           /\ Changed(cur, [link[cur] EXCEPT !.inbox = Append(link[cur].inbox, m),
                                             !.asked = asked])
Replaced ==
    /\ Torn(cur) /\ phase \in {"closing", "backoff"} /\ phase' = "opening"
    /\ cur + 1 \in Links /\ cur' = cur + 1
    /\ link' = [link EXCEPT ![cur + 1] = [link[cur + 1] EXCEPT !.state = "dialing"]]

LEMMA ConnectSends ==
    ASSUME Connect, cur' = cur, pending' = pending
    PROVE  Sent \/ UNCHANGED <<link, cur, pending>>
<1>1. Nowait \in Owners
  BY DEF Owners
<1> QED
  BY <1>1 DEF Connect, Sent, Changed

LEMMA ResynchroniseSends ==
    ASSUME TypeOK, NEW left, Resynchronise(left), cur' = cur
    PROVE  Sent \/ ((Closed \/ UNCHANGED <<link, cur>>) /\ pending' = pending)
<1>1. CASE left = 0
  BY <1>1, ConnectSends DEF Resynchronise
<1>2. CASE left # 0 /\ ~terminal /\ CanQueue
  <2>1. Resync \in Owners /\ Resync # Nowait
    BY DEF Owners, Resync, Nowait
  <2> QED
    BY <1>2, <2>1 DEF Resynchronise, Sent, Changed
<1>3. CASE left # 0 /\ ~(~terminal /\ CanQueue)
  BY <1>3 DEF Resynchronise, TearDown, Closed, Changed, TypeOK, LinksOK
<1> QED
  BY <1>1, <1>2, <1>3

LEMMA LinkSteps ==
    ASSUME TypeOK, SilentInv, [Next]_vars
    PROVE  \/ Sent
           \/ /\ \/ UNCHANGED <<link, cur>> \/ Enter \/ DialSucceeds
                 \/ Closed \/ Abandoned \/ Handled \/ Arrived \/ Replaced
              /\ Shrunk
<1> USE DEF vars, taskVars, flagVars, tableVars
<1>0. /\ link \in [Links -> LinkRecord] /\ cur \in Links /\ link[cur] \in LinkRecord
      /\ dismissTask \in Links \cup {0}
  BY DEF TypeOK, LinksOK
<1>a. ASSUME pending' = pending PROVE Shrunk
  BY <1>a DEF Shrunk
<1>b. ASSUME FailPendingWork PROVE Shrunk
  BY <1>b DEF FailPendingWork, Shrunk
<1>1. CASE DialFails \/ AttemptTimesOut
  <2>1. Abandoned
    BY <1>1 DEF DialFails, AttemptTimesOut, Attempting, Abandoned, Changed
  <2>2. Shrunk
    BY <1>1, <1>a DEF DialFails, AttemptTimesOut, Shrunk
  <2> QED
    BY <2>1, <2>2
<1>2. CASE ReopenFails \/ Exit \/ DismissCloses \/ LinkDrops
  <2>1. Closed
    BY <1>0, <1>2 DEF ReopenFails, TearDown, Exit, DismissCloses, LinkDrops, Closed, Changed
  <2>2. Shrunk
    BY <1>2, <1>a, <1>b DEF ReopenFails, Exit, DismissCloses, LinkDrops
  <2> QED
    BY <2>1, <2>2
<1>3. CASE StartupSucceeds
  BY <1>3, <1>a, ConnectSends DEF StartupSucceeds
<1>4. CASE ReconnectSucceeds \/ ReopenNext
  BY <1>4, <1>a, ResynchroniseSends DEF ReconnectSucceeds, ReopenNext
<1>5. CASE LinkClosed \/ Wake
  <2>1. Torn(cur) /\ phase \in {"closing", "backoff"}
    BY <1>5 DEF LinkClosed, Wake, SilentInv
  <2>2. Shrunk
    BY <1>5, <1>a DEF LinkClosed, Wake
  <2>3. CASE /\ cur < MaxLinks /\ cur' = cur + 1 /\ phase' = "opening"
             /\ link' = [link EXCEPT ![cur + 1].state = "dialing"]
    <3>1. cur + 1 \in Links
      BY <1>0, <2>3, RoomAssumption DEF Links
    <3>2. link' = [link EXCEPT ![cur + 1] = [link[cur + 1] EXCEPT !.state = "dialing"]]
      BY <2>3
    <3> QED
      BY <2>1, <2>2, <2>3, <3>1, <3>2 DEF Replaced
  <2> QED
    BY <1>5, <2>2, <2>3 DEF LinkClosed, Wake, FirstAttempt, Attempt
<1>6. ASSUME NEW r \in Requests, Dispatch(r) PROVE Sent
  <2>1. r \in Owners /\ r # Nowait
    BY OwnerAssumption DEF Owners
  <2> QED
    BY <1>6, <2>1 DEF Dispatch, Sent, Changed
<1>7. ASSUME NEW c \in Links, HandleReady(c) \/ HandleDismiss(c) \/ HandleResponse(c)
      PROVE  Handled /\ Shrunk
  <2>1. PICK type \in {"ready", "dismiss", "response"} : Take(c, type) /\ cur' = cur
    BY <1>7 DEF HandleReady, HandleDismiss, HandleResponse
  <2>2. link' = [link EXCEPT ![c] = [link[c] EXCEPT !.inbox = Tail(link[c].inbox)]]
        /\ link[c].inbox # <<>>
    BY <2>1 DEF Take
  <2>3. CASE HandleReady(c) \/ HandleDismiss(c)
    BY <1>a, <2>1, <2>2, <2>3 DEF HandleReady, HandleDismiss, Handled, Changed
  <2>4. CASE HandleResponse(c)
    <3>1. \/ pending' = pending
          \/ pending' = [pending EXCEPT ![Head(link[c].inbox).id] = Nobody]
      BY <2>4 DEF HandleResponse
    <3>2. Shrunk
      BY <3>1 DEF Shrunk, TypeOK, TableOK
    <3> QED
      BY <2>1, <2>2, <3>2 DEF Handled, Changed
  <2> QED
    BY <1>7, <2>3, <2>4
<1>8. CASE ServerIsReady \/ ServerDismisses
  <2>1. PICK m \in Message : /\ link' = [link EXCEPT ![cur].inbox = Append(@, m)]
                             /\ m.type # "response"
    BY <1>8 DEF ServerIsReady, ServerDismisses, Message, ReadyMessage, DismissMessage
  <2>2. link' = [link EXCEPT ![cur] =
                   [link[cur] EXCEPT !.inbox = Append(link[cur].inbox, m),
                                     !.asked = link[cur].asked]]
    BY <1>0, <2>1 DEF LinkRecord
  <2> QED
    BY <1>8, <1>a, <2>1, <2>2 DEF ServerIsReady, ServerDismisses, Arrived, Changed
<1>9. CASE ServerAnswers
  <2>1. PICK q \in link[cur].asked, ok \in BOOLEAN :
          link' = [link EXCEPT
             ![cur].inbox = Append(@, [type |-> "response", id |-> q[1],
                                       to |-> q[2], ok |-> ok]),
             ![cur].asked = @ \ {q}]
    BY <1>9 DEF ServerAnswers
  <2> DEFINE m == [type |-> "response", id |-> q[1], to |-> q[2], ok |-> ok]
  <2>2. link[cur].asked \in SUBSET (Ids \X Owners)
    BY <1>0 DEF LinkRecord
  <2>3. m \in Message /\ <<m.id, m.to>> \in link[cur].asked
    BY <2>2 DEF Message, Response
  <2>4. link' = [link EXCEPT ![cur] =
                   [link[cur] EXCEPT !.inbox = Append(link[cur].inbox, m),
                                     !.asked = link[cur].asked \ {q}]]
    BY <1>0, <2>1
  <2> HIDE DEF m
  <2>5. link[cur].state = "open" /\ cur' = cur
    BY <1>9 DEF ServerAnswers
  <2> DEFINE asked == link[cur].asked \ {q}
  <2>6. asked \in SUBSET link[cur].asked
    OBVIOUS
  <2>7. Changed(cur, [link[cur] EXCEPT !.inbox = Append(link[cur].inbox, m), !.asked = asked])
    BY <2>4, <2>5 DEF Changed
  <2> HIDE DEF asked
  <2> QED
    BY <1>9, <1>a, <2>3, <2>5, <2>6, <2>7 DEF Arrived, ServerAnswers
<1>10. ASSUME NEW r \in Requests, Cancel(r) PROVE UNCHANGED <<link, cur>> /\ Shrunk
  BY <1>10 DEF Cancel, Shrunk
<1>11. CASE \/ OpeningFails \/ DeadlinePasses \/ LinkLost \/ ExitCompletes
            \/ DispatchOnClosedLink \/ WatcherFires \/ Terminated \/ UNCHANGED vars
  BY <1>11, <1>a, <1>b DEF OpeningFails, DeadlinePasses, LinkLost, ExitCompletes,
     DispatchOnClosedLink, WatcherFires, Terminated
<1>12. CASE Enter \/ DialSucceeds
  BY <1>12, <1>a DEF Enter, DialSucceeds
<1> QED
  BY <1>1, <1>2, <1>3, <1>4, <1>5, <1>6, <1>7, <1>8, <1>9, <1>10, <1>11, <1>12
     DEF Next, RoomTask, Handlers, Server, Users

-----------------------------------------------------------------------------
(* Links keep the promise of ProtocolLink.  A link has a close kind when   *)
(* it is closed and only then, the links to come are new, and so is the    *)
(* first one until the room is entered or left.                            *)
Verdict(l) == l.kind = "none" <=> l.state \in {"new", "dialing", "open"}

PromiseInv ==
    /\ \A c \in Links : Verdict(link[c]) /\ (c > cur => link[c].state = "new")
    /\ dismissTask <= cur
    /\ phase = "created" => dismissTask = 0 /\ (closing \/ link[cur].state = "new")

Stage(l) == CASE l.state \in {"new", "dialing"} -> "unopened"
              [] l.state = "open" -> "open"
              [] OTHER -> "closed"

(* One step in the life of a link *)
Lives(l, m) ==
    \/ Stage(m) = Stage(l) /\ m.kind = l.kind /\ m.inbox = l.inbox
    \/ Stage(l) = "unopened" /\ Stage(m) = "open" /\ m.kind = l.kind /\ m.inbox = l.inbox
    \/ /\ Stage(l) = "open" /\ Stage(m) = "open" /\ m.kind = l.kind
       /\ \E x \in Message : m.inbox = Append(l.inbox, x)
    \/ /\ Stage(m) = Stage(l) /\ m.kind = l.kind
       /\ l.inbox # <<>> /\ m.inbox = Tail(l.inbox)
    \/ /\ Stage(l) # "closed" /\ Stage(m) = "closed"
       /\ l.kind = "none" /\ m.kind \in {"client", "server", "error"}
       /\ m.inbox = l.inbox

LEMMA LivesOn ==
    ASSUME NEW l \in LinkRecord, Verdict(l)
    PROVE  /\ \A kind \in {"client", "server", "error"} :
                  Lives(l, CloseAs(l, kind)) /\ Verdict(CloseAs(l, kind))
           /\ Lives(l, Abandon(l)) /\ Verdict(Abandon(l))
           /\ \A owner : Lives(l, SendAs(l, owner)) /\ Verdict(SendAs(l, owner))
           /\ l.state = "new" =>
                LET m == [l EXCEPT !.state = "dialing"] IN Lives(l, m) /\ Verdict(m)
           /\ l.state = "dialing" =>
                LET m == [l EXCEPT !.state = "open"] IN Lives(l, m) /\ Verdict(m)
           /\ l.inbox # <<>> =>
                LET m == [l EXCEPT !.inbox = Tail(l.inbox)] IN Lives(l, m) /\ Verdict(m)
           /\ l.state = "open" =>
                \A x \in Message, asked \in SUBSET l.asked :
                    LET m == [l EXCEPT !.inbox = Append(l.inbox, x), !.asked = asked]
                    IN  Lives(l, m) /\ Verdict(m)
<1> USE DEF LinkRecord, Lives, Verdict, Stage
<1>1. ASSUME NEW kind \in {"client", "server", "error"}
      PROVE  Lives(l, CloseAs(l, kind)) /\ Verdict(CloseAs(l, kind))
  BY DEF CloseAs
<1>2. Lives(l, Abandon(l)) /\ Verdict(Abandon(l))
  BY DEF Abandon, CloseAs
<1>3. ASSUME NEW owner PROVE Lives(l, SendAs(l, owner)) /\ Verdict(SendAs(l, owner))
  BY DEF SendAs
<1>4. ASSUME l.state = "new"
      PROVE LET m == [l EXCEPT !.state = "dialing"] IN Lives(l, m) /\ Verdict(m)
  BY <1>4
<1>5. ASSUME l.state = "dialing"
      PROVE LET m == [l EXCEPT !.state = "open"] IN Lives(l, m) /\ Verdict(m)
  BY <1>5
<1>6. ASSUME l.inbox # <<>>
      PROVE LET m == [l EXCEPT !.inbox = Tail(l.inbox)] IN Lives(l, m) /\ Verdict(m)
  BY <1>6
<1>7. ASSUME l.state = "open", NEW x \in Message, NEW asked \in SUBSET l.asked
      PROVE  LET m == [l EXCEPT !.inbox = Append(l.inbox, x), !.asked = asked]
             IN  Lives(l, m) /\ Verdict(m)
  BY <1>7
<1> QED
  BY <1>1, <1>2, <1>3, <1>4, <1>5, <1>6, <1>7

(* What is shown of every link and every step *)
Goes(c) ==
    /\ Lives(link[c], link'[c]) /\ Verdict(link'[c])
    /\ c > cur' => link'[c].state = "new"

LEMMA SameGoes ==
    ASSUME TypeOK, PromiseInv, cur' \in {cur, cur + 1}, NEW c \in Links, link'[c] = link[c]
    PROVE  Goes(c)
  BY DEF Goes, TypeOK, LinksOK, Links, PromiseInv, Lives

LEMMA ChangedGoes ==
    ASSUME TypeOK, PromiseInv, NEW d \in Links, NEW l, Changed(d, l),
           Lives(link[d], l), Verdict(l), d > cur => l.state = "new", NEW c \in Links
    PROVE  Goes(c)
<1>1. cur' = cur /\ link' = [link EXCEPT ![d] = l] /\ link \in [Links -> LinkRecord]
  BY DEF Changed, TypeOK, LinksOK
<1>2. CASE d = c
  <2>1. link'[c] = l
    BY <1>1, <1>2
  <2> QED
    BY <1>1, <1>2, <2>1 DEF Goes
<1>3. CASE d # c
  <2>1. link'[c] = link[c]
    BY <1>1, <1>3
  <2> QED
    BY <1>1, <2>1, SameGoes
<1> QED
  BY <1>2, <1>3

LEMMA CurrentGoes ==
    ASSUME TypeOK, PromiseInv, NEW l, Changed(cur, l), Lives(link[cur], l), Verdict(l),
           NEW c \in Links
    PROVE  Goes(c)
<1>1. cur \in Links /\ ~(cur > cur)
  BY DEF TypeOK, LinksOK, Links
<1> QED
  BY <1>1, ChangedGoes

LEMMA NextLives ==
    ASSUME TypeOK, SilentInv, PromiseInv, [Next]_vars, NEW c \in Links
    PROVE  Goes(c)
<1>0. /\ link \in [Links -> LinkRecord] /\ cur \in Links
      /\ \A d \in Links : link[d] \in LinkRecord /\ Verdict(link[d])
      /\ \A d \in Links : d > cur => link[d].state = "new"
      /\ dismissTask \in Links \cup {0}
  BY DEF TypeOK, LinksOK, PromiseInv
<1>4. CASE Enter
  <2> DEFINE l == [link[cur] EXCEPT !.state = "dialing"]
  <2>1. Lives(link[cur], l) /\ Verdict(l)
    BY <1>0, <1>4, LivesOn DEF Enter, PromiseInv
  <2>2. Changed(cur, l)
    BY <1>0, <1>4 DEF Enter, Changed
  <2> HIDE DEF l
  <2> QED
    BY CurrentGoes, <2>1, <2>2
<1>5. CASE DialSucceeds
  <2> DEFINE l == [link[cur] EXCEPT !.state = "open"]
  <2>1. Lives(link[cur], l) /\ Verdict(l)
    BY <1>0, <1>5, LivesOn DEF DialSucceeds
  <2>2. Changed(cur, l)
    BY <1>0, <1>5 DEF DialSucceeds, Changed
  <2> HIDE DEF l
  <2> QED
    BY CurrentGoes, <2>1, <2>2
<1>6. CASE Closed
  <2>1. PICK d \in Links, kind \in {"client", "server", "error"} :
            Changed(d, CloseAs(link[d], kind)) /\ d \in {cur, dismissTask}
    BY <1>6 DEF Closed
  <2> DEFINE l == CloseAs(link[d], kind)
  <2>2. Lives(link[d], l) /\ Verdict(l)
    BY <1>0, LivesOn
  <2>3. ~(d > cur)
    BY <1>0, <2>1 DEF PromiseInv, Links
  <2> HIDE DEF l
  <2> QED
    BY ChangedGoes, <2>1, <2>2, <2>3 DEF l
<1>7. CASE Abandoned
  <2>1. Lives(link[cur], Abandon(link[cur])) /\ Verdict(Abandon(link[cur]))
    BY <1>0, LivesOn
  <2> QED
    BY CurrentGoes, <1>7, <2>1 DEF Abandoned
<1>8. CASE Sent
  <2>1. PICK owner \in Owners : Changed(cur, SendAs(link[cur], owner))
    BY <1>8 DEF Sent
  <2>2. Lives(link[cur], SendAs(link[cur], owner)) /\ Verdict(SendAs(link[cur], owner))
    BY <1>0, LivesOn
  <2> QED
    BY CurrentGoes, <2>1, <2>2
<1>9. CASE Handled
  <2>1. PICK d \in Links :
          /\ link[d].inbox # <<>>
          /\ Changed(d, [link[d] EXCEPT !.inbox = Tail(link[d].inbox)])
    BY <1>9 DEF Handled
  <2> DEFINE l == [link[d] EXCEPT !.inbox = Tail(link[d].inbox)]
  <2>2. Lives(link[d], l) /\ Verdict(l)
    BY <1>0, <2>1, LivesOn
  <2>3. d > cur => l.state = "new"
    BY <1>0
  <2> HIDE DEF l
  <2> QED
    BY ChangedGoes, <2>1, <2>2, <2>3 DEF l
<1>10. CASE Arrived
  <2>1. PICK m \in Message, asked \in SUBSET link[cur].asked :
          Changed(cur, [link[cur] EXCEPT !.inbox = Append(link[cur].inbox, m),
                                         !.asked = asked])
    BY <1>10 DEF Arrived
  <2> DEFINE l == [link[cur] EXCEPT !.inbox = Append(link[cur].inbox, m), !.asked = asked]
  <2>2. Lives(link[cur], l) /\ Verdict(l)
    BY <1>0, <1>10, LivesOn DEF Arrived
  <2> HIDE DEF l
  <2> QED
    BY CurrentGoes, <2>1, <2>2 DEF l
<1>11. CASE Replaced
  <2>1. cur' = cur + 1 /\ cur + 1 \in Links /\ cur + 1 > cur
    BY <1>0, <1>11 DEF Replaced, Links
  <2> DEFINE l == [link[cur + 1] EXCEPT !.state = "dialing"]
  <2>2. Lives(link[cur + 1], l) /\ Verdict(l)
    BY <1>0, <2>1, LivesOn
  <2> HIDE DEF l
  <2>3. link' = [link EXCEPT ![cur + 1] = l]
    BY <1>11 DEF Replaced, l
  <2>4. CASE c = cur + 1
    BY <1>0, <2>1, <2>2, <2>3, <2>4 DEF Goes, Links
  <2>5. CASE c # cur + 1
    BY <1>0, SameGoes, <2>1, <2>3, <2>5
  <2> QED
    BY <2>4, <2>5
<1>12. CASE UNCHANGED <<link, cur>>
  BY SameGoes, <1>12
<1> QED
  BY <1>4, <1>5, <1>6, <1>7, <1>8, <1>9, <1>10, <1>11, <1>12, LinkSteps

LEMMA InitPromise == Init => PromiseInv
  BY RoomAssumption DEF Init, PromiseInv, Verdict, NewLink, Links

LEMMA NextPromise == TypeOK /\ SilentInv /\ PromiseInv /\ [Next]_vars => PromiseInv'
<1> SUFFICES ASSUME TypeOK, SilentInv, PromiseInv, [Next]_vars PROVE PromiseInv'
  OBVIOUS
<1>1. \A c \in Links : Verdict(link'[c]) /\ (c > cur' => link'[c].state = "new")
  BY NextLives DEF Goes
<1> USE DEF vars, taskVars, flagVars, tableVars
<1>2. cur' \in {cur, cur + 1}
  BY LinkSteps DEF Enter, DialSucceeds, Closed, Abandoned, Sent, Handled, Arrived, Replaced, Changed
<1>3. dismissTask' \in {0, cur, dismissTask} /\ (phase = "created" => dismissTask' = 0)
  <2>1. ASSUME NEW c \in Links, HandleReady(c) \/ HandleDismiss(c) \/ HandleResponse(c)
        PROVE  dismissTask' \in {cur, dismissTask} /\ phase # "created"
    <3>1. dismissTask' \in {cur, dismissTask} /\ link[c].inbox # <<>>
      BY <2>1 DEF HandleReady, HandleDismiss, HandleResponse, IsCurrent, Take
    <3> QED
      BY <3>1 DEF TypeOK, LinksOK, Links, SilentInv, StaleLinksSilent, UnopenedLinksEmpty
  <2>2. ASSUME NEW r \in Requests, Dispatch(r) \/ Cancel(r)
        PROVE  dismissTask' = dismissTask
    BY <2>2 DEF Dispatch, Cancel
  <2>3. CASE RoomTask \/ Wake \/ DeadlinePasses \/ DialSucceeds \/ DialFails
    BY <2>3 DEF RoomTask, OpeningFails, StartupSucceeds, ReconnectSucceeds, ReopenNext,
       ReopenFails, AttemptTimesOut, LinkClosed, LinkLost, Wake, DeadlinePasses,
       DialSucceeds, DialFails, PromiseInv
  <2>4. CASE \/ DismissCloses \/ WatcherFires \/ ExitCompletes \/ Server
            \/ DispatchOnClosedLink \/ Enter \/ Exit \/ Terminated \/ UNCHANGED vars
    BY <2>4 DEF DismissCloses, WatcherFires, ExitCompletes, Server, ServerIsReady,
       ServerDismisses, ServerAnswers, LinkDrops, DispatchOnClosedLink, Enter, Exit,
       Terminated, PromiseInv
  <2> QED
    BY <2>1, <2>2, <2>3, <2>4 DEF Next, Handlers, Users, PromiseInv
<1>4. phase' = "created" =>
        /\ phase = "created"
        /\ closing' \/ (UNCHANGED <<link, cur>> /\ closing' = closing)
           \/ \E r \in Requests : Dispatch(r)
  <2> SUFFICES ASSUME phase' = "created" PROVE
        /\ phase = "created"
        /\ closing' \/ (UNCHANGED <<link, cur>> /\ closing' = closing)
           \/ \E r \in Requests : Dispatch(r)
    OBVIOUS
  <2>1. ASSUME NEW c \in Links, HandleReady(c) \/ HandleDismiss(c) \/ HandleResponse(c)
        PROVE  FALSE
    <3>1. phase = "created" /\ link[c].inbox # <<>>
      BY <2>1 DEF HandleReady, HandleDismiss, HandleResponse, Take
    <3> QED
      BY <3>1 DEF TypeOK, LinksOK, Links, SilentInv, StaleLinksSilent, UnopenedLinksEmpty
  <2>2. ASSUME NEW r \in Requests, Dispatch(r) \/ Cancel(r)
        PROVE  /\ phase = "created"
               /\ Dispatch(r) \/ (UNCHANGED <<link, cur>> /\ closing' = closing)
    BY <2>2 DEF Dispatch, Cancel
  <2>3. CASE ReconnectSucceeds \/ ReopenNext \/ StartupSucceeds
    BY <2>3 DEF ReconnectSucceeds, ReopenNext, StartupSucceeds, Resynchronise, Connect, TearDown
  <2>4. CASE OpeningFails \/ ReopenFails \/ AttemptTimesOut \/ LinkClosed \/ LinkLost
    BY <2>4 DEF OpeningFails, ReopenFails, TearDown, AttemptTimesOut, LinkClosed, LinkLost,
       LeaveOpening, Conclude, FirstAttempt, Attempt, Loop, Sleep, TimedOut
  <2>5. CASE Wake \/ DialSucceeds \/ DialFails \/ Enter
    BY <2>5 DEF Wake, DialSucceeds, DialFails, Enter, LeaveOpening, Conclude, Attempt,
       Loop, Sleep, SilentInv
  <2>6. CASE Server
    BY <2>6 DEF Server, ServerIsReady, ServerDismisses, ServerAnswers, LinkDrops, SilentInv
  <2>7. CASE \/ DeadlinePasses \/ WatcherFires \/ ExitCompletes \/ DispatchOnClosedLink
            \/ Exit \/ Terminated \/ UNCHANGED vars
    BY <2>7 DEF DeadlinePasses, WatcherFires, ExitCompletes, DispatchOnClosedLink, Exit,
       Terminated
  <2>8. CASE DismissCloses
    BY <2>8 DEF DismissCloses, PromiseInv
  <2> QED
    BY <2>1, <2>2, <2>3, <2>4, <2>5, <2>6, <2>7, <2>8 DEF Next, RoomTask, Handlers, Users
<1>5. phase' = "created" =>
        dismissTask' = 0 /\ (closing' \/ link'[cur'].state = "new")
  <2> SUFFICES ASSUME phase' = "created", ~closing' PROVE link'[cur'].state = "new"
    BY <1>3, <1>4
  <2>1. CASE UNCHANGED <<link, cur>> /\ closing' = closing
    BY <1>4, <2>1 DEF PromiseInv
  <2>2. ASSUME NEW r \in Requests, Dispatch(r) PROVE link'[cur'].state = "new"
    <3>1. phase = "created" /\ ~closing /\ cur' = cur
          /\ link' = [link EXCEPT ![cur] = SendAs(link[cur], r)]
      BY <1>4, <2>2 DEF Dispatch
    <3>2. link[cur].state = "new"
      BY <3>1 DEF PromiseInv
    <3>3. SendAs(link[cur], r).state = "new"
      BY <3>2 DEF SendAs, TypeOK, LinksOK, LinkRecord
    <3> QED
      BY <3>1, <3>3 DEF TypeOK, LinksOK
  <2> QED
    BY <1>4, <2>1, <2>2
<1> QED
  BY <1>1, <1>2, <1>3, <1>5 DEF PromiseInv, TypeOK, LinksOK, Links

(* A step in the life of a link is a step of ProtocolLink. *)
LEMMA LivesRefines ==
    ASSUME TypeOK, TypeOK', NEW c \in Links, Lives(link[c], link'[c])
    PROVE  Link(c)!Next \/ UNCHANGED Link(c)!vars
<1> USE DEF Stage
<1>0. link[c] \in LinkRecord /\ link[c].inbox \in Seq(Message)
  BY DEF TypeOK, LinksOK, LinkRecord
<1>1. CASE /\ Stage(link'[c]) = Stage(link[c]) /\ link'[c].kind = link[c].kind
           /\ link'[c].inbox = link[c].inbox
  BY <1>1 DEF Link!vars
<1>2. CASE /\ Stage(link[c]) = "unopened" /\ Stage(link'[c]) = "open"
           /\ link'[c].kind = link[c].kind /\ link'[c].inbox = link[c].inbox
  BY <1>2 DEF Link!Next, Link!Open
<1>3. ASSUME Stage(link[c]) = "open", Stage(link'[c]) = "open", link'[c].kind = link[c].kind,
             NEW x \in Message, link'[c].inbox = Append(link[c].inbox, x)
      PROVE  Link(c)!Next
  <2>1. Len(link'[c].inbox) = Len(link[c].inbox) + 1
    BY <1>0, <1>3
  <2> QED
    BY <1>3, <2>1 DEF Link!Next, Link!Arrive
<1>4. CASE /\ Stage(link'[c]) = Stage(link[c]) /\ link'[c].kind = link[c].kind
           /\ link[c].inbox # <<>> /\ link'[c].inbox = Tail(link[c].inbox)
  <2>1. Len(link[c].inbox) > 0 /\ Len(link'[c].inbox) = Len(link[c].inbox) - 1
    BY <1>0, <1>4
  <2> QED
    BY <1>4, <2>1 DEF Link!Next, Link!Handle
<1>5. CASE /\ Stage(link[c]) # "closed" /\ Stage(link'[c]) = "closed"
           /\ link[c].kind = "none" /\ link'[c].kind \in {"client", "server", "error"}
           /\ link'[c].inbox = link[c].inbox
  BY <1>5 DEF Link!Next, Link!Close
<1> QED
  BY <1>1, <1>2, <1>3, <1>4, <1>5 DEF Lives

(* Every link of every room lives the life that PacketProtocol gives its   *)
(* links (PacketProtocolProofs!LinkImplemented): it opens once, its close  *)
(* has one verdict, and nothing arrives after it.                          *)
THEOREM PromiseKept == Spec => LinksKeepPromise
<1>1. Init => TypeOK /\ SilentInv /\ PromiseInv /\ \A c \in Links : Link(c)!Init
  <2> SUFFICES ASSUME Init, NEW c \in Links PROVE Link(c)!Init
    BY InitTypes, InitSilent, InitPromise
  <2>1. link[c] = NewLink
    BY DEF Init
  <2> QED
    BY <2>1 DEF NewLink, Link!Init
<1>2. TypeOK /\ SilentInv /\ PromiseInv /\ [Next]_vars => (TypeOK /\ SilentInv /\ PromiseInv)'
  BY NextPromise, NextSilent, LinkTypes, TaskTypes, FlagTypes, TableTypes DEF TypeOK
<1>3. TypeOK /\ SilentInv /\ PromiseInv /\ [Next]_vars
        => [\A c \in Links : Link(c)!Next \/ UNCHANGED Link(c)!vars]_vars
  BY <1>2, NextLives, LivesRefines DEF Goes
<1> QED
  BY <1>1, <1>2, <1>3, PTL DEF Spec, LinksKeepPromise

-----------------------------------------------------------------------------
(* The rest is about users who wait for the room: they send nothing before *)
(* it is entered and nothing while it resynchronises.  (With early         *)
(* requests none of it holds; with overlapping ones only OverForGood.)     *)
PatientUsers == ~EarlyRequests /\ ~OverlappingRequests

(* Where the connection task stands, and what the flags say then *)
GivenUp == phase = "closing" /\ after = "lost" /\ ~MayReconnect /\ Stage(link[cur]) = "closed"

RoomInv ==
    /\ watcher = 0
    /\ exit # "no" => closing
    /\ closing => terminal
    /\ ConnectedIsWatched
    /\ phase = "watching" => connected \/ closing
    /\ roomClosed => phase \in {"created", "ended", "crashed"} /\ terminal
    /\ phase = "created" /\ (roomClosed \/ terminal) => closing
    /\ terminal /\ ~closing => phase = "ended" \/ GivenUp

(* The table of a link and the requests that wait *)
TableInv ==
    /\ \A i \in Ids : pending[i] \in Requests => Pending(pending[i]) /\ req[pending[i]].id = i
    /\ \A i \in Ids : pending[i] # Nowait
    /\ \A i \in Ids : pending[i] = Resync => phase = "resync" /\ resync = "waiting"
    /\ \A i, j \in Ids : pending[i] = Resync /\ pending[j] = Resync => i = j
    /\ \A r \in Requests : Pending(r) =>
          /\ req[r].id \in Ids /\ pending[req[r].id] = r /\ req[r].link = cur
          /\ phase = "watching" /\ connected /\ ~terminal

(* A closed link keeps its verdict *)
LEMMA VerdictStays ==
    ASSUME TypeOK, SilentInv, PromiseInv, [Next]_vars, cur' = cur, Stage(link[cur]) = "closed"
    PROVE  Stage(link'[cur]) = "closed" /\ link'[cur].kind = link[cur].kind
<1>1. cur \in Links /\ link[cur] \in LinkRecord /\ Verdict(link[cur])
  BY DEF TypeOK, LinksOK, PromiseInv
<1>2. Goes(cur)
  BY <1>1, NextLives
<1>3. link[cur].kind # "none"
  BY <1>1 DEF Stage, Verdict, LinkRecord
<1> QED
  BY <1>2, <1>3 DEF Goes, Lives

LEMMA InitRoom == Init => RoomInv /\ TableInv
<1> SUFFICES ASSUME Init PROVE RoomInv /\ TableInv
  OBVIOUS
<1>1. RoomInv
  BY DEF Init, RoomInv, ConnectedIsWatched
<1>2. \A i \in Ids : pending[i] = Nobody
  BY DEF Init
<1>3. \A r \in Requests : ~Pending(r)
  BY DEF Init, Pending
<1> QED
  BY <1>1, <1>2, <1>3, OwnerAssumption DEF TableInv, Nobody, Nowait, Resync

(* The task stands where it stood *)
LEMMA RoomStands ==
    ASSUME TypeOK, SilentInv, PromiseInv, RoomInv, [Next]_vars,
           UNCHANGED <<cur, phase, after, exit, watcher, connected, closing, terminal, roomClosed>>,
           dismissed => dismissed'
    PROVE  RoomInv'
<1>1. GivenUp => GivenUp'
  BY VerdictStays DEF GivenUp, MayReconnect
<1> QED
  BY <1>1 DEF RoomInv, ConnectedIsWatched

(* A request can be cancelled only while it is its own *)
LEMMA CancelOwn ==
    ASSUME TableInv, NEW r \in Requests, Cancel(r)
    PROVE  /\ pending[req[r].id] = r /\ req[r].id \in Ids
           /\ phase' = phase /\ resync' = resync
           /\ pending' = [pending EXCEPT ![req[r].id] = Nobody]
           /\ req' = [v \in Requests |->
                         IF v = r THEN [req[v] EXCEPT !.state = "cancelled"] ELSE req[v]]
<1>1. pending[req[r].id] = r /\ req[r].id \in Ids /\ r # Resync
  BY OwnerAssumption DEF Cancel, TableInv, Pending
<1> QED
  BY <1>1 DEF Cancel

LEMMA NextRoom ==
    ASSUME PatientUsers, TypeOK, SilentInv, PromiseInv, RoomInv, TableInv, [Next]_vars
    PROVE  RoomInv'
<1> USE DEF vars, taskVars, flagVars, tableVars
<1>0. /\ terminal \in BOOLEAN /\ connected \in BOOLEAN /\ closing \in BOOLEAN
      /\ roomClosed \in BOOLEAN /\ entered \in BOOLEAN
  BY DEF TypeOK, FlagsOK
<1>1. CASE Enter \/ StartupSucceeds
  BY <1>0, <1>1 DEF Enter, StartupSucceeds, Connect, RoomInv, ConnectedIsWatched, GivenUp
<1>2. CASE ReconnectSucceeds \/ ReopenNext
  BY <1>0, <1>2 DEF ReconnectSucceeds, ReopenNext, Resynchronise, Connect, TearDown,
     RoomInv, ConnectedIsWatched, GivenUp
<1>3. CASE OpeningFails \/ DialFails
  <2>1. PICK next : LeaveOpening(next)
    BY <1>3 DEF OpeningFails, DialFails
  <2>2. /\ phase = "opening"
        /\ UNCHANGED <<cur, entered, connected, closing, dismissed, dismissTask, exit, watcher>>
    BY <1>3 DEF OpeningFails, DialFails
  <2> QED
    BY <1>0, <2>1, <2>2 DEF LeaveOpening, Conclude, RoomInv, ConnectedIsWatched, GivenUp
<1>4. CASE ReopenFails \/ AttemptTimesOut
  BY <1>0, <1>4 DEF ReopenFails, AttemptTimesOut, Attempting, TearDown, RoomInv,
     ConnectedIsWatched, GivenUp
<1>5. CASE Wake
  BY <1>0, <1>5 DEF Wake, Attempt, Loop, Sleep, Conclude, RoomInv, ConnectedIsWatched, GivenUp
<1>6. CASE LinkClosed
  <2>1. /\ phase = "closing"
        /\ UNCHANGED <<after, connected, closing, exit, watcher>>
        /\ ~(after = "lost" /\ ~MayReconnect) \/ Conclude
    BY <1>6 DEF LinkClosed
  <2>2. \/ Conclude
        \/ phase' \in {"opening", "backoff", "crashed"} /\ UNCHANGED <<terminal, roomClosed>>
    BY <1>6 DEF LinkClosed, FirstAttempt, Attempt, Loop, Sleep, TimedOut, Conclude
  <2> QED
    BY <1>0, <2>1, <2>2 DEF Conclude, RoomInv, ConnectedIsWatched, GivenUp
<1>7. CASE LinkLost
  <2>1. /\ phase = "watching" /\ Stage(link[cur]) = "closed"
        /\ UNCHANGED <<link, cur, closing, exit, dismissed>>
        /\ watcher' = 0
    BY <1>7 DEF LinkLost, Done, Stage, RoomInv
  <2>2. CASE closing
    BY <1>0, <1>7, <2>1, <2>2 DEF LinkLost, RoomInv, ConnectedIsWatched
  <2>3. CASE ~closing
    <3>1. /\ phase' = "closing" /\ after' = "lost" /\ connected' = FALSE /\ roomClosed' = roomClosed
          /\ terminal' = (terminal \/ link[cur].kind # "error" \/ dismissed)
          /\ ~terminal
      BY <1>0, <1>7, <2>1, <2>3 DEF LinkLost, MarkDisconnected, RoomInv, GivenUp
    <3>2. terminal' => GivenUp'
      BY <2>1, <3>1 DEF GivenUp, MayReconnect
    <3> QED
      BY <1>0, <2>1, <2>3, <3>1, <3>2 DEF RoomInv, ConnectedIsWatched
  <2> QED
    BY <2>2, <2>3
<1>8. CASE Exit
  BY <1>0, <1>8 DEF Exit, MarkDisconnected, RoomInv, ConnectedIsWatched
<1>9. CASE ExitCompletes
  BY <1>0, <1>9 DEF ExitCompletes, RoomInv, ConnectedIsWatched
<1>10. CASE \/ DialSucceeds \/ DeadlinePasses \/ DismissCloses \/ Server \/ Terminated
            \/ UNCHANGED vars
  <2>1. UNCHANGED <<cur, phase, after, exit, watcher, flagVars>>
    BY <1>10 DEF DialSucceeds, DeadlinePasses, DismissCloses, Server,
       ServerIsReady, ServerDismisses, ServerAnswers, LinkDrops, Terminated
  <2> QED
    BY <2>1, RoomStands
<1>11. CASE DispatchOnClosedLink \/ WatcherFires
  BY <1>11 DEF DispatchOnClosedLink, WatcherFires, WatcherDue, PatientUsers, RoomInv
<1>12. ASSUME NEW r \in Requests, Dispatch(r) PROVE RoomInv'
  <2>1. UNCHANGED <<cur, phase, after, exit, watcher, connected, closing, terminal, roomClosed, dismissed>>
    BY <1>12 DEF Dispatch, PatientUsers
  <2> QED
    BY <2>1, RoomStands
<1>13. ASSUME NEW r \in Requests, Cancel(r) PROVE RoomInv'
  <2>1. UNCHANGED <<cur, phase, after, exit, watcher, connected, closing, terminal, roomClosed, dismissed>>
    BY <1>13, CancelOwn DEF Cancel, WatcherAfter, RoomInv
  <2> QED
    BY <2>1, RoomStands
<1>14. ASSUME NEW c \in Links, HandleReady(c) \/ HandleDismiss(c) \/ HandleResponse(c)
       PROVE  RoomInv'
  <2>1. UNCHANGED <<cur, phase, after, exit, watcher, connected, closing, terminal, roomClosed>>
    BY <1>14 DEF HandleReady, HandleDismiss, HandleResponse, WatcherAfter, RoomInv
  <2>2. dismissed => dismissed'
    BY <1>14 DEF HandleReady, HandleDismiss, HandleResponse
  <2> QED
    BY <2>1, <2>2, RoomStands
<1> QED
  BY <1>1, <1>2, <1>3, <1>4, <1>5, <1>6, <1>7, <1>8, <1>9, <1>10, <1>11, <1>12, <1>13, <1>14
     DEF Next, RoomTask, Handlers, Users

-----------------------------------------------------------------------------
(* The table is empty except while the room is watched or resynchronised *)
LEMMA TableEmpty ==
    ASSUME TypeOK, TableInv,
           phase \notin {"watching", "resync"} \/ (phase = "resync" /\ resync # "waiting")
    PROVE  (\A i \in Ids : pending[i] = Nobody) /\ \A r \in Requests : ~Pending(r)
  BY DEF TypeOK, TableOK, TableInv, Owners

LEMMA TableEmptied ==
    ASSUME \A i \in Ids : pending'[i] = Nobody, \A r \in Requests : ~Pending(r)'
    PROVE  TableInv'
  BY OwnerAssumption DEF TableInv, Nobody, Nowait, Resync

LEMMA TableStands ==
    ASSUME TableInv, UNCHANGED <<pending, req, phase, resync, connected, terminal, cur>>
    PROVE  TableInv'
  BY DEF TableInv, Pending

LEMMA StillEmpty ==
    ASSUME TypeOK, TableInv, UNCHANGED <<pending, req>>,
           phase \notin {"watching", "resync"} \/ (phase = "resync" /\ resync # "waiting")
    PROVE  TableInv'
<1>1. (\A i \in Ids : pending'[i] = Nobody) /\ \A r \in Requests : ~Pending(r)'
  BY TableEmpty DEF Pending
<1> QED
  BY <1>1, TableEmptied

(* _fail_pending_work leaves nobody waiting *)
LEMMA FailedTable ==
    ASSUME TypeOK, TableInv, FailPendingWork
    PROVE  TableInv'
<1>1. \A i \in Ids : pending'[i] = Nobody
  BY DEF FailPendingWork
<1>2. ASSUME NEW r \in Requests PROVE ~Pending(r)'
  <2>1. Pending(r) => Waiting(r)
    BY DEF TableInv, Waiting
  <2>2. Waiting(r) => req'[r] = [req[r] EXCEPT !.state = "failed"]
    BY DEF FailPendingWork
  <2>3. ~Waiting(r) => req'[r] = req[r]
    BY DEF FailPendingWork
  <2>4. req[r] \in RequestRecord
    BY DEF TypeOK, TableOK
  <2> QED
    BY <2>1, <2>2, <2>3, <2>4 DEF Pending, RequestRecord
<1> QED
  BY <1>1, <1>2, TableEmptied

LEMMA ResynchroniseTable ==
    ASSUME TypeOK, TableInv, NEW left, Resynchronise(left), UNCHANGED <<cur, req>>,
           phase = "opening" \/ (phase = "resync" /\ resync = "ok")
    PROVE  TableInv'
<1>1. (\A i \in Ids : pending[i] = Nobody) /\ \A r \in Requests : ~Pending(r) /\ ~Pending(r)'
  BY TableEmpty DEF Pending
<1>2. CASE left = 0 \/ ~(~terminal /\ CanQueue)
  <2>1. pending' = pending
    BY <1>2 DEF Resynchronise
  <2> QED
    BY <1>1, <2>1, TableEmptied
<1>3. CASE left # 0 /\ ~terminal /\ CanQueue
  <2>1. /\ pending' = [pending EXCEPT ![link[cur].nextId] = Resync]
        /\ resync' = "waiting" /\ phase' = "resync"
    BY <1>3 DEF Resynchronise
  <2>2. \A i \in Ids : pending'[i] = IF i = link[cur].nextId THEN Resync ELSE Nobody
    BY <1>1, <2>1 DEF TypeOK, TableOK
  <2> QED
    BY <1>1, <2>1, <2>2, OwnerAssumption DEF TableInv, Nobody, Nowait, Resync
<1> QED
  BY <1>2, <1>3

(* Ids of the current link below its counter are used up *)
UsedInv == \A i \in Ids : pending[i] # Nobody => i < link[cur].nextId

LEMMA DispatchTable ==
    ASSUME PatientUsers, TypeOK, RoomInv, TableInv, UsedInv, NEW r \in Requests, Dispatch(r)
    PROVE  TableInv'
<1> DEFINE id == link[cur].nextId
<1>1. id \in Ids
  BY RoomAssumption DEF Dispatch, CanQueue, TypeOK, LinksOK, LinkRecord, Ids
<1>2. phase = "watching" /\ connected /\ ~terminal
  BY DEF Dispatch, MaySend, PatientUsers, RoomInv, ConnectedIsWatched
<1>3. req' = [req EXCEPT ![r] = [state |-> "pending", link |-> cur, id |-> id,
                                 answer |-> Nobody]]
      /\ pending' = [pending EXCEPT ![id] = r]
      /\ UNCHANGED <<cur, phase, connected, terminal, resync>>
  BY DEF Dispatch, taskVars, flagVars
<1>4. pending[id] = Nobody /\ ~Pending(r)
  <2>1. ~(id < id)
    BY <1>1 DEF Ids
  <2> QED
    BY <1>1, <2>1 DEF UsedInv, Dispatch, Pending
<1> HIDE DEF id
<1>5. /\ req'[r].state = "pending" /\ req'[r].link = cur /\ req'[r].id = id
      /\ \A v \in Requests : v # r => req'[v] = req[v]
  BY <1>3 DEF TypeOK, TableOK
<1>6. pending'[id] = r /\ \A i \in Ids : i # id => pending'[i] = pending[i]
  BY <1>1, <1>3 DEF TypeOK, TableOK
<1>7. r # Resync /\ r # Nowait
  BY OwnerAssumption
<1>8. \A i \in Ids : pending'[i] \in Requests => Pending(pending[i])' /\ req'[pending'[i]].id = i
  <2> SUFFICES ASSUME NEW i \in Ids, pending'[i] \in Requests
               PROVE  req'[pending'[i]].state = "pending" /\ req'[pending'[i]].id = i
    BY DEF Pending
  <2>1. CASE i = id
    BY <1>5, <1>6, <2>1
  <2>2. CASE i # id
    <3>1. pending'[i] = pending[i] /\ pending[i] \in Requests
      BY <1>6, <2>2
    <3>2. req[pending[i]].state = "pending" /\ req[pending[i]].id = i
      BY <3>1 DEF TableInv, Pending
    <3>3. pending[i] # r
      BY <1>4, <3>2 DEF Pending
    <3> QED
      BY <1>5, <3>1, <3>2, <3>3
  <2> QED
    BY <2>1, <2>2
<1>9. \A v \in Requests : Pending(v)' =>
        /\ req'[v].id \in Ids /\ pending'[req'[v].id] = v /\ req'[v].link = cur'
        /\ phase' = "watching" /\ connected' /\ ~terminal'
  <2> SUFFICES ASSUME NEW v \in Requests, req'[v].state = "pending"
               PROVE  req'[v].id \in Ids /\ pending'[req'[v].id] = v /\ req'[v].link = cur
    BY <1>2, <1>3 DEF Pending
  <2>1. CASE v = r
    BY <1>1, <1>5, <1>6, <2>1
  <2>2. CASE v # r
    <3>1. Pending(v) /\ req'[v] = req[v]
      BY <1>5, <2>2 DEF Pending
    <3>2. req[v].id \in Ids /\ pending[req[v].id] = v /\ req[v].link = cur
      BY <3>1 DEF TableInv
    <3>3. req[v].id # id
      BY <1>4, <3>2, OwnerAssumption
    <3> QED
      BY <1>6, <3>1, <3>2, <3>3
  <2> QED
    BY <2>1, <2>2
<1>10. \A i \in Ids : pending'[i] # Nowait /\ pending'[i] # Resync
  <2>1. \A i \in Ids : pending[i] # Nowait /\ pending[i] # Resync
    BY <1>2 DEF TableInv
  <2> QED
    BY <1>6, <1>7, <2>1
<1> QED
  BY <1>8, <1>9, <1>10 DEF TableInv

(* An entry leaves the table together with the request it stands for *)
LEMMA SettledTable ==
    ASSUME TypeOK, TableInv, NEW i \in Ids,
           pending' = [pending EXCEPT ![i] = Nobody],
           UNCHANGED <<phase, connected, terminal, cur>>,
           pending[i] # Resync => resync' = resync,
           \A v \in Requests :
               IF v = pending[i] THEN req'[v].state # "pending" ELSE req'[v] = req[v]
    PROVE  TableInv'
<1>1. pending'[i] = Nobody /\ \A j \in Ids : j # i => pending'[j] = pending[j]
  BY DEF TypeOK, TableOK
<1>2. Nobody # Nowait /\ Nobody # Resync /\ Nobody \notin Requests
  BY OwnerAssumption DEF Nobody, Nowait, Resync
<1>3. ASSUME NEW j \in Ids, pending'[j] \in Requests
      PROVE  Pending(pending[j])' /\ req'[pending'[j]].id = j
  <2>1. j # i /\ pending'[j] = pending[j]
    BY <1>1, <1>2, <1>3
  <2>2. Pending(pending[j]) /\ req[pending[j]].id = j
    BY <1>3, <2>1 DEF TableInv
  <2>3. pending[j] # pending[i]
    BY <1>3, <2>1, <2>2 DEF TableInv
  <2> QED
    BY <1>3, <2>1, <2>2, <2>3 DEF Pending
<1>4. ASSUME NEW v \in Requests, Pending(v)'
      PROVE  /\ req'[v].id \in Ids /\ pending'[req'[v].id] = v /\ req'[v].link = cur'
             /\ phase' = "watching" /\ connected' /\ ~terminal'
  <2>1. v # pending[i] /\ req'[v] = req[v] /\ Pending(v)
    BY <1>4 DEF Pending
  <2>2. /\ req[v].id \in Ids /\ pending[req[v].id] = v /\ req[v].link = cur
        /\ phase = "watching" /\ connected /\ ~terminal
    BY <2>1 DEF TableInv
  <2> QED
    BY <1>1, <2>1, <2>2
<1>5. ASSUME NEW j \in Ids, pending'[j] = Resync
      PROVE  /\ pending[j] = Resync /\ phase' = "resync" /\ resync' = "waiting"
  <2>1. j # i /\ pending[j] = Resync
    BY <1>1, <1>2, <1>5
  <2>2. pending[i] # Resync
    BY <2>1 DEF TableInv
  <2> QED
    BY <2>1, <2>2 DEF TableInv
<1>6. \A j \in Ids : pending'[j] # Nowait
  BY <1>1, <1>2 DEF TableInv
<1>7. \A j, k \in Ids : pending'[j] = Resync /\ pending'[k] = Resync => j = k
  BY <1>5 DEF TableInv
<1> QED
  BY <1>3, <1>4, <1>5, <1>6, <1>7 DEF TableInv

-----------------------------------------------------------------------------
(* The links to come are untouched. *)
FreshInv == \A c \in Links : c > cur => link[c] = NewLink

(* An answer is due to q[2] under the id q[1]: it was asked for and has    *)
(* not arrived, or has arrived and was not handled.                        *)
Due(l, q) ==
    \/ q \in l.asked
    \/ \E k \in 1..Len(l.inbox) :
          l.inbox[k].type = "response" /\ l.inbox[k].id = q[1] /\ l.inbox[k].to = q[2]

(* Nobody else has the id by then. *)
DueInv ==
    \A q \in Ids \X Owners :
        Due(link[cur], q) => q[1] < link[cur].nextId /\ pending[q[1]] \in {q[2], Nobody}

NoMoreDue(l, m) == m.nextId = l.nextId /\ \A q \in Ids \X Owners : Due(m, q) => Due(l, q)

LEMMA InitDue == Init => FreshInv /\ UsedInv /\ DueInv
<1> SUFFICES ASSUME Init PROVE FreshInv /\ UsedInv /\ DueInv
  OBVIOUS
<1>1. FreshInv /\ UsedInv
  BY DEF Init, FreshInv, UsedInv
<1>2. link[cur].asked = {} /\ link[cur].inbox = <<>>
  BY RoomAssumption DEF Init, NewLink, Links
<1>3. DueInv
  BY <1>2 DEF DueInv, Due
<1> QED
  BY <1>1, <1>3

(* What every link keeps while others change *)
LEMMA ChangedFresh ==
    ASSUME TypeOK, FreshInv, NEW d \in Links, NEW l, Changed(d, l), ~(d > cur)
    PROVE  FreshInv'
  BY DEF FreshInv, Changed, TypeOK, LinksOK, Links

LEMMA NextFresh ==
    ASSUME TypeOK, SilentInv, PromiseInv, FreshInv, [Next]_vars
    PROVE  FreshInv'
<1>0. cur \in Links /\ link \in [Links -> LinkRecord] /\ ~(cur > cur)
  BY DEF TypeOK, LinksOK, Links
<1>1. CASE Sent \/ Abandoned \/ Arrived
  BY <1>0, <1>1, ChangedFresh DEF Sent, Abandoned, Arrived
<1>2. CASE Enter
  <2>1. Changed(cur, [link[cur] EXCEPT !.state = "dialing"])
    BY <1>2 DEF Enter, Changed
  <2> QED
    BY <1>0, <2>1, ChangedFresh
<1>3. CASE DialSucceeds
  <2>1. Changed(cur, [link[cur] EXCEPT !.state = "open"])
    BY <1>3 DEF DialSucceeds, Changed
  <2> QED
    BY <1>0, <2>1, ChangedFresh
<1>4. CASE Closed
  <2>1. PICK d \in Links, kind \in {"client", "server", "error"} :
            Changed(d, CloseAs(link[d], kind)) /\ d \in {cur, dismissTask}
    BY <1>4 DEF Closed
  <2>2. ~(d > cur)
    BY <1>0, <2>1 DEF PromiseInv, Links
  <2> QED
    BY <2>1, <2>2, ChangedFresh
<1>5. CASE Handled
  <2>1. PICK d \in Links :
          /\ link[d].inbox # <<>>
          /\ Changed(d, [link[d] EXCEPT !.inbox = Tail(link[d].inbox)])
    BY <1>5 DEF Handled
  <2>2. ~(d > cur)
    BY <2>1 DEF SilentInv, UnopenedLinksEmpty
  <2> QED
    BY <2>1, <2>2, ChangedFresh
<1>6. CASE Replaced
  BY <1>0, <1>6 DEF Replaced, FreshInv, Links
<1>7. CASE UNCHANGED <<link, cur>>
  BY <1>7 DEF FreshInv
<1> QED
  BY <1>1, <1>2, <1>3, <1>4, <1>5, <1>6, <1>7, LinkSteps

(* What the changes of a link do to the answers due on it *)
LEMMA StateNoMoreDue ==
    ASSUME NEW l \in LinkRecord, NEW s
    PROVE  NoMoreDue(l, [l EXCEPT !.state = s])
  BY DEF NoMoreDue, Due, LinkRecord

LEMMA CloseNoMoreDue ==
    ASSUME NEW l \in LinkRecord, NEW kind
    PROVE  NoMoreDue(l, CloseAs(l, kind))
  BY DEF NoMoreDue, Due, LinkRecord, CloseAs

LEMMA AbandonNoMoreDue ==
    ASSUME NEW l \in LinkRecord
    PROVE  NoMoreDue(l, Abandon(l))
<1>1. CloseAs(l, "client") \in LinkRecord
  BY CloseAsType
<1>2. NoMoreDue(l, CloseAs(l, "client"))
  BY CloseNoMoreDue
<1>3. NoMoreDue(CloseAs(l, "client"), [CloseAs(l, "client") EXCEPT !.state = "failed"])
  BY <1>1, StateNoMoreDue
<1> QED
  BY <1>2, <1>3 DEF Abandon, NoMoreDue

LEMMA TailNoMoreDue ==
    ASSUME NEW l \in LinkRecord, l.inbox # <<>>
    PROVE  NoMoreDue(l, [l EXCEPT !.inbox = Tail(l.inbox)])
<1> DEFINE m == [l EXCEPT !.inbox = Tail(l.inbox)]
<1>1. m.nextId = l.nextId /\ m.asked = l.asked /\ m.inbox = Tail(l.inbox)
      /\ l.inbox \in Seq(Message)
  BY DEF LinkRecord
<1> HIDE DEF m
<1>2. \A k \in 1..Len(m.inbox) : m.inbox[k] = l.inbox[k + 1] /\ k + 1 \in 1..Len(l.inbox)
  BY <1>1
<1>3. NoMoreDue(l, m)
  BY <1>1, <1>2 DEF NoMoreDue, Due
<1> QED
  BY <1>3 DEF m

LEMMA ArrivedNoMoreDue ==
    ASSUME NEW l \in LinkRecord, NEW x \in Message, NEW asked \in SUBSET l.asked,
           x.type = "response" => <<x.id, x.to>> \in l.asked
    PROVE  NoMoreDue(l, [l EXCEPT !.inbox = Append(l.inbox, x), !.asked = asked])
<1> DEFINE m == [l EXCEPT !.inbox = Append(l.inbox, x), !.asked = asked]
<1>1. m.nextId = l.nextId /\ m.asked = asked /\ m.inbox = Append(l.inbox, x)
      /\ l.inbox \in Seq(Message)
  BY DEF LinkRecord
<1> HIDE DEF m
<1>2. ASSUME NEW k \in 1..Len(m.inbox)
      PROVE  (m.inbox[k] = l.inbox[k] /\ k \in 1..Len(l.inbox)) \/ m.inbox[k] = x
  BY <1>1
<1>3. ASSUME NEW q \in Ids \X Owners, Due(m, q) PROVE Due(l, q)
  <2>1. CASE q \in m.asked
    BY <1>1, <2>1 DEF Due
  <2>2. ASSUME NEW k \in 1..Len(m.inbox), m.inbox[k].type = "response",
               m.inbox[k].id = q[1], m.inbox[k].to = q[2]
        PROVE  Due(l, q)
    <3>1. CASE m.inbox[k] = x
      <4>1. q = <<x.id, x.to>>
        BY <2>2, <3>1
      <4> QED
        BY <2>2, <3>1, <4>1 DEF Due
    <3>2. CASE m.inbox[k] = l.inbox[k] /\ k \in 1..Len(l.inbox)
      BY <2>2, <3>2 DEF Due
    <3> QED
      BY <1>2, <3>1, <3>2
  <2> QED
    BY <1>3, <2>1, <2>2 DEF Due
<1>4. NoMoreDue(l, m)
  BY <1>1, <1>3 DEF NoMoreDue
<1> QED
  BY <1>4 DEF m

(* Nothing new is due, and the table shrinks. *)
LEMMA ShrunkDue ==
    ASSUME TypeOK, UsedInv, DueInv, cur' = cur, NoMoreDue(link[cur], link'[cur]), Shrunk
    PROVE  UsedInv' /\ DueInv'
<1>1. UsedInv'
  BY DEF UsedInv, NoMoreDue, Shrunk
<1>2. ASSUME NEW q \in Ids \X Owners, Due(link'[cur], q)
      PROVE  q[1] < link'[cur].nextId /\ pending'[q[1]] \in {q[2], Nobody}
  <2>1. q[1] < link[cur].nextId /\ pending[q[1]] \in {q[2], Nobody}
    BY <1>2 DEF NoMoreDue, DueInv
  <2> QED
    BY <2>1 DEF NoMoreDue, Shrunk
<1> QED
  BY <1>1, <1>2 DEF DueInv

LEMMA ChangedDue ==
    ASSUME TypeOK, UsedInv, DueInv, NEW d \in Links, NEW l, Changed(d, l), Shrunk,
           NoMoreDue(link[d], l)
    PROVE  UsedInv' /\ DueInv'
<1>1. cur \in Links /\ link \in [Links -> LinkRecord] /\ cur' = cur
      /\ link' = [link EXCEPT ![d] = l]
  BY DEF TypeOK, LinksOK, Changed
<1>2. NoMoreDue(link[cur], link[cur])
  BY DEF NoMoreDue
<1>3. NoMoreDue(link[cur], link'[cur])
  BY <1>1, <1>2
<1> QED
  BY <1>1, <1>3, ShrunkDue

LEMMA SentDue ==
    ASSUME TypeOK, UsedInv, DueInv, Sent
    PROVE  UsedInv' /\ DueInv'
<1>1. PICK owner \in Owners :
        /\ Changed(cur, SendAs(link[cur], owner)) /\ CanQueue
        /\ pending' = IF owner = Nowait THEN pending
                      ELSE [pending EXCEPT ![link[cur].nextId] = owner]
  BY DEF Sent
<1> DEFINE id == link[cur].nextId
<1>2. id \in Ids /\ link[cur] \in LinkRecord /\ cur \in Links /\ id + 1 > id
      /\ pending \in [Ids -> Owners]
  BY <1>1, RoomAssumption DEF CanQueue, TypeOK, LinksOK, TableOK, LinkRecord, Ids
<1>3. cur' = cur /\ link'[cur] = SendAs(link[cur], owner)
  BY <1>1 DEF Changed, TypeOK, LinksOK
<1>4. /\ link'[cur].nextId = id + 1 /\ link'[cur].inbox = link[cur].inbox
      /\ link'[cur].asked = link[cur].asked \cup {<<id, owner>>}
  BY <1>2, <1>3 DEF SendAs, LinkRecord
<1>5. pending[id] = Nobody
  BY <1>2 DEF UsedInv, Ids
<1>6. /\ pending'[id] \in {owner, Nobody}
      /\ \A i \in Ids : i # id => pending'[i] = pending[i]
  BY <1>1, <1>2, <1>5
<1> HIDE DEF id
<1>7. ASSUME NEW i \in Ids, pending'[i] # Nobody PROVE i < id + 1
  <2>1. CASE i = id
    BY <1>2, <2>1
  <2>2. CASE i # id
    BY <1>2, <1>6, <1>7, <2>2 DEF UsedInv, Ids, id
  <2> QED
    BY <2>1, <2>2
<1>8. ASSUME NEW q \in Ids \X Owners, Due(link'[cur], q)
      PROVE  q[1] < id + 1 /\ pending'[q[1]] \in {q[2], Nobody}
  <2>1. CASE q = <<id, owner>>
    BY <1>2, <1>6, <2>1
  <2>2. CASE q # <<id, owner>>
    <3>1. Due(link[cur], q)
      BY <1>4, <1>8, <2>2 DEF Due
    <3>2. q[1] < id /\ pending[q[1]] \in {q[2], Nobody} /\ q[1] \in Ids
      BY <3>1 DEF DueInv, id
    <3>3. q[1] # id /\ q[1] < id + 1
      BY <1>2, <3>2 DEF Ids
    <3> QED
      BY <1>6, <3>2, <3>3
  <2> QED
    BY <2>1, <2>2
<1>9. UsedInv'
  BY <1>3, <1>4, <1>7 DEF UsedInv
<1>10. DueInv'
  BY <1>3, <1>4, <1>8 DEF DueInv
<1> QED
  BY <1>9, <1>10

LEMMA NextDue ==
    ASSUME TypeOK, SilentInv, PromiseInv, TableInv, FreshInv, UsedInv, DueInv, [Next]_vars
    PROVE  UsedInv' /\ DueInv'
<1>0. /\ cur \in Links /\ link \in [Links -> LinkRecord] /\ link[cur] \in LinkRecord
      /\ pending \in [Ids -> Owners]
  BY DEF TypeOK, LinksOK, TableOK
<1>1. CASE Sent
  BY <1>1, SentDue
<1>2. CASE Shrunk /\ Enter
  <2>1. Changed(cur, [link[cur] EXCEPT !.state = "dialing"])
    BY <1>2 DEF Enter, Changed
  <2> QED
    BY <1>0, <1>2, <2>1, ChangedDue, StateNoMoreDue
<1>3. CASE Shrunk /\ DialSucceeds
  <2>1. Changed(cur, [link[cur] EXCEPT !.state = "open"])
    BY <1>3 DEF DialSucceeds, Changed
  <2> QED
    BY <1>0, <1>3, <2>1, ChangedDue, StateNoMoreDue
<1>4. CASE Shrunk /\ Closed
  BY <1>0, <1>4, ChangedDue, CloseNoMoreDue DEF Closed
<1>5. CASE Shrunk /\ Abandoned
  BY <1>0, <1>5, ChangedDue, AbandonNoMoreDue DEF Abandoned
<1>6. CASE Shrunk /\ Handled
  BY <1>0, <1>6, ChangedDue, TailNoMoreDue DEF Handled
<1>7. CASE Shrunk /\ Arrived
  BY <1>0, <1>7, ChangedDue, ArrivedNoMoreDue DEF Arrived
<1>8. CASE Shrunk /\ Replaced
  <2>1. \A i \in Ids : pending'[i] = Nobody
    BY <1>8, TableEmpty DEF Shrunk, Replaced
  <2>2. cur' = cur + 1 /\ cur + 1 \in Links /\ cur + 1 > cur
    BY <1>0, <1>8 DEF Replaced, Links
  <2>3. link[cur + 1] = NewLink
    BY <2>2 DEF FreshInv
  <2>4. link'[cur + 1] = [NewLink EXCEPT !.state = "dialing"]
    BY <1>0, <1>8, <2>2, <2>3 DEF Replaced
  <2>5. link'[cur'].asked = {} /\ link'[cur'].inbox = <<>>
    BY <2>2, <2>4 DEF NewLink
  <2>6. UsedInv'
    BY <2>1 DEF UsedInv
  <2>7. DueInv'
    BY <2>5 DEF DueInv, Due
  <2> QED
    BY <2>6, <2>7
<1>9. CASE Shrunk /\ UNCHANGED <<link, cur>>
  BY <1>0, <1>9, ShrunkDue DEF NoMoreDue
<1> QED
  BY <1>1, <1>2, <1>3, <1>4, <1>5, <1>6, <1>7, <1>8, <1>9, LinkSteps

-----------------------------------------------------------------------------
(* An answer is handled: it was due to `to` under `id`. *)
LEMMA ResponseIsDue ==
    ASSUME TypeOK, SilentInv, NEW c \in Links, HandleResponse(c)
    PROVE  \E id \in Ids, to \in Owners :
             /\ Due(link[cur], <<id, to>>)
             /\ pending' = [pending EXCEPT ![id] = Nobody]
             /\ req' = [r \in Requests |->
                          IF r = pending[id]
                          THEN [req[r] EXCEPT !.state = "answered", !.answer = to]
                          ELSE req[r]]
             /\ pending[id] # Resync => resync' = resync
<1> DEFINE m == Head(link[c].inbox)
<1>1. link[c].inbox # <<>> /\ m.type = "response" /\ link[c].inbox \in Seq(Message)
  BY DEF HandleResponse, Take, TypeOK, LinksOK, LinkRecord
<1>2. c = cur
  BY <1>1 DEF TypeOK, LinksOK, SilentInv, StaleLinksSilent, UnopenedLinksEmpty, Links
<1>3. m \in Message /\ 1 \in 1..Len(link[c].inbox) /\ m = link[c].inbox[1]
  BY <1>1
<1>4. pending' = [pending EXCEPT ![m.id] = Nobody]
  BY <1>2 DEF HandleResponse, IsCurrent
<1>5. req' = [r \in Requests |->
                IF r = pending[m.id] THEN [req[r] EXCEPT !.state = "answered", !.answer = m.to]
                ELSE req[r]]
  BY <1>2 DEF HandleResponse, IsCurrent
<1>6. pending[m.id] # Resync => resync' = resync
  BY <1>2 DEF HandleResponse, IsCurrent
<1> HIDE DEF m
<1>7. m.id \in Ids /\ m.to \in Owners
  BY <1>1, <1>3 DEF Message, Response, ReadyMessage, DismissMessage
<1>8. Due(link[cur], <<m.id, m.to>>)
  BY <1>1, <1>2, <1>3 DEF Due
<1> QED
  BY <1>4, <1>5, <1>6, <1>7, <1>8

LEMMA NextTable ==
    ASSUME PatientUsers, TypeOK, SilentInv, PromiseInv, RoomInv, TableInv, UsedInv, [Next]_vars
    PROVE  TableInv'
<1> USE DEF vars, taskVars, flagVars, tableVars
<1>1. CASE Enter \/ StartupSucceeds \/ OpeningFails \/ DialFails
  BY <1>1, StillEmpty DEF Enter, StartupSucceeds, OpeningFails, DialFails
<1>2. CASE ReconnectSucceeds
  BY <1>2, ResynchroniseTable DEF ReconnectSucceeds
<1>3. CASE ReopenNext
  BY <1>3, ResynchroniseTable DEF ReopenNext
<1>4. CASE ReopenFails \/ Wake \/ LinkClosed
  BY <1>4, StillEmpty DEF ReopenFails, Wake, LinkClosed
<1>5. CASE AttemptTimesOut
  <2>1. pending' = [i \in Ids |-> IF pending[i] = Resync THEN Nobody ELSE pending[i]]
        /\ req' = req /\ phase # "watching"
    BY <1>5 DEF AttemptTimesOut, Attempting
  <2>2. \A r \in Requests : ~Pending(r)
    BY <2>1 DEF TableInv
  <2>3. \A i \in Ids : pending[i] \in {Resync, Nobody}
    BY <2>2 DEF TableInv, TypeOK, TableOK, Owners
  <2>4. \A i \in Ids : pending'[i] = Nobody
    BY <2>1, <2>3
  <2>5. \A r \in Requests : ~Pending(r)'
    BY <2>1, <2>2 DEF Pending
  <2> QED
    BY <2>4, <2>5, TableEmptied
<1>6. CASE LinkLost
  <2>1. CASE closing
    <3>1. UNCHANGED <<pending, req>> /\ phase = "watching" /\ terminal
      BY <1>6, <2>1 DEF LinkLost, RoomInv
    <3>2. \A r \in Requests : ~Pending(r)
      BY <3>1 DEF TableInv
    <3>3. \A i \in Ids : pending[i] = Nobody
      BY <3>1, <3>2 DEF TableInv, TypeOK, TableOK, Owners
    <3>4. \A r \in Requests : ~Pending(r)'
      BY <3>1, <3>2 DEF Pending
    <3> QED
      BY <3>1, <3>3, <3>4, TableEmptied
  <2>2. CASE ~closing
    BY <1>6, <2>2, FailedTable DEF LinkLost
  <2> QED
    BY <2>1, <2>2
<1>7. CASE Exit
  BY <1>7, FailedTable DEF Exit
<1>8. CASE \/ ExitCompletes \/ DialSucceeds \/ DeadlinePasses \/ DismissCloses \/ Server
           \/ Terminated \/ UNCHANGED vars
  <2>1. UNCHANGED <<pending, req, phase, resync, connected, terminal, cur>>
    BY <1>8 DEF ExitCompletes, DialSucceeds, DeadlinePasses, DismissCloses, Server,
       ServerIsReady, ServerDismisses, ServerAnswers, LinkDrops, Terminated
  <2> QED
    BY <2>1, TableStands
<1>9. CASE DispatchOnClosedLink \/ WatcherFires
  BY <1>9 DEF DispatchOnClosedLink, WatcherFires, WatcherDue, PatientUsers, RoomInv
<1>10. ASSUME NEW r \in Requests, Dispatch(r) PROVE TableInv'
  BY <1>10, DispatchTable
<1>11. ASSUME NEW r \in Requests, Cancel(r) PROVE TableInv'
  <2>1. /\ pending[req[r].id] = r /\ req[r].id \in Ids
        /\ phase' = phase /\ resync' = resync
        /\ pending' = [pending EXCEPT ![req[r].id] = Nobody]
        /\ req' = [v \in Requests |->
                      IF v = r THEN [req[v] EXCEPT !.state = "cancelled"] ELSE req[v]]
    BY <1>11, CancelOwn
  <2>2. \A v \in Requests : IF v = pending[req[r].id] THEN req'[v].state # "pending"
                           ELSE req'[v] = req[v]
    BY <2>1 DEF TypeOK, TableOK, RequestRecord
  <2>3. UNCHANGED <<connected, terminal, cur>>
    BY <1>11 DEF Cancel
  <2> QED
    BY <2>1, <2>2, <2>3, SettledTable
<1>12. ASSUME NEW c \in Links, HandleReady(c) \/ HandleDismiss(c) PROVE TableInv'
  BY <1>12, TableStands DEF HandleReady, HandleDismiss
<1>13. ASSUME NEW c \in Links, HandleResponse(c) PROVE TableInv'
  <2>1. PICK id \in Ids, to \in Owners :
             /\ pending' = [pending EXCEPT ![id] = Nobody]
             /\ req' = [r \in Requests |->
                          IF r = pending[id]
                          THEN [req[r] EXCEPT !.state = "answered", !.answer = to]
                          ELSE req[r]]
             /\ pending[id] # Resync => resync' = resync
    BY <1>13, ResponseIsDue
  <2>2. \A v \in Requests : IF v = pending[id] THEN req'[v].state # "pending"
                           ELSE req'[v] = req[v]
    BY <2>1 DEF TypeOK, TableOK, RequestRecord
  <2>3. UNCHANGED <<phase, connected, terminal, cur>>
    BY <1>13 DEF HandleResponse
  <2> QED
    BY <2>1, <2>2, <2>3, SettledTable
<1> QED
  BY <1>1, <1>2, <1>3, <1>4, <1>5, <1>6, <1>7, <1>8, <1>9, <1>10, <1>11, <1>12, <1>13
     DEF Next, RoomTask, Handlers, Users

-----------------------------------------------------------------------------
(* Whoever has an answer has its own. *)
MatchInv ==
    \A r \in Requests :
        req[r].answer \in {Nobody, r} /\ (req[r].state = "answered" => req[r].answer = r)

LEMMA InitMatch == Init => MatchInv
  BY DEF Init, MatchInv

LEMMA NextMatch ==
    ASSUME PatientUsers, TypeOK, SilentInv, RoomInv, TableInv, DueInv, MatchInv, [Next]_vars
    PROVE  MatchInv'
<1> USE DEF vars, taskVars, flagVars, tableVars
<1>1. CASE req' = req
  BY <1>1 DEF MatchInv
<1>2. CASE FailPendingWork
  <2>1. \A r \in Requests : req'[r] \in {req[r], [req[r] EXCEPT !.state = "failed"]}
    BY <1>2 DEF FailPendingWork
  <2> QED
    BY <2>1 DEF MatchInv, TypeOK, TableOK, RequestRecord
<1>3. ASSUME NEW r \in Requests, Dispatch(r) PROVE MatchInv'
  <2>1. \A v \in Requests : v # r => req'[v] = req[v]
    BY <1>3 DEF Dispatch, TypeOK, TableOK
  <2>2. req'[r].state = "pending" /\ req'[r].answer = Nobody
    BY <1>3 DEF Dispatch, TypeOK, TableOK
  <2> QED
    BY <2>1, <2>2 DEF MatchInv
<1>4. ASSUME NEW r \in Requests, Cancel(r) PROVE MatchInv'
  <2>1. \A v \in Requests : req'[v] \in {req[v], [req[v] EXCEPT !.state = "cancelled"]}
    BY <1>4, CancelOwn
  <2> QED
    BY <2>1 DEF MatchInv, TypeOK, TableOK, RequestRecord
<1>5. ASSUME NEW c \in Links, HandleResponse(c) PROVE MatchInv'
  <2>1. PICK id \in Ids, to \in Owners :
             /\ Due(link[cur], <<id, to>>)
             /\ req' = [r \in Requests |->
                          IF r = pending[id]
                          THEN [req[r] EXCEPT !.state = "answered", !.answer = to]
                          ELSE req[r]]
    BY <1>5, ResponseIsDue
  <2>2. pending[id] \in {to, Nobody}
    <3> DEFINE q == <<id, to>>
    <3>1. q \in Ids \X Owners /\ q[1] = id /\ q[2] = to /\ Due(link[cur], q)
      BY <2>1
    <3> HIDE DEF q
    <3> QED
      BY <3>1 DEF DueInv
  <2>3. ASSUME NEW r \in Requests, r = pending[id]
        PROVE  req'[r].answer = r
    <3>1. to = r
      BY <2>2, <2>3, OwnerAssumption
    <3>2. req'[r] = [req[r] EXCEPT !.state = "answered", !.answer = to]
      BY <2>1, <2>3
    <3> QED
      BY <3>1, <3>2 DEF TypeOK, TableOK, RequestRecord
  <2>4. \A r \in Requests : r # pending[id] => req'[r] = req[r]
    BY <2>1
  <2> QED
    BY <2>3, <2>4 DEF MatchInv
<1>6. CASE LinkLost \/ Exit \/ WatcherFires
  BY <1>1, <1>2, <1>6 DEF LinkLost, Exit, WatcherFires
<1>7. CASE RoomTask /\ ~LinkLost
  BY <1>1, <1>7 DEF RoomTask, OpeningFails, StartupSucceeds, ReconnectSucceeds, ReopenNext,
     ReopenFails, AttemptTimesOut, LinkClosed
<1>8. CASE \/ Wake \/ DeadlinePasses \/ DialSucceeds \/ DialFails \/ DismissCloses
           \/ ExitCompletes \/ Enter \/ DispatchOnClosedLink \/ Terminated \/ UNCHANGED vars
  BY <1>1, <1>8 DEF Wake, DeadlinePasses, DialSucceeds, DialFails, DismissCloses, Enter,
     ExitCompletes, DispatchOnClosedLink, Terminated
<1>9. CASE Server
  <2>1. UNCHANGED req
    BY <1>9 DEF Server, ServerIsReady, ServerDismisses, ServerAnswers, LinkDrops
  <2> QED
    BY <1>1, <2>1
<1>10. ASSUME NEW c \in Links, HandleReady(c) \/ HandleDismiss(c) PROVE MatchInv'
  BY <1>1, <1>10 DEF HandleReady, HandleDismiss
<1> QED
  BY <1>3, <1>4, <1>5, <1>6, <1>7, <1>8, <1>9, <1>10 DEF Next, Handlers, Users

-----------------------------------------------------------------------------
(* The inductive invariant for patient users *)
PatientInv ==
    /\ TypeOK /\ SilentInv /\ PromiseInv /\ RoomInv /\ TableInv
    /\ FreshInv /\ UsedInv /\ DueInv /\ MatchInv

LEMMA InitPatient == Init => PatientInv
  BY InitTypes, InitSilent, InitPromise, InitRoom, InitDue, InitMatch DEF PatientInv

LEMMA NextPatient ==
    ASSUME PatientUsers, PatientInv, [Next]_vars
    PROVE  PatientInv'
<1>1. TypeOK'
  BY LinkTypes, TaskTypes, FlagTypes, TableTypes DEF TypeOK, PatientInv
<1>2. SilentInv' /\ PromiseInv'
  BY NextSilent, NextPromise DEF PatientInv
<1>3. RoomInv' /\ TableInv'
  BY NextRoom, NextTable DEF PatientInv
<1>4. FreshInv' /\ UsedInv' /\ DueInv' /\ MatchInv'
  BY NextFresh, NextDue, NextMatch DEF PatientInv
<1> QED
  BY <1>1, <1>2, <1>3, <1>4 DEF PatientInv

(* Ids start again at 1 on every connection, and answers carry nothing but *)
(* an id; still each caller of send_request gets the answer to its own     *)
(* request and to no other.                                                *)
THEOREM AnswersMatch ==
    ASSUME PatientUsers
    PROVE  Spec => []ResponseMatchesRequest
<1>1. PatientInv => ResponseMatchesRequest
  BY DEF PatientInv, MatchInv, ResponseMatchesRequest
<1>2. PatientInv /\ [Next]_vars => PatientInv'
  BY NextPatient
<1> QED
  BY <1>1, <1>2, InitPatient, PTL DEF Spec

(* Whoever waits, waits on the current connection and stands in the table  *)
(* under its id: an answer, a disconnect or __aexit__ finds it there.      *)
THEOREM PendingIsCurrent ==
    ASSUME PatientUsers
    PROVE  Spec => []PendingOnCurrentLink
<1>1. PatientInv => PendingOnCurrentLink
  BY DEF PatientInv, TableInv, PendingOnCurrentLink
<1>2. PatientInv /\ [Next]_vars => PatientInv'
  BY NextPatient
<1> QED
  BY <1>1, <1>2, InitPatient, PTL DEF Spec

-----------------------------------------------------------------------------
(* A step of a room that is over *)
LEMMA OverSteps ==
    ASSUME PatientUsers, PatientInv, [Next]_vars, roomClosed \/ (terminal /\ ~closing)
    PROVE  cur' = cur /\ (connected' => connected)
<1> USE DEF vars, taskVars, flagVars, tableVars
<1>0. /\ phase \in {"created", "ended", "crashed"} \/ GivenUp
      /\ phase = "created" => closing
  BY DEF PatientInv, RoomInv
<1>1. CASE Enter \/ StartupSucceeds \/ ReconnectSucceeds \/ ReopenNext
  BY <1>0, <1>1 DEF Enter, StartupSucceeds, ReconnectSucceeds, ReopenNext, GivenUp
<1>2. CASE LinkClosed
  BY <1>0, <1>2 DEF LinkClosed, GivenUp
<1>3. CASE Wake
  BY <1>0, <1>3 DEF Wake, GivenUp
<1>4. CASE \/ ReopenFails \/ AttemptTimesOut \/ LinkLost \/ DeadlinePasses \/ DialSucceeds
           \/ DismissCloses \/ WatcherFires \/ ExitCompletes
           \/ DispatchOnClosedLink \/ Exit \/ Terminated \/ UNCHANGED vars
  BY <1>4 DEF ReopenFails, AttemptTimesOut, LinkLost, MarkDisconnected,
     DeadlinePasses, DialSucceeds, DismissCloses, WatcherFires, ExitCompletes,
     DispatchOnClosedLink, Exit, Terminated
<1>8. CASE OpeningFails \/ DialFails
  BY <1>8 DEF OpeningFails, DialFails
<1>5. CASE Server
  <2>1. UNCHANGED <<cur, connected>>
    BY <1>5 DEF Server, ServerIsReady, ServerDismisses, ServerAnswers, LinkDrops
  <2> QED
    BY <2>1
<1>6. ASSUME NEW r \in Requests, Dispatch(r) \/ Cancel(r) PROVE UNCHANGED <<cur, connected>>
  BY <1>6 DEF Dispatch, Cancel
<1>7. ASSUME NEW c \in Links, HandleReady(c) \/ HandleDismiss(c) \/ HandleResponse(c)
      PROVE  UNCHANGED <<cur, connected>>
  BY <1>7 DEF HandleReady, HandleDismiss, HandleResponse
<1> QED
  BY <1>1, <1>2, <1>3, <1>4, <1>5, <1>6, <1>7, <1>8 DEF Next, RoomTask, Handlers, Users

(* A step of a room that is being left, awake: the loop tests `closing`    *)
(* before it sleeps and before its first attempt.                          *)
LEMMA LeavingSteps ==
    ASSUME TypeOK, SilentInv, [Next]_vars, closing, phase # "backoff"
    PROVE  cur' = cur /\ phase' # "backoff"
<1> USE DEF vars, taskVars, flagVars, tableVars
<1>1. CASE Enter \/ StartupSucceeds \/ ReconnectSucceeds \/ ReopenNext
  BY <1>1 DEF Enter, StartupSucceeds, ReconnectSucceeds, ReopenNext, Resynchronise, Connect,
     TearDown
<1>2. CASE LinkClosed
  BY <1>2 DEF LinkClosed, FirstAttempt, Loop, MayRetry, TimedOut, Conclude
<1>3. CASE Wake
  BY <1>3 DEF Wake
<1>4. CASE OpeningFails \/ DialFails \/ ReopenFails \/ AttemptTimesOut \/ LinkLost
  BY <1>4 DEF OpeningFails, DialFails, LeaveOpening, Conclude, ReopenFails, TearDown,
     AttemptTimesOut, LinkLost
<1>5. CASE \/ DeadlinePasses \/ DialSucceeds \/ DismissCloses \/ WatcherFires
           \/ ExitCompletes \/ DispatchOnClosedLink \/ Exit \/ Terminated \/ UNCHANGED vars
  BY <1>5 DEF DeadlinePasses, DialSucceeds, DismissCloses, WatcherFires, ExitCompletes,
     DispatchOnClosedLink, Exit, Terminated
<1>6. CASE Server
  <2>1. UNCHANGED <<cur, phase>>
    BY <1>6 DEF Server, ServerIsReady, ServerDismisses, ServerAnswers, LinkDrops
  <2> QED
    BY <2>1
<1>7. ASSUME NEW r \in Requests, Dispatch(r) \/ Cancel(r)
      PROVE  cur' = cur /\ phase' # "backoff"
  BY <1>7 DEF Dispatch, Cancel
<1>8. ASSUME NEW c \in Links, HandleReady(c) \/ HandleDismiss(c) \/ HandleResponse(c)
      PROVE  UNCHANGED <<cur, phase>>
  BY <1>8 DEF HandleReady, HandleDismiss, HandleResponse
<1> QED
  BY <1>1, <1>2, <1>3, <1>4, <1>5, <1>6, <1>7, <1>8 DEF Next, RoomTask, Handlers, Users

(* A room that is over (closed, or ended by a close that is not an error)  *)
(* makes no further connection and is never connected again; a room that   *)
(* is being left dials again only out of the sleep of its retry loop, and  *)
(* once at most.                                                           *)
THEOREM StaysOver ==
    ASSUME PatientUsers
    PROVE  Spec => OverForGood
<1>1. PatientInv /\ [Next]_vars => PatientInv'
  BY NextPatient
<1>2. PatientInv /\ [Next]_vars
        => [/\ roomClosed \/ (terminal /\ ~closing)
                 => cur' = cur /\ (connected' => connected)
            /\ closing /\ phase # "backoff" => cur' = cur /\ phase' # "backoff"]_vars
  BY OverSteps, LeavingSteps DEF PatientInv
<1> QED
  BY <1>1, <1>2, InitPatient, PTL DEF Spec, OverForGood

-----------------------------------------------------------------------------
(* The room as its users see it is a RoomSession. *)
Call == [r \in Requests |->
            IF req[r].state = "answered" /\ req[r].answer # r THEN "wrong" ELSE req[r].state]
Online == connected /\ ~closing

LEMMA CallOf ==
    ASSUME MatchInv, NEW r \in Requests
    PROVE  Call[r] = req[r].state
  BY DEF MatchInv, Call

(* A step that leaves the requests and the connection alone *)
LEMMA SessionStands ==
    ASSUME UNCHANGED req, Online' = Online,
           \/ terminal' = terminal
           \/ ~Online /\ ~terminal /\ terminal' = TRUE
    PROVE  Session!Next \/ UNCHANGED Session!vars
  BY DEF Online, Session!Next, Session!GiveUp, Session!vars

LEMMA SessionOnline ==
    ASSUME TypeOK, RoomInv, UNCHANGED <<req, closing, terminal>>,
           phase \in {"opening", "resync"}, connected' = TRUE
    PROVE  Session!Next \/ UNCHANGED Session!vars
<1>1. CASE closing
  BY <1>1, SessionStands DEF Online
<1>2. CASE ~closing
  <2>1. ~Online /\ Online' /\ ~terminal
    BY <1>2 DEF RoomInv, ConnectedIsWatched, GivenUp, Online
  <2> QED
    BY <1>2, <2>1 DEF Session!Next, Session!GoOnline, Online
<1> QED
  BY <1>1, <1>2

LEMMA CallsFail ==
    ASSUME TypeOK, TableInv, MatchInv, MatchInv', FailPendingWork
    PROVE  Call' = [r \in Requests |-> IF Call[r] = "pending" THEN "failed" ELSE Call[r]]
<1>1. ASSUME NEW r \in Requests
      PROVE  Call'[r] = IF Call[r] = "pending" THEN "failed" ELSE Call[r]
  <2>1. Call[r] = req[r].state
    BY CallOf
  <2>2. Call'[r] = req'[r].state
    BY DEF MatchInv, Call
  <2>3. Waiting(r) <=> req[r].state = "pending"
    BY DEF TableInv, Pending, Waiting
  <2>4. req'[r].state = IF Waiting(r) THEN "failed" ELSE req[r].state
    BY DEF FailPendingWork, TypeOK, TableOK, RequestRecord
  <2> QED
    BY <2>1, <2>2, <2>3, <2>4
<1> QED
  BY <1>1 DEF Call

LEMMA SessionOffline ==
    ASSUME TypeOK, RoomInv, TableInv, MatchInv, MatchInv', FailPendingWork, connected' = FALSE,
           terminal' \in {terminal, TRUE}
    PROVE  Session!Next \/ UNCHANGED Session!vars
<1>0. ~Online' /\ terminal \in BOOLEAN
  BY DEF Online, TypeOK, FlagsOK
<1>1. Call' = [r \in Requests |-> IF Call[r] = "pending" THEN "failed" ELSE Call[r]]
  BY CallsFail
<1>2. CASE Online
  <2>1. Session!GoOffline
    BY <1>0, <1>1, <1>2 DEF Session!GoOffline, Online, Call
  <2> QED
    BY <2>1 DEF Session!Next
<1>3. CASE ~Online
  <2>1. ASSUME NEW r \in Requests PROVE Call[r] # "pending"
    <3>1. ~(connected /\ ~terminal)
      BY <1>3 DEF Online, RoomInv
    <3> QED
      BY <3>1, CallOf DEF TableInv, Pending
  <2>2. Call' = Call
    BY <1>1, <2>1 DEF Call
  <2>3. CASE terminal' = terminal
    BY <1>0, <1>3, <2>2, <2>3 DEF Session!vars, Online, Call
  <2>4. CASE ~terminal /\ terminal' = TRUE
    <3>1. Session!GiveUp
      BY <1>0, <1>3, <2>2, <2>4 DEF Session!GiveUp, Online, Call
    <3> QED
      BY <3>1 DEF Session!Next
  <2> QED
    BY <1>0, <2>3, <2>4
<1> QED
  BY <1>2, <1>3

(* One call changes *)
LEMMA CallChanges ==
    ASSUME MatchInv, MatchInv', NEW r \in Requests,
           \A v \in Requests : v # r => req'[v].state = req[v].state
    PROVE  Call[r] = req[r].state /\ Call' = [Call EXCEPT ![r] = req'[r].state]
<1>1. \A v \in Requests : Call[v] = req[v].state
  BY CallOf
<1>2. \A v \in Requests : Call'[v] = req'[v].state
  BY DEF MatchInv, Call
<1>3. Call = [v \in Requests |-> Call[v]] /\ Call' = [v \in Requests |-> Call'[v]]
  BY DEF Call
<1> HIDE DEF Call
<1>4. Call' = [v \in Requests |-> req'[v].state] /\ Call = [v \in Requests |-> req[v].state]
  BY <1>1, <1>2, <1>3
<1> QED
  BY <1>1, <1>4

LEMMA SessionSteps ==
    ASSUME PatientUsers, PatientInv, PatientInv', [Next]_vars
    PROVE  Session!Next \/ UNCHANGED Session!vars
<1> USE DEF vars, taskVars, flagVars, tableVars
<1>0. /\ TypeOK /\ SilentInv /\ RoomInv /\ TableInv /\ UsedInv /\ DueInv /\ MatchInv /\ MatchInv'
      /\ terminal \in BOOLEAN /\ connected \in BOOLEAN /\ closing \in BOOLEAN
  BY DEF PatientInv, TypeOK, FlagsOK
<1>1. CASE StartupSucceeds
  BY <1>0, <1>1, SessionOnline DEF StartupSucceeds, Connect
<1>2. CASE ReconnectSucceeds \/ ReopenNext
  <2>1. /\ UNCHANGED <<req, closing, terminal>> /\ phase \in {"opening", "resync"}
        /\ connected' \in {connected, TRUE}
    BY <1>2 DEF ReconnectSucceeds, ReopenNext, Resynchronise, Connect
  <2>2. CASE connected' = TRUE
    BY <1>0, <2>1, <2>2, SessionOnline
  <2>3. CASE connected' = connected
    BY <2>1, <2>3, SessionStands DEF Online
  <2> QED
    BY <2>1, <2>2, <2>3
<1>3. CASE OpeningFails \/ DialFails \/ LinkClosed \/ Wake
  <2>1. UNCHANGED <<req, closing, connected>> /\ phase # "watching" /\ terminal' \in {terminal, TRUE}
    BY <1>3 DEF OpeningFails, DialFails, LinkClosed, Wake, LeaveOpening, Conclude,
       FirstAttempt, Attempt, Loop, Sleep, TimedOut
  <2>2. ~Online
    BY <1>0, <2>1 DEF RoomInv, ConnectedIsWatched, Online
  <2> QED
    BY <1>0, <2>1, <2>2, SessionStands DEF Online
<1>4. CASE LinkLost
  <2>1. CASE closing
    BY <1>4, <2>1, SessionStands DEF LinkLost, Online
  <2>2. CASE ~closing
    <3>1. FailPendingWork /\ connected' = FALSE /\ terminal' \in {terminal, TRUE}
      BY <1>0, <1>4, <2>2 DEF LinkLost, MarkDisconnected
    <3> QED
      BY <1>0, <3>1, SessionOffline
  <2> QED
    BY <2>1, <2>2
<1>5. CASE Exit
  <2>1. FailPendingWork /\ connected' = FALSE /\ terminal' \in {terminal, TRUE}
    BY <1>5 DEF Exit, MarkDisconnected
  <2> QED
    BY <1>0, <2>1, SessionOffline
<1>6. CASE \/ Enter \/ ReopenFails \/ AttemptTimesOut \/ DeadlinePasses \/ DialSucceeds
           \/ DismissCloses \/ ExitCompletes \/ Terminated \/ UNCHANGED vars
  <2>1. UNCHANGED <<req, closing, connected, terminal>>
    BY <1>6 DEF Enter, ReopenFails, AttemptTimesOut, DeadlinePasses, DialSucceeds,
       DismissCloses, ExitCompletes, Terminated
  <2> QED
    BY <2>1, SessionStands DEF Online
<1>7. CASE Server
  <2>1. UNCHANGED <<req, closing, connected, terminal>>
    BY <1>7 DEF Server, ServerIsReady, ServerDismisses, ServerAnswers, LinkDrops
  <2> QED
    BY <2>1, SessionStands DEF Online
<1>8. CASE DispatchOnClosedLink \/ WatcherFires
  BY <1>0, <1>8 DEF DispatchOnClosedLink, WatcherFires, WatcherDue, PatientUsers, RoomInv
<1>9. ASSUME NEW r \in Requests, Dispatch(r) PROVE Session!Next
  <2>1. /\ req[r].state = "idle" /\ req'[r].state = "pending"
        /\ \A v \in Requests : v # r => req'[v].state = req[v].state
        /\ UNCHANGED <<connected, closing, terminal>>
    BY <1>0, <1>9 DEF Dispatch, TypeOK, TableOK
  <2>2. Online
    BY <1>0, <1>9 DEF Dispatch, MaySend, PatientUsers, RoomInv, Online
  <2>3. Call[r] = "idle" /\ Call' = [Call EXCEPT ![r] = "pending"]
    BY <1>0, <2>1, CallChanges
  <2>4. Session!Issue(r)
    BY <2>1, <2>2, <2>3 DEF Session!Issue, Online, Call
  <2> QED
    BY <2>4 DEF Session!Next
<1>10. ASSUME NEW r \in Requests, Cancel(r) PROVE Session!Next
  <2>0. req[r].state = "pending" /\ UNCHANGED <<connected, closing, terminal>>
    BY <1>10 DEF Cancel
  <2>1. /\ req'[r].state = "cancelled"
        /\ \A v \in Requests : v # r => req'[v].state = req[v].state
    BY <1>0, <1>10, CancelOwn DEF TypeOK, TableOK, RequestRecord
  <2>2. Online
    BY <1>0, <2>0 DEF TableInv, Pending, RoomInv, Online
  <2>3. Call[r] = "pending" /\ Call' = [Call EXCEPT ![r] = "cancelled"]
    BY <1>0, <2>0, <2>1, CallChanges
  <2>4. Session!Cancel(r)
    BY <2>0, <2>2, <2>3 DEF Session!Cancel, Online, Call
  <2> QED
    BY <2>4 DEF Session!Next
<1>11. ASSUME NEW c \in Links, HandleReady(c) \/ HandleDismiss(c)
       PROVE  Session!Next \/ UNCHANGED Session!vars
  <2>1. UNCHANGED <<req, closing, connected, terminal>>
    BY <1>11 DEF HandleReady, HandleDismiss
  <2> QED
    BY <2>1, SessionStands DEF Online
<1>12. ASSUME NEW c \in Links, HandleResponse(c)
       PROVE  Session!Next \/ UNCHANGED Session!vars
  <2>1. PICK id \in Ids, to \in Owners :
             req' = [r \in Requests |->
                          IF r = pending[id]
                          THEN [req[r] EXCEPT !.state = "answered", !.answer = to]
                          ELSE req[r]]
    BY <1>0, <1>12, ResponseIsDue
  <2>2. UNCHANGED <<connected, closing, terminal>>
    BY <1>12 DEF HandleResponse
  <2>3. CASE pending[id] \notin Requests
    <3>1. req' = [r \in Requests |-> req[r]]
      BY <2>1, <2>3
    <3>2. req' = req
      BY <1>0, <3>1 DEF TypeOK, TableOK
    <3> QED
      BY <2>2, <3>2, SessionStands DEF Online
  <2>4. ASSUME NEW r \in Requests, pending[id] = r PROVE Session!Next
    <3>1. req[r].state = "pending"
      BY <1>0, <2>4 DEF TableInv, Pending
    <3>2. Online
      BY <1>0, <3>1 DEF TableInv, Pending, RoomInv, Online
    <3>3. /\ req'[r].state = "answered"
          /\ \A v \in Requests : v # r => req'[v].state = req[v].state
      BY <1>0, <2>1, <2>4 DEF TypeOK, TableOK, RequestRecord
    <3>4. Call[r] = "pending" /\ Call' = [Call EXCEPT ![r] = "answered"]
      BY <1>0, <3>1, <3>3, CallChanges
    <3>5. Session!Answer(r)
      BY <2>2, <3>2, <3>4 DEF Session!Answer, Online, Call
    <3> QED
      BY <3>5 DEF Session!Next
  <2> QED
    BY <2>3, <2>4
<1> QED
  BY <1>1, <1>2, <1>3, <1>4, <1>5, <1>6, <1>7, <1>8, <1>9, <1>10, <1>11, <1>12
     DEF Next, RoomTask, Handlers, Users

(* To its users a room is a RoomSession: a call is accepted only while the *)
(* room is online and ends with its own answer, by its own cancellation,   *)
(* or in the very step in which the room goes offline.                     *)
THEOREM SessionImplemented ==
    ASSUME PatientUsers
    PROVE  Spec => ImplementsSession
<1>1. Init => Session!Init
  <2> SUFFICES ASSUME Init PROVE Session!Init
    OBVIOUS
  <2>1. \A r \in Requests : req[r].state = "idle"
    BY DEF Init
  <2> QED
    BY <2>1 DEF Init, Session!Init
<1>2. PatientInv /\ [Next]_vars => PatientInv'
  BY NextPatient
<1>3. PatientInv /\ PatientInv' /\ [Next]_vars => [Session!Next]_(Session!vars)
  BY SessionSteps
<1> QED
  BY <1>1, <1>2, <1>3, InitPatient, PTL DEF Spec, ImplementsSession, Session!Spec

=============================================================================
