--------------------------- MODULE ReconnectProofs ---------------------------
(***************************************************************************)
(* A theorem about a room with reconnect_timeout=0, as MCRoomReconnect     *)
(* puts it beside one without a deadline: for every set of requests and    *)
(* every bound.                                                            *)
(***************************************************************************)
EXTENDS MCRoomReconnect, TLAPS

-----------------------------------------------------------------------------
(* The retry loop is never entered: the first opening is final, and so is  *)
(* the first loss of the link.                                             *)
ZeroStands ==
    /\ cur = 1 /\ ~retrying /\ after # "retry"
    /\ phase \notin {"backoff", "resync"}
    /\ phase \in {"created", "opening"} => ~entered

LEMMA TaskKeeps ==
    ASSUME ZeroStands,
           \/ Zero!RoomTask \/ Zero!Wake \/ Zero!DeadlinePasses
           \/ Zero!DialSucceeds \/ Zero!DialFails
    PROVE  ZeroStands'
<1> USE DEF ZeroStands, Zero!taskVars, Zero!flagVars
<1>1. CASE Zero!DialFails \/ Zero!OpeningFails
  BY <1>1 DEF Zero!DialFails, Zero!OpeningFails, Zero!LeaveOpening, Zero!AfterFailedOpening,
     Zero!Conclude
<1>2. CASE Zero!LinkClosed \/ Zero!Wake
  BY <1>2 DEF Zero!LinkClosed, Zero!Wake, Zero!MayReconnect, Zero!TimedOut, Zero!Conclude
<1>3. CASE Zero!StartupSucceeds
  BY <1>3 DEF Zero!StartupSucceeds, Zero!Connect
<1>4. CASE \/ Zero!ReconnectSucceeds \/ Zero!ReopenNext \/ Zero!ReopenFails
           \/ Zero!AttemptTimesOut \/ Zero!DeadlinePasses
  BY <1>4 DEF Zero!ReconnectSucceeds, Zero!ReopenNext, Zero!ReopenFails, Zero!AttemptTimesOut,
     Zero!DeadlinePasses
<1>5. CASE Zero!DialSucceeds \/ Zero!LinkLost
  BY <1>5 DEF Zero!DialSucceeds, Zero!LinkLost
<1> QED
  BY <1>1, <1>2, <1>3, <1>4, <1>5 DEF Zero!RoomTask

LEMMA ZeroKeeps ==
    ASSUME ZeroStands, Zero!Next \/ UNCHANGED vars
    PROVE  ZeroStands'
<1> USE DEF ZeroStands, Zero!taskVars, Zero!flagVars
<1>1. CASE \/ Zero!Enter \/ Zero!Exit \/ Zero!ExitCompletes \/ Zero!DismissCloses
           \/ Zero!DispatchOnClosedLink \/ Zero!WatcherFires \/ Zero!Terminated
           \/ UNCHANGED vars
  BY <1>1 DEF Zero!Enter, Zero!Exit, Zero!ExitCompletes, Zero!DismissCloses,
     Zero!DispatchOnClosedLink, Zero!WatcherFires, Zero!Terminated, Zero!vars, vars, taskVars,
     flagVars
<1>2. CASE Zero!Server
  <2>1. UNCHANGED <<cur, Zero!taskVars, Zero!flagVars>>
    BY <1>2 DEF Zero!Server, Zero!ServerIsReady, Zero!ServerDismisses, Zero!ServerAnswers,
       Zero!LinkDrops
  <2> QED
    BY <2>1
<1>3. ASSUME NEW r \in Requests, Zero!Dispatch(r) \/ Zero!Cancel(r)
      PROVE  ZeroStands'
  BY <1>3 DEF Zero!Dispatch, Zero!Cancel
<1>4. ASSUME NEW c \in Zero!Links,
             Zero!HandleReady(c) \/ Zero!HandleDismiss(c) \/ Zero!HandleResponse(c)
      PROVE  ZeroStands'
  <2>1. CASE Zero!HandleReady(c)
    BY <2>1 DEF Zero!HandleReady
  <2>2. CASE Zero!HandleDismiss(c)
    BY <2>2 DEF Zero!HandleDismiss
  <2>3. CASE Zero!HandleResponse(c)
    BY <2>3 DEF Zero!HandleResponse
  <2> QED
    BY <1>4, <2>1, <2>2, <2>3
<1> QED
  BY <1>1, <1>2, <1>3, <1>4, TaskKeeps DEF Zero!Next, Zero!Handlers, Zero!Users

-----------------------------------------------------------------------------
(* A room with reconnect_timeout=0 dials once: __aenter__ raises after the  *)
(* first opening that fails, and _connection_lifecycle ends the room at the *)
(* first loss of its link.                                                  *)
THEOREM DialsOnce == ReconnectSpec => []NoSecondDial
<1> DEFINE OneLink == limit = "zero" => ZeroStands
<1>1. ReconnectInit => OneLink
  BY DEF ReconnectInit, Init, ZeroStands
<1>2. OneLink /\ [ReconnectNext]_<<limit, vars>> => OneLink'
  <2> SUFFICES ASSUME OneLink, [ReconnectNext]_<<limit, vars>>, limit' = "zero"
               PROVE  ZeroStands'
    OBVIOUS
  <2>1. limit = "zero" /\ (Zero!Next \/ UNCHANGED vars)
    BY DEF ReconnectNext
  <2> QED
    BY <2>1, ZeroKeeps
<1>3. OneLink => NoSecondDial
  BY DEF ZeroStands, NoSecondDial, Zero!NoReconnectAtZero
<1> QED
  BY <1>1, <1>2, <1>3, PTL DEF ReconnectSpec

=============================================================================
