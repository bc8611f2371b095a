----------------------------- MODULE FilesClient -----------------------------
(***************************************************************************)
(* files.py: FilesClient and TargetFilesClient, the client of the files    *)
(* endpoint.  Where that is stands in the deployment's config; the first   *)
(* task that needs it fetches the config under a lock and keeps the result *)
(* for all.  Every operation then is one request that must be answered     *)
(* with a status of 200 to 299 (redirects are not followed); list goes on  *)
(* while the server names a next page.                                     *)
(***************************************************************************)
EXTENDS Naturals, FiniteSets, Sequences

CONSTANTS
    Tasks,       \* tasks that use one FilesClient
    Files        \* the files there may be: numbers from 1, in the server's order

VARIABLES
    endpoint,    \* whether _base_url is set
    lock,        \* the task that holds _discovery_lock, if any
    task,        \* what each task is at
    folder,      \* the files the server has
    configs      \* how often it was asked for its config and answered with a domain

vars == <<endpoint, lock, task, folder, configs>>

-----------------------------------------------------------------------------
Operations ==
    {"permissions", "list", "stat", "exists", "download", "upload", "delete", "mkdir",
     "copy", "move", "presign"}

(* What is left of an operation once it has been called: only list goes on, only
   exists catches *)
Kept(operation) == IF operation \in {"list", "exists"} THEN operation ELSE "other"
Kinds == {Kept(operation) : operation \in Operations}

Idle ==
    [phase |-> "idle", operation |-> "", token |-> 0, seen |-> {}, got |-> <<>>,
     stood |-> {}, honest |-> TRUE, requests |-> 0, outcome |-> ""]

Init ==
    /\ endpoint = FALSE /\ lock = {} /\ configs = 0
    /\ task = [t \in Tasks |-> Idle]
    /\ folder \in SUBSET Files

At(t, phase) == task[t].phase = phase
Over(t, outcome) ==
    [Idle EXCEPT !.operation = task[t].operation, !.phase = "over", !.outcome = outcome]

(* An operation is called: the path and the bounds are looked at first *)
Call(t, kind) ==
    /\ At(t, "idle")
    /\ task' = [task EXCEPT ![t] =
           [Idle EXCEPT !.operation = kind, !.phase = "waiting",
                        !.stood = IF kind = "list" THEN folder ELSE {}]]
    /\ UNCHANGED <<endpoint, lock, folder, configs>>

RefuseArguments(t, kind) ==
    /\ At(t, "idle")
    /\ task' = [task EXCEPT ![t] =
           [Idle EXCEPT !.operation = kind, !.phase = "over", !.outcome = "ValueError"]]
    /\ UNCHANGED <<endpoint, lock, folder, configs>>

(* (mutant of MayEnter: nobody waits for the lock) *)
MayEnterAtOnce == TRUE

MayEnter == lock = {}

(* _endpoint: the lock, and the config if nobody has had it yet *)
Known(t) ==
    /\ At(t, "waiting") /\ MayEnter /\ endpoint
    /\ task' = [task EXCEPT ![t].phase = "asking"]
    /\ UNCHANGED <<endpoint, lock, folder, configs>>

Discover(t) ==
    /\ At(t, "waiting") /\ MayEnter /\ ~endpoint
    /\ lock' = {t}
    /\ task' = [task EXCEPT ![t].phase = "discovering"]
    /\ UNCHANGED <<endpoint, folder, configs>>

(* What an operation makes of an exception: exists catches NotFoundError *)
Raised(t, error) ==
    IF task[t].operation = "exists" /\ error = "NotFoundError" THEN "False" ELSE error

(* get_config answers: a domain that makes an endpoint, none or one that makes
   none, or 404, which exists takes for the file's; the lock is released in each case *)
Discovered(t) ==
    /\ At(t, "discovering")
    /\ lock' = {}
    /\ \/ /\ endpoint' = TRUE /\ configs' = configs + 1
          /\ task' = [task EXCEPT ![t].phase = "asking"]
       \/ /\ \E error \in {"RoomException", "NotFoundError"} :
                 task' = [task EXCEPT ![t] = Over(t, Raised(t, error))]
          /\ UNCHANGED <<endpoint, configs>>
    /\ UNCHANGED folder

-----------------------------------------------------------------------------
(* What the server has for a listing: all the files after the token, or those up
   to one with more beyond it, which is then the token of the next page *)
After(token) == {f \in folder : f > token}

Page(t, last) ==
    IF last = 0 THEN After(task[t].token) ELSE {f \in After(task[t].token) : f <= last}

Cuts(t) == {0} \cup {f \in After(task[t].token) : After(f) # {}}

OthersChange(f) ==
    /\ folder' = IF f \in folder THEN folder \ {f} ELSE folder \cup {f}
    /\ task' = [t \in Tasks |-> [task[t] EXCEPT !.stood = @ \ {f}]]
    /\ UNCHANGED <<endpoint, lock, configs>>

-----------------------------------------------------------------------------
(* _check_response, and a connection that breaks under the answer *)
Accepts(status) == 200 <= status /\ status < 300

Failure(status) == IF status = 404 THEN "NotFoundError" ELSE "RoomException"

(* The answer of a request that is refused, the connection's end, a success *)
TakeFailure(t, status) ==
    /\ At(t, "asking") /\ ~Accepts(status)
    /\ task' = [task EXCEPT ![t] = Over(t, Raised(t, Failure(status)))]
    /\ UNCHANGED <<endpoint, lock, folder, configs>>

Breaks(t) ==
    /\ At(t, "asking")
    /\ task' = [task EXCEPT ![t] = Over(t, "ClientError")]
    /\ UNCHANGED <<endpoint, lock, folder, configs>>

TakeAnswer(t) ==
    /\ At(t, "asking") /\ task[t].operation # "list"
    /\ task' = [task EXCEPT ![t] = Over(t, "value")]
    /\ UNCHANGED <<endpoint, lock, folder, configs>>

(* (mutant of Remembered: the tokens are not kept) *)
NotRemembered(t, token) == {}

(* The tokens a listing has been given *)
Remembered(t, token) == task[t].seen \cup {token}

(* list: one page, and the next if the server names one that is new; a faulty
   server may name any *)
TakePage(t, last, next) ==
    /\ At(t, "asking") /\ task[t].operation = "list"
    /\ LET collected == [task[t] EXCEPT
               !.got = Append(@, Page(t, last)), !.requests = @ + 1,
               !.honest = @ /\ next = last]
       IN task' = [task EXCEPT ![t] =
              IF next = 0 THEN [collected EXCEPT !.phase = "over", !.outcome = "value"]
              ELSE IF next \in collected.seen
              THEN [collected EXCEPT !.phase = "over", !.outcome = "RoomException"]
              ELSE [collected EXCEPT !.phase = "waiting", !.token = next,
                                     !.seen = Remembered(t, next)]]
    /\ UNCHANGED <<endpoint, lock, folder, configs>>

Return(t) ==
    /\ At(t, "over")
    /\ task' = [task EXCEPT ![t] = Idle]
    /\ UNCHANGED <<endpoint, lock, folder, configs>>

Next ==
    \/ \E t \in Tasks :
        \/ \E kind \in Kinds : Call(t, kind) \/ RefuseArguments(t, kind)
        \/ Known(t)
        \/ Discover(t)
        \/ Discovered(t)
        \/ \E status \in {307, 403, 404} : TakeFailure(t, status)
        \/ Breaks(t)
        \/ TakeAnswer(t)
        \/ \E last \in Cuts(t), next \in {0} \cup Files : TakePage(t, last, next)
        \/ Return(t)
    \/ \E f \in Files : OthersChange(f)

Spec == Init /\ [][Next]_vars

-----------------------------------------------------------------------------
(* Properties *)

TypeOK ==
    /\ endpoint \in BOOLEAN /\ lock \subseteq Tasks /\ folder \subseteq Files
    /\ configs \in Nat
    /\ \A t \in Tasks :
        /\ task[t].operation \in Kinds \cup {""}
        /\ task[t].phase \in {"idle", "waiting", "discovering", "asking", "over"}

(* The endpoint is found once, however many tasks ask for it at the same time
   and however often finding it failed before *)
DiscoveredOnce ==
    /\ configs <= 1
    /\ Cardinality({t \in Tasks : At(t, "discovering")}) <= 1

(* A listing that comes to its end holds every file that was there all the
   while, once; and if the server goes round in circles the listing does not:
   it makes at most one request per token, and the first *)
ListingEnds ==
    \A t \in Tasks : task[t].operation = "list" =>
        /\ task[t].requests <= Cardinality(Files) + 1
        /\ At(t, "over") /\ task[t].outcome = "value" /\ task[t].honest =>
            /\ \A f \in task[t].stood : \E k \in DOMAIN task[t].got : f \in task[t].got[k]
            /\ \A j, k \in DOMAIN task[t].got :
                   j # k => task[t].got[j] \cap task[t].got[k] = {}

=============================================================================
