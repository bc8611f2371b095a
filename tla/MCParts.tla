------------------------------ MODULE MCParts ------------------------------
(* The parts of the library that stand by themselves, on small instances,  *)
(* for one run of TLC: the REST client, the files client, the service host, *)
(* the request wrappers of the room, backup and restore, the walk over a    *)
(* document's deltas, and the storage grants.  They share nothing: one of   *)
(* them is at work in a behaviour, and the others stay as they started.     *)
EXTENDS Grants, FiniteSets

CONSTANTS a, b,                            \* names in paths
          Entries, PageSize,               \* RestClient
          Tasks, Files,                    \* FilesClient
          Calls, Paths,                    \* ServiceHost
          MaxBatches,                      \* RoomRequests
          Bytes, MaxChunks, MaxFaults,     \* SqliteTransfer
          MaxText, MaxChildren             \* DocumentDeltas

(* Entries and files are named by their places in the server's order, and   *)
(* the bound on a text is a number.                                         *)
ASSUME PartsAssumption ==
    /\ Entries \subseteq Nat \ {0}
    /\ Files \subseteq Nat \ {0} /\ IsFiniteSet(Files)
    /\ MaxText \in Nat

AFewRulePaths == {<<>>, <<a>>, <<a, b>>, <<Dots>>}
AFewActions == {{"list"}, {"list", "delete"}}
ShortPaths == {<<>>, <<a>>, <<b>>, <<a, a>>, <<a, b>>, <<a, b, a>>, <<a, Dots>>}

VARIABLES part,
          session, restCall,
          endpoint, lock, task, folder, configs,
          host, served, awaited, done, calls,
          online, roomCall, held,
          kind, source, input, client, server, up, down,
          text, children, textMade, childrenMade, delta, runs, nodes, position, retain, offset,
          counted, failed, rough

Rest == INSTANCE RestClient WITH call <- restCall
Folder == INSTANCE FilesClient
Host == INSTANCE ServiceHost WITH call <- calls
Requests == INSTANCE RoomRequests WITH call <- roomCall
Transfer == INSTANCE SqliteTransfer
Document == INSTANCE DocumentDeltas WITH done <- counted, i <- position

grantsVars == vars
restVars == <<session, restCall>>
folderVars == <<endpoint, lock, task, folder, configs>>
hostVars == <<host, served, done, awaited, calls>>
requestVars == <<online, roomCall, held>>
transferVars == <<kind, source, input, client, server, up, down>>
documentVars == <<text, children, textMade, childrenMade, delta, runs, nodes, position, retain,
                  offset, counted, failed, rough>>
allVars == <<part, grantsVars, restVars, folderVars, hostVars, requestVars, transferVars,
             documentVars>>

PartsInit ==
    /\ part \in {"grants", "rest", "folder", "host", "requests", "transfer", "document"}
    /\ Init /\ (part # "grants" => files /\ ~listed)
    /\ Rest!Init /\ (part # "rest" => session.owner = "client")
    /\ Folder!Init /\ (part # "folder" => folder = {})
    /\ Host!Init
    /\ Requests!Init
    /\ Transfer!Init /\ (part # "transfer" => kind = "backup" /\ source = <<>>)
    /\ Document!Init

PartsNext ==
    \/ /\ part = "grants" /\ Next
       /\ UNCHANGED <<part, restVars, folderVars, hostVars, requestVars, transferVars,
                      documentVars>>
    \/ /\ part = "rest" /\ Rest!Next
       /\ UNCHANGED <<part, grantsVars, folderVars, hostVars, requestVars, transferVars,
                      documentVars>>
    \/ /\ part = "folder" /\ Folder!Next
       /\ UNCHANGED <<part, grantsVars, restVars, hostVars, requestVars, transferVars,
                      documentVars>>
    \/ /\ part = "host" /\ Host!Next
       /\ UNCHANGED <<part, grantsVars, restVars, folderVars, requestVars, transferVars,
                      documentVars>>
    \/ /\ part = "requests" /\ Requests!Next
       /\ UNCHANGED <<part, grantsVars, restVars, folderVars, hostVars, transferVars,
                      documentVars>>
    \/ /\ part = "transfer" /\ Transfer!Next
       /\ UNCHANGED <<part, grantsVars, restVars, folderVars, hostVars, requestVars,
                      documentVars>>
    \/ /\ part = "document" /\ Document!Next
       /\ UNCHANGED <<part, grantsVars, restVars, folderVars, hostVars, requestVars,
                      transferVars>>

(* Fairness of ServiceHost, while it is at work *)
HostMoves(A) == part = "host" /\ A

PartsFairness ==
    /\ WF_hostVars(HostMoves(Host!HostProceeds))
    /\ \A c \in Calls : /\ WF_hostVars(HostMoves(Host!AgentProceeds(c)))
                        /\ WF_hostVars(HostMoves(Host!RunProceeds(c)))

PartsSpec == PartsInit /\ [][PartsNext]_allVars /\ PartsFairness

-----------------------------------------------------------------------------
(* REST: a call tells what the server answered (OutcomeTells), and a list   *)
(* that is returned is whole (PagesWhole).                                  *)
RestTellsAll ==
    part = "rest" => Rest!TypeOK /\ Rest!OutcomeTells /\ Rest!PagesWhole

(* Files: the endpoint is found once, and a listing ends, is whole and      *)
(* repeats nothing.                                                         *)
FilesTold ==
    part = "folder" => Folder!TypeOK /\ Folder!DiscoveredOnce /\ Folder!ListingEnds

(* The host: once stop() has returned no task of it is in a room, but those *)
(* of calls answered after their path had stopped, or left behind by a     *)
(* stop() that raised before the last start().                             *)
StoppedIsEmpty == part = "host" => Host!TypeOK /\ Host!StoppedIsEmpty

(* Every agent the host started is stopped after its call.                  *)
AgentsEnd == Host!AgentsEnd

(* stop() ends, but for a call that is on its way into a room.              *)
StopEnds == Host!StopEnds

(* The wrappers: no query stays open on the server that the caller has left *)
(* while the room is connected, and errors come as one kind of exception.   *)
QueriesClosed ==
    part = "requests" =>
        Requests!TypeOK /\ Requests!QueriesClosed /\ Requests!OneKindOfError

(* Backup and restore: what is reported as done has moved whole.            *)
TransferredWhole ==
    part = "transfer" =>
        Transfer!TypeOK /\ Transfer!TransferredWhole /\ Transfer!AbortIsNoEnd

(* Documents: the user's copy follows the runtime's document.               *)
CopyAgrees == part = "document" => Document!TypeOK /\ Document!CopyAgrees

=============================================================================
