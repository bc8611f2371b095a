------------------------------ MODULE RestClient ------------------------------
(***************************************************************************)
(* client.py: Meshagent, the client of the accounts service.  Each of its  *)
(* methods sends one request over the client's aiohttp session, looks at   *)
(* the status of the answer and reads its body; get_resource_policy goes   *)
(* on until there are no more pages.  What a caller is told is all that it *)
(* knows of what the server did.                                           *)
(*                                                                         *)
(* A method is known here by how it reads the body of a success:           *)
(*   none      not at all             bytes    as it is                    *)
(*   raw       JSON, any              key      JSON, one field, any type   *)
(*   whole     JSON, validated, a ValidationError becomes a RoomException  *)
(*   text      the same with the parsing inside the try                    *)
(*   items     a list under a key, looked up and validated inside the try  *)
(*   optional  the same, a missing key being an empty list                 *)
(*   filtered  the same, items that are no objects being left out          *)
(*   listed    the same without a try                                      *)
(*   bare      validated without a try                                     *)
(***************************************************************************)
EXTENDS Naturals, FiniteSets, Sequences

CONSTANTS
    Entries,     \* the entries a listing may have: numbers from 1, in the server's order
    PageSize     \* how many of them fit on a page

VARIABLES
    session,     \* the aiohttp session: whose it is, and whether it is closed
    call         \* the call under way

vars == <<session, call>>

-----------------------------------------------------------------------------
(* The methods, in the order of the source *)

Reading(kind, names) == [name : names, reads : {kind}]

Projects ==
    Reading("whole", {"get_config", "create_project"})
    \cup Reading("none", {"upload"})
    \cup Reading("bytes", {"download"})
    \cup Reading("raw", {"add_user_to_project", "remove_user_from_project",
                         "update_project_user"})

ProjectSettings ==
    Reading("raw", {"get_project_settings_document", "set_project_settings_document",
                    "delete_project_settings_document"})

Users ==
    Reading("whole", {"get_users_in_project_page", "get_users_in_project"})
    \cup Reading("raw", {"get_user_profile", "update_user_profile",
                         "update_sysadmin_user_profile"})
    \cup Reading("bare", {"search_sysadmin_users", "get_sysadmin_user_profile"})

ProjectReads ==
    Reading("whole", {"list_projects", "get_project", "get_project_by_key",
                      "get_project_info", "whoami"})

ServiceAccounts ==
    Reading("bare", {"list_service_accounts", "create_service_account",
                     "get_service_account", "get_service_account_by_name"})
    \cup Reading("none", {"update_service_account", "delete_service_account"})

Tokens ==
    Reading("whole", {"mint_participant_token"}) \cup Reading("bare", {"create_api_key"})

Billing ==
    Reading("raw", {"get_pricing", "get_subscription"})
    \cup Reading("whole", {"get_project_status", "get_balance", "get_checkout_url",
                           "get_credits_checkout_url"})
    \cup Reading("optional", {"get_recent_transactions"})
    \cup Reading("none", {"set_auto_recharge"})

Usage ==
    Reading("filtered", {"get_usage", "get_current_user_llm_proxy_usage"})

ApiKeys ==
    Reading("none", {"delete_api_key"})
    \cup Reading("bare", {"revoke_api_keys_by_msid", "list_api_keys"})

SessionLists ==
    Reading("raw", {"get_session"})
    \cup Reading("listed", {"get_session_participant_counts", "list_active_sessions",
            "list_recent_sessions", "list_recent_room_sessions",
            "list_active_agent_sessions", "list_recent_agent_sessions",
            "list_recent_single_agent_sessions"})

SessionDetails ==
    Reading("raw", {"list_session_events", "list_session_spans", "list_session_metrics"})
    \cup Reading("none", {"terminate", "kill_session"})

Mailboxes ==
    Reading("none", {"create_mailbox", "update_mailbox", "delete_mailbox"})
    \cup Reading("bare", {"get_mailbox"})
    \cup Reading("items", {"list_room_mailboxes", "list_room_mailboxes_page",
                           "list_mailboxes", "list_mailboxes_page"})

Deliveries ==
    Reading("bare", {"list_mailbox_deliveries", "get_mailbox_delivery",
                     "list_mailbox_delivery_events"})

NewRoutes == Reading("none", {"create_route"})

CustomDomains ==
    Reading("bare", {"create_custom_domain", "get_custom_domain", "list_custom_domains"})
    \cup Reading("none", {"delete_custom_domain"})

Routes ==
    Reading("none", {"update_route", "delete_route"})
    \cup Reading("bare", {"get_route"})
    \cup Reading("items", {"list_room_routes", "list_room_routes_page",
                           "list_routes", "list_routes_page"})

Feeds ==
    Reading("bare", {"create_feed", "get_feed", "get_feed_by_name"})
    \cup Reading("none", {"update_feed"})
    \cup Reading("items", {"list_feeds", "list_feeds_page"})

RoomFeeds ==
    Reading("items", {"list_room_feeds", "list_room_feeds_page"})
    \cup Reading("none", {"delete_feed", "publish_feed_message", "publish_feed_batch"})

FeedSubscriptions ==
    Reading("bare", {"create_feed_subscription", "get_feed_subscription"})
    \cup Reading("none", {"update_feed_subscription", "delete_feed_subscription"})
    \cup Reading("items", {"list_feed_subscriptions"})

LLMLoggers ==
    Reading("bare", {"create_llm_logger", "get_llm_logger"})
    \cup Reading("none", {"update_llm_logger", "delete_llm_logger"})
    \cup Reading("items", {"list_llm_loggers"})

Templates ==
    Reading("whole", {"render_template"})
    \cup Reading("bare", {"discover_mcp_spec", "discover_mcp_service",
                          "discover_mcp_service_template"})

Services ==
    Reading("whole", {"create_service", "update_service",
                      "create_service_from_template", "update_service_from_template"})

ServiceReads ==
    Reading("text", {"get_service", "get_service_by_name"})
    \cup Reading("items", {"list_services"}) \cup Reading("none", {"delete_service"})

RoomServices ==
    Reading("key", {"create_room_service"}) \cup Reading("raw", {"update_room_service"})
    \cup Reading("bare", {"create_room_service_from_template",
                          "update_room_service_from_template"})

RoomServiceReads ==
    Reading("text", {"get_room_service", "get_room_service_by_name"})
    \cup Reading("items", {"list_room_services"})
    \cup Reading("none", {"delete_room_service"})

Repositories ==
    Reading("whole", {"create_repository", "update_repository", "get_repository",
                      "get_repository_by_name", "create_repository_token"})
    \cup Reading("items", {"list_repositories", "list_repositories_page"})
    \cup Reading("none", {"delete_repository"})

UserSecrets ==
    Reading("whole", {"create_user_secret", "list_user_secrets", "search_user_secrets",
                      "get_user_secret", "update_user_secret"})
    \cup Reading("none", {"delete_user_secret"})

UserSecretVersions ==
    Reading("whole", {"list_user_secret_versions", "create_user_secret_version",
                      "access_user_secret_version", "list_user_secret_proxy_access"})
    \cup Reading("none", {"delete_user_secret_version", "grant_user_secret_proxy_access",
                          "revoke_user_secret_proxy_access"})

AccountSecrets ==
    Reading("whole", {"create_service_account_secret", "list_service_account_secrets",
                      "search_service_account_secrets"})

AccountSecretVersions ==
    Reading("whole", {"get_service_account_secret", "update_service_account_secret",
            "list_service_account_secret_versions", "create_service_account_secret_version",
            "access_service_account_secret_version"})
    \cup Reading("none", {"delete_service_account_secret",
                          "delete_service_account_secret_version"})

PullSecrets ==
    Reading("whole", {"list_service_account_pull_secrets"})
    \cup Reading("none", {"add_service_account_pull_secret",
                          "remove_service_account_pull_secret"})

Rooms ==
    Reading("items", {"validate_participant_token"})
    \cup Reading("whole", {"create_room", "get_room", "get_room_status"})

RoomChanges ==
    Reading("optional", {"list_room_events"})
    \cup Reading("none", {"update_room", "delete_room", "delete_room_storage_connection"})
    \cup Reading("whole", {"list_room_storage_connections",
            "create_room_storage_connection", "update_room_storage_connection"})

Volumes ==
    Reading("whole", {"list_room_volumes", "create_room_volume", "delete_room_volume",
                      "expand_room_volume"})

Groups ==
    Reading("whole", {"create_group", "get_group", "get_group_by_name",
                      "list_groups_page", "list_groups"})
    \cup Reading("none", {"update_group", "delete_group"})

GroupMembers ==
    Reading("none", {"set_group_member", "delete_group_member"})
    \cup Reading("whole", {"list_group_members_page", "list_group_members"})

Agents ==
    Reading("whole", {"create_agent", "get_agent"})
    \cup Reading("none", {"update_agent", "delete_agent"})

Connections ==
    Reading("bare", {"connect_room", "connect_agent", "connect_llm"})

Lists ==
    Reading("whole", {"list_rooms", "list_rooms_page", "list_agents", "list_agents_page"})

Access ==
    Reading("whole", {"test_access", "get_effective_access", "list_access_bindings",
            "list_access_bindings_page", "get_resource_policy_page", "get_resource_policy"})

Policies ==
    Reading("none", {"grant_resource_policy", "revoke_resource_policy"})
    \cup Reading("whole", {"exchange_oauth_token"})

OAuthClients ==
    Reading("whole", {"create_oauth_client", "get_oauth_client"})
    \cup Reading("raw", {"update_oauth_client"})
    \cup Reading("optional", {"list_oauth_clients", "list_oauth_clients_page"})
    \cup Reading("none", {"delete_oauth_client"})

ScheduledTasks ==
    Reading("key", {"create_scheduled_task"})
    \cup Reading("none", {"update_scheduled_task", "delete_scheduled_task"})

ScheduledTaskLists ==
    Reading("optional", {"list_scheduled_tasks", "list_scheduled_tasks_page",
                         "list_scheduled_task_runs", "list_scheduled_task_runs_page"})

Methods ==
    UNION {Projects, ProjectSettings, Users, ProjectReads, ServiceAccounts, Tokens,
           Billing, Usage, ApiKeys, SessionLists, SessionDetails, Mailboxes, Deliveries,
           NewRoutes, CustomDomains, Routes, Feeds, RoomFeeds, FeedSubscriptions, LLMLoggers,
           Templates, Services, ServiceReads, RoomServices, RoomServiceReads, Repositories,
           UserSecrets, UserSecretVersions, AccountSecrets, AccountSecretVersions,
           PullSecrets, Rooms, RoomChanges, Volumes, Groups, GroupMembers, Agents,
           Connections, Lists, Access, Policies, OAuthClients, ScheduledTasks,
           ScheduledTaskLists}

Names(rows) == {row.name : row \in rows}

(* What may be refused before anything is sent *)
ChecksArguments ==
    Names(ProjectSettings)
    \cup {"get_user_profile", "update_user_profile", "create_route", "update_route",
          "create_feed", "update_feed", "create_feed_subscription", "create_llm_logger",
          "update_llm_logger", "discover_mcp_spec", "discover_mcp_service",
          "discover_mcp_service_template", "update_service", "create_scheduled_task",
          "update_scheduled_task"}

-----------------------------------------------------------------------------
(* What a caller is told *)

(* The body of a success: as it should be, with a part of a wrong type, with
   something else where a list is due, without the key, or no JSON *)
Bodies == {"valid", "mistyped", "unlisted", "lacking", "garbage"}
Statuses == {200, 400, 401, 403, 404, 409, 423, 500, 503}

(* Failures that _raise_for_status tells from one another *)
Failure == [s \in 400..599 |->
    CASE s = 404 -> "NotFoundError"
      [] s = 403 -> "PermissionDeniedError"
      [] s = 409 -> "ConflictError"
      [] s = 423 -> "RoomDisabledError"
      [] s = 400 -> "ValidationErrorResponse"
      [] s >= 500 -> "ServerError"
      [] OTHER -> "RoomException"]

Refusals ==
    {"NotFoundError", "PermissionDeniedError", "ConflictError", "RoomDisabledError",
     "ValidationErrorResponse"}

(* Methods that make a plain RoomException of every failure *)
ChecksPlainly == Names(Billing \cup Usage) \cup {"upload", "download", "exchange_oauth_token"}

(* Methods that look at 404 first, and say "... not found" *)
ChecksMissing ==
    {"get_room", "get_room_status", "list_room_events", "get_group", "get_group_by_name",
     "get_agent", "get_oauth_client"}

(* (mutant of Fails: a refusal of the request itself passes for a success) *)
FailsFrom401(status) == status > 400

(* The check every method makes first *)
Fails(status) == status >= 400

(* What a failure becomes; None is what get_project_settings_document returns *)
Told(method, status) ==
    CASE status = 404 /\ method.name = "get_project_settings_document" -> "None"
      [] method.name \in ChecksPlainly -> "RoomException"
      [] status = 404 /\ method.name \in ChecksMissing -> "RoomException"
      [] OTHER -> Failure[status]

(* What reading the body of a success comes to: a value, a RoomException, or
   whatever exception the parsing raised *)
Returns(kind, body) ==
    \/ body = "valid"
    \/ kind \in {"none", "bytes"}
    \/ kind = "raw" /\ body # "garbage"
    \/ kind = "key" /\ body \in {"mistyped", "unlisted"}
    \/ kind = "filtered" /\ body = "mistyped"
    \/ kind \in {"listed", "optional", "filtered"} /\ body = "lacking"

Objects(kind, body) ==
    \/ kind = "text"
    \/ kind = "whole" /\ body # "garbage"
    \/ kind \in {"items", "optional"} /\ body \in {"mistyped", "unlisted"}
    \/ kind = "filtered" /\ body = "unlisted"

Read(kind, body) ==
    IF Returns(kind, body) THEN "value"
    ELSE IF Objects(kind, body) THEN "RoomException" ELSE "escaped"

-----------------------------------------------------------------------------
(* A call, and what the server does for it: done counts the requests it
   carried out, listing is what it would list now, stood what has been there
   ever since the call began *)

Idle ==
    [phase |-> "idle", method |-> [name |-> "", reads |-> "none"], status |-> 0,
     body |-> "valid", done |-> 0, outcome |-> "",
     listing |-> {}, stood |-> {}, token |-> 0, page |-> {}, next |-> 0, got |-> <<>>]

Init ==
    /\ session \in [owner : {"client", "application"}, closed : {FALSE}]
    /\ call = Idle

Ended(outcome) == [call EXCEPT !.phase = "over", !.outcome = outcome]

(* A method is called.  On a closed session aiohttp raises before it sends *)
Begin(method, listing) ==
    /\ call.phase = "idle"
    /\ call' = [Idle EXCEPT !.method = method, !.listing = listing, !.stood = listing,
                   !.phase = IF session.closed THEN "over" ELSE "sent",
                   !.outcome = IF session.closed THEN "RuntimeError" ELSE ""]
    /\ UNCHANGED session

(* The arguments are refused: ValueError, ValidationError or RoomException *)
RefuseArguments(method) ==
    /\ call.phase = "idle" /\ method.name \in ChecksArguments
    /\ call' = [Idle EXCEPT !.method = method, !.phase = "over", !.outcome = "ValueError"]
    /\ UNCHANGED session

Pages == call.method.name = "get_resource_policy"

(* What is left after the token, and the part of it that goes up to an entry *)
After(token) == {e \in call.listing : e > token}
UpTo(token, last) == {e \in After(token) : e <= last}

(* A page: all that is left, and no token; or what goes up to an entry with more
   beyond it, and that entry as the token of the next *)
Listed(token) ==
    {[holds |-> After(token), next |-> 0]} \cup
    {[holds |-> UpTo(token, last), next |-> last] :
        last \in {e \in After(token) : After(e) # {}}}

NoPage == [holds |-> {}, next |-> 0]

(* The server answers; of what it fails at it may have done something *)
Answer(status, body, page) ==
    /\ call.phase = "sent"
    /\ \E d \in IF status < 400 THEN {1} ELSE IF status >= 500 THEN {0, 1} ELSE {0} :
           call' = [call EXCEPT
               !.phase = "answered", !.status = status, !.body = body, !.done = @ + d,
               !.page = page.holds, !.next = page.next]
    /\ UNCHANGED session

(* The connection breaks, or aiohttp's own timeout strikes; the server may have
   carried the request out *)
Breaks ==
    /\ call.phase \in {"sent", "answered"}
    /\ \E d \in IF call.phase = "sent" THEN {0, 1} ELSE {0} :
           call' = [Ended("ClientError") EXCEPT !.done = @ + d]
    /\ UNCHANGED session

(* (mutant of NoMorePages: a short page is taken for the last) *)
ShortPageIsLast(c) == Cardinality(c.page) < PageSize

(* get_resource_policy: the page names no next one *)
NoMorePages(c) == c.next = 0

(* The method looks at the answer; get_resource_policy asks for the next page *)
TakeFailure ==
    /\ call.phase = "answered" /\ Fails(call.status)
    /\ call' = Ended(Told(call.method, call.status))
    /\ UNCHANGED session

TakeBody ==
    /\ call.phase = "answered" /\ ~Fails(call.status)
    /\ LET read == Read(call.method.reads, call.body)
           collected == [call EXCEPT !.got = Append(@, call.page)] IN
       call' = IF read # "value" THEN Ended(read)
               ELSE IF ~Pages \/ NoMorePages(call)
                   THEN [collected EXCEPT !.phase = "over", !.outcome = "value"]
               ELSE [collected EXCEPT !.phase = "sent", !.token = call.next]
    /\ UNCHANGED session

(* The caller has seen the outcome *)
Return ==
    /\ call.phase = "over"
    /\ call' = Idle
    /\ UNCHANGED session

(* Others change the list under the pages *)
OthersChange ==
    /\ call.phase \in {"sent", "answered"} /\ Pages
    /\ \E e \in Entries :
           call' = IF e \in call.listing
                   THEN [call EXCEPT !.listing = @ \ {e}, !.stood = @ \ {e}]
                   ELSE [call EXCEPT !.listing = @ \cup {e}]
    /\ UNCHANGED session

(* close(): a session passed in is its owner's to close.  What is under way on
   a closed session fails *)
CutOff == IF call.phase = "sent" THEN Ended("ClientError") ELSE call

Close ==
    /\ session.owner = "client" /\ ~session.closed
    /\ session' = [session EXCEPT !.closed = TRUE]
    /\ call' = CutOff

OwnerCloses ==
    /\ session.owner = "application" /\ ~session.closed
    /\ session' = [session EXCEPT !.closed = TRUE]
    /\ call' = CutOff

CallSomething ==
    /\ call.phase = "idle"
    /\ \E method \in Methods :
        \/ \E listing \in IF method.name = "get_resource_policy"
                              THEN SUBSET Entries ELSE {{}} : Begin(method, listing)
        \/ RefuseArguments(method)

AnswerSomehow ==
    /\ call.phase = "sent"
    /\ \E status \in Statuses :
        \E body \in IF status = 200 THEN Bodies ELSE {"valid"} :
            \E page \in IF Pages THEN Listed(call.token) ELSE {NoPage} :
                Cardinality(page.holds) <= PageSize /\ Answer(status, body, page)

Next ==
    \/ CallSomething
    \/ AnswerSomehow
    \/ Breaks
    \/ TakeFailure
    \/ TakeBody
    \/ Return
    \/ OthersChange
    \/ Close
    \/ OwnerCloses

Spec == Init /\ [][Next]_vars

-----------------------------------------------------------------------------
(* Properties *)

TypeOK ==
    /\ session \in [owner : {"client", "application"}, closed : BOOLEAN]
    /\ call.phase \in {"idle", "sent", "answered", "over"}
    /\ (call.method.name = "") = (call.phase = "idle")
    /\ call.done \in Nat
    /\ call.listing \subseteq Entries /\ call.stood \subseteq call.listing

(* What a caller is told agrees with what the server did.  A method that
   returns has been carried out; the answer that nothing is there is None.
   One that was refused, or never left, has not been, so it can be tried again;
   only a broken connection, a failure of the server, a plain RoomException and
   an answer that does not parse leave it open.  (A list that fails on a later
   page has been carried out for the earlier ones.) *)
OutcomeTells ==
    call.phase = "over" =>
        /\ call.outcome = "value" => call.done > 0
        /\ call.outcome \in Refusals \cup {"ValueError", "RuntimeError", "None"}
               => call.done = 0 \/ Pages

(* get_resource_policy returns every grant that stood all the while it read
   the pages, and none twice, whatever is granted and revoked meanwhile and
   however many grants the server puts on a page *)
PagesWhole ==
    call.phase = "over" /\ Pages /\ call.outcome = "value" =>
        /\ \A e \in call.stood : \E k \in DOMAIN call.got : e \in call.got[k]
        /\ \A j, k \in DOMAIN call.got : j # k => call.got[j] \cap call.got[k] = {}

=============================================================================
