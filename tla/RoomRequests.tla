----------------------------- MODULE RoomRequests -----------------------------
(***************************************************************************)
(* room_server_client.py: the clients of a room's toolkits (services,      *)
(* storage, queues, datasets, sqlite, memory, mounts, containers ...).     *)
(* Each operation is one RoomClient.invoke and a look at what it comes to: *)
(* the kind of content, then what is in it.  The exception is sql_stream,  *)
(* which opens a query that the server holds, reads it, and closes it in a *)
(* finally.                                                                *)
(*                                                                         *)
(* An operation is known by the kinds of content it takes and by how it    *)
(* checks what is in them:                                                 *)
(*   none     not at all            bare   a ValidationError escapes       *)
(*   guarded  a ValidationError becomes a RoomException                    *)
(*   raw      neither kind nor content is checked before it is used        *)
(* Arrow data that cannot be parsed (garbled) always escapes.              *)
(***************************************************************************)
EXTENDS Naturals, FiniteSets

CONSTANT
    MaxBatches     \* batches a query's stream may bring

VARIABLES
    online,      \* whether the room is connected
    call,        \* the operation under way
    held         \* whether the server holds the query of the operation under way

vars == <<online, call, held>>

Contents == {"json", "empty", "text", "binary"}
Anything == Contents \cup {"stream"}

Operation(takes, checks, names) == [name : names, takes : {takes}, checks : {checks}]

-----------------------------------------------------------------------------
(* The operations, in the order of the source *)

Invocations == Operation(Anything, "none", {"room.call"})

Toolkits == Operation({"json"}, "raw", {"room.list_toolkits"})

Services ==
    Operation({"json"}, "guarded", {"services.list"})
    \cup Operation(Anything, "none", {"services.restart"})

Agents ==
    Operation(Anything, "none", {"agents.make_call", "agents.invoke_tool"})
    \cup Operation({"json"}, "raw", {"agents.list_toolkits"})

Livekit == Operation({"json"}, "guarded", {"livekit.get_connection_info"})

Storage ==
    Operation({"json"}, "guarded", {"storage.exists", "storage.stat"})
    \cup Operation(Contents, "none", {"storage.move"})

StorageLists ==
    Operation({"json"}, "guarded", {"storage.download_url", "storage.list"})
    \cup Operation(Contents, "none", {"storage.delete"})

Queues ==
    Operation({"json"}, "guarded", {"queues.list"})
    \cup Operation({"empty"}, "none", {"queues.open", "queues.send", "queues.drain",
                                       "queues.close"})
    \cup Operation({"empty", "json", "text"}, "none", {"queues.receive"})

Developer ==
    Operation(Anything, "none", {"developer.log", "developer.log_nowait", "developer.info",
                                 "developer.warning", "developer.error"})

DatasetTables ==
    Operation({"json"}, "guarded", {"datasets.list_tables"})
    \cup Operation({"binary"}, "guarded", {"datasets.inspect"})
    \cup Operation({"stream"}, "guarded", {"datasets.create_table_with_schema",
                                           "datasets.create_table_from_data"})

DatasetCreation ==
    Operation({"stream"}, "guarded", {"datasets.create_table_from_data_stream",
                                      "datasets.create_table_from_json_data"})
    \cup Operation(Contents, "none", {"datasets.register_table", "datasets.drop_table",
                                      "datasets.rename_table", "datasets.drop_index"})

DatasetColumns ==
    Operation({"empty"}, "none", {"datasets.add_columns"})
    \cup Operation(Contents, "none", {"datasets.drop_columns"})

DatasetRows ==
    Operation({"stream"}, "guarded", {"datasets.insert", "datasets.insert_stream",
                                      "datasets.merge", "datasets.merge_stream"})
    \cup Operation(Contents, "none", {"datasets.update", "datasets.delete"})

DatasetSql ==
    Operation({"binary"}, "guarded", {"datasets.open_sql_query"})
    \cup Operation({"binary", "json"}, "guarded", {"datasets.execute_sql"})

DatasetStatements ==
    Operation({"stream"}, "guarded", {"datasets.read_sql_query"})
    \cup Operation({"empty"}, "none", {"datasets.close_sql_query"})
    \cup Operation({"json"}, "guarded", {"datasets.cancel_sql_query",
                                         "datasets.execute_sql_statement"})

DatasetSearch ==
    Operation({"stream"}, "guarded", {"datasets.search", "datasets.search_stream"})

DatasetUpkeep ==
    Operation({"json"}, "guarded", {"datasets.count", "datasets.optimize", "datasets.stats"})
    \cup Operation(Contents, "none", {"datasets.restore"})

DatasetVersions ==
    Operation({"json"}, "guarded", {"datasets.list_versions", "datasets.list_indexes",
                                    "datasets.list_branches"})
    \cup Operation(Contents, "none", {"datasets.create_index", "datasets.create_branch",
                                      "datasets.delete_branch"})

SqliteDatabases ==
    Operation({"json"}, "guarded", {"sqlite.list_databases", "sqlite.inspect_database",
                                    "sqlite.list_tables"})
    \cup Operation({"empty"}, "none", {"sqlite.create_database", "sqlite.drop_database"})
    \cup Operation({"json"}, "bare", {"sqlite.get_database_settings",
                                      "sqlite.update_database_settings"})
    \cup Operation({"json"}, "none", {"sqlite.flush_database"})

SqliteTables ==
    Operation({"stream"}, "guarded", {"sqlite.create_table_with_schema",
                                      "sqlite.create_table_from_data"})
    \cup Operation({"empty"}, "none", {"sqlite.drop_table", "sqlite.rename_table",
                                       "sqlite.add_columns"})
    \cup Operation({"binary"}, "none", {"sqlite.inspect"})

SqliteRows ==
    Operation({"empty"}, "none", {"sqlite.drop_columns"})
    \cup Operation({"stream"}, "guarded", {"sqlite.insert"})
    \cup Operation({"json"}, "guarded", {"sqlite.update", "sqlite.delete"})

SqliteSearch ==
    Operation({"stream"}, "guarded", {"sqlite.search", "sqlite.search_stream"})
    \cup Operation({"json"}, "guarded", {"sqlite.count"})

SqliteSql ==
    Operation({"binary"}, "guarded", {"sqlite.open_sql_query"})
    \cup Operation({"json"}, "guarded", {"sqlite.execute_sql_batch"})
    \cup Operation({"binary", "json"}, "guarded", {"sqlite.execute_sql"})

SqliteStatements ==
    Operation({"stream"}, "guarded", {"sqlite.read_sql_query"})
    \cup Operation({"empty"}, "none", {"sqlite.close_sql_query"})
    \cup Operation({"json"}, "guarded", {"sqlite.cancel_sql_query",
                                         "sqlite.execute_sql_statement"})

Memory ==
    Operation({"json"}, "guarded", {"memory.list"})
    \cup Operation(Anything, "none", {"memory.create", "memory.drop"})
    \cup Operation({"json"}, "bare", {"memory.inspect", "memory.query"})

MemoryIngestion ==
    Operation(Anything, "none", {"memory.upsert_table", "memory.upsert_nodes",
                                 "memory.upsert_relationships"})
    \cup Operation({"json"}, "bare", {"memory.ingest_text"})

MemoryIngestionFrom ==
    Operation({"json"}, "bare", {"memory.ingest_image", "memory.ingest_file",
                                 "memory.ingest_from_table", "memory.ingest_from_storage"})

MemoryRecall ==
    Operation({"json"}, "bare", {"memory.recall", "memory.delete_entities",
                                 "memory.delete_relationships", "memory.optimize"})

Mounts == Operation({"json"}, "guarded", {"mounts.list"})

Images ==
    Operation({"json"}, "guarded", {"containers.list_images", "containers.inspect_image",
                                    "containers.push_image"})
    \cup Operation(Anything, "none", {"containers.delete_image", "containers.pull_image"})

Containers ==
    Operation({"json"}, "guarded", {"containers.load", "containers.load_image",
                                    "containers.save_image", "containers.run"})

Builds ==
    Operation({"json", "stream"}, "guarded", {"containers.build"})
    \cup Operation({"json"}, "guarded", {"containers.list_builds", "containers.run_service"})
    \cup Operation(Anything, "none", {"containers.cancel_build", "containers.delete_build"})

RunningContainers ==
    Operation(Anything, "none", {"containers.stop", "containers.delete"})
    \cup Operation({"json"}, "guarded", {"containers.wait_for_exit_status"})
    \cup Operation({"json"}, "bare", {"containers.list"})

(* Not an operation of its own: what sql and sql_stream begin with *)
Streamed(name, execute) ==
    {[operation EXCEPT !.name = name] : operation \in {o \in DatasetSql \cup SqliteSql :
                                                          o.name = execute}}

SqlStreams ==
    Streamed("datasets.sql_stream", "datasets.execute_sql")
    \cup Streamed("sqlite.sql_stream", "sqlite.execute_sql")

Operations ==
    UNION {Invocations, Toolkits, Services, Agents, Livekit, Storage, StorageLists, Queues,
           Developer, DatasetTables, DatasetCreation, DatasetColumns, DatasetRows, DatasetSql,
           DatasetStatements, DatasetSearch, DatasetUpkeep, DatasetVersions,
           SqliteDatabases, SqliteTables, SqliteRows, SqliteSearch, SqliteSql,
           SqliteStatements, Memory, MemoryIngestion, MemoryIngestionFrom, MemoryRecall,
           Mounts, Images, Containers, Builds, RunningContainers, SqlStreams}

-----------------------------------------------------------------------------
(* A call: its operation, where it is, what it was answered, what sql_stream has
   yielded, why its reading ended, whether the link was lost under it or the
   server refused to close, and what the caller is told *)
Idle ==
    [operation |-> [name |-> "", takes |-> {}, checks |-> "none"], at |-> "idle",
     kind |-> "", body |-> "", batches |-> 0, failed |-> FALSE, cut |-> FALSE,
     refused |-> FALSE, outcome |-> ""]

Init == online = TRUE /\ call = Idle /\ held = FALSE

Over(outcome) == [call EXCEPT !.at = "over", !.outcome = outcome]
Sql == call.operation \in SqlStreams

Call(operation) ==
    /\ call.at = "idle"
    /\ call' = [Idle EXCEPT !.operation = operation,
                            !.at = IF online THEN "asked" ELSE "over",
                            !.outcome = IF online THEN "" ELSE "RoomException"]
    /\ UNCHANGED <<online, held>>

(* What invoke returns: content with something in it, or a stream; a call whose
   input is a stream returns once its pump has ended, so never with content *)
Answer(kind, body) ==
    /\ call.at = "asked" /\ (call.operation.takes = {"stream"} => kind = "stream")
    /\ kind \in {"empty", "text"} => body = "good"
    /\ body = "garbled" => kind = "binary"
    /\ call' = [call EXCEPT !.at = "answered", !.kind = kind, !.body = body]
    /\ held' = (Sql /\ kind = "binary")
    /\ UNCHANGED online

AnswerError ==
    /\ call.at = "asked" /\ call' = Over("RoomException")
    /\ UNCHANGED <<online, held>>

(* (mutant of Fails: a ValidationError is not looked for) *)
FailsUnguarded(operation, body) == IF operation.checks = "none" THEN "" ELSE "escaped"

(* What becomes of content that is not as it should be *)
Fails(operation, body) ==
    CASE operation.checks = "none" /\ body = "bad" -> ""
      [] operation.checks = "guarded" /\ body = "bad" -> "RoomException"
      [] OTHER -> "escaped"

Told(operation, kind, body) ==
    IF kind \notin operation.takes
    THEN IF operation.checks = "raw" THEN "escaped" ELSE "RoomException"
    ELSE IF body = "good" \/ Fails(operation, body) = "" THEN "value"
    ELSE Fails(operation, body)

Take ==
    /\ call.at = "answered" /\ ~(Sql /\ Told(call.operation, call.kind, call.body) = "value")
    /\ call' = Over(Told(call.operation, call.kind, call.body))
    /\ UNCHANGED <<online, held>>

(* sql_stream: a statement that is no query, or a query that is read *)
TakeExecution ==
    /\ call.at = "answered" /\ Sql
    /\ Told(call.operation, call.kind, call.body) = "value"
    /\ call' = IF call.kind = "json" THEN Over("RoomException")
               ELSE [call EXCEPT !.at = "reading"]
    /\ UNCHANGED <<online, held>>

Batch ==
    /\ call.at = "reading" /\ online /\ call.batches < MaxBatches
    /\ call' = [call EXCEPT !.batches = @ + 1]
    /\ UNCHANGED <<online, held>>

(* (mutant of AfterReading: the query is closed when all of it was read) *)
AfterReadingAll(failed) ==
    IF failed THEN [Over("RoomException") EXCEPT !.failed = TRUE]
    ELSE [call EXCEPT !.at = "closing"]

(* The finally of sql_stream *)
AfterReading(failed) == [call EXCEPT !.at = "closing", !.failed = failed]

(* The stream of the query ends, fails, or is left by whoever reads it *)
EndOfReading(failed) ==
    /\ call.at = "reading"
    /\ failed \/ online
    /\ call' = AfterReading(failed)
    /\ UNCHANGED <<online, held>>

(* close_sql_query: sent if the room is connected; the server closes the query and
   answers, or refuses *)
CloseQuery(refused) ==
    /\ call.at = "closing"
    /\ online \/ ~refused
    /\ held' = (held /\ ~(online /\ ~refused))
    /\ call' = [Over(IF call.failed \/ refused \/ ~online THEN "RoomException" ELSE "value")
                   EXCEPT !.refused = refused]
    /\ UNCHANGED online

(* The link is lost: what waits for an answer fails, and a query is read no more *)
LinkLost ==
    /\ online /\ online' = FALSE
    /\ call' = [IF call.at = "asked" THEN Over("RoomException") ELSE call EXCEPT !.cut = TRUE]
    /\ UNCHANGED held

Reconnect ==
    /\ ~online /\ online' = TRUE
    /\ UNCHANGED <<call, held>>

Return ==
    /\ call.at = "over" /\ call' = Idle /\ held' = FALSE
    /\ UNCHANGED online

Next ==
    \/ \E operation \in Operations : Call(operation)
    \/ \E kind \in Anything, body \in {"good", "bad", "garbled"} : Answer(kind, body)
    \/ AnswerError \/ Take \/ TakeExecution \/ Batch
    \/ \E failed \in BOOLEAN : EndOfReading(failed)
    \/ \E refused \in BOOLEAN : CloseQuery(refused)
    \/ LinkLost \/ Reconnect \/ Return

Spec == Init /\ [][Next]_vars

-----------------------------------------------------------------------------
(* Properties *)

TypeOK ==
    /\ online \in BOOLEAN /\ held \in BOOLEAN
    /\ call.operation \in Operations \cup {Idle.operation}
    /\ call.at \in {"idle", "asked", "answered", "reading", "closing", "over"}
    /\ call.outcome \in {"", "value", "RoomException", "escaped"}

(* A caller that catches RoomException catches whatever goes wrong: of what the
   server answers only arrow data that cannot be parsed, and the operations that
   do not guard their validation, are told otherwise; and a value is returned for
   an answer of a kind the operation takes only *)
OneKindOfError ==
    call.at = "over" =>
        /\ call.outcome = "escaped" =>
               call.body = "garbled" \/ call.operation.checks \in {"bare", "raw"}
        /\ call.outcome = "value" =>
               call.kind \in call.operation.takes /\ call.body # "garbled"

(* However the reading of a query ends, the server does not hold it any longer,
   unless the link was lost, the server would not close it, or what it answered
   could not be understood *)
QueriesClosed ==
    call.at = "over" /\ held => call.cut \/ call.refused \/ call.body # "good"

=============================================================================
