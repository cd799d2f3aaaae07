--------------------------- MODULE DatabaseService ---------------------------
(***************************************************************************)
(* One caller of the four database tools: service.py checks the arguments, *)
(* the client connects, runs the statement, classifies what the driver     *)
(* raises, reconnects once, and service.py turns the exception that is     *)
(* left into an answer.  Meanwhile the server stops and starts and its     *)
(* databases and tables come and go.  ConnectionPool models the sessions;  *)
(* here a pool slot is only empty, alive or stale.                         *)
(***************************************************************************)

EXTENDS Naturals

CONSTANTS
  Clients,      \* the clients a deployment may be configured with
  Tables        \* tables the database may have

(* Of SQL Server's client, odbcNamed says that "odbc driver" is in every   *)
(* message, since it is in the driver's name (the default, config.py 24).  *)
ASSUME ClientAssumption ==
  Clients \subseteq [engine : {"mysql", "sqlserver"}, odbcNamed : BOOLEAN]

VARIABLES
  client,       \* the client that the settings name
  up,           \* the server answers
  exists,       \* the database of the calls exists ...
  tables,       \* ... with these tables
  slot,         \* the pooled session of each key: "" and the database's
  call,         \* the arguments of the call, or of the last one
  stage,        \* where the call stands
  attempt,      \* 1, or 2 after a connection error
  reply,        \* what the driver is about to tell of the statement
  answer,       \* error_type of the answer, "ok", or "raised"
  found,        \* history: the pooled session when the call began
  steady,       \* history: nothing changed since the call began
  lost,         \* history: the call met a server that was down, or a session
                \* that was lost after the call began
  cut,          \* history: the call's session was lost while the server had
                \* the statement
  runs          \* history: how often the server got the statement

world   == <<up, exists, tables>>
history == <<found, steady, lost, cut, runs>>
vars    == <<client, world, slot, call, stage, attempt, reply, answer, history>>

Tools == {"list_databases", "list_tables", "get_table_schema", "execute_query"}
Statements == {"blank", "not_read_only", "bad", "good"}

(* A call: the tool, whether the names it needs are blank, the table it is *)
(* about, and for execute_query what the statement is.                     *)
Calls ==
  [tool : {"list_databases"}, blank : {FALSE}, table : Tables, sql : {"good"}]
  \cup [tool : {"list_tables", "get_table_schema"}, blank : BOOLEAN,
        table : Tables, sql : {"good"}]
  \cup [tool : {"execute_query"}, blank : BOOLEAN, table : Tables, sql : Statements]

KeyOf(c) == IF c.tool = "list_databases" THEN "" ELSE "database"
Key == KeyOf(call)

-----------------------------------------------------------------------------
(* A driver error is the set of things the client looks for in it: a code  *)
(* or a text that says the database ("database") or the table ("table") is *)
(* not there, and a code or a marker that says connection ("connection").  *)
(* What is no error is the rows of the result, or that there are none.     *)
Rows == {"rows"}
NoRows == {"no rows"}
Prefix == IF client.engine = "sqlserver" /\ client.odbcNamed THEN {"connection"} ELSE {}

Unreachable == {"connection"}
NoDatabase ==    \* "Cannot open database ... The login failed." has a marker
  IF client.engine = "sqlserver" THEN {"database", "connection"} ELSE {"database"}
NoTable == {"table"} \cup Prefix
Rejected == Prefix
StaleSession ==  \* MySQL codes that are not in CONNECTION_ERROR_CODES: 2006, 4031
  IF client.engine = "mysql" THEN {{"connection"}, {}} ELSE {{"connection"}}

ReplyTypes == {Rows, NoRows, Prefix, NoDatabase, NoTable} \cup StaleSession \cup {{}}

IsConnectionError(e) == "connection" \in e

(* Mutant: the connection markers are looked for first.                    *)
RaiseForConnectionFirst(e) ==
  IF "connection" \in e THEN "DatabaseConnectionError"
  ELSE IF "database" \in e THEN "DatabaseNotFoundError"
  ELSE IF "table" \in e THEN "TableNotFoundError"
  ELSE "QueryExecutionError"

(* _raise_for_mysql_error, _raise_for_pyodbc_error: the exception by the   *)
(* first thing that is found, in this order.                               *)
RaiseFor(e) ==
  IF "database" \in e THEN "DatabaseNotFoundError"
  ELSE IF "table" \in e THEN "TableNotFoundError"
  ELSE IF "connection" \in e THEN "DatabaseConnectionError"
  ELSE "QueryExecutionError"

ErrorType ==
  [DatabaseNotFoundError   |-> "database_not_found",
   TableNotFoundError      |-> "table_not_found",
   DatabaseConnectionError |-> "internal_error",
   QueryExecutionError     |-> "query_error"]

(* The except clauses of each method of DatabaseService; what no clause    *)
(* catches leaves the tool as an exception.                                *)
Caught ==
  [list_databases   |-> {"DatabaseConnectionError"},
   list_tables      |-> {"DatabaseNotFoundError", "DatabaseConnectionError"},
   get_table_schema |-> {"DatabaseNotFoundError", "TableNotFoundError",
                         "DatabaseConnectionError"},
   execute_query    |-> {"DatabaseNotFoundError", "QueryExecutionError",
                         "DatabaseConnectionError"}]

AnswerTo(exception) ==
  IF exception \in Caught[call.tool] THEN ErrorType[exception] ELSE "raised"

-----------------------------------------------------------------------------
Init ==
  /\ client \in Clients
  /\ up = TRUE
  /\ exists \in BOOLEAN
  /\ tables \in SUBSET Tables
  /\ exists \/ tables = {}
  /\ slot = [k \in {"", "database"} |-> "empty"]
  /\ call \in {c \in Calls : c.tool = "list_databases"}
  /\ stage = "answered"
  /\ attempt = 1
  /\ reply = {}
  /\ answer = "none"
  /\ found = "empty"
  /\ steady = TRUE
  /\ lost = FALSE
  /\ cut = FALSE
  /\ runs = 0

Answer(a) == stage' = "answered" /\ answer' = a

(* The checks of the arguments come before any use of the client.          *)
Call(c) ==
  /\ stage = "answered"
  /\ call' = c
  /\ attempt' = 1
  /\ found' = slot[KeyOf(c)]
  /\ steady' = TRUE
  /\ lost' = ~up
  /\ cut' = FALSE
  /\ runs' = 0
  /\ \/ /\ c.blank \/ c.sql = "blank"
        /\ Answer("invalid_argument")
     \/ /\ ~c.blank /\ c.sql = "not_read_only"
        /\ Answer("readonly_violation")
     \/ /\ ~c.blank /\ c.sql \in {"bad", "good"}
        /\ stage' = "connect"
        /\ answer' = "none"
  /\ UNCHANGED <<world, slot, reply>>

(* _get_connection: a pooled session is reused, else _connect, whose error *)
(* is mapped at once and not tried again.                                  *)
GetConnection ==
  /\ stage = "connect"
  /\ \/ /\ slot[Key] # "empty"
        /\ stage' = "run"
        /\ UNCHANGED <<slot, answer>>
     \/ /\ slot[Key] = "empty" /\ up /\ (Key = "" \/ exists)
        /\ slot' = [slot EXCEPT ![Key] = "alive"]
        /\ stage' = "run"
        /\ UNCHANGED answer
     \/ /\ slot[Key] = "empty" /\ ~up
        /\ Answer(AnswerTo(RaiseFor(Unreachable)))
        /\ UNCHANGED slot
     \/ /\ slot[Key] = "empty" /\ up /\ Key # "" /\ ~exists
        /\ Answer(AnswerTo(RaiseFor(NoDatabase)))
        /\ UNCHANGED slot
  /\ UNCHANGED <<world, call, attempt, reply, history>>

(* What becomes of a statement that is sent now.  On a stale session it    *)
(* does not reach the server.  A catalogue query knows no missing table,   *)
(* it returns no rows.                                                     *)
Replies ==
  IF slot[Key] = "stale" THEN StaleSession
  ELSE IF call.tool = "get_table_schema" /\ call.table \notin tables THEN {NoRows}
  ELSE IF call.tool # "execute_query" THEN {Rows}
  ELSE IF call.sql = "bad" THEN {Rejected}
  ELSE IF ~exists THEN {NoDatabase, NoTable}
  ELSE IF call.table \notin tables THEN {NoTable}
  ELSE {Rows}

(* cursor.execute: the server has the statement ...                        *)
SendStatement ==
  /\ stage = "run"
  /\ stage' = "sent"
  /\ reply' \in Replies
  /\ runs' = IF slot[Key] = "alive" THEN runs + 1 ELSE runs
  /\ UNCHANGED <<world, slot, call, attempt, answer, found, steady, lost, cut>>

(* ... and until its reply is read the session may be lost: then it is not *)
(* known whether the statement was run.                                    *)
Heard == {reply} \cup (IF slot[Key] = "stale" THEN StaleSession ELSE {})
DriverErrors == Heard \ {Rows, NoRows}

ReadResult ==
  /\ stage = "sent"
  /\ reply \in {Rows, NoRows}
  /\ reply' = {}
  /\ Answer(IF reply = NoRows THEN AnswerTo("TableNotFoundError") ELSE "ok")
  /\ UNCHANGED <<world, slot, call, attempt, history>>

(* Mutant: the first connection error is already the caller's.             *)
StatementFailsOnce ==
  /\ stage = "sent"
  /\ reply' = {}
  /\ \E e \in DriverErrors : Answer(AnswerTo(RaiseFor(e)))
  /\ UNCHANGED <<world, slot, call, attempt, history>>

(* Mutant: any driver error is tried again.                                *)
StatementFailsAgain ==
  /\ stage = "sent"
  /\ reply' = {}
  /\ \E e \in DriverErrors :
       \/ /\ attempt = 1
          /\ slot' = [slot EXCEPT ![Key] = "empty"]
          /\ attempt' = 2
          /\ stage' = "connect"
          /\ UNCHANGED answer
       \/ /\ attempt = 2
          /\ Answer(AnswerTo(RaiseFor(e)))
          /\ UNCHANGED <<slot, attempt>>
  /\ UNCHANGED <<world, call, history>>

(* Mutant: the attempts are not counted.                                   *)
StatementFailsForEver ==
  /\ stage = "sent"
  /\ reply' = {}
  /\ \E e \in DriverErrors :
       IF IsConnectionError(e)
       THEN /\ slot' = [slot EXCEPT ![Key] = "empty"]
            /\ stage' = "connect"
            /\ UNCHANGED answer
       ELSE Answer(AnswerTo(RaiseFor(e))) /\ UNCHANGED slot
  /\ UNCHANGED <<world, call, attempt, history>>

(* The except clause of _run_with_cursor.                                  *)
StatementFails ==
  /\ stage = "sent"
  /\ reply' = {}
  /\ \E e \in DriverErrors :
       \/ /\ IsConnectionError(e) /\ attempt = 1
          /\ slot' = [slot EXCEPT ![Key] = "empty"]
          /\ attempt' = 2
          /\ stage' = "connect"
          /\ UNCHANGED answer
       \/ /\ ~IsConnectionError(e) \/ attempt = 2
          /\ Answer(AnswerTo(RaiseFor(e)))
          /\ UNCHANGED <<slot, attempt>>
  /\ UNCHANGED <<world, call, history>>

-----------------------------------------------------------------------------
(* The server and its administrator.                                       *)
Disturb == steady' = FALSE
Outdated == [k \in DOMAIN slot |-> IF slot[k] = "alive" THEN "stale" ELSE slot[k]]
Lose ==
  /\ slot' = Outdated
  /\ lost' = TRUE
  /\ cut' = (cut \/ (stage = "sent" /\ slot[Key] = "alive"))

Stop ==
  /\ up
  /\ up' = FALSE
  /\ Lose
  /\ Disturb
  /\ UNCHANGED <<exists, tables, call, stage, attempt, reply, answer, found, runs>>

Start ==
  /\ ~up
  /\ up' = TRUE
  /\ Disturb
  /\ UNCHANGED <<exists, tables, slot, call, stage, attempt, reply, answer>>
  /\ UNCHANGED <<found, lost, cut, runs>>

(* An idle timeout or KILL ends the sessions of a server that stays up.    *)
DropSessions ==
  /\ \E k \in DOMAIN slot : slot[k] = "alive"
  /\ Lose
  /\ Disturb
  /\ UNCHANGED <<world, call, stage, attempt, reply, answer, found, runs>>

DropDatabase ==
  /\ up /\ exists
  /\ exists' = FALSE
  /\ tables' = {}
  /\ IF client.engine = "sqlserver" /\ Outdated # slot
     THEN Lose ELSE UNCHANGED <<slot, lost, cut>>
  /\ Disturb
  /\ UNCHANGED <<up, call, stage, attempt, reply, answer, found, runs>>

CreateDatabase ==
  /\ up /\ ~exists
  /\ exists' = TRUE
  /\ Disturb
  /\ UNCHANGED <<up, tables, slot, call, stage, attempt, reply, answer>>
  /\ UNCHANGED <<found, lost, cut, runs>>

ChangeTables ==
  /\ up /\ exists
  /\ \E t \in Tables : tables' \in {tables \cup {t}, tables \ {t}} \ {tables}
  /\ Disturb
  /\ UNCHANGED <<up, exists, slot, call, stage, attempt, reply, answer>>
  /\ UNCHANGED <<found, lost, cut, runs>>

Server == Stop \/ Start \/ DropSessions \/ DropDatabase \/ CreateDatabase \/ ChangeTables

Next ==
  /\ \/ \E c \in Calls : Call(c)
     \/ GetConnection \/ SendStatement \/ ReadResult \/ StatementFails
     \/ Server
  /\ UNCHANGED client

Spec == Init /\ [][Next]_vars

-----------------------------------------------------------------------------
TypeOK ==
  /\ client \in Clients
  /\ up \in BOOLEAN /\ exists \in BOOLEAN /\ tables \subseteq Tables
  /\ slot \in [{"", "database"} -> {"empty", "alive", "stale"}]
  /\ call \in Calls
  /\ stage \in {"connect", "run", "sent", "answered"}
  /\ attempt \in {1, 2}
  /\ reply \in ReplyTypes
  /\ answer \in {"none", "ok", "raised", "invalid_argument", "readonly_violation",
                 "database_not_found", "table_not_found", "query_error",
                 "internal_error"}
  /\ found \in {"empty", "alive", "stale"}
  /\ steady \in BOOLEAN /\ lost \in BOOLEAN /\ cut \in BOOLEAN
  /\ runs \in 0..2
  /\ (\E k \in DOMAIN slot : slot[k] = "alive") => up

Answered == stage = "answered" /\ answer # "none"

(* What is wrong with a call, told from the world and not from the error.  *)
Expected ==
  IF call.blank \/ call.sql = "blank" THEN "invalid_argument"
  ELSE IF call.sql = "not_read_only" THEN "readonly_violation"
  ELSE IF ~up THEN "internal_error"
  ELSE IF call.tool = "list_databases" THEN "ok"
  ELSE IF ~exists THEN "database_not_found"
  ELSE IF call.tool = "list_tables" THEN "ok"
  ELSE IF call.tool = "get_table_schema" /\ call.table \notin tables
       THEN "table_not_found"
  ELSE IF call.sql = "bad" THEN "query_error"
  ELSE "ok"

MissingTable ==
  call.tool = "execute_query" /\ call.sql = "good" /\ call.table \notin tables
Spoiled == call.tool = "execute_query" /\ Prefix # {}

(* In a world that is at rest the answer names what is wrong with the call *)
(* and nothing else: through the pool, the driver's error, its class, the  *)
(* reconnect and the except clauses.  Left out: a session that was alive   *)
(* when its database went away, a MySQL session that is stale (its error   *)
(* may be one the client does not know), a query of a missing table        *)
(* (QueryIsAnswered) and what odbcNamed spoils (BadQueryIsQueryError).     *)
AnswerNamesTheFault ==
  /\ Answered
  /\ steady
  /\ \/ found = "empty"
     \/ found = "alive" /\ exists
     \/ found = "stale" /\ client.engine = "sqlserver"
  /\ ~(exists /\ MissingTable)
  /\ ~(Spoiled /\ call.sql = "bad")
  => answer = Expected

(* However the world changes meanwhile, a caller is told of an internal    *)
(* error only when the server was down or a session was lost during this   *)
(* call: a session that had died before it is replaced unseen.  Left out:  *)
(* queries that odbcNamed spoils (BadQueryIsQueryError), which every error *)
(* of the server makes an internal error.                                  *)
InternalErrorIsReal ==
  Answered /\ answer = "internal_error" => lost \/ Spoiled

(* A server gets the statement of one call twice only when the session was *)
(* lost while it had the statement, so that nobody can know whether it ran;*)
(* a statement that it has answered, be it with an error, and one that did *)
(* not reach it on a stale session are not the reason of a second run.     *)
(* Left out again: queries that odbcNamed spoils; each that is rejected is *)
(* run twice.                                                              *)
SecondRunHasCause ==
  runs = 2 => cut \/ Spoiled

(* base.py 33: the SQL failed in a way the caller may be able to fix.  A   *)
(* statement that the server rejects is answered with query_error.         *)
BadQueryIsQueryError ==
  Answered /\ steady /\ up /\ exists /\ found = "empty" /\ ~call.blank /\ call.sql = "bad" =>
    answer = "query_error"

(* strings.py 112-116, "The query failed. Verify table and column names":  *)
(* a query of a table that does not exist is answered, as tool-design.md   *)
(* 49-52 asks of what the caller can fix by changing the arguments.        *)
QueryIsAnswered ==
  Answered /\ steady /\ up /\ exists /\ call.tool = "execute_query" => answer # "raised"

=============================================================================
