------------------------ MODULE DatabaseServiceProofs ------------------------
(***************************************************************************)
(* Proofs about DatabaseService, for any clients and any tables.  What is  *)
(* answered depends on what became of the pooled session on the way; IInv  *)
(* says so for each stage of a call:                                       *)
(*   ArgsInv     what passed the checks of the arguments                   *)
(*   SessionInv  what a session in the pool tells of the server            *)
(*   RunInv      how often the server has the statement, and why           *)
(*   SentInv     where the reply to a statement comes from                 *)
(*   LossInv     what the histories "lost" and "cut" have seen             *)
(*   RestInv     in a world at rest: which session the call is on, and     *)
(*               that an answer names the fault                            *)
(***************************************************************************)
EXTENDS DatabaseService, TLAPS

ArgsInv ==
  stage # "answered" => ~call.blank /\ call.sql \in {"bad", "good"}

SessionInv ==
  client.engine = "sqlserver" /\ slot["database"] = "alive" => exists

RunInv ==
  /\ stage \in {"connect", "run"} => runs < attempt /\ (runs = 1 => cut \/ Spoiled)
  /\ stage = "sent" => runs <= attempt
  /\ SecondRunHasCause

(* The driver found the session stale, or the server has answered; then    *)
(* what speaks of the connection comes from the name of the driver, and a  *)
(* session that is stale by now was lost meanwhile.                        *)
FoundStale == slot[Key] = "stale" /\ runs < attempt /\ (attempt = 2 => lost)
FromServer ==
  /\ IsConnectionError(reply) => Spoiled
  /\ slot[Key] = "alive" \/ cut

SentInv ==
  /\ stage \in {"run", "sent"} => slot[Key] # "empty"
  /\ stage = "sent" => FoundStale \/ FromServer

LossInv ==
  /\ cut => lost
  /\ stage # "answered" /\ ~up => lost
  /\ stage = "connect" /\ attempt = 2 => slot[Key] = "empty"
  /\ stage = "run" /\ attempt = 2 /\ slot[Key] = "stale" => lost
  /\ InternalErrorIsReal

(* A session that the call opened itself, in a world that stood still.     *)
Opened == slot[Key] = "alive" /\ up /\ (Key = "" \/ exists)

RestInv ==
  /\ steady /\ stage = "connect" /\ attempt = 1 => slot[Key] = found
  /\ steady /\ stage \in {"run", "sent"} =>
       Opened \/ (attempt = 1 /\ found # "empty" /\ slot[Key] = found)
  /\ steady /\ stage = "sent" => reply \in Replies
  /\ AnswerNamesTheFault

IInv ==
  /\ TypeOK
  /\ ArgsInv
  /\ SessionInv
  /\ RunInv
  /\ SentInv
  /\ LossInv
  /\ RestInv

-----------------------------------------------------------------------------
(* What a call is, and what becomes of the errors of the driver.           *)

LEMMA CallTyped ==
  ASSUME NEW c \in Calls
  PROVE  /\ c.tool \in Tools /\ c.blank \in BOOLEAN /\ c.sql \in Statements
         /\ c.tool # "execute_query" => c.sql = "good"
         /\ c.tool = "list_databases" => ~c.blank
  BY DEF Calls, Tools, Statements

Answers ==
  {"none", "ok", "raised", "invalid_argument", "readonly_violation",
   "database_not_found", "table_not_found", "query_error", "internal_error"}

LEMMA AnswersTyped ==
  ASSUME TypeOK, NEW e
  PROVE  AnswerTo(RaiseFor(e)) \in Answers \ {"none"}
<1>1. RaiseFor(e) \in {"DatabaseNotFoundError", "TableNotFoundError",
                       "DatabaseConnectionError", "QueryExecutionError"}
  BY DEF RaiseFor
<1> QED
  BY <1>1 DEF AnswerTo, ErrorType, Answers

(* Every tool answers a lost connection with internal_error; the other     *)
(* errors are answered with the name of the fault where the tool catches   *)
(* them, and never with internal_error.                                    *)
LEMMA AnswersNamed ==
  ASSUME TypeOK
  PROVE  /\ AnswerTo("DatabaseConnectionError") = "internal_error"
         /\ call.tool # "list_databases" =>
              AnswerTo("DatabaseNotFoundError") = "database_not_found"
         /\ call.tool = "get_table_schema" =>
              AnswerTo("TableNotFoundError") = "table_not_found"
         /\ call.tool = "execute_query" => AnswerTo("QueryExecutionError") = "query_error"
         /\ \A x \in {"DatabaseNotFoundError", "TableNotFoundError", "QueryExecutionError"} :
              AnswerTo(x) # "internal_error"
<1>1. call.tool \in Tools
  BY CallTyped DEF TypeOK
<1> QED
  BY <1>1 DEF AnswerTo, Caught, ErrorType, Tools

(* Rows are no error, and what a driver replies is of the types.           *)
LEMMA RowsAreNoError ==
  /\ Rows # NoRows
  /\ \A e \in {Prefix, NoDatabase, NoTable} \cup StaleSession : e \notin {Rows, NoRows}
<1>1. "rows" \in Rows /\ "rows" \notin NoRows /\ "no rows" \in NoRows
  BY DEF Rows, NoRows
<1>2. ASSUME NEW e \in {Prefix, NoDatabase, NoTable} \cup StaleSession
      PROVE  "rows" \notin e /\ "no rows" \notin e
  <2>1. e \in {{"connection"}, {}, {"database", "connection"}, {"database"},
               {"table"}, {"table", "connection"}}
    BY Z3 DEF Prefix, NoDatabase, NoTable, StaleSession
  <2>2. "rows" # "connection" /\ "rows" # "database" /\ "rows" # "table"
    OBVIOUS
  <2>3. "no rows" # "connection" /\ "no rows" # "database" /\ "no rows" # "table"
    OBVIOUS
  <2> QED
    BY <2>1, <2>2, <2>3
<1> QED
  BY <1>1, <1>2

LEMMA RepliesTyped ==
  Replies \subseteq ReplyTypes
  BY DEF Replies, ReplyTypes, Rejected

(* The reply of a server that has the statement on a live session: a       *)
(* failure is the statement's, and so is a connection error then, but for  *)
(* the name of the driver.                                                 *)
LEMMA RepliesOfAServer ==
  ASSUME TypeOK, SessionInv, slot[Key] # "stale", NEW e \in Replies
  PROVE  /\ \/ e \in {Rows, NoRows}
            \/ /\ call.tool = "execute_query"
               /\ \/ call.sql = "bad" /\ e = Prefix
                  \/ call.sql # "bad" /\ ~exists /\ e = NoDatabase
                  \/ call.sql # "bad" /\ e = NoTable /\ (~exists \/ call.table \notin tables)
         /\ slot[Key] = "alive" /\ IsConnectionError(e) => Spoiled
<1>1. \/ e \in {Rows, NoRows}
      \/ /\ call.tool = "execute_query"
         /\ \/ call.sql = "bad" /\ e = Prefix
            \/ call.sql # "bad" /\ ~exists /\ e = NoDatabase
            \/ call.sql # "bad" /\ e = NoTable /\ (~exists \/ call.table \notin tables)
  BY DEF Replies, Rejected
<1>2. ASSUME slot[Key] = "alive", IsConnectionError(e)
      PROVE  Spoiled
  <2>1. e \notin {Rows, NoRows}
    <3>1. "connection" # "rows" /\ "connection" # "no rows"
      OBVIOUS
    <3> QED
      BY <1>2, <3>1 DEF IsConnectionError, Rows, NoRows
  <2>2. call.tool = "execute_query" /\ Key = "database"
    BY <1>1, <2>1 DEF Key, KeyOf
  <2>3. CASE e = Prefix
    BY <2>2, <1>2, <2>3 DEF IsConnectionError, Spoiled
  <2>4. CASE e = NoTable
    BY <2>2, <1>2, <2>4 DEF IsConnectionError, NoTable, Spoiled
  <2>5. CASE ~exists /\ e = NoDatabase
    BY <2>2, <1>2, <2>5 DEF IsConnectionError, NoDatabase, SessionInv
  <2> QED
    BY <1>1, <2>1, <2>3, <2>4, <2>5
<1> QED
  BY <1>1, <1>2

-----------------------------------------------------------------------------
(* The steps of a call.                                                    *)

LEMMA SameTypes ==
  ASSUME UNCHANGED client
  PROVE  ReplyTypes' = ReplyTypes /\ Prefix' = Prefix /\ StaleSession' = StaleSession
  BY DEF ReplyTypes, Prefix, NoDatabase, NoTable, StaleSession

LEMMA CallInv ==
  ASSUME IInv, UNCHANGED client, NEW c \in Calls, Call(c)
  PROVE  IInv'
<1> USE DEF IInv
<1>1. /\ call' = c /\ attempt' = 1 /\ runs' = 0 /\ lost' = ~up /\ found' = slot[KeyOf(c)]
      /\ cut' = FALSE /\ UNCHANGED <<up, exists, tables, slot, reply, client>> /\ steady' = TRUE
  BY DEF Call, world
<1>2. \/ /\ c.blank \/ c.sql = "blank"
         /\ stage' = "answered" /\ answer' = "invalid_argument"
      \/ /\ ~c.blank /\ c.sql = "not_read_only"
         /\ stage' = "answered" /\ answer' = "readonly_violation"
      \/ /\ ~c.blank /\ c.sql \in {"bad", "good"}
         /\ stage' = "connect" /\ answer' = "none"
  BY DEF Call, Answer
<1>3. TypeOK'
  <2>1. found' \in {"empty", "alive", "stale"}
    BY <1>1 DEF TypeOK, KeyOf
  <2>2. lost' \in BOOLEAN /\ steady' \in BOOLEAN /\ cut' \in BOOLEAN
    BY <1>1
  <2>3. /\ client' \in Clients /\ up' \in BOOLEAN /\ exists' \in BOOLEAN
        /\ tables' \subseteq Tables
        /\ slot' \in [{"", "database"} -> {"empty", "alive", "stale"}]
        /\ (\E k \in DOMAIN slot' : slot'[k] = "alive") => up'
    BY <1>1 DEF TypeOK
  <2>4. /\ call' \in Calls /\ attempt' \in {1, 2} /\ runs' \in 0..2
        /\ stage' \in {"connect", "run", "sent", "answered"}
        /\ answer' \in Answers
    BY <1>1, <1>2 DEF Answers
  <2>5. reply' \in ReplyTypes'
    BY <1>1, SameTypes DEF TypeOK, ReplyTypes
  <2> QED
    BY <2>1, <2>2, <2>3, <2>4, <2>5 DEF TypeOK, Answers, ReplyTypes
<1>4. ArgsInv' /\ SessionInv' /\ RunInv'
  BY <1>1, <1>2 DEF ArgsInv, SessionInv, RunInv, SecondRunHasCause
<1>7. SentInv'
  BY <1>2 DEF SentInv
<1>5. LossInv'
  <2>1. (~up' => lost') /\ (cut' => lost')
    BY <1>1
  <2>2. attempt' # 2 /\ answer' # "internal_error"
    BY <1>1, <1>2
  <2> QED
    BY <2>1, <2>2 DEF LossInv, InternalErrorIsReal
<1>6. RestInv'
  <2>1. Key' = KeyOf(c)
    BY <1>1 DEF Key, KeyOf
  <2>2. AnswerNamesTheFault'
    BY <1>1, <1>2 DEF AnswerNamesTheFault, Answered, Expected
  <2> QED
    BY <1>1, <1>2, <2>1, <2>2 DEF RestInv
<1> QED
  BY <1>3, <1>4, <1>5, <1>6, <1>7

LEMMA GetConnectionInv ==
  ASSUME IInv, UNCHANGED client, GetConnection
  PROVE  IInv'
<1> USE DEF IInv
<1>1. /\ UNCHANGED <<client, up, exists, tables, call, attempt, reply>>
      /\ UNCHANGED <<found, steady, lost, cut, runs>>
      /\ stage = "connect"
  BY DEF GetConnection, world, history
<1>2. Key' = Key /\ Prefix' = Prefix /\ Key \in {"", "database"}
  BY <1>1 DEF Key, KeyOf, Prefix
<1>3. call.tool \in Tools /\ (Key = "" <=> call.tool = "list_databases")
  BY CallTyped DEF Key, KeyOf, TypeOK
<1>4. \/ /\ slot[Key] # "empty" /\ stage' = "run"
         /\ UNCHANGED <<slot, answer>>
      \/ /\ slot[Key] = "empty" /\ up /\ (Key = "" \/ exists)
         /\ slot' = [slot EXCEPT ![Key] = "alive"] /\ stage' = "run" /\ answer' = answer
      \/ /\ slot[Key] = "empty" /\ ~up /\ stage' = "answered"
         /\ answer' = "internal_error" /\ slot' = slot
      \/ /\ slot[Key] = "empty" /\ up /\ Key # "" /\ ~exists /\ stage' = "answered"
         /\ answer' = AnswerTo("DatabaseNotFoundError") /\ slot' = slot
  <2>1. RaiseFor(Unreachable) = "DatabaseConnectionError"
    BY DEF RaiseFor, Unreachable
  <2>2. RaiseFor(NoDatabase) = "DatabaseNotFoundError"
    BY DEF RaiseFor, NoDatabase
  <2> QED
    BY <2>1, <2>2, AnswersNamed DEF GetConnection, Answer
<1>5. Key # "" => AnswerTo("DatabaseNotFoundError") = "database_not_found"
  BY <1>3, AnswersNamed
<1>6. TypeOK'
  <2>1. answer' \in Answers
    BY <1>4, <1>5 DEF TypeOK, Answers
  <2>2. reply' \in ReplyTypes'
    BY <1>1, SameTypes DEF TypeOK
  <2> QED
    BY <1>1, <1>2, <1>4, <2>1, <2>2 DEF TypeOK, Answers
<1>7. ArgsInv'
  BY <1>1 DEF ArgsInv
<1>8. SessionInv'
  BY <1>1, <1>2, <1>4 DEF SessionInv, TypeOK
<1>9. RunInv'
  BY <1>1, <1>2, <1>4 DEF RunInv, SecondRunHasCause, Spoiled
<1>12. SentInv'
  BY <1>2, <1>4 DEF SentInv, TypeOK
<1>10. LossInv'
  BY <1>1, <1>2, <1>4, <1>5 DEF LossInv, InternalErrorIsReal, Answered, TypeOK
<1>11. RestInv'
  <2>1. steady /\ stage' = "run" =>
          Opened' \/ (attempt = 1 /\ found # "empty" /\ slot'[Key] = found)
    BY <1>1, <1>2, <1>4 DEF RestInv, LossInv, Opened, TypeOK
  <2>2. AnswerNamesTheFault'
    <3> SUFFICES ASSUME stage' = "answered"
                 PROVE  answer' = Expected'
      BY DEF AnswerNamesTheFault, Answered
    <3>1. ~call.blank /\ call.sql \in {"bad", "good"}
      BY <1>1 DEF ArgsInv
    <3>2. Expected' = IF ~up THEN "internal_error" ELSE "database_not_found"
      BY <1>1, <1>3, <1>4, <3>1 DEF Expected
    <3> QED
      BY <1>4, <1>5, <3>2
  <2> QED
    BY <1>1, <1>2, <1>4, <2>1, <2>2 DEF RestInv
<1> QED
  BY <1>6, <1>7, <1>8, <1>9, <1>10, <1>11, <1>12

LEMMA SendStatementInv ==
  ASSUME IInv, UNCHANGED client, SendStatement
  PROVE  IInv'
<1> USE DEF IInv
<1>1. /\ UNCHANGED <<client, up, exists, tables, slot, call, attempt, answer>>
      /\ UNCHANGED <<found, steady, lost, cut>>
      /\ stage = "run" /\ stage' = "sent" /\ reply' \in Replies
      /\ runs' = IF slot[Key] = "alive" THEN runs + 1 ELSE runs
  BY DEF SendStatement, world
<1>2. Key' = Key /\ Prefix' = Prefix /\ Key \in {"", "database"}
  BY <1>1, SameTypes DEF Key, KeyOf
<1>3. /\ attempt \in {1, 2} /\ runs \in 0..2 /\ runs < attempt
      /\ runs = 1 => cut \/ Spoiled
  BY <1>1 DEF TypeOK, RunInv
<1>4. TypeOK'
  <2>1. reply' \in ReplyTypes' /\ runs' \in 0..2
    BY <1>1, <1>3, RepliesTyped, SameTypes
  <2> QED
    BY <1>1, <2>1 DEF TypeOK, ReplyTypes
<1>5. ArgsInv' /\ SessionInv'
  BY <1>1 DEF ArgsInv, SessionInv
<1>6. RunInv'
  <2>1. (cut \/ Spoiled)' <=> cut \/ Spoiled
    BY <1>1, <1>2 DEF Spoiled
  <2>2. runs' <= attempt /\ (runs' = 2 => runs = 1)
    BY <1>1, <1>3
  <2> QED
    BY <1>1, <1>3, <2>1, <2>2 DEF RunInv, SecondRunHasCause
<1>7. SentInv'
  <2>1. slot[Key] \in {"alive", "stale"}
    BY <1>1, <1>2 DEF SentInv, TypeOK
  <2>2. CASE slot[Key] = "stale"
    BY <1>1, <1>2, <1>3, <2>2 DEF SentInv, FoundStale, LossInv
  <2>3. CASE slot[Key] = "alive"
    <3>1. IsConnectionError(reply') => Spoiled
      BY <1>1, <2>3, RepliesOfAServer
    <3> QED
      BY <1>1, <1>2, <2>3, <3>1 DEF SentInv, FromServer, IsConnectionError, Spoiled
  <2> QED
    BY <2>1, <2>2, <2>3
<1>8. LossInv'
  BY <1>1, <1>2 DEF LossInv, InternalErrorIsReal, Answered
<1>9. RestInv'
  <2>1. Replies' = Replies
    BY <1>1, <1>2 DEF Replies, StaleSession, NoDatabase, NoTable, Rejected
  <2> QED
    BY <1>1, <1>2, <2>1 DEF RestInv, Opened, AnswerNamesTheFault, Answered
<1> QED
  BY <1>4, <1>5, <1>6, <1>7, <1>8, <1>9

LEMMA ReadResultInv ==
  ASSUME IInv, UNCHANGED client, ReadResult
  PROVE  IInv'
<1> USE DEF IInv
<1>1. /\ UNCHANGED <<client, up, exists, tables, slot, call, attempt>>
      /\ UNCHANGED <<found, steady, lost, cut, runs>>
      /\ stage = "sent" /\ stage' = "answered" /\ reply \in {Rows, NoRows} /\ reply' = {}
      /\ answer' = IF reply = NoRows THEN AnswerTo("TableNotFoundError") ELSE "ok"
  BY DEF ReadResult, world, history, Answer
<1>2. AnswerTo("TableNotFoundError") \in Answers \ {"internal_error"}
  BY AnswersNamed DEF AnswerTo, ErrorType, Answers
<1>3. Prefix' = Prefix
  BY <1>1, SameTypes
<1>4. TypeOK'
  <2>1. reply' \in ReplyTypes' /\ answer' \in Answers
    BY <1>1, <1>2 DEF ReplyTypes, Answers
  <2> QED
    BY <1>1, <2>1 DEF TypeOK, Answers, ReplyTypes
<1>5. ArgsInv' /\ SessionInv' /\ SentInv'
  BY <1>1 DEF ArgsInv, SessionInv, SentInv
<1>6. RunInv'
  BY <1>1, <1>3 DEF RunInv, SecondRunHasCause, Spoiled
<1>7. LossInv'
  BY <1>1, <1>2 DEF LossInv, InternalErrorIsReal, Answered
<1>8. RestInv'
  <2> SUFFICES ASSUME steady,
                      \/ found = "empty"
                      \/ found = "alive" /\ exists
                      \/ found = "stale" /\ client.engine = "sqlserver"
               PROVE  answer' = Expected'
    BY <1>1 DEF RestInv, AnswerNamesTheFault, Answered
  <2>1. reply \in Replies /\ Rows # NoRows
    BY <1>1, RowsAreNoError DEF RestInv
  <2>2. slot[Key] # "stale"
    BY <1>1, <2>1, RowsAreNoError DEF Replies
  <2>3. up /\ (Key = "" \/ exists)
    <3>1. Key \in {"", "database"} /\ DOMAIN slot = {"", "database"}
      BY DEF Key, KeyOf, TypeOK
    <3> QED
      BY <1>1, <2>2, <3>1 DEF RestInv, Opened, TypeOK
  <2>4. ~call.blank /\ call.sql \in {"bad", "good"} /\ call.tool \in Tools
    BY <1>1, CallTyped DEF ArgsInv, TypeOK
  <2>5. call.tool # "list_databases" => exists
    BY <2>3 DEF Key, KeyOf
  <2>6. call.tool = "execute_query" => call.sql # "bad"
    BY <1>1, <2>1, <2>2, RowsAreNoError DEF Replies, Rejected
  <2>7. call.tool # "execute_query" => call.sql = "good"
    BY CallTyped DEF TypeOK
  <2>8. reply = NoRows <=> (call.tool = "get_table_schema" /\ call.table \notin tables)
    BY <1>1, <2>1, <2>2, RowsAreNoError DEF Replies, Rejected
  <2>9. answer' = IF call.tool = "get_table_schema" /\ call.table \notin tables
                  THEN "table_not_found" ELSE "ok"
    BY <1>1, <2>8, AnswersNamed
  <2> QED
    BY <1>1, <2>3, <2>4, <2>5, <2>6, <2>7, <2>9 DEF Expected, Tools
<1> QED
  BY <1>4, <1>5, <1>6, <1>7, <1>8

LEMMA StatementFailsInv ==
  ASSUME IInv, UNCHANGED client, StatementFails
  PROVE  IInv'
<1> USE DEF IInv
<1>1. /\ UNCHANGED <<client, up, exists, tables, call, found, steady, lost, cut, runs>>
      /\ stage = "sent" /\ reply' = {}
  BY DEF StatementFails, world, history
<1>2. PICK e \in DriverErrors :
        \/ /\ IsConnectionError(e) /\ attempt = 1
           /\ slot' = [slot EXCEPT ![Key] = "empty"]
           /\ attempt' = 2 /\ stage' = "connect" /\ answer' = answer
        \/ /\ ~IsConnectionError(e) \/ attempt = 2
           /\ stage' = "answered" /\ answer' = AnswerTo(RaiseFor(e))
           /\ UNCHANGED <<slot, attempt>>
  BY DEF StatementFails, Answer
<1>3. Key' = Key /\ Prefix' = Prefix /\ Key \in {"", "database"}
  BY <1>1, SameTypes DEF Key, KeyOf
<1>4. attempt \in {1, 2} /\ runs \in 0..2 /\ runs <= attempt
  BY <1>1 DEF TypeOK, RunInv
<1>5. /\ e = reply \/ (slot[Key] = "stale" /\ e \in StaleSession)
      /\ e \notin {Rows, NoRows}
  BY DEF DriverErrors, Heard
<1>6. IsConnectionError(e) => FoundStale \/ cut \/ Spoiled
  BY <1>1, <1>5 DEF SentInv, FromServer
<1>7. TypeOK'
  <2>1. answer' \in Answers
    BY <1>2, AnswersTyped DEF TypeOK, Answers
  <2>2. /\ attempt' \in {1, 2} /\ stage' \in {"connect", "run", "sent", "answered"}
        /\ reply' \in ReplyTypes'
    BY <1>1, <1>2, <1>4 DEF ReplyTypes
  <2>3. /\ slot' \in [{"", "database"} -> {"empty", "alive", "stale"}]
        /\ (\E k \in DOMAIN slot' : slot'[k] = "alive") => up
    BY <1>2, <1>3 DEF TypeOK
  <2> QED
    BY <1>1, <2>1, <2>2, <2>3 DEF TypeOK, Answers, ReplyTypes
<1>8. ArgsInv' /\ SessionInv' /\ SentInv'
  BY <1>1, <1>2, <1>3 DEF ArgsInv, SessionInv, SentInv, TypeOK
<1>9. RunInv'
  <2>1. (cut \/ Spoiled)' <=> cut \/ Spoiled
    BY <1>1, <1>3 DEF Spoiled
  <2>2. stage' # "answered" => runs < attempt' /\ (runs = 1 => cut \/ Spoiled)
    BY <1>2, <1>4, <1>6 DEF FoundStale
  <2>3. stage' \in {"connect", "answered"}
    BY <1>2
  <2> QED
    BY <1>1, <2>1, <2>2, <2>3 DEF RunInv, SecondRunHasCause
<1>10. LossInv'
  <2>1. (cut' => lost') /\ (stage' # "answered" /\ ~up => lost)
    BY <1>1 DEF LossInv
  <2>2. stage' = "connect" => slot'[Key] = "empty"
    BY <1>2, <1>3 DEF TypeOK
  <2>3. ASSUME stage' = "answered", answer' = "internal_error"
        PROVE  lost \/ Spoiled
    <3>1. /\ ~IsConnectionError(e) \/ attempt = 2
          /\ AnswerTo(RaiseFor(e)) = "internal_error"
      BY <1>2, <2>3
    <3>2. "connection" \in e
      BY <3>1, AnswersNamed DEF RaiseFor
    <3>3. attempt = 2
      BY <3>1, <3>2 DEF IsConnectionError
    <3> QED
      BY <1>6, <3>2, <3>3 DEF FoundStale, LossInv, IsConnectionError
  <2>4. stage' \in {"connect", "answered"}
    BY <1>2
  <2> QED
    BY <1>1, <1>3, <2>1, <2>2, <2>3, <2>4 DEF LossInv, InternalErrorIsReal, Answered, Spoiled
<1>11. RestInv'
  <2>1. AnswerNamesTheFault'
    <3> SUFFICES ASSUME steady, stage' = "answered",
                        \/ found = "empty"
                        \/ found = "alive" /\ exists
                        \/ found = "stale" /\ client.engine = "sqlserver",
                        ~(exists /\ MissingTable),
                        ~(Spoiled /\ call.sql = "bad")
                 PROVE  answer' = Expected'
      BY <1>1, <1>3 DEF AnswerNamesTheFault, Answered, MissingTable, Spoiled
    <3>1. ~IsConnectionError(e) \/ attempt = 2
      BY <1>2
    <3>2. slot[Key] # "stale" /\ e \in Replies
      <4>1. e \in Replies
        BY <1>1, <1>5 DEF RestInv, Replies
      <4> SUFFICES ASSUME slot[Key] = "stale" PROVE FALSE
        BY <4>1
      <4>2. attempt = 1 /\ client.engine = "sqlserver"
        BY <1>1 DEF RestInv, Opened
      <4>3. IsConnectionError(e)
        BY <4>1, <4>2 DEF Replies, StaleSession, IsConnectionError
      <4> QED
        BY <3>1, <4>2, <4>3
    <3>3. up /\ (Key = "" \/ exists)
      BY <1>1, <1>3, <3>2 DEF RestInv, Opened, TypeOK
    <3>4. call.tool = "execute_query" /\ exists
      BY <1>5, <3>2, <3>3, RepliesOfAServer DEF Key, KeyOf
    <3>5. ~call.blank /\ call.sql \in {"bad", "good"}
      BY <1>1 DEF ArgsInv
    <3>6. call.sql = "bad" /\ e = Prefix
      BY <1>5, <3>2, <3>4, <3>5, RepliesOfAServer DEF MissingTable
    <3>7. e = {}
      BY <3>4, <3>6 DEF Spoiled
    <3>8. answer' = "query_error"
      BY <1>2, <3>4, <3>7, AnswersNamed DEF IsConnectionError, RaiseFor
    <3> QED
      BY <1>1, <3>3, <3>4, <3>5, <3>6, <3>8 DEF Expected
  <2> QED
    BY <1>2, <2>1 DEF RestInv
<1> QED
  BY <1>7, <1>8, <1>9, <1>10, <1>11

-----------------------------------------------------------------------------
(* The steps of the server: none is a step of the call, and all are seen   *)
(* by "steady"; those that cost a session are seen by "lost".              *)
LEMMA ServerInv ==
  ASSUME IInv, UNCHANGED client, Server
  PROVE  IInv'
<1> USE DEF IInv
<1>1. /\ UNCHANGED <<client, call, stage, attempt, reply, answer, found, runs>>
      /\ steady' = FALSE
  BY DEF Server, Stop, Start, DropSessions, DropDatabase, CreateDatabase, ChangeTables,
         Disturb, world
<1>2. Key' = Key /\ Prefix' = Prefix /\ Key \in {"", "database"}
  BY <1>1 DEF Key, KeyOf, Prefix
<1>3. /\ up' \in BOOLEAN /\ exists' \in BOOLEAN /\ tables' \subseteq Tables
      /\ Lose \/ UNCHANGED <<slot, lost, cut>>
      /\ up /\ ~up' => Lose
      /\ client.engine = "sqlserver" /\ exists /\ ~exists' => slot' = Outdated
  BY DEF Server, Stop, Start, DropSessions, DropDatabase, CreateDatabase, ChangeTables,
         world, TypeOK, Lose
<1>4. /\ lost' \in BOOLEAN /\ cut' \in BOOLEAN
      /\ (lost => lost') /\ (cut => cut') /\ (cut' => cut \/ lost')
      /\ up /\ ~up' => lost'
      /\ slot' = slot \/ (slot' = Outdated /\ lost')
      /\ slot' = Outdated \/ (up => up')
      /\ stage = "sent" /\ slot[Key] = "alive" => cut' \/ slot' = slot
  <2>1. CASE Lose
    <3>1. cut' \in BOOLEAN
      BY <2>1 DEF Lose, TypeOK
    <3>2. (cut => cut') /\ (stage = "sent" /\ slot[Key] = "alive" => cut')
      BY <2>1 DEF Lose
    <3> QED
      BY <2>1, <3>1, <3>2 DEF Lose
  <2>2. CASE UNCHANGED <<slot, lost, cut>> /\ (up => up')
    BY <2>2 DEF TypeOK
  <2> QED
    BY <1>3, <2>1, <2>2 DEF TypeOK
<1>5. /\ Outdated \in [{"", "database"} -> {"empty", "stale"}]
      /\ \A k \in {"", "database"} : Outdated[k] = "empty" <=> slot[k] = "empty"
  BY DEF Outdated, TypeOK
<1>6. TypeOK'
  <2>1. slot' \in [{"", "database"} -> {"empty", "alive", "stale"}]
    BY <1>4, <1>5 DEF TypeOK
  <2>2. (\E k \in DOMAIN slot' : slot'[k] = "alive") => up'
    <3>1. CASE slot' = Outdated
      BY <1>5, <3>1
    <3>2. CASE slot' = slot /\ (up => up')
      BY <3>2 DEF TypeOK
    <3> QED
      BY <1>4, <3>1, <3>2
  <2>3. steady' \in BOOLEAN /\ reply' \in ReplyTypes'
    BY <1>1, SameTypes DEF TypeOK, ReplyTypes
  <2> QED
    BY <1>1, <1>3, <1>4, <2>1, <2>2, <2>3 DEF TypeOK, ReplyTypes
<1>7. ArgsInv' /\ SessionInv'
  BY <1>1, <1>3, <1>4, <1>5 DEF ArgsInv, SessionInv
<1>8. ((lost \/ Spoiled) => (lost \/ Spoiled)') /\ ((cut \/ Spoiled) => (cut \/ Spoiled)')
  BY <1>1, <1>2, <1>4 DEF Spoiled
<1>9. RunInv'
  BY <1>1, <1>8 DEF RunInv, SecondRunHasCause
<1>12. SentInv'
  <2>1. slot'[Key] # "empty" \/ slot[Key] = "empty"
    BY <1>2, <1>4, <1>5
  <2>2. FoundStale => FoundStale'
    BY <1>1, <1>2, <1>4 DEF FoundStale, Outdated, TypeOK
  <2>3. FromServer /\ stage = "sent" => FromServer'
    BY <1>1, <1>2, <1>4 DEF FromServer, IsConnectionError, Spoiled
  <2> QED
    BY <1>1, <1>2, <2>1, <2>2, <2>3 DEF SentInv
<1>10. LossInv'
  <2>1. InternalErrorIsReal'
    BY <1>1, <1>8 DEF LossInv, InternalErrorIsReal, Answered
  <2>2. slot'[Key] = "stale" => lost' \/ slot[Key] = "stale"
    BY <1>4
  <2>3. slot[Key] = "empty" => slot'[Key] = "empty"
    BY <1>2, <1>4, <1>5
  <2>4. stage' # "answered" /\ ~up' => lost'
    BY <1>1, <1>4 DEF LossInv
  <2>5. stage' = "connect" /\ attempt' = 2 => slot'[Key] = "empty"
    BY <1>1, <2>3 DEF LossInv
  <2>6. stage' = "run" /\ attempt' = 2 /\ slot'[Key] = "stale" => lost'
    BY <1>1, <1>4, <2>2 DEF LossInv
  <2>7. cut' => lost'
    BY <1>4 DEF LossInv
  <2> QED
    BY <1>2, <2>1, <2>4, <2>5, <2>6, <2>7 DEF LossInv
<1>11. RestInv'
  BY <1>1 DEF RestInv, AnswerNamesTheFault
<1> QED
  BY <1>6, <1>7, <1>9, <1>10, <1>11, <1>12

LEMMA StutterInv ==
  ASSUME IInv, UNCHANGED vars
  PROVE  IInv'
<1>1. UNCHANGED <<client, up, exists, tables, slot, call, stage, attempt, reply, answer>>
      /\ UNCHANGED <<found, steady, lost, cut, runs>>
  BY DEF vars, world, history
<1>2. Key' = Key /\ Prefix' = Prefix
  BY <1>1 DEF Key, KeyOf, Prefix
<1>3. TypeOK'
  <2>1. reply' \in ReplyTypes'
    BY <1>1, SameTypes DEF IInv, TypeOK
  <2>2. steady' \in BOOLEAN /\ lost' \in BOOLEAN /\ cut' \in BOOLEAN
    BY <1>1 DEF IInv, TypeOK
  <2> QED
    BY <1>1, <2>1, <2>2 DEF IInv, TypeOK
<1>4. ArgsInv' /\ SessionInv'
  BY <1>1 DEF IInv, ArgsInv, SessionInv
<1>5. RunInv' /\ LossInv' /\ SentInv'
  BY <1>1, <1>2 DEF IInv, RunInv, LossInv, SecondRunHasCause, InternalErrorIsReal, Answered,
                    Spoiled, SentInv, FoundStale, FromServer, IsConnectionError
<1>6. RestInv'
  <2>1. Replies' = Replies
    BY <1>1, <1>2 DEF Replies, StaleSession, NoDatabase, NoTable, Rejected
  <2> QED
    BY <1>1, <1>2, <2>1 DEF IInv, RestInv, Opened, AnswerNamesTheFault, Answered, Expected,
                            MissingTable, Spoiled
<1> QED
  BY <1>3, <1>4, <1>5, <1>6 DEF IInv

LEMMA InitInv ==
  ASSUME Init
  PROVE  IInv
<1>1. TypeOK
  <2>1. steady \in BOOLEAN /\ lost \in BOOLEAN /\ cut \in BOOLEAN /\ ~cut /\ reply = {}
    BY DEF Init
  <2>2. /\ call \in Calls /\ client \in Clients /\ tables \subseteq Tables
        /\ up \in BOOLEAN /\ exists \in BOOLEAN
    BY DEF Init
  <2>3. /\ slot \in [{"", "database"} -> {"empty", "alive", "stale"}]
        /\ \A k \in DOMAIN slot : slot[k] # "alive"
    BY DEF Init
  <2>4. /\ stage = "answered" /\ answer = "none" /\ found = "empty"
        /\ attempt = 1 /\ runs = 0
    BY DEF Init
  <2>5. /\ stage \in {"connect", "run", "sent", "answered"} /\ answer \in Answers
        /\ found \in {"empty", "alive", "stale"}
        /\ attempt \in {1, 2} /\ runs \in 0..2
    BY <2>4 DEF Answers
  <2>6. (\E k \in DOMAIN slot : slot[k] = "alive") => up
    BY <2>3
  <2> QED
    BY <2>1, <2>2, <2>3, <2>5, <2>6 DEF TypeOK, Answers, ReplyTypes
<1>2. ArgsInv /\ SessionInv /\ RunInv
  <2>1. stage = "answered" /\ runs = 0 /\ slot["database"] = "empty"
    BY DEF Init
  <2> QED
    BY <2>1 DEF ArgsInv, SessionInv, RunInv, SecondRunHasCause
<1>3. LossInv /\ RestInv /\ SentInv
  BY DEF Init, LossInv, SentInv, RestInv, InternalErrorIsReal, AnswerNamesTheFault, Answered
<1> QED
  BY <1>1, <1>2, <1>3 DEF IInv

(* IInv holds in every state a caller of the tools can meet.               *)
THEOREM Invariance == Spec => []IInv
<1>1. IInv /\ [Next]_vars => IInv'
  <2> SUFFICES ASSUME IInv, [Next]_vars
               PROVE  IInv'
    OBVIOUS
  <2> QED
    BY CallInv, GetConnectionInv, SendStatementInv, ReadResultInv, StatementFailsInv,
       ServerInv, StutterInv
    DEF Next
<1> QED
  BY <1>1, InitInv, PTL DEF Spec

(* The variables keep their types, and no session is alive on a server     *)
(* that is down, for any clients and tables.                               *)
THEOREM TypeCorrect == Spec => []TypeOK
<1>1. IInv => TypeOK
  BY DEF IInv
<1> QED
  BY <1>1, Invariance, PTL

(* In a world at rest an answer names what is wrong with the call, through *)
(* the pool, the error of the driver, its class, the reconnect and the     *)
(* except clauses (service.py 57-173, mysql.py 133-156 and 238-318,        *)
(* sqlserver.py 146-257), with the exceptions that the property names.     *)
THEOREM FaultIsNamed == Spec => []AnswerNamesTheFault
<1>1. IInv => AnswerNamesTheFault
  BY DEF IInv, RestInv
<1> QED
  BY <1>1, Invariance, PTL

(* A caller is told of an internal error only when the server was down or  *)
(* a session was lost during the call: one that had died before is replaced*)
(* unseen by the reconnect of _run_with_cursor.  Queries are left out where *)
(* the driver's name makes every error of theirs a connection error.       *)
THEOREM InternalErrorsAreReal == Spec => []InternalErrorIsReal
<1>1. IInv => InternalErrorIsReal
  BY DEF IInv, LossInv
<1> QED
  BY <1>1, Invariance, PTL

(* The reconnect of _run_with_cursor hands a statement to the server twice *)
(* only when the session was lost while the server had the statement, or   *)
(* when the name of SQL Server's driver makes every rejected query look    *)
(* like that.                                                              *)
THEOREM NoNeedlessSecondRun == Spec => []SecondRunHasCause
<1>1. IInv => SecondRunHasCause
  BY DEF IInv, RunInv
<1> QED
  BY <1>1, Invariance, PTL

=============================================================================
