--------------------------- MODULE ConnectionPool ---------------------------
(***************************************************************************)
(* The pool of driver sessions kept by MySqlClient (mysql.py 176-318) and  *)
(* SqlServerClient (sqlserver.py 84-217), which share one design: a dict   *)
(* of sessions by database, a dict of operation locks by database, and one *)
(* re-entrant lock, _connections_lock, over both dicts.                    *)
(*                                                                         *)
(* A thread holds _connections_lock over several steps only where the code *)
(* may be overtaken while it holds it: between looking an operation lock   *)
(* up and creating it, while a session is opened, and while the old        *)
(* session of a forced reconnect is dropped.  The lock is re-entrant, so a *)
(* thread may enter when the lock is free or its own (MayEnter).           *)
(***************************************************************************)

CONSTANTS
  Threads,        \* callers of the client
  Databases,      \* pool keys, _pool_key(database): a name or ""
  Sessions,       \* driver sessions; one that is closed and forgotten may
                  \* stand for a new one
  Locks,          \* operation locks
  None,           \* Python's None, and the free state of a lock
  HealthyErrors,  \* classes of driver error a statement may meet on a
                  \* healthy session, by _is_connection_error
  BrokenErrors,   \* the same on a session that the server has dropped
  ClosedErrors,   \* the same on a session that was closed under it
  Hung            \* databases whose server may never answer a statement

ErrorClasses == {"connection", "query"}

ASSUME NoneAssumption == None \notin Threads \cup Databases \cup Sessions \cup Locks
ASSUME ErrorAssumption == HealthyErrors \cup BrokenErrors \cup ClosedErrors \subseteq ErrorClasses

VARIABLES
  connections,     \* self._connections
  operationLocks,  \* self._operation_locks
  enteredBy,       \* the owner of self._connections_lock
  heldBy,          \* the owner of each operation lock
  open,            \* the sessions the client has opened and not closed
  broken,          \* the open sessions the server has dropped
  pc,              \* where each thread stands
  database,        \* its argument database_name
  operationLock,   \* its local operation_lock
  connection,      \* the session its cursor is on
  attempt,         \* 1 in the outer try, 2 in the inner one
  closing          \* the sessions it has taken out of the pool to close

pool    == <<connections, operationLocks, enteredBy, heldBy>>
session == <<open, broken>>
local   == <<pc, database, operationLock, connection, attempt, closing>>
vars    == <<pool, session, local>>

Steps == {"idle", "lookup_lock", "create_lock", "acquire", "get_connection",
          "connect", "execute", "discard", "close_stale", "force_new",
          "inner_discard", "inner_close", "close_all"}

(* Where a thread holds _connections_lock across a step ...                *)
Inside(t) ==
  \/ pc[t] \in {"create_lock", "connect", "inner_discard", "inner_close"}
  \/ pc[t] = "get_connection" /\ attempt[t] = 2

(* ... and where it holds the operation lock of its database.              *)
Serving == {"get_connection", "connect", "execute", "discard", "close_stale",
            "force_new", "inner_discard", "inner_close"}

Pooled == {connections[d] : d \in Databases} \ {None}

Init ==
  /\ connections = [d \in Databases |-> None]
  /\ operationLocks = [d \in Databases |-> None]
  /\ enteredBy = None
  /\ heldBy = [l \in Locks |-> None]
  /\ open = {}
  /\ broken = {}
  /\ pc = [t \in Threads |-> "idle"]
  /\ database = [t \in Threads |-> None]
  /\ operationLock = [t \in Threads |-> None]
  /\ connection = [t \in Threads |-> None]
  /\ attempt = [t \in Threads |-> 1]
  /\ closing = [t \in Threads |-> {}]

-----------------------------------------------------------------------------
Goto(t, step) == pc' = [pc EXCEPT ![t] = step]

(* Mutant: a lock that is not re-entrant.                                  *)
MayEnterOnce(t) == enteredBy = None
MayEnter(t) == enteredBy \in {None, t}
Enter(t) == MayEnter(t) /\ enteredBy' = t
EnterAndLeave(t) == MayEnter(t) /\ enteredBy' = None
LeaveIf(t) == enteredBy' = IF enteredBy = t THEN None ELSE enteredBy

(* A session, or a lock, that nobody refers to any more: the next one the  *)
(* driver, or the interpreter, makes.                                      *)
NewSession(s) ==
  /\ s \notin open \cup Pooled
  /\ \A t \in Threads : s # connection[t] /\ s \notin closing[t]
NewLock(l) ==
  /\ \A d \in Databases : l # operationLocks[d]
  /\ \A t \in Threads : l # operationLock[t]

(* with operation_lock and with _connections_lock end, however the body of *)
(* _run_with_cursor ends: with a result, or with the exception it raises.  *)
Return(t) ==
  /\ Goto(t, "idle")
  /\ heldBy' = [heldBy EXCEPT ![operationLock[t]] = None]
  /\ LeaveIf(t)
  /\ database' = [database EXCEPT ![t] = None]
  /\ operationLock' = [operationLock EXCEPT ![t] = None]
  /\ connection' = [connection EXCEPT ![t] = None]
  /\ attempt' = [attempt EXCEPT ![t] = 1]

-----------------------------------------------------------------------------
(* list_databases, list_tables, get_table_schema and execute_query all run *)
(* through _run_with_cursor.                                               *)
RunWithCursor(t, d) ==
  /\ pc[t] = "idle"
  /\ Goto(t, "lookup_lock")
  /\ database' = [database EXCEPT ![t] = d]
  /\ UNCHANGED <<pool, session, operationLock, connection, attempt, closing>>

(* Mutant: the lookup and the creation of an operation lock are not under  *)
(* one hold of _connections_lock.                                          *)
LookupLockUnguarded(t) ==
  /\ pc[t] = "lookup_lock"
  /\ LET l == operationLocks[database[t]] IN
       IF l # None THEN operationLock' = [operationLock EXCEPT ![t] = l] /\ Goto(t, "acquire")
       ELSE Goto(t, "create_lock") /\ UNCHANGED operationLock
  /\ UNCHANGED <<pool, session, database, connection, attempt, closing>>

(* _get_operation_lock: operation_locks.get(pool_key) ...                  *)
LookupLock(t) ==
  /\ pc[t] = "lookup_lock"
  /\ LET l == operationLocks[database[t]] IN
       \/ /\ l # None
          /\ EnterAndLeave(t)
          /\ operationLock' = [operationLock EXCEPT ![t] = l]
          /\ Goto(t, "acquire")
       \/ /\ l = None
          /\ Enter(t)
          /\ Goto(t, "create_lock")
          /\ UNCHANGED operationLock
  /\ UNCHANGED <<connections, operationLocks, heldBy, session, database,
                 connection, attempt, closing>>

(* Mutant: the new lock is returned and not stored.                        *)
CreateLockUnstored(t) ==
  /\ pc[t] = "create_lock"
  /\ \E l \in Locks : NewLock(l) /\ operationLock' = [operationLock EXCEPT ![t] = l]
  /\ LeaveIf(t)
  /\ Goto(t, "acquire")
  /\ UNCHANGED <<connections, operationLocks, heldBy, session, database, connection,
                 attempt, closing>>

(* ... and, when there is none, RLock() stored under the key.              *)
CreateLock(t) ==
  /\ pc[t] = "create_lock"
  /\ \E l \in Locks :
       /\ NewLock(l)
       /\ operationLocks' = [operationLocks EXCEPT ![database[t]] = l]
       /\ operationLock' = [operationLock EXCEPT ![t] = l]
  /\ LeaveIf(t)
  /\ Goto(t, "acquire")
  /\ UNCHANGED <<connections, heldBy, session, database, connection, attempt,
                 closing>>

(* Mutant: the operation runs without its lock.                            *)
AcquireNothing(t) ==
  /\ pc[t] = "acquire"
  /\ Goto(t, "get_connection")
  /\ UNCHANGED <<pool, session, database, operationLock, connection, attempt, closing>>

(* with operation_lock: a thread is never inside two calls, so its own     *)
(* re-entrance does not arise.                                             *)
Acquire(t) ==
  /\ pc[t] = "acquire"
  /\ heldBy[operationLock[t]] = None
  /\ heldBy' = [heldBy EXCEPT ![operationLock[t]] = t]
  /\ Goto(t, "get_connection")
  /\ UNCHANGED <<connections, operationLocks, enteredBy, session, database,
                 operationLock, connection, attempt, closing>>

(* _get_connection: a pooled session is reused whatever its health; when   *)
(* there is none the lock is kept while _connect runs.                     *)
GetConnection(t) ==
  /\ pc[t] = "get_connection"
  /\ LET s == connections[database[t]] IN
       \/ /\ s # None
          /\ EnterAndLeave(t)
          /\ connection' = [connection EXCEPT ![t] = s]
          /\ Goto(t, "execute")
       \/ /\ s = None
          /\ Enter(t)
          /\ Goto(t, "connect")
          /\ UNCHANGED connection
  /\ UNCHANGED <<connections, operationLocks, heldBy, session, database,
                 operationLock, attempt, closing>>

Connect(t) ==
  /\ pc[t] = "connect"
  /\ \E s \in Sessions :
       /\ NewSession(s)
       /\ open' = open \cup {s}
       /\ connections' = [connections EXCEPT ![database[t]] = s]
       /\ connection' = [connection EXCEPT ![t] = s]
  /\ LeaveIf(t)
  /\ Goto(t, "execute")
  /\ UNCHANGED <<operationLocks, heldBy, broken, database, operationLock,
                 attempt, closing>>

(* _connect maps the driver's error to a RuntimeError, which no except     *)
(* clause of _run_with_cursor catches: the call ends, on either attempt.   *)
ConnectFails(t) ==
  /\ pc[t] = "connect"
  /\ Return(t)
  /\ UNCHANGED <<connections, operationLocks, session, closing>>

(* operation(cursor) returns, or raises TableNotFoundError itself.         *)
OperationEnds(t) ==
  /\ pc[t] = "execute"
  /\ connection[t] \in open \ broken
  /\ Return(t)
  /\ UNCHANGED <<connections, operationLocks, session, closing>>

(* The classes of driver error a statement on session s may raise.         *)
DriverErrors(s) ==
  IF s \notin open THEN ClosedErrors
  ELSE IF s \in broken THEN BrokenErrors
  ELSE HealthyErrors

(* Only a connection error of the first attempt is tried again; any other  *)
(* driver error is mapped and raised.                                      *)
OperationFails(t) ==
  /\ pc[t] = "execute"
  /\ \E class \in DriverErrors(connection[t]) :
       \/ /\ class = "connection" /\ attempt[t] = 1
          /\ Goto(t, "discard")
          /\ UNCHANGED <<pool, database, operationLock, connection, attempt>>
       \/ /\ class = "query" \/ attempt[t] = 2
          /\ Return(t)
          /\ UNCHANGED <<connections, operationLocks>>
  /\ UNCHANGED <<session, closing>>

(* Mutant: the session is read from the pool and left there.               *)
PopNothing(t, close, done) ==
  LET s == connections[database[t]] IN
    /\ \/ s = None /\ Goto(t, done) /\ UNCHANGED closing
       \/ s # None /\ Goto(t, close) /\ closing' = [closing EXCEPT ![t] = {s}]
    /\ UNCHANGED <<connections, operationLocks, heldBy, session, database,
                   operationLock, connection>>

(* Mutant: what was popped is closed without a look whether it is None.    *)
PopUnchecked(t, close, done) ==
  LET s == connections[database[t]] IN
    /\ connections' = [connections EXCEPT ![database[t]] = None]
    /\ Goto(t, close)
    /\ closing' = [closing EXCEPT ![t] = {s}]
    /\ UNCHANGED <<operationLocks, heldBy, session, database, operationLock,
                   connection>>

(* _discard_connection: the pooled session is popped under the lock; it is *)
(* closed after the lock is left, one level of it when entered twice.      *)
Pop(t, close, done) ==
  LET s == connections[database[t]] IN
    /\ connections' = [connections EXCEPT ![database[t]] = None]
    /\ \/ s = None /\ Goto(t, done) /\ UNCHANGED closing
       \/ s # None /\ Goto(t, close) /\ closing' = [closing EXCEPT ![t] = {s}]
    /\ UNCHANGED <<operationLocks, heldBy, session, database, operationLock,
                   connection>>

(* Mutant: a dropped session is never closed on this side.                 *)
CloseTakenUnlessBroken(t, s) ==
  /\ s \in closing[t]
  /\ open' = IF s \in broken THEN open ELSE open \ {s}
  /\ closing' = [closing EXCEPT ![t] = @ \ {s}]
  /\ UNCHANGED <<pool, broken, database, operationLock, connection, attempt>>

CloseTaken(t, s) ==
  /\ s \in closing[t]
  /\ open' = open \ {s}
  /\ broken' = broken \ {s}
  /\ closing' = [closing EXCEPT ![t] = @ \ {s}]
  /\ UNCHANGED <<pool, database, operationLock, connection, attempt>>

Discard(t) ==
  /\ pc[t] = "discard"
  /\ EnterAndLeave(t)
  /\ Pop(t, "close_stale", "force_new")
  /\ attempt' = [attempt EXCEPT ![t] = 2]

(* _get_connection(force_new=True) enters the lock, discards again inside  *)
(* it, and goes on with the lookup of GetConnection still inside.          *)
ForceNew(t) ==
  /\ pc[t] = "force_new"
  /\ Enter(t)
  /\ Goto(t, "inner_discard")
  /\ UNCHANGED <<connections, operationLocks, heldBy, session, database,
                 operationLock, connection, attempt, closing>>

InnerDiscard(t) ==
  /\ pc[t] = "inner_discard"
  /\ MayEnter(t)
  /\ Pop(t, "inner_close", "get_connection")
  /\ UNCHANGED <<enteredBy, attempt>>

(* The close that ends either discard.                                     *)
CloseDiscarded(t) ==
  /\ pc[t] \in {"close_stale", "inner_close"}
  /\ \E s \in Sessions : CloseTaken(t, s)
  /\ Goto(t, IF pc[t] = "close_stale" THEN "force_new" ELSE "get_connection")

(* close(): the whole pool is taken under the lock and closed outside it,  *)
(* whoever is using it; registered with atexit.                            *)
Close(t) ==
  /\ pc[t] = "idle"
  /\ Pooled # {}
  /\ EnterAndLeave(t)
  /\ closing' = [closing EXCEPT ![t] = Pooled]
  /\ connections' = [d \in Databases |-> None]
  /\ Goto(t, "close_all")
  /\ UNCHANGED <<operationLocks, heldBy, session, database, operationLock,
                 connection, attempt>>

CloseNext(t) ==
  /\ pc[t] = "close_all"
  /\ \E s \in Sessions :
       /\ CloseTaken(t, s)
       /\ Goto(t, IF closing[t] = {s} THEN "idle" ELSE "close_all")

(* The server drops a session: idle timeout, restart, KILL.                *)
Drop(s) ==
  /\ s \in open \ broken
  /\ broken' = broken \cup {s}
  /\ UNCHANGED <<pool, open, local>>

-----------------------------------------------------------------------------
Statement(t) == OperationEnds(t) \/ OperationFails(t)

Progress(t) ==
  \/ LookupLock(t) \/ CreateLock(t) \/ Acquire(t)
  \/ GetConnection(t) \/ Connect(t) \/ ConnectFails(t)
  \/ Discard(t) \/ ForceNew(t) \/ InnerDiscard(t) \/ CloseDiscarded(t)
  \/ CloseNext(t)

Next ==
  \/ \E t \in Threads :
       \/ \E d \in Databases : RunWithCursor(t, d)
       \/ Close(t)
       \/ Progress(t)
       \/ Statement(t)
  \/ \E s \in Sessions : Drop(s)

Spec == Init /\ [][Next]_vars

(* Threads are scheduled, a lock that is free again and again is obtained, *)
(* and opening a session ends (connect_timeout).  Nothing bounds the time  *)
(* a statement takes, so only the servers that are not hung answer.        *)
Fairness ==
  \A t \in Threads :
    /\ SF_vars(Progress(t))
    /\ WF_vars(database[t] \notin Hung /\ Statement(t))

FairSpec == Spec /\ Fairness

-----------------------------------------------------------------------------
TypeOK ==
  /\ connections \in [Databases -> Sessions \cup {None}]
  /\ operationLocks \in [Databases -> Locks \cup {None}]
  /\ enteredBy \in Threads \cup {None}
  /\ heldBy \in [Locks -> Threads \cup {None}]
  /\ open \subseteq Sessions
  /\ broken \subseteq open
  /\ pc \in [Threads -> Steps]
  /\ database \in [Threads -> Databases \cup {None}]
  /\ operationLock \in [Threads -> Locks \cup {None}]
  /\ connection \in [Threads -> Sessions \cup {None}]
  /\ attempt \in [Threads -> {1, 2}]
  /\ closing \in [Threads -> SUBSET Sessions]

(* Two callers never run a statement on one session: neither driver allows *)
(* it.  Rests on one operation lock for each database, on the lock being   *)
(* held from the lookup of the session to the end of the operation, and on *)
(* a session being pooled under one database only.                         *)
ExclusiveSession ==
  \A t, u \in Threads :
    pc[t] = "execute" /\ pc[u] = "execute" /\ t # u =>
      connection[t] # connection[u]

(* No session is lost and none is closed twice: each open session is in    *)
(* one place, a slot of the pool or the hands of one thread that is about  *)
(* to close it, and these places hold open sessions only.  (pymysql raises *)
(* "Already closed" out of a second close().)                              *)
SessionsAccounted ==
  /\ open = Pooled \cup UNION {closing[t] : t \in Threads}
  /\ \A d, e \in Databases :
       connections[d] = connections[e] /\ connections[d] # None => d = e
  /\ \A t \in Threads : closing[t] \cap Pooled = {}
  /\ \A t, u \in Threads : t # u => closing[t] \cap closing[u] = {}

(* A session is closed under a running statement by close() alone: the     *)
(* reconnect of one call never closes the session of another.              *)
OnlyCloseInterrupts ==
  [][\A t, u \in Threads :
       /\ pc[t] = "execute"
       /\ connection[t] \in open \ open'
       /\ closing[u] # closing'[u]
       => pc[u] = "close_all"]_vars

(* The second attempt runs on a session opened for it, never on the stale  *)
(* one that failed nor on one that another call has left in the pool.      *)
RetryOnNewSession ==
  [][\A t \in Threads :
       pc[t] # "execute" /\ pc'[t] = "execute" /\ attempt'[t] = 2 =>
         connection'[t] \in open' \ open]_vars

(* The inductive strengthening of the invariants above, in two parts.      *)
(* The locks: _connections_lock is owned exactly by the thread inside it,  *)
(* a database has one operation lock and no lock serves two databases, and *)
(* a thread in _run_with_cursor holds the lock of its own database.        *)
LockInv ==
  /\ \A t \in Threads : enteredBy = t <=> Inside(t)
  /\ \A d, e \in Databases :
       operationLocks[d] = operationLocks[e] /\ operationLocks[d] # None => d = e
  /\ \A t \in Threads :
       /\ pc[t] \notin {"idle", "close_all"} => database[t] \in Databases
       /\ pc[t] = "create_lock" => operationLocks[database[t]] = None
       /\ pc[t] \in Serving \cup {"acquire"} =>
            operationLock[t] \in Locks /\ operationLock[t] = operationLocks[database[t]]
       /\ pc[t] \in Serving => heldBy[operationLock[t]] = t
       /\ pc[t] \in {"idle", "close_all", "lookup_lock", "create_lock", "acquire",
                     "discard"} => attempt[t] = 1
       /\ pc[t] \in {"close_stale", "force_new", "inner_discard"} => attempt[t] = 2

(* The sessions: while a call is served, the pool has the call's session   *)
(* or none under its database, and no other database has it; from the      *)
(* discard of a stale session until the reconnect it has none, so that the *)
(* second discard, inside the lock, never finds anything to close.         *)
ServedSession(t) ==
  /\ pc[t] = "execute" =>
       /\ connection[t] \in Sessions
       /\ connections[database[t]] \in {None, connection[t]}
       /\ \A d \in Databases : connections[d] = connection[t] => d = database[t]
       /\ \A u \in Threads : pc[u] = "close_stale" => connection[t] \notin closing[u]
  /\ \/ pc[t] \in {"connect", "close_stale", "force_new", "inner_discard"}
     \/ pc[t] = "get_connection" /\ attempt[t] = 2
     => connections[database[t]] = None
  /\ pc[t] # "inner_close"
  /\ pc[t] = "close_stale" => \E s \in Sessions : closing[t] = {s}
  /\ pc[t] \notin {"close_stale", "close_all"} => closing[t] = {}

SessionInv ==
  /\ SessionsAccounted
  /\ ExclusiveSession
  /\ \A t \in Threads : ServedSession(t)

IInv == TypeOK /\ LockInv /\ SessionInv

(* Every call returns, and so does close(), unless the server of the       *)
(* call's own database hangs: a hung statement keeps the operation lock of *)
(* one database, and nobody waits for the lock over the pool for ever.     *)
Waiting(t) == pc[t] # "idle" /\ database[t] \notin Hung
CallsReturn == \A t \in Threads : Waiting(t) ~> pc[t] = "idle"

(* The pool serialises the calls on one database and runs the operation of *)
(* a call at most twice: it implements DatabaseAccess.                     *)
Phase(t) ==
  IF pc[t] \in {"idle", "close_all"} THEN "idle"
  ELSE IF pc[t] \in {"lookup_lock", "create_lock", "acquire"} THEN "waiting"
  ELSE IF attempt[t] = 1 THEN "first" ELSE "second"

Access == INSTANCE DatabaseAccess WITH
            phase <- [t \in Threads |-> Phase(t)],
            target <- database
AccessSpec == Access!Spec

=============================================================================
