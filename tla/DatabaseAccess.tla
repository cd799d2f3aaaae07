--------------------------- MODULE DatabaseAccess ---------------------------
(***************************************************************************)
(* What a database client promises its callers, with no pool, lock or      *)
(* session in sight: the calls on one database are served one at a time,   *)
(* a call that is being served runs its operation, may run it once more,   *)
(* and ends.  ConnectionPool implements this specification.                *)
(***************************************************************************)

CONSTANTS
  Threads,      \* callers of the client
  Databases,    \* pool keys: a database name, or "" when none is given
  None          \* the target of a caller that is idle

VARIABLES
  phase,        \* what each caller is doing
  target        \* the database of its call

vars == <<phase, target>>

Phases == {"idle", "waiting", "first", "second"}
Served == {"first", "second"}

Init ==
  /\ phase = [t \in Threads |-> "idle"]
  /\ target = [t \in Threads |-> None]

Call(t, d) ==
  /\ phase[t] = "idle"
  /\ phase' = [phase EXCEPT ![t] = "waiting"]
  /\ target' = [target EXCEPT ![t] = d]

(* The turn on a database is given to a caller while nobody is served.     *)
Serve(t) ==
  /\ phase[t] = "waiting"
  /\ \A u \in Threads : target[u] = target[t] => phase[u] \notin Served
  /\ phase' = [phase EXCEPT ![t] = "first"]
  /\ UNCHANGED target

(* Only a first attempt is followed by another.                            *)
RunAgain(t) ==
  /\ phase[t] = "first"
  /\ phase' = [phase EXCEPT ![t] = "second"]
  /\ UNCHANGED target

Return(t) ==
  /\ phase[t] \in Served
  /\ phase' = [phase EXCEPT ![t] = "idle"]
  /\ target' = [target EXCEPT ![t] = None]

Next ==
  \E t \in Threads :
    \/ \E d \in Databases : Call(t, d)
    \/ Serve(t)
    \/ RunAgain(t)
    \/ Return(t)

Spec == Init /\ [][Next]_vars

=============================================================================
