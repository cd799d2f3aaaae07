----------------------- MODULE ConnectionPoolProofs -----------------------
(***************************************************************************)
(* The inductive invariant of ConnectionPool and what follows from it, for *)
(* any number of threads, databases, sessions and locks.                   *)
(***************************************************************************)
EXTENDS ConnectionPool, TLAPS

LEMMA InitIInv == Init => IInv
  <1> SUFFICES ASSUME Init PROVE IInv
    OBVIOUS
  <1> USE DEF Init
  <1>1. TypeOK
    BY DEF TypeOK, Steps
  <1>2. LockInv
    BY NoneAssumption DEF LockInv, Inside, Serving
  <1>3. SessionInv
    BY DEF SessionInv, SessionsAccounted, ExclusiveSession, ServedSession, Pooled
  <1>4. QED
    BY <1>1, <1>2, <1>3 DEF IInv

-----------------------------------------------------------------------------
(* The actions of a thread, as one formula: Next without Drop.             *)
LEMMA TypeStep == IInv /\ [Next]_vars => TypeOK'
  <1> SUFFICES ASSUME IInv, [Next]_vars PROVE TypeOK'
    OBVIOUS
  <1> USE DEF IInv, TypeOK, Steps, pool, session, local, Goto
  <1>1. ASSUME NEW t \in Threads, NEW d \in Databases, RunWithCursor(t, d)
        PROVE  TypeOK'
    BY <1>1 DEF RunWithCursor
  <1>2. ASSUME NEW t \in Threads, LookupLock(t)
        PROVE  TypeOK'
    BY <1>2 DEF LookupLock, Enter, EnterAndLeave, LockInv
  <1>3. ASSUME NEW t \in Threads, CreateLock(t)
        PROVE  TypeOK'
    <2>1. PICK l \in Locks :
            /\ operationLocks' = [operationLocks EXCEPT ![database[t]] = l]
            /\ operationLock' = [operationLock EXCEPT ![t] = l]
      BY <1>3 DEF CreateLock
    <2>2. /\ pc' \in [Threads -> Steps]
          /\ enteredBy' \in Threads \cup {None}
      BY <1>3 DEF CreateLock, LeaveIf
    <2>3. /\ operationLocks' \in [Databases -> Locks \cup {None}]
          /\ operationLock' \in [Threads -> Locks \cup {None}]
      BY <2>1
    <2>4. QED
      BY <1>3, <2>2, <2>3 DEF CreateLock
  <1>4. ASSUME NEW t \in Threads, Acquire(t)
        PROVE  TypeOK'
    BY <1>4 DEF Acquire
  <1>5. ASSUME NEW t \in Threads, GetConnection(t)
        PROVE  TypeOK'
    BY <1>5 DEF GetConnection, Enter, EnterAndLeave, LockInv, Serving
  <1>6. ASSUME NEW t \in Threads, Connect(t)
        PROVE  TypeOK'
    <2>1. PICK s \in Sessions :
            /\ open' = open \cup {s}
            /\ connections' = [connections EXCEPT ![database[t]] = s]
            /\ connection' = [connection EXCEPT ![t] = s]
      BY <1>6 DEF Connect
    <2>2. /\ pc' \in [Threads -> Steps]
          /\ enteredBy' \in Threads \cup {None}
      BY <1>6 DEF Connect, LeaveIf
    <2>3. /\ connections' \in [Databases -> Sessions \cup {None}]
          /\ connection' \in [Threads -> Sessions \cup {None}]
          /\ open' \subseteq Sessions
      BY <2>1
    <2>4. broken' \subseteq open'
      BY <1>6, <2>1 DEF Connect
    <2>5. QED
      BY <1>6, <2>2, <2>3, <2>4 DEF Connect
  <1>7. ASSUME NEW t \in Threads, ConnectFails(t)
        PROVE  TypeOK'
    BY <1>7 DEF ConnectFails, Return, LeaveIf
  <1>8. ASSUME NEW t \in Threads, OperationEnds(t)
        PROVE  TypeOK'
    BY <1>8 DEF OperationEnds, Return, LeaveIf
  <1>9. ASSUME NEW t \in Threads, OperationFails(t)
        PROVE  TypeOK'
    BY <1>9 DEF OperationFails, Return, LeaveIf
  <1>10. ASSUME NEW t \in Threads, Discard(t)
         PROVE  TypeOK'
    BY <1>10 DEF Discard, Pop, EnterAndLeave, LockInv, Serving
  <1>11. ASSUME NEW t \in Threads, ForceNew(t)
         PROVE  TypeOK'
    BY <1>11 DEF ForceNew, Enter
  <1>12. ASSUME NEW t \in Threads, InnerDiscard(t)
         PROVE  TypeOK'
    BY <1>12 DEF InnerDiscard, Pop, LockInv, Serving
  <1>13. ASSUME NEW t \in Threads, CloseDiscarded(t)
         PROVE  TypeOK'
    BY <1>13 DEF CloseDiscarded, CloseTaken
  <1>14. ASSUME NEW t \in Threads, Close(t)
         PROVE  TypeOK'
    BY <1>14 DEF Close, EnterAndLeave, Pooled
  <1>15. ASSUME NEW t \in Threads, CloseNext(t)
         PROVE  TypeOK'
    BY <1>15 DEF CloseNext, CloseTaken
  <1>16. ASSUME NEW s \in Sessions, Drop(s)
         PROVE  TypeOK'
    BY <1>16 DEF Drop
  <1>17. CASE UNCHANGED vars
    BY <1>17 DEF vars
  <1>18. QED
    BY <1>1, <1>2, <1>3, <1>4, <1>5, <1>6, <1>7, <1>8, <1>9, <1>10, <1>11,
       <1>12, <1>13, <1>14, <1>15, <1>16, <1>17
       DEF Next, Progress, Statement

LEMMA LockStep == IInv /\ [Next]_vars => LockInv'
  <1> SUFFICES ASSUME IInv, [Next]_vars PROVE LockInv'
    OBVIOUS
  <1> USE NoneAssumption
      DEF IInv, TypeOK, LockInv, Inside, Serving, Steps, pool, session, local, Goto
  <1>1. ASSUME NEW t \in Threads, NEW d \in Databases, RunWithCursor(t, d)
        PROVE  LockInv'
    BY <1>1 DEF RunWithCursor
  <1>2. ASSUME NEW t \in Threads, LookupLock(t)
        PROVE  LockInv'
    BY <1>2 DEF LookupLock, Enter, EnterAndLeave, MayEnter
  <1>3. ASSUME NEW t \in Threads, CreateLock(t)
        PROVE  LockInv'
    BY <1>3 DEF CreateLock, LeaveIf, NewLock
  <1>4. ASSUME NEW t \in Threads, Acquire(t)
        PROVE  LockInv'
    BY <1>4 DEF Acquire
  <1>5. ASSUME NEW t \in Threads, GetConnection(t)
        PROVE  LockInv'
    BY <1>5 DEF GetConnection, Enter, EnterAndLeave, MayEnter
  <1>6. ASSUME NEW t \in Threads, Connect(t)
        PROVE  LockInv'
    BY <1>6 DEF Connect, LeaveIf
  <1>7. ASSUME NEW t \in Threads, ConnectFails(t)
        PROVE  LockInv'
    BY <1>7 DEF ConnectFails, Return, LeaveIf
  <1>8. ASSUME NEW t \in Threads, OperationEnds(t)
        PROVE  LockInv'
    BY <1>8 DEF OperationEnds, Return, LeaveIf
  <1>9. ASSUME NEW t \in Threads, OperationFails(t)
        PROVE  LockInv'
    BY <1>9 DEF OperationFails, Return, LeaveIf
  <1>10. ASSUME NEW t \in Threads, Discard(t)
         PROVE  LockInv'
    BY <1>10 DEF Discard, Pop, EnterAndLeave, MayEnter
  <1>11. ASSUME NEW t \in Threads, ForceNew(t)
         PROVE  LockInv'
    BY <1>11 DEF ForceNew, Enter, MayEnter
  <1>12. ASSUME NEW t \in Threads, InnerDiscard(t)
         PROVE  LockInv'
    BY <1>12 DEF InnerDiscard, Pop, MayEnter, SessionInv, ServedSession
  <1>13. ASSUME NEW t \in Threads, CloseDiscarded(t)
         PROVE  LockInv'
    BY <1>13 DEF CloseDiscarded, CloseTaken, SessionInv, ServedSession
  <1>14. ASSUME NEW t \in Threads, Close(t)
         PROVE  LockInv'
    BY <1>14 DEF Close, EnterAndLeave, MayEnter
  <1>15. ASSUME NEW t \in Threads, CloseNext(t)
         PROVE  LockInv'
    BY <1>15 DEF CloseNext, CloseTaken
  <1>16. ASSUME NEW s \in Sessions, Drop(s)
         PROVE  LockInv'
    BY <1>16 DEF Drop
  <1>17. CASE UNCHANGED vars
    BY <1>17 DEF vars
  <1>18. QED
    BY <1>1, <1>2, <1>3, <1>4, <1>5, <1>6, <1>7, <1>8, <1>9, <1>10, <1>11,
       <1>12, <1>13, <1>14, <1>15, <1>16, <1>17
       DEF Next, Progress, Statement

-----------------------------------------------------------------------------
(* SessionsAccounted said of one session at a time: the form in which a    *)
(* step, which moves one session, is shown to keep it.                     *)
Accounted ==
  /\ \A s \in Sessions :
       s \in open <=> \/ \E d \in Databases : connections[d] = s
                      \/ \E t \in Threads : s \in closing[t]
  /\ \A d, e \in Databases :
       connections[d] = connections[e] /\ connections[d] # None => d = e
  /\ \A t \in Threads, d \in Databases : connections[d] \notin closing[t]
  /\ \A t, u \in Threads, s \in Sessions :
       s \in closing[t] /\ s \in closing[u] => t = u

LEMMA ToAccounted == TypeOK /\ SessionsAccounted => Accounted
  BY NoneAssumption DEF TypeOK, SessionsAccounted, Accounted, Pooled

LEMMA FromAccounted == TypeOK' /\ Accounted' => SessionsAccounted'
  <1> SUFFICES ASSUME TypeOK', Accounted' PROVE SessionsAccounted'
    OBVIOUS
  <1> USE NoneAssumption DEF TypeOK, Accounted, Pooled
  <1>1. open' = Pooled' \cup UNION {closing'[t] : t \in Threads}
    <2>1. ASSUME NEW s, s \in open'
          PROVE  s \in Pooled' \cup UNION {closing'[t] : t \in Threads}
      BY <2>1
    <2>2. ASSUME NEW s, s \in Pooled' \cup UNION {closing'[t] : t \in Threads}
          PROVE  s \in open'
      BY <2>2
    <2>3. QED
      BY <2>1, <2>2
  <1>2. \A t \in Threads : closing'[t] \cap Pooled' = {}
    OBVIOUS
  <1>3. \A t, u \in Threads : t # u => closing'[t] \cap closing'[u] = {}
    OBVIOUS
  <1>4. QED
    BY <1>1, <1>2, <1>3 DEF SessionsAccounted

(* Two threads in _run_with_cursor serve different databases.              *)
LEMMA ServeApart ==
  ASSUME IInv, NEW t \in Threads, NEW u \in Threads,
         pc[t] \in Serving, pc[u] \in Serving, t # u
  PROVE  database[t] # database[u]
  BY DEF IInv, LockInv

LEMMA SessionStep == IInv /\ [Next]_vars => SessionInv'
  <1> SUFFICES ASSUME IInv, [Next]_vars PROVE SessionInv'
    OBVIOUS
  <1> DEFINE Keep == /\ Accounted'
                     /\ ExclusiveSession'
                     /\ \A u \in Threads : ServedSession(u)'
  <1> SUFFICES Keep
    BY TypeStep, FromAccounted DEF SessionInv
  <1>a. Accounted
    BY ToAccounted DEF IInv, SessionInv
  <1>b. \A t, u \in Threads :
          pc[t] \in Serving /\ pc[u] \in Serving /\ t # u => database[t] # database[u]
    BY ServeApart
  <1> USE NoneAssumption
      DEF IInv, TypeOK, SessionInv, ServedSession, ExclusiveSession, Accounted,
          Serving, Steps, pool, session, local, Goto
  <1>1. ASSUME NEW t \in Threads, NEW d \in Databases, RunWithCursor(t, d)
        PROVE  Keep
    BY <1>1, <1>a DEF RunWithCursor
  <1>2. ASSUME NEW t \in Threads, LookupLock(t)
        PROVE  Keep
    BY <1>2, <1>a, <1>b DEF LookupLock, LockInv
  <1>3. ASSUME NEW t \in Threads, CreateLock(t)
        PROVE  Keep
    BY <1>3, <1>a, <1>b DEF CreateLock, LockInv
  <1>4. ASSUME NEW t \in Threads, Acquire(t)
        PROVE  Keep
    BY <1>4, <1>a, <1>b DEF Acquire, LockInv
  <1>5. ASSUME NEW t \in Threads, GetConnection(t)
        PROVE  Keep
    BY <1>5, <1>a, <1>b DEF GetConnection, LockInv
  <1>6. ASSUME NEW t \in Threads, Connect(t)
        PROVE  Keep
    BY <1>6, <1>a, <1>b DEF Connect, NewSession, LockInv
  <1>7. ASSUME NEW t \in Threads, ConnectFails(t)
        PROVE  Keep
    BY <1>7, <1>a, <1>b DEF ConnectFails, Return, LockInv
  <1>8. ASSUME NEW t \in Threads, OperationEnds(t)
        PROVE  Keep
    BY <1>8, <1>a, <1>b DEF OperationEnds, Return, LockInv
  <1>9. ASSUME NEW t \in Threads, OperationFails(t)
        PROVE  Keep
    BY <1>9, <1>a, <1>b DEF OperationFails, Return, LockInv
  <1>10. ASSUME NEW t \in Threads, Discard(t)
        PROVE  Keep
    <2> DEFINE s == connections[database[t]]
    <2>0. /\ pc[t] = "discard" /\ database[t] \in Databases
          /\ connections' = [connections EXCEPT ![database[t]] = None]
          /\ UNCHANGED <<open, database, connection>>
      BY <1>10 DEF Discard, Pop, LockInv
    <2>1. CASE s = None
      <3>1. pc' = [pc EXCEPT ![t] = "force_new"] /\ UNCHANGED closing
        BY <1>10, <2>1 DEF Discard, Pop
      <3>2. QED
        <4>1. connections' = connections
          BY <2>0, <2>1
        <4>2. Accounted' /\ ExclusiveSession'
          BY <2>0, <3>1, <4>1, <1>a
        <4>3. ASSUME NEW u \in Threads PROVE ServedSession(u)'
          <5>1. ServedSession(u) /\ connections \in [Databases -> Sessions \cup {None}]
            OBVIOUS
          <5>2. \A v \in Threads : pc'[v] = IF v = t THEN "force_new" ELSE pc[v]
            BY <3>1
          <5> HIDE DEF IInv
          <5>3. CASE u = t
            BY <2>0, <2>1, <3>1, <4>1, <5>1, <5>2, <5>3
          <5>4. CASE u # t
            BY <1>10, <2>0, <3>1, <4>1, <5>1, <5>2, <5>4 DEF Discard
          <5>5. QED
            BY <5>3, <5>4
        <4>4. QED
          BY <4>2, <4>3
    <2>2. CASE s # None
      <3>1. /\ pc' = [pc EXCEPT ![t] = "close_stale"]
            /\ closing' = [closing EXCEPT ![t] = {s}]
            /\ s \in Sessions
        BY <1>10, <2>0, <2>2 DEF Discard, Pop
      <3>2. Accounted'
        BY <2>0, <2>2, <3>1, <1>a
      <3>3. ExclusiveSession'
        BY <2>0, <3>1
      <3>4. ASSUME NEW u \in Threads PROVE ServedSession(u)'
        <4>1. CASE u = t
          BY <2>0, <3>1, <4>1
        <4>2. CASE u # t
          <5>1. pc[u] \in Serving => connections'[database[u]] = connections[database[u]]
            BY <2>0, <4>2, <1>b, <2>2
          <5>2. pc'[u] = pc[u] /\ closing'[u] = closing[u]
            BY <3>1, <4>2
          <5>3. pc[u] = "execute" => s # connection[u]
            BY <2>0, <4>2, <1>b
          <5>4. pc'[u] = "execute" =>
                  \A v \in Threads : pc'[v] = "close_stale" => connection'[u] \notin closing'[v]
            BY <2>0, <3>1, <5>2, <5>3
          <5>5. pc'[u] = "execute" =>
                  \A d \in Databases : connections'[d] = connection'[u] => d = database'[u]
            <6>1. pc[u] = "execute" =>
                    /\ connection[u] \in Sessions
                    /\ \A d \in Databases : connections[d] = connection[u] => d = database[u]
              OBVIOUS
            <6>2. \A d \in Databases : connections'[d] \in {None, connections[d]}
              BY <2>0
            <6> HIDE DEF IInv
            <6>3. QED
              BY <2>0, <5>2, <6>1, <6>2
          <5>6. QED
            <6>1. ServedSession(u)
              OBVIOUS
            <6>2. attempt'[u] = attempt[u]
              BY <1>10, <4>2 DEF Discard
            <6> HIDE DEF IInv
            <6>3. QED
              BY <2>0, <5>1, <5>2, <5>4, <5>5, <6>1, <6>2
        <4>3. QED
          BY <4>1, <4>2
      <3>5. QED
        BY <3>2, <3>3, <3>4
    <2>3. QED
      BY <2>1, <2>2
  <1>11. ASSUME NEW t \in Threads, ForceNew(t)
        PROVE  Keep
    BY <1>11, <1>a, <1>b DEF ForceNew, LockInv
  <1>12. ASSUME NEW t \in Threads, InnerDiscard(t)
        PROVE  Keep
    BY <1>12, <1>a, <1>b DEF InnerDiscard, Pop, LockInv
  <1>13. ASSUME NEW t \in Threads, CloseDiscarded(t)
        PROVE  Keep
    BY <1>13, <1>a, <1>b DEF CloseDiscarded, CloseTaken, LockInv
  <1>14. ASSUME NEW t \in Threads, Close(t)
        PROVE  Keep
    BY <1>14, <1>a, <1>b DEF Close, Pooled, LockInv
  <1>15. ASSUME NEW t \in Threads, CloseNext(t)
        PROVE  Keep
    BY <1>15, <1>a, <1>b DEF CloseNext, CloseTaken, LockInv
  <1>16. ASSUME NEW s \in Sessions, Drop(s)
         PROVE  Keep
    BY <1>16, <1>a DEF Drop
  <1>17. CASE UNCHANGED vars
    BY <1>17, <1>a DEF vars
  <1>18. QED
    BY <1>1, <1>2, <1>3, <1>4, <1>5, <1>6, <1>7, <1>8, <1>9, <1>10, <1>11, <1>12, <1>13, <1>14, <1>15, <1>16, <1>17
       DEF Next, Progress, Statement

-----------------------------------------------------------------------------
(* The inductive invariant holds of every behaviour: the pool's locks and  *)
(* sessions keep the shape LockInv and SessionInv give them.               *)
THEOREM Invariance == Spec => []IInv
  <1>1. IInv /\ [Next]_vars => IInv'
    BY TypeStep, LockStep, SessionStep DEF IInv
  <1>2. QED
    BY InitIInv, <1>1, PTL DEF Spec

(* Type correctness: no step takes a variable out of its range; a slot of  *)
(* the pool holds a session or None, whatever order the threads run in.    *)
THEOREM TypeCorrect == Spec => []TypeOK
  BY Invariance, PTL DEF IInv

(* No two callers of the client ever run statements on one session.        *)
THEOREM SessionIsExclusive == Spec => []ExclusiveSession
  <1>1. IInv => ExclusiveSession
    BY DEF IInv, SessionInv
  <1>2. QED
    BY Invariance, <1>1, PTL

(* No session leaks out of the pool's books and none is closed twice.      *)
THEOREM SessionsStayAccounted == Spec => []SessionsAccounted
  <1>1. IInv => SessionsAccounted
    BY DEF IInv, SessionInv
  <1>2. QED
    BY Invariance, <1>1, PTL

(* The second attempt of _run_with_cursor always has a session of its own. *)
THEOREM RetryIsFresh == Spec => RetryOnNewSession
  <1> DEFINE Fresh == \A t \in Threads :
                        pc[t] # "execute" /\ pc'[t] = "execute" /\ attempt'[t] = 2 =>
                          connection'[t] \in open' \ open
  <1>1. IInv /\ [Next]_vars => Fresh
    <2> SUFFICES ASSUME IInv, [Next]_vars, NEW t \in Threads,
                        pc[t] # "execute", pc'[t] = "execute", attempt'[t] = 2
                 PROVE  connection'[t] \in open' \ open
      BY DEF Fresh
    <2> USE DEF IInv, TypeOK, Goto, local, session, pool
    <2>1. ASSUME NEW u \in Threads, GetConnection(u)
          PROVE  FALSE
      BY <2>1 DEF GetConnection, SessionInv, ServedSession
    <2>2. ASSUME NEW u \in Threads, Connect(u)
          PROVE  connection'[t] \in open' \ open
      BY <2>2 DEF Connect, NewSession
    <2>3. ASSUME NEW u \in Threads,
                 \/ \E d \in Databases : RunWithCursor(u, d)
                 \/ LookupLock(u) \/ CreateLock(u) \/ Acquire(u)
          PROVE  FALSE
      BY <2>3 DEF RunWithCursor, LookupLock, CreateLock, Acquire
    <2>4. ASSUME NEW u \in Threads,
                 ConnectFails(u) \/ OperationEnds(u) \/ OperationFails(u)
          PROVE  FALSE
      BY <2>4 DEF ConnectFails, OperationEnds, OperationFails, Return
    <2>5. ASSUME NEW u \in Threads,
                 Discard(u) \/ ForceNew(u) \/ InnerDiscard(u) \/ CloseDiscarded(u)
          PROVE  FALSE
      BY <2>5 DEF Discard, ForceNew, InnerDiscard, CloseDiscarded, Pop, CloseTaken
    <2>6. ASSUME NEW u \in Threads, Close(u) \/ CloseNext(u)
          PROVE  FALSE
      BY <2>6 DEF Close, CloseNext
    <2>7. ASSUME NEW s \in Sessions, Drop(s)
          PROVE  FALSE
      BY <2>7 DEF Drop
    <2>8. CASE UNCHANGED vars
      BY <2>8 DEF vars
    <2>9. QED
      BY <2>1, <2>2, <2>3, <2>4, <2>5, <2>6, <2>7, <2>8
         DEF Next, Progress, Statement
  <1>2. [][Next]_vars /\ []IInv => [][Fresh]_vars
    BY <1>1, PTL
  <1>3. QED
    BY Invariance, <1>2, PTL DEF Spec, RetryOnNewSession

(* A session is closed under a running statement by close() alone.         *)
THEOREM InterruptedByCloseAlone == Spec => OnlyCloseInterrupts
  <1> DEFINE ByClose == \A t, u \in Threads :
                          /\ pc[t] = "execute"
                          /\ connection[t] \in open \ open'
                          /\ closing[u] # closing'[u]
                          => pc[u] = "close_all"
  <1>1. IInv /\ [Next]_vars => ByClose
    <2> SUFFICES ASSUME IInv, [Next]_vars, NEW t \in Threads, NEW u \in Threads,
                        pc[t] = "execute", connection[t] \in open \ open',
                        closing[u] # closing'[u]
                 PROVE  pc[u] = "close_all"
      BY DEF ByClose
    <2> USE DEF IInv, TypeOK, session
    <2>1. ASSUME NEW w \in Threads, CloseDiscarded(w)
          PROVE  FALSE
      BY <2>1 DEF CloseDiscarded, CloseTaken, SessionInv, ServedSession
    <2>2. ASSUME NEW w \in Threads, CloseNext(w)
          PROVE  pc[u] = "close_all"
      BY <2>2 DEF CloseNext, CloseTaken
    <2>3. ASSUME NEW w \in Threads,
                 \/ \E d \in Databases : RunWithCursor(w, d)
                 \/ LookupLock(w) \/ CreateLock(w) \/ Acquire(w) \/ GetConnection(w)
                 \/ Connect(w) \/ ConnectFails(w) \/ OperationEnds(w)
                 \/ OperationFails(w) \/ Discard(w) \/ ForceNew(w)
                 \/ InnerDiscard(w) \/ Close(w)
          PROVE  FALSE
      BY <2>3 DEF RunWithCursor, LookupLock, CreateLock, Acquire, GetConnection,
                  Connect, ConnectFails, OperationEnds, OperationFails, Discard,
                  ForceNew, InnerDiscard, Close, Pop
    <2>4. CASE (\E s \in Sessions : Drop(s)) \/ UNCHANGED vars
      BY <2>4 DEF Drop, vars
    <2>5. QED
      BY <2>1, <2>2, <2>3, <2>4 DEF Next, Progress, Statement
  <1>2. [][Next]_vars /\ []IInv => [][ByClose]_vars
    BY <1>1, PTL
  <1>3. QED
    BY Invariance, <1>2, PTL DEF Spec, OnlyCloseInterrupts

-----------------------------------------------------------------------------
(* The pool implements DatabaseAccess: calls on one database are served    *)
(* one at a time, and an operation runs at most twice.                     *)
THEOREM PoolImplementsAccess == Spec => AccessSpec
  <1>1. Init => Access!Init
    BY DEF Init, Access!Init, Phase
  <1>2. IInv /\ [Next]_vars => [Access!Next]_(Access!vars)
    <2> SUFFICES ASSUME IInv, [Next]_vars
                 PROVE  Access!Next \/ UNCHANGED Access!vars
      OBVIOUS
    <2> DEFINE Abs == [t \in Threads |-> Phase(t)]
    <2> USE DEF IInv, TypeOK, Phase, Goto, pool, session, local
    <2>1. ASSUME NEW t \in Threads, NEW d \in Databases, RunWithCursor(t, d)
          PROVE  Access!Call(t, d)
      BY <2>1 DEF RunWithCursor, Access!Call, LockInv
    <2>2. ASSUME NEW t \in Threads, Acquire(t)
          PROVE  Access!Serve(t)
      <3>1. \A u \in Threads : database[u] = database[t] => Phase(u) \notin Access!Served
        BY <2>2, NoneAssumption DEF Acquire, LockInv, Access!Served, Serving, Steps
      <3>2. Phase(t) = "waiting"
        BY <2>2 DEF Acquire
      <3>3. Abs' = [Abs EXCEPT ![t] = "first"] /\ UNCHANGED database
        BY <2>2 DEF Acquire, LockInv
      <3>4. QED
        BY <3>1, <3>2, <3>3 DEF Access!Serve
    <2>3. ASSUME NEW t \in Threads, Discard(t)
          PROVE  Access!RunAgain(t)
      <3>1. /\ pc[t] = "discard" /\ attempt[t] = 1
            /\ UNCHANGED database
            /\ attempt' = [attempt EXCEPT ![t] = 2]
        BY <2>3 DEF Discard, Pop, LockInv
      <3>2. \E p \in {"close_stale", "force_new"} : pc' = [pc EXCEPT ![t] = p]
        BY <2>3 DEF Discard, Pop
      <3>3. Abs' = [Abs EXCEPT ![t] = "second"] /\ Phase(t) = "first"
        <4>1. PICK p \in {"close_stale", "force_new"} : pc' = [pc EXCEPT ![t] = p]
          BY <3>2
        <4>2. Phase(t) = "first" /\ Phase(t)' = "second"
          BY <3>1, <4>1
        <4>3. \A u \in Threads : u # t => Phase(u)' = Phase(u)
          BY <3>1, <4>1
        <4>4. QED
          BY <4>2, <4>3
      <3>4. QED
        BY <3>1, <3>3 DEF Access!RunAgain
    <2>4. ASSUME NEW t \in Threads, ConnectFails(t) \/ OperationEnds(t)
          PROVE  Access!Return(t)
      <3>1. pc[t] \in {"connect", "execute"} /\ Return(t)
        BY <2>4 DEF ConnectFails, OperationEnds
      <3>2. /\ Phase(t) \in Access!Served
            /\ Abs' = [Abs EXCEPT ![t] = "idle"]
            /\ database' = [database EXCEPT ![t] = None]
        BY <3>1 DEF Return, Access!Served
      <3>3. QED
        BY <3>2 DEF Access!Return
    <2>5. ASSUME NEW t \in Threads, OperationFails(t)
          PROVE  Access!Return(t) \/ UNCHANGED Access!vars
      BY <2>5 DEF OperationFails, Return, Access!Return, Access!Served, Access!vars
    <2>6. ASSUME NEW t \in Threads,
                 \/ LookupLock(t) \/ CreateLock(t) \/ GetConnection(t) \/ Connect(t)
                 \/ ForceNew(t) \/ InnerDiscard(t)
          PROVE  UNCHANGED Access!vars
      BY <2>6 DEF LookupLock, CreateLock, GetConnection, Connect, ForceNew,
                  InnerDiscard, Pop, Access!vars
    <2>7. ASSUME NEW t \in Threads, CloseDiscarded(t) \/ Close(t) \/ CloseNext(t)
          PROVE  UNCHANGED Access!vars
      BY <2>7 DEF CloseDiscarded, CloseTaken, Close, CloseNext, Access!vars,
                  SessionInv, ServedSession
    <2>8. CASE (\E s \in Sessions : Drop(s)) \/ UNCHANGED vars
      BY <2>8 DEF Drop, vars, Access!vars
    <2>9. QED
      BY <2>1, <2>2, <2>3, <2>4, <2>5, <2>6, <2>7, <2>8
         DEF Next, Progress, Statement, Access!Next
  <1>3. QED
    BY Invariance, <1>1, <1>2, PTL DEF Spec, AccessSpec, Access!Spec

=============================================================================
