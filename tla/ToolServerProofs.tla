-------------------------- MODULE ToolServerProofs --------------------------
(***************************************************************************)
(* Proofs about ToolServer, for any calls and any configured levels.  Each *)
(* property speaks of the end of a call, or of records written long apart; *)
(* IInv says what holds on the way there:                                  *)
(*   LoopInv      the call that has the loop is the one that is in its     *)
(*                tool, or on its way out after a report                   *)
(*   DeliveryInv  what a call of DingTalk knows of its message             *)
(*   AnswerInv    the wrapper hands on what the tool did, or nothing of it *)
(*   DiskInv      what raises in the logger was seen by the history noDir  *)
(*   OrderInv     the records of a call that has the loop are the last ones*)
(*   TearInv      what is lost is paid for by a torn line, and so is a line *)
(*                that is torn and has cost no record yet                  *)
(*   StoryInv     what the log tells of a call up to where it stands       *)
(***************************************************************************)
EXTENDS ToolServer, FiniteSetTheorems, TLAPS

LoopInv == \A c \in Calls : pc[c] \in {"tool", "leaving"} <=> loop = c

DeliveryInv ==
  \A c \in Calls :
    /\ pc[c] = "idle" => c \notin sent /\ outcome[c] = "none"
    /\ tool[c] = "dingtalk" /\ pc[c] \in {"tool", "awaiting"} => c \notin sent
    /\ tool[c] = "dingtalk" /\ outcome[c] = "ok" => c \in sent
    /\ tool[c] = "dingtalk" /\ outcome[c] \in {"failure", "exception"} /\ c \in sent =>
         c \in unsure

AnswerInv ==
  \A c \in Calls :
    pc[c] = "ended" => got[c] \in {"cancelled", "logger_error", outcome[c]}

DiskInv ==
  \A c \in Calls :
    /\ MkdirFails /\ c \in Running => c \in noDir
    /\ outcome[c] = "logger_error" => c \in noDir
    /\ pc[c] = "ended" /\ got[c] = "logger_error" => c \in noDir \/ outcome[c] = "odd_names"

LastOnes(c) ==
  \A i, j \in DOMAIN written : i < j /\ written[i].call = c => written[j].call = c

OrderInv ==
  /\ \A c \in Calls :
       /\ pc[c] = "idle" => \A i \in DOMAIN written : written[i].call # c
       /\ loop = c /\ ~IsAsync(tool[c]) => LastOnes(c)
       /\ pc[c] = "awaiting" => IsAsync(tool[c])
  /\ SyncCallsAreWhole

Lost == {i \in DOMAIN written : written[i] \notin legible}

TearInv == Cardinality(Lost) + Cardinality(torn) <= tears

Stops(c) == \E n \in 0..Len(Plot(c)) : Tells(c, SubSeq(Plot(c), 1, n))

StoryOf(c) ==
  /\ pc[c] = "idle" => Tells(c, <<>>)
  /\ pc[c] \in {"idle", "tool", "awaiting"} => outcome[c] = "none"
  /\ pc[c] \in {"tool", "awaiting", "leaving"} => Tells(c, Opening(c))
  /\ pc[c] = "ended" /\ got[c] \notin {"cancelled", "logger_error"} => Tells(c, Plot(c))
  /\ pc[c] = "ended" => Stops(c)

StoryInv == \A c \in Calls : StoryOf(c)

IInv ==
  /\ TypeOK
  /\ LoopInv
  /\ DeliveryInv
  /\ AnswerInv
  /\ DiskInv
  /\ OrderInv
  /\ TearInv
  /\ StoryInv

-----------------------------------------------------------------------------
(* What one step may change.                                               *)

Done == {"none"} \cup Returned \cup Raised

LogsTyped ==
  /\ dir' \in {"there", "gone", "blocked"}
  /\ torn' \subseteq {"info", "error"}
  /\ legible' \subseteq Records
  /\ written' \in Seq(Records)
  /\ tears' \in Nat

Grows(c) == written' = written \/ \E t \in Topics : written' = Append(written, Rec(c, t))

(* _write adds one record at most, whatever the disk does.                 *)
LEMMA WriteEffect ==
  ASSUME TypeOK, NEW c \in Calls, NEW topic \in Topics, Write(c, topic)
  PROVE  LogsTyped /\ Grows(c)
<1>1. Rec(c, topic) \in Records
  BY DEF Rec, Records
<1>2. LevelOf(topic) \in {"info", "error"}
  BY DEF LevelOf
<1>3. CASE ~Passes(topic) /\ UNCHANGED <<dir, logs>>
  BY <1>3 DEF TypeOK, LogsTyped, Grows, logs
<1>4. CASE /\ dir' = "there"
           /\ written' = Append(written, Rec(c, topic))
           /\ torn' \in {torn, torn \ {LevelOf(topic)}, torn \cup {LevelOf(topic)}}
           /\ legible' \in {legible, legible \cup {Rec(c, topic)}}
           /\ tears' \in {tears, tears + 1}
  <2>1. written' \in Seq(Records)
    BY <1>1, <1>4 DEF TypeOK
  <2>2. torn' \subseteq {"info", "error"}
    BY <1>2, <1>4 DEF TypeOK
  <2>3. legible' \subseteq Records
    BY <1>1, <1>4 DEF TypeOK
  <2>4. tears' \in Nat
    BY <1>4 DEF TypeOK
  <2> QED
    BY <1>4, <2>1, <2>2, <2>3, <2>4 DEF LogsTyped, Grows
<1> QED
  BY <1>3, <1>4 DEF Write

LEMMA RaiseEffect ==
  ASSUME TypeOK, NEW c \in Calls, NEW topic \in Topics, WriteRaises(c, topic)
  PROVE  /\ LogsTyped /\ Grows(c)
         /\ MkdirFails \/ (topic = "tool.response" /\ outcome'[c] = "odd_names")
  BY DEF TypeOK, WriteRaises, LogsTyped, Grows, logs, Encodes

(* The directory is never lost by a write.                                 *)
LEMMA WriteKeepsDir ==
  ASSUME NEW c, NEW topic, Write(c, topic) \/ WriteRaises(c, topic), full' = full
  PROVE  MkdirFails' => MkdirFails
  BY DEF Write, WriteRaises, MkdirFails

(* The wrapper ends the call with what the tool did, or with what the      *)
(* logger raised.                                                          *)
LEMMA LeaveEffect ==
  ASSUME TypeOK, NEW c \in Calls, Leave(c), outcome' \in [Calls -> Done]
  PROVE  /\ LogsTyped /\ Grows(c)
         /\ pc' = [pc EXCEPT ![c] = "ended"]
         /\ loop' = Nobody
         /\ \/ got' = [got EXCEPT ![c] = outcome'[c]]
            \/ /\ got' = [got EXCEPT ![c] = "logger_error"]
               /\ MkdirFails \/ outcome'[c] = "odd_names"
         /\ full' = full => (MkdirFails' => MkdirFails)
<1> DEFINE topic == IF outcome'[c] \in Returned THEN "tool.response" ELSE "tool.failed"
<1>1. topic \in Topics
  BY DEF Topics
<1>2. CASE Write(c, topic) /\ Return(c, outcome'[c])
  BY <1>1, <1>2, WriteEffect, WriteKeepsDir DEF Return
<1>3. CASE WriteRaises(c, topic) /\ Return(c, "logger_error")
  BY <1>1, <1>3, RaiseEffect, WriteKeepsDir DEF Return
<1> QED
  BY <1>2, <1>3 DEF Leave

LEMMA FailEffect ==
  ASSUME TypeOK, NEW c \in Calls, Fail(c)
  PROVE  /\ LogsTyped /\ Grows(c)
         /\ pc' = [pc EXCEPT ![c] = "leaving"]
         /\ loop' = loop /\ got' = got
         /\ \/ outcome' = [outcome EXCEPT ![c] = "failure"]
            \/ outcome' = [outcome EXCEPT ![c] = "logger_error"] /\ MkdirFails
         /\ full' = full => (MkdirFails' => MkdirFails)
<1>1. "report" \in Topics
  BY DEF Topics
<1>2. CASE Write(c, "report") /\ outcome' = [outcome EXCEPT ![c] = "failure"]
  BY <1>1, <1>2, WriteEffect, WriteKeepsDir DEF Fail
<1>3. CASE WriteRaises(c, "report") /\ outcome' = [outcome EXCEPT ![c] = "logger_error"]
  BY <1>1, <1>3, RaiseEffect, WriteKeepsDir DEF Fail
<1> QED
  BY <1>2, <1>3 DEF Fail

LEMMA BeginEffect ==
  ASSUME TypeOK, NEW c \in Calls, NEW t \in Tools, Begin(c, t)
  PROVE  /\ LogsTyped /\ Grows(c)
         /\ \/ /\ pc' = [pc EXCEPT ![c] = "tool"]
               /\ loop' = c /\ got' = got
            \/ /\ pc' = [pc EXCEPT ![c] = "ended"]
               /\ loop' = Nobody /\ got' = [got EXCEPT ![c] = "logger_error"]
               /\ MkdirFails
         /\ full' = full => (MkdirFails' => MkdirFails)
<1>1. "tool.request" \in Topics
  BY DEF Topics
<1>2. CASE Write(c, "tool.request") /\ pc' = [pc EXCEPT ![c] = "tool"] /\ loop' = c /\ got' = got
  BY <1>1, <1>2, WriteEffect, WriteKeepsDir
<1>3. CASE WriteRaises(c, "tool.request") /\ Return(c, "logger_error")
  BY <1>1, <1>3, RaiseEffect, WriteKeepsDir DEF Return
<1> QED
  BY <1>2, <1>3 DEF Begin

(* What a call does between its steps in the tool: the cases of Step.      *)
Waits(c) == Await(c) \/ Resume(c) \/ Cancel(c)

(* The tool ends, and with it the call.                                    *)
Ends(c) ==
  /\ loop = c /\ pc[c] \in {"tool", "leaving"}
  /\ outcome' \in [Calls -> Done]
  /\ \A d \in Calls \ {c} : outcome'[d] = outcome[d]
  /\ outcome'[c] = "logger_error" => outcome[c] = "logger_error"
  /\ pc[c] = "tool" => ~(tool[c] = "dingtalk" /\ outcome'[c] = "failure")
  /\ pc[c] = "leaving" => outcome'[c] = outcome[c]
  /\ Leave(c)
  /\ UNCHANGED <<tool, noDir>>

(* It has reported a failure and returns it.                               *)
Reports(c) ==
  /\ loop = c /\ pc[c] = "tool" /\ tool[c] = "dingtalk"
  /\ Fail(c)
  /\ UNCHANGED <<tool, noDir>>

LEMMA StepCases ==
  ASSUME TypeOK, LoopInv, NEW c \in Calls, Step(c)
  PROVE  /\ (\E t \in Tools : Begin(c, t)) \/ Waits(c) \/ Ends(c) \/ Reports(c)
         /\ UNCHANGED <<level, full>>
<1>1. UNCHANGED <<level, full>>
  BY DEF Step
<1>2. CASE Finish(c)
  BY <1>1, <1>2 DEF Finish, Ends, TypeOK, Done, Returned, Raised, history
<1>3. CASE Reject(c)
  BY <1>1, <1>3 DEF Reject, Reports, history
<1>4. CASE Send(c)
  <2>1. CASE outcome' = [outcome EXCEPT ![c] = "exception"] /\ Leave(c)
    BY <1>1, <1>4, <2>1 DEF Send, Ends, TypeOK, Done, Returned, Raised
  <2>2. CASE outcome' = [outcome EXCEPT ![c] = "ok"] /\ Leave(c)
    BY <1>1, <1>4, <2>2 DEF Send, Ends, TypeOK, Done, Returned, Raised
  <2>3. CASE Fail(c)
    BY <1>1, <1>4, <2>3 DEF Send, Reports
  <2> QED
    BY <1>4, <2>1, <2>2, <2>3 DEF Send
<1>5. CASE LeaveReported(c)
  BY <1>1, <1>5 DEF LeaveReported, Ends, TypeOK, LoopInv, Done, history
<1> QED
  BY <1>1, <1>2, <1>3, <1>4, <1>5 DEF Step, Waits

-----------------------------------------------------------------------------
(* The steps of a call.                                                    *)

LEMMA StepTypeOK ==
  ASSUME TypeOK, LoopInv, NEW c \in Calls, Step(c)
  PROVE  TypeOK'
<1>1. level' \in Levels /\ full' \in BOOLEAN
  BY StepCases DEF TypeOK
<1>2. sent' \subseteq Calls /\ unsure' \subseteq Calls
  BY DEF Step, Begin, Await, Resume, Cancel, Finish, Reject, Send, LeaveReported, history, TypeOK
<1>3. CASE \E t \in Tools : Begin(c, t)
  <2> PICK t \in Tools : Begin(c, t)
    BY <1>3
  <2>1. tool' \in [Calls -> Tools \cup {"none"}] /\ noDir' \subseteq Calls /\ outcome' = outcome
    BY DEF Begin, TypeOK
  <2>2. /\ pc' \in [Calls -> {"idle", "tool", "awaiting", "leaving", "ended"}]
        /\ loop' \in Calls \cup {Nobody}
        /\ got' \in [Calls -> {"none", "cancelled"} \cup Returned \cup Raised]
    BY BeginEffect DEF TypeOK, Raised
  <2> QED
    BY <1>1, <1>2, <2>1, <2>2, BeginEffect DEF TypeOK, LogsTyped
<1>4. CASE Waits(c)
  BY <1>1, <1>2, <1>4 DEF Waits, Await, Resume, Cancel, TypeOK, logs, history
<1>5. CASE Ends(c)
  <2>1. tool' \in [Calls -> Tools \cup {"none"}] /\ noDir' \subseteq Calls
        /\ outcome' \in [Calls -> Done] /\ Leave(c)
    BY <1>5 DEF Ends, TypeOK
  <2>2. /\ pc' \in [Calls -> {"idle", "tool", "awaiting", "leaving", "ended"}]
        /\ loop' \in Calls \cup {Nobody}
        /\ got' \in [Calls -> {"none", "cancelled"} \cup Returned \cup Raised]
    BY <2>1, LeaveEffect DEF TypeOK, Done, Raised
  <2> QED
    BY <1>1, <1>2, <2>1, <2>2, LeaveEffect DEF TypeOK, LogsTyped, Done
<1>6. CASE Reports(c)
  <2>1. tool' \in [Calls -> Tools \cup {"none"}] /\ noDir' \subseteq Calls /\ Fail(c)
    BY <1>6 DEF Reports, TypeOK
  <2>2. /\ pc' \in [Calls -> {"idle", "tool", "awaiting", "leaving", "ended"}]
        /\ loop' \in Calls \cup {Nobody}
        /\ got' \in [Calls -> {"none", "cancelled"} \cup Returned \cup Raised]
        /\ outcome' \in [Calls -> Done]
    BY <2>1, FailEffect DEF TypeOK, Done, Returned, Raised
  <2> QED
    BY <1>1, <1>2, <2>1, <2>2, FailEffect DEF TypeOK, LogsTyped, Done
<1> QED
  BY <1>3, <1>4, <1>5, <1>6, StepCases

LEMMA StepLoopInv ==
  ASSUME TypeOK, LoopInv, NEW c \in Calls, Step(c)
  PROVE  LoopInv'
<1> USE ServerAssumption DEF LoopInv, TypeOK
<1>1. CASE \E t \in Tools : Begin(c, t)
  <2> PICK t \in Tools : Begin(c, t)
    BY <1>1
  <2>1. loop = Nobody
    BY DEF Begin
  <2> QED
    BY <2>1, BeginEffect
<1>2. CASE Waits(c)
  BY <1>2 DEF Waits, Await, Resume, Cancel
<1>3. CASE Ends(c)
  BY <1>3, LeaveEffect DEF Ends
<1>4. CASE Reports(c)
  BY <1>4, FailEffect DEF Reports
<1> QED
  BY <1>1, <1>2, <1>3, <1>4, StepCases

(* The message: what Send takes the answer for is what DingTalk did, unless*)
(* there was no answer to go by.                                           *)
LEMMA StepDeliveryInv ==
  ASSUME TypeOK, LoopInv, DeliveryInv, NEW c \in Calls, Step(c)
  PROVE  DeliveryInv'
<1> USE DEF DeliveryInv
<1>1. CASE \E t \in Tools : Begin(c, t)
  <2> PICK t \in Tools : Begin(c, t)
    BY <1>1
  <2>1. /\ tool' = [tool EXCEPT ![c] = t] /\ pc[c] = "idle"
        /\ UNCHANGED <<outcome, sent, unsure>>
    BY DEF Begin
  <2> QED
    BY <2>1, BeginEffect DEF TypeOK
<1>2. CASE Await(c) \/ Resume(c) \/ Cancel(c)
  BY <1>2 DEF Await, Resume, Cancel, TypeOK, history
<1>3. CASE Finish(c)
  <2>1. outcome' \in [Calls -> Done] /\ Leave(c)
    BY <1>3 DEF Finish, TypeOK, Done, Returned, Raised
  <2> QED
    BY <1>3, <2>1, LeaveEffect DEF Finish, TypeOK, history
<1>4. CASE Reject(c)
  BY <1>4, FailEffect DEF Reject, TypeOK, history
<1>5. CASE Send(c)
  <2> PICK r \in Replies :
        /\ sent' \in {IF t THEN sent \cup {c} ELSE sent : t \in Taken(r)}
        /\ unsure' = IF Understood(r) \/ c \notin sent' THEN unsure ELSE unsure \cup {c}
        /\ \/ /\ RequestJson(r.fate) \in Uncaught
              /\ outcome' = [outcome EXCEPT ![c] = "exception"]
              /\ Leave(c)
           \/ /\ Succeeds(r)
              /\ outcome' = [outcome EXCEPT ![c] = "ok"]
              /\ Leave(c)
           \/ /\ RequestJson(r.fate) \notin Uncaught /\ ~Succeeds(r)
              /\ Fail(c)
    BY <1>5 DEF Send
  <2>1. /\ pc[c] = "tool" /\ tool[c] = "dingtalk" /\ c \notin sent /\ tool' = tool
    BY <1>5 DEF Send
  <2>2. \A d \in Calls \ {c} : /\ d \in sent' <=> d \in sent
                              /\ d \in unsure' <=> d \in unsure
    OBVIOUS
  <2>3. Understood(r) => (c \in sent' <=> r.errcode = 0)
    BY <2>1 DEF Taken
  <2>4. ~Understood(r) /\ c \in sent' => c \in unsure'
    OBVIOUS
  <2>5. Understood(r) => RequestJson(r.fate) \notin Uncaught
    BY DEF Understood, RequestJson, RequestBytes, Uncaught
  <2>6. CASE RequestJson(r.fate) \in Uncaught /\ outcome' = [outcome EXCEPT ![c] = "exception"]
             /\ Leave(c)
    <3>1. outcome' \in [Calls -> Done]
      BY <2>6 DEF TypeOK, Done, Raised
    <3> QED
      BY <2>1, <2>2, <2>4, <2>5, <2>6, <3>1, LeaveEffect DEF TypeOK
  <2>7. CASE Succeeds(r) /\ outcome' = [outcome EXCEPT ![c] = "ok"] /\ Leave(c)
    <3>1. outcome' \in [Calls -> Done]
      BY <2>7 DEF TypeOK, Done, Returned
    <3> QED
      BY <2>1, <2>2, <2>3, <2>7, <3>1, LeaveEffect DEF TypeOK, Succeeds
  <2>8. CASE ~Succeeds(r) /\ Fail(c)
    BY <2>1, <2>2, <2>3, <2>4, <2>8, FailEffect DEF TypeOK, Succeeds
  <2> QED
    BY <2>6, <2>7, <2>8
<1>6. CASE LeaveReported(c)
  <2>1. outcome' \in [Calls -> Done] /\ Leave(c)
    BY <1>6 DEF LeaveReported, TypeOK, Done
  <2> QED
    BY <1>6, <2>1, LeaveEffect DEF LeaveReported, TypeOK, history
<1> QED
  BY <1>1, <1>2, <1>3, <1>4, <1>5, <1>6 DEF Step

LEMMA StepAnswerInv ==
  ASSUME TypeOK, LoopInv, AnswerInv, NEW c \in Calls, Step(c)
  PROVE  AnswerInv'
<1> USE DEF AnswerInv, TypeOK
<1>1. CASE \E t \in Tools : Begin(c, t)
  <2> PICK t \in Tools : Begin(c, t)
    BY <1>1
  <2>1. outcome' = outcome
    BY DEF Begin
  <2> QED
    BY <2>1, BeginEffect
<1>2. CASE Waits(c)
  BY <1>2 DEF Waits, Await, Resume, Cancel
<1>3. CASE Ends(c)
  BY <1>3, LeaveEffect DEF Ends
<1>4. CASE Reports(c)
  BY <1>4, FailEffect DEF Reports
<1> QED
  BY <1>1, <1>2, <1>3, <1>4, StepCases

(* The logger raises for want of a directory only while noDir sees it.     *)
LEMMA StepDiskInv ==
  ASSUME TypeOK, LoopInv, DiskInv, NEW c \in Calls, Step(c)
  PROVE  DiskInv'
<1> USE DEF DiskInv, TypeOK, Running
<1>1. CASE \E t \in Tools : Begin(c, t)
  <2> PICK t \in Tools : Begin(c, t)
    BY <1>1
  <2>1. /\ noDir' = IF MkdirFails THEN noDir \cup {c} ELSE noDir
        /\ outcome' = outcome
    BY DEF Begin
  <2>2. MkdirFails' => MkdirFails
    BY BeginEffect, StepCases
  <2> QED
    BY <2>1, <2>2, BeginEffect
<1>2. CASE Waits(c)
  <2>1. MkdirFails' = MkdirFails /\ outcome' = outcome /\ noDir' = noDir
    BY <1>2, StepCases DEF Waits, Await, Resume, Cancel, MkdirFails, history
  <2>2. \/ pc' = [pc EXCEPT ![c] = "ended"] /\ got' = [got EXCEPT ![c] = "cancelled"]
        \/ got' = got /\ c \in Running
           /\ \E p \in {"tool", "awaiting"} : pc' = [pc EXCEPT ![c] = p]
    BY <1>2 DEF Waits, Await, Resume, Cancel
  <2> QED
    BY <2>1, <2>2
<1>3. CASE Ends(c)
  <2>1. MkdirFails' => MkdirFails
    BY <1>3, LeaveEffect, StepCases DEF Ends
  <2> QED
    BY <1>3, <2>1, LeaveEffect DEF Ends
<1>4. CASE Reports(c)
  <2>1. MkdirFails' => MkdirFails
    BY <1>4, FailEffect, StepCases DEF Reports
  <2> QED
    BY <1>4, <2>1, FailEffect DEF Reports
<1> QED
  BY <1>1, <1>2, <1>3, <1>4, StepCases

(* Who writes a record has the loop, or takes it with its first record.    *)
LEMMA StepWrites ==
  ASSUME TypeOK, LoopInv, NEW c \in Calls, Step(c)
  PROVE  /\ Grows(c)
         /\ written' # written => loop = c \/ pc[c] = "idle"
         /\ pc[c] # "idle" => tool'[c] = tool[c]
         /\ pc'[c] # "idle"
         /\ pc'[c] = "awaiting" => IsAsync(tool'[c])
         /\ loop' \in {c, Nobody}
         /\ loop' = c => loop = c \/ pc[c] \in {"idle", "awaiting"}
         /\ \A d \in Calls \ {c} : pc'[d] = pc[d] /\ tool'[d] = tool[d]
<1> USE DEF TypeOK
<1>1. CASE \E t \in Tools : Begin(c, t)
  <2> PICK t \in Tools : Begin(c, t)
    BY <1>1
  <2>1. tool' = [tool EXCEPT ![c] = t] /\ pc[c] = "idle"
    BY DEF Begin
  <2> QED
    BY <2>1, BeginEffect
<1>2. CASE Waits(c)
  BY <1>2 DEF Waits, Await, Resume, Cancel, Grows, logs
<1>3. CASE Ends(c)
  BY <1>3, LeaveEffect DEF Ends
<1>4. CASE Reports(c)
  BY <1>4, FailEffect DEF Reports
<1> QED
  BY <1>1, <1>2, <1>3, <1>4, StepCases

(* A call that has the loop, or begins, adds its record behind its own.    *)
LEMMA StepOrderInv ==
  ASSUME TypeOK, LoopInv, OrderInv, NEW c \in Calls, Step(c)
  PROVE  OrderInv'
<1> USE DEF OrderInv
<1>1. /\ \A i \in DOMAIN written : written[i] \in Records
      /\ written \in Seq(Records)
  BY DEF TypeOK
<1>2. \/ written' = written
      \/ /\ DOMAIN written' = 1..(Len(written) + 1)
         /\ written'[Len(written) + 1].call = c
         /\ \A i \in DOMAIN written : written'[i] = written[i]
         /\ loop = c \/ pc[c] = "idle"
  <2> SUFFICES ASSUME written' # written
               PROVE  /\ DOMAIN written' = 1..(Len(written) + 1)
                      /\ written'[Len(written) + 1].call = c
                      /\ \A i \in DOMAIN written : written'[i] = written[i]
    BY StepWrites
  <2>1. PICK t \in Topics : written' = Append(written, Rec(c, t))
    BY StepWrites DEF Grows
  <2>2. Rec(c, t) \in Records /\ Rec(c, t).call = c
    BY DEF Rec, Records
  <2> QED
    BY <1>1, <2>1, <2>2
<1>3. DOMAIN written = 1..Len(written) /\ Len(written) \in Nat
  BY <1>1
<1>4. \A i \in DOMAIN written' \ DOMAIN written : i = Len(written) + 1 /\ written'[i].call = c
  BY <1>2, <1>3
<1>5. \A i \in DOMAIN written : i \in DOMAIN written' /\ written'[i] = written[i]
  BY <1>2, <1>3
<1>6. ASSUME NEW d \in Calls, pc'[d] = "idle"
      PROVE  \A i \in DOMAIN written' : written'[i].call # d
  BY <1>4, <1>5, <1>6, StepWrites
<1>7. ASSUME NEW d \in Calls, loop' = d, ~IsAsync(tool'[d])
      PROVE  LastOnes(d)'
  <2>1. d = c
    BY <1>7, ServerAssumption, StepWrites
  <2>2. CASE loop = c
    <3>1. LastOnes(c)
      BY <1>7, <2>1, <2>2, StepWrites DEF LoopInv
    <3> QED
      BY <1>3, <1>4, <1>5, <2>1, <3>1 DEF LastOnes
  <2>3. CASE pc[c] = "idle"
    BY <1>3, <1>4, <1>5, <2>1, <2>3 DEF LastOnes
  <2>4. pc[c] # "awaiting"
    BY <1>7, <2>1, StepWrites
  <2> QED
    BY <1>7, <2>1, <2>2, <2>3, <2>4, StepWrites
<1>8. ASSUME NEW d \in Calls, pc'[d] = "awaiting"
      PROVE  IsAsync(tool'[d])
  BY <1>8, StepWrites
<1>9. SyncCallsAreWhole'
  <2> SUFFICES ASSUME NEW i \in DOMAIN written', NEW j \in DOMAIN written',
                      NEW k \in DOMAIN written',
                      i < j, j < k, written'[i].call = written'[k].call,
                      ~IsAsync(tool'[written'[i].call])
               PROVE  written'[j].call = written'[i].call
    BY DEF SyncCallsAreWhole
  <2>1. i \in DOMAIN written /\ j \in DOMAIN written
    BY <1>2, <1>3
  <2>2. written'[i] = written[i] /\ written'[j] = written[j]
    BY <1>5, <2>1
  <2>3. written[i].call \in Calls /\ pc[written[i].call] # "idle"
    BY <1>1, <2>1 DEF Records
  <2>4. tool'[written[i].call] = tool[written[i].call]
    BY <2>3, StepWrites
  <2>5. CASE k \in DOMAIN written
    BY <1>5, <2>1, <2>2, <2>4, <2>5 DEF SyncCallsAreWhole
  <2>6. CASE k \notin DOMAIN written
    <3>1. written[i].call = c
      BY <1>4, <2>2, <2>6
    <3>2. loop = c
      BY <1>2, <2>3, <2>6, <3>1
    <3>3. LastOnes(c)
      BY <2>2, <2>4, <3>1, <3>2
    <3> QED
      BY <2>1, <2>2, <3>1, <3>3 DEF LastOnes
  <2> QED
    BY <2>5, <2>6
<1> QED
  BY <1>6, <1>7, <1>8, <1>9

(* What can be lost is finite, and so are the torn lines.                  *)
LEMMA SomeOfASequence ==
  ASSUME NEW S, NEW s \in Seq(S), NEW T, T \subseteq DOMAIN s
  PROVE  IsFiniteSet(T) /\ Cardinality(T) \in Nat
<1>1. IsFiniteSet(1..Len(s))
  BY FS_Interval
<1> QED
  BY <1>1, FS_Subset, FS_CardinalityType

LEMMA SomeLevels ==
  ASSUME NEW T, T \subseteq {"info", "error"}
  PROVE  IsFiniteSet(T) /\ Cardinality(T) \in Nat
<1>1. {"info", "error"} = ({} \cup {"info"}) \cup {"error"}
  OBVIOUS
<1>2. IsFiniteSet(({} \cup {"info"}) \cup {"error"})
  <2>1. IsFiniteSet({} \cup {"info"})
    BY FS_EmptySet, FS_AddElement
  <2> QED
    BY <2>1, FS_AddElement
<1> QED
  BY <1>1, <1>2, FS_Subset, FS_CardinalityType

LEMMA LostIsFinite ==
  ASSUME TypeOK
  PROVE  /\ IsFiniteSet(Lost) /\ Cardinality(Lost) \in Nat
         /\ IsFiniteSet(torn) /\ Cardinality(torn) \in Nat
<1>1. Lost \subseteq DOMAIN written /\ written \in Seq(Records)
  BY DEF Lost, TypeOK
<1>2. torn \subseteq {"info", "error"}
  BY DEF TypeOK
<1> QED
  BY <1>1, <1>2, SomeOfASequence, SomeLevels

LEMMA LostIsFiniteNext ==
  ASSUME TypeOK'
  PROVE  /\ IsFiniteSet(Lost') /\ Cardinality(Lost') \in Nat
         /\ IsFiniteSet(torn') /\ Cardinality(torn') \in Nat
<1>1. Lost' \subseteq DOMAIN written' /\ written' \in Seq(Records)
  BY DEF Lost, TypeOK
<1>2. torn' \subseteq {"info", "error"}
  BY DEF TypeOK
<1> QED
  BY <1>1, <1>2, SomeOfASequence, SomeLevels

(* A record is lost behind a torn line only, which is torn no longer then. *)
LEMMA WriteTears ==
  ASSUME TypeOK, TearInv, NEW c \in Calls, NEW topic \in Topics, Write(c, topic), TypeOK'
  PROVE  TearInv'
<1> DEFINE l == LevelOf(topic)
           n == Len(written) + 1
<1>1. Rec(c, topic) \in Records /\ written \in Seq(Records) /\ tears \in Nat
  BY DEF Rec, Records, TypeOK
<1>2. /\ IsFiniteSet(Lost) /\ Cardinality(Lost) \in Nat
      /\ IsFiniteSet(torn) /\ Cardinality(torn) \in Nat
  BY LostIsFinite
<1>3. CASE ~Passes(topic) /\ UNCHANGED <<dir, logs>>
  BY <1>3 DEF TearInv, Lost, logs
<1>4. CASE written' = Append(written, Rec(c, topic)) /\ ~full /\ Encodes(c, topic)
           /\ legible' = (IF l \in torn THEN legible ELSE legible \cup {Rec(c, topic)})
           /\ torn' = torn \ {l} /\ tears' = tears
  <2>1. DOMAIN written' = DOMAIN written \cup {n} /\ n \notin DOMAIN written
        /\ written'[n] = Rec(c, topic)
        /\ \A i \in DOMAIN written : written'[i] = written[i]
    BY <1>1, <1>4
  <2>2. CASE l \in torn
    <3>1. Lost' \subseteq Lost \cup {n}
      BY <1>4, <2>1, <2>2 DEF Lost
    <3>2. n \notin Lost
      BY <2>1 DEF Lost
    <3>3. Cardinality(Lost \cup {n}) = Cardinality(Lost) + 1 /\ IsFiniteSet(Lost \cup {n})
      BY <1>2, <3>2, FS_AddElement
    <3>4. Cardinality(Lost') <= Cardinality(Lost) + 1
      BY <3>1, <3>3, FS_Subset
    <3>5. Cardinality(torn') = Cardinality(torn) - 1
      BY <1>2, <1>4, <2>2, FS_RemoveElement
    <3>6. Cardinality(Lost') \in Nat
      BY LostIsFiniteNext
    <3> QED
      BY <1>1, <1>2, <1>4, <3>4, <3>5, <3>6 DEF TearInv
  <2>3. CASE l \notin torn
    <3>1. Lost' \subseteq Lost
      BY <1>4, <2>1, <2>3 DEF Lost
    <3>4. Cardinality(torn') = Cardinality(torn) /\ tears' = tears
      <4>1. torn' = torn
        BY <1>4, <2>3
      <4> QED
        BY <1>4, <4>1
    <3>2. Cardinality(Lost') <= Cardinality(Lost)
      BY <1>2, <3>1, FS_Subset
    <3>3. Cardinality(Lost') \in Nat
      BY LostIsFiniteNext
    <3> QED
      BY <1>1, <1>2, <3>2, <3>3, <3>4 DEF TearInv
  <2> QED
    BY <2>2, <2>3
<1>5. CASE written' = Append(written, Rec(c, topic)) /\ full
           /\ legible' = legible \cup {Rec(c, topic)}
           /\ \/ UNCHANGED <<torn, tears>>
              \/ torn' = torn \cup {l} /\ tears' = tears + 1
  <2>1. DOMAIN written' = DOMAIN written \cup {n} /\ n \notin DOMAIN written
        /\ written'[n] = Rec(c, topic)
        /\ \A i \in DOMAIN written : written'[i] = written[i]
    BY <1>1, <1>5
  <2>2. Lost' \subseteq Lost
    BY <1>5, <2>1 DEF Lost
  <2>3. Cardinality(Lost') <= Cardinality(Lost) /\ Cardinality(Lost') \in Nat
    BY <1>2, <2>2, FS_Subset, LostIsFiniteNext
  <2>4. Cardinality(torn') - tears' <= Cardinality(torn) - tears
    <3>1. Cardinality(torn \cup {l}) \in {Cardinality(torn), Cardinality(torn) + 1}
      BY <1>2, FS_AddElement
    <3>2. CASE UNCHANGED <<torn, tears>>
      <4>1. Cardinality(torn') = Cardinality(torn) /\ tears' = tears
        BY <3>2
      <4> QED
        BY <1>1, <1>2, <4>1
    <3>3. CASE torn' = torn \cup {l} /\ tears' = tears + 1
      <4>1. Cardinality(torn') = Cardinality(torn \cup {l}) /\ tears' = tears + 1
        BY <3>3
      <4> QED
        BY <1>1, <1>2, <3>1, <4>1
    <3> QED
      BY <1>5, <3>2, <3>3
  <2>5. Cardinality(torn') \in Nat /\ tears' \in Nat
    BY LostIsFiniteNext DEF TypeOK
  <2> QED
    BY <1>1, <1>2, <2>3, <2>4, <2>5 DEF TearInv
<1> QED
  BY <1>3, <1>4, <1>5 DEF Write

(* Who touches the log writes one record.                                  *)
LEMMA StepLogs ==
  ASSUME TypeOK, LoopInv, NEW c \in Calls, Step(c)
  PROVE  UNCHANGED logs \/ \E topic \in Topics : Write(c, topic)
<1>1. CASE \E t \in Tools : Begin(c, t)
  BY <1>1 DEF Begin, WriteRaises, Topics
<1>2. CASE Waits(c)
  BY <1>2 DEF Waits, Await, Resume, Cancel
<1>3. CASE Ends(c)
  <2>1. Leave(c)
    BY <1>3 DEF Ends
  <2> QED
    BY <2>1 DEF Leave, WriteRaises, Topics
<1>4. CASE Reports(c)
  BY <1>4 DEF Reports, Fail, WriteRaises, Topics
<1> QED
  BY <1>1, <1>2, <1>3, <1>4, StepCases

LEMMA StepTearInv ==
  ASSUME TypeOK, LoopInv, TearInv, NEW c \in Calls, Step(c)
  PROVE  TearInv'
<1>1. TypeOK'
  BY StepTypeOK
<1>2. CASE UNCHANGED logs
  BY <1>2 DEF TearInv, Lost, logs
<1> QED
  BY <1>1, <1>2, StepLogs, WriteTears

-----------------------------------------------------------------------------
(* What the log tells.                                                     *)

LEMMA StoriesAreSequences ==
  ASSUME NEW c \in Calls
  PROVE  /\ \A topic \in Topics : Told(c, topic) \in Seq(Records) /\ Told(c, topic)' \in Seq(Records)
         /\ Opening(c) \in Seq(Records) /\ Opening(c)' \in Seq(Records)
<1>1. ASSUME NEW topic \in Topics
      PROVE  Told(c, topic) \in Seq(Records) /\ Told(c, topic)' \in Seq(Records)
  <2>1. Rec(c, topic) \in Records
    BY DEF Rec, Records
  <2>2. <<Rec(c, topic)>> \in Seq(Records) /\ <<>> \in Seq(Records)
    BY <2>1
  <2> QED
    BY <2>2 DEF Told
<1>2. Opening(c) \in Seq(Records) /\ Opening(c)' \in Seq(Records)
  BY <1>1 DEF Opening, Topics
<1> QED
  BY <1>1, <1>2

LEMMA Front ==
  ASSUME NEW S, NEW s \in Seq(S), NEW t \in Seq(S)
  PROVE  /\ Len(s) \in 0..Len(s \o t) /\ SubSeq(s \o t, 1, Len(s)) = s
         /\ Len(s \o t) \in 0..Len(s \o t) /\ SubSeq(s \o t, 1, Len(s \o t)) = s \o t
         /\ 0 \in 0..Len(s \o t) /\ SubSeq(s \o t, 1, 0) = <<>>
  OBVIOUS

(* A call that stopped where its opening ends, at its end, or at once.     *)
LEMMA StopsSomewhere ==
  ASSUME NEW c \in Calls
  PROVE  /\ Tells(c, <<>>) \/ Tells(c, Opening(c)) \/ Tells(c, Plot(c)) => Stops(c)
         /\ Tells(c, <<>>)' \/ Tells(c, Opening(c))' \/ Tells(c, Plot(c))' => Stops(c)'
<1>1. \A topic \in Topics : Told(c, topic) \in Seq(Records) /\ Told(c, topic)' \in Seq(Records)
  BY StoriesAreSequences
<1>2. Opening(c) \in Seq(Records) /\ Opening(c)' \in Seq(Records)
  BY StoriesAreSequences
<1>3. /\ \E last \in Seq(Records) : Plot(c) = Opening(c) \o last
      /\ \E last \in Seq(Records) : Plot(c)' = Opening(c)' \o last
  BY <1>1 DEF Plot, Topics
<1>4. /\ Len(Opening(c)) \in 0..Len(Plot(c)) /\ SubSeq(Plot(c), 1, Len(Opening(c))) = Opening(c)
      /\ Len(Plot(c)) \in 0..Len(Plot(c)) /\ SubSeq(Plot(c), 1, Len(Plot(c))) = Plot(c)
      /\ 0 \in 0..Len(Plot(c)) /\ SubSeq(Plot(c), 1, 0) = <<>>
  <2> DEFINE front == Opening(c)
             plot == Plot(c)
  <2>1. PICK last \in Seq(Records) : plot = front \o last
    BY <1>3
  <2>2. front \in Seq(Records)
    BY <1>2
  <2> HIDE DEF front, plot
  <2> DEFINE all == front \o last
  <2>3. /\ Len(front) \in 0..Len(all) /\ SubSeq(all, 1, Len(front)) = front
        /\ Len(all) \in 0..Len(all) /\ SubSeq(all, 1, Len(all)) = all
        /\ 0 \in 0..Len(all) /\ SubSeq(all, 1, 0) = <<>>
    BY <2>2, Front
  <2>4. plot = all
    BY <2>1
  <2> HIDE DEF all
  <2>5. /\ Len(front) \in 0..Len(plot) /\ SubSeq(plot, 1, Len(front)) = front
        /\ Len(plot) \in 0..Len(plot) /\ SubSeq(plot, 1, Len(plot)) = plot
        /\ 0 \in 0..Len(plot) /\ SubSeq(plot, 1, 0) = <<>>
    BY <2>3, <2>4
  <2> QED
    BY <2>5 DEF front, plot
<1>5. /\ Len(Opening(c)') \in 0..Len(Plot(c)')
      /\ SubSeq(Plot(c)', 1, Len(Opening(c)')) = Opening(c)'
      /\ Len(Plot(c)') \in 0..Len(Plot(c)') /\ SubSeq(Plot(c)', 1, Len(Plot(c)')) = Plot(c)'
      /\ 0 \in 0..Len(Plot(c)') /\ SubSeq(Plot(c)', 1, 0) = <<>>
  <2> DEFINE front == Opening(c)'
             plot == Plot(c)'
  <2>1. PICK last \in Seq(Records) : plot = front \o last
    BY <1>3
  <2>2. front \in Seq(Records)
    BY <1>2
  <2> HIDE DEF front, plot
  <2> DEFINE all == front \o last
  <2>3. /\ Len(front) \in 0..Len(all) /\ SubSeq(all, 1, Len(front)) = front
        /\ Len(all) \in 0..Len(all) /\ SubSeq(all, 1, Len(all)) = all
        /\ 0 \in 0..Len(all) /\ SubSeq(all, 1, 0) = <<>>
    BY <2>2, Front
  <2>4. plot = all
    BY <2>1
  <2> HIDE DEF all
  <2>5. /\ Len(front) \in 0..Len(plot) /\ SubSeq(plot, 1, Len(front)) = front
        /\ Len(plot) \in 0..Len(plot) /\ SubSeq(plot, 1, Len(plot)) = plot
        /\ 0 \in 0..Len(plot) /\ SubSeq(plot, 1, 0) = <<>>
    BY <2>3, <2>4
  <2> QED
    BY <2>5 DEF front, plot
<1> QED
  BY <1>4, <1>5 DEF Stops

(* A story goes on with a record of the call, and is as it was when another*)
(* call writes.                                                            *)
LEMMA StoryGoesOn ==
  ASSUME NEW c \in Calls, NEW r \in Records, r.call = c, NEW story \in Seq(Records),
         written \in Seq(Records), written' = Append(written, r), Tells(c, story)
  PROVE  Tells(c, Append(story, r))'
<1> DEFINE n == Len(written) + 1
           m == Len(story) + 1
           more == Append(story, r)
<1>1. /\ DOMAIN written = 1..Len(written) /\ Len(written) \in Nat
      /\ DOMAIN written' = DOMAIN written \cup {n} /\ written'[n] = r
      /\ \A i \in DOMAIN written : written'[i] = written[i]
  OBVIOUS
<1>2. /\ DOMAIN story = 1..Len(story) /\ Len(story) \in Nat
      /\ DOMAIN more = DOMAIN story \cup {m} /\ more[m] = r
      /\ \A k \in DOMAIN story : more[k] = story[k]
  OBVIOUS
<1>3. Places(c)' = Places(c) \cup {n} /\ \A i \in Places(c) : i < n /\ i \in DOMAIN written
  BY <1>1 DEF Places
<1>4. PICK at \in [DOMAIN story -> Places(c)] :
        /\ \A i \in Places(c) : \E k \in DOMAIN story : at[k] = i
        /\ \A j, k \in DOMAIN story : j < k => at[j] < at[k]
        /\ \A k \in DOMAIN story : written[at[k]] = story[k]
  BY DEF Tells
<1> DEFINE then == [k \in DOMAIN more |-> IF k = m THEN n ELSE at[k]]
<1>5. \A k \in DOMAIN story : k # m /\ k < m
  BY <1>2
<1>6. then[m] = n /\ \A k \in DOMAIN story : then[k] = at[k] /\ at[k] \in Places(c)
  BY <1>2, <1>4, <1>5
<1> HIDE DEF n, m, more
<1>7. then \in [DOMAIN more -> Places(c)']
  BY <1>2, <1>3, <1>4, <1>5
<1>8. \A i \in Places(c)' : \E k \in DOMAIN more : then[k] = i
  BY <1>2, <1>3, <1>4, <1>6
<1>9. ASSUME NEW j \in DOMAIN more, NEW k \in DOMAIN more, j < k
      PROVE  then[j] < then[k]
  <2>1. j \in DOMAIN story
    BY <1>2, <1>9 DEF m
  <2>2. CASE k \in DOMAIN story
    BY <1>4, <1>6, <1>9, <2>1, <2>2
  <2>3. CASE k = m
    BY <1>3, <1>6, <2>1, <2>3
  <2> QED
    BY <1>2, <2>2, <2>3
<1>10. \A k \in DOMAIN more : written'[then[k]] = more[k]
  BY <1>1, <1>2, <1>3, <1>4, <1>6
<1> HIDE DEF then
<1>11. \E f \in [DOMAIN more -> Places(c)'] :
        /\ \A i \in Places(c)' : \E k \in DOMAIN more : f[k] = i
        /\ \A j, k \in DOMAIN more : j < k => f[j] < f[k]
        /\ \A k \in DOMAIN more : written'[f[k]] = more[k]
  BY <1>7, <1>8, <1>9, <1>10
<1> QED
  BY <1>11 DEF Tells, more

LEMMA StoryOfAnother ==
  ASSUME NEW d \in Calls, NEW r \in Records, r.call # d, NEW story,
         written \in Seq(Records), written' = Append(written, r), Tells(d, story)
  PROVE  Tells(d, story)'
<1>1. /\ DOMAIN written' = DOMAIN written \cup {Len(written) + 1}
      /\ written'[Len(written) + 1] = r
      /\ \A i \in DOMAIN written : written'[i] = written[i]
  OBVIOUS
<1>2. Places(d)' = Places(d) /\ Places(d) \subseteq DOMAIN written
  BY <1>1 DEF Places
<1> QED
  BY <1>1, <1>2 DEF Tells

(* What _write does to the stories.                                        *)
LEMMA WriteTells ==
  ASSUME TypeOK, NEW c \in Calls, NEW topic \in Topics, Write(c, topic),
         NEW story \in Seq(Records), Tells(c, story),
         NEW more, more = story \o Told(c, topic)
  PROVE  Tells(c, more)'
<1>1. Rec(c, topic) \in Records /\ Rec(c, topic).call = c /\ written \in Seq(Records)
  BY DEF Rec, Records, TypeOK
<1>2. CASE ~Passes(topic)
  <2>1. more = story
    BY <1>2 DEF Told
  <2>2. written' = written
    BY <1>2 DEF Write, logs
  <2> QED
    BY <2>1, <2>2 DEF Tells, Places
<1>3. CASE Passes(topic)
  <2>1. more = Append(story, Rec(c, topic))
    BY <1>1, <1>3 DEF Told
  <2>2. written' = Append(written, Rec(c, topic))
    BY <1>3 DEF Write
  <2>3. Tells(c, Append(story, Rec(c, topic)))'
    BY <1>1, <2>2, StoryGoesOn
  <2> QED
    BY <2>1, <2>3
<1> QED
  BY <1>2, <1>3

LEMMA OthersTell ==
  ASSUME TypeOK, NEW c \in Calls, Grows(c), NEW d \in Calls \ {c}, NEW story, Tells(d, story)
  PROVE  Tells(d, story)'
<1>1. CASE written' = written
  BY <1>1 DEF Tells, Places
<1>2. CASE \E t \in Topics : written' = Append(written, Rec(c, t))
  <2>1. PICK t \in Topics : written' = Append(written, Rec(c, t))
    BY <1>2
  <2>2. Rec(c, t) \in Records /\ Rec(c, t).call # d /\ written \in Seq(Records)
    BY DEF Rec, Records, TypeOK
  <2> QED
    BY <2>1, <2>2, StoryOfAnother
<1> QED
  BY <1>1, <1>2 DEF Grows

LEMMA SameTexts ==
  ASSUME NEW c \in Calls, level' = level, tool'[c] = tool[c]
  PROVE  /\ \A topic : Told(c, topic)' = Told(c, topic)
         /\ \/ outcome'[c] = outcome[c]
            \/ tool[c] # "dingtalk"
            \/ outcome[c] # "failure" /\ outcome'[c] # "failure"
            => Opening(c)' = Opening(c)
         /\ outcome'[c] = outcome[c] => Plot(c)' = Plot(c)
<1>1. \A topic : Told(c, topic)' = Told(c, topic)
  BY DEF Told, Passes
<1>2. outcome'[c] = outcome[c] => Opening(c)' = Opening(c)
  BY <1>1 DEF Opening
<1>3. tool[c] # "dingtalk" \/ (outcome[c] # "failure" /\ outcome'[c] # "failure")
        => Opening(c)' = Opening(c)
  BY <1>1 DEF Opening
<1>4. outcome'[c] = outcome[c] => Plot(c)' = Plot(c)
  BY <1>1, <1>2 DEF Plot
<1> QED
  BY <1>1, <1>2, <1>3, <1>4

LEMMA OthersStory ==
  ASSUME TypeOK, NEW c \in Calls, Grows(c), NEW d \in Calls \ {c}, StoryOf(d), level' = level,
         pc'[d] = pc[d], got'[d] = got[d], outcome'[d] = outcome[d], tool'[d] = tool[d]
  PROVE  StoryOf(d)'
<1>1. Opening(d)' = Opening(d) /\ Plot(d)' = Plot(d)
  BY SameTexts
<1>2. Tells(d, <<>>) => Tells(d, <<>>)'
  BY OthersTell
<1>3. Tells(d, Opening(d)) => Tells(d, Opening(d))'
  BY <1>1, OthersTell
<1>4. Tells(d, Plot(d)) => Tells(d, Plot(d))'
  BY <1>1, OthersTell
<1>5. Stops(d) => Stops(d)'
  <2> SUFFICES ASSUME NEW n \in 0..Len(Plot(d)), Tells(d, SubSeq(Plot(d), 1, n))
               PROVE  Tells(d, SubSeq(Plot(d), 1, n))'
    BY <1>1 DEF Stops
  <2> QED
    BY <1>1, OthersTell
<1> QED
  BY <1>2, <1>3, <1>4, <1>5 DEF StoryOf

LEMMA QuietStory ==
  ASSUME NEW c \in Calls, StoryOf(c), UNCHANGED <<level, written, tool, pc, outcome, got>>
  PROVE  StoryOf(c)'
<1>1. Opening(c)' = Opening(c) /\ Plot(c)' = Plot(c)
  BY SameTexts
<1>2. \A story : Tells(c, story) => Tells(c, story)'
  BY DEF Tells, Places
<1>3. Stops(c) => Stops(c)'
  <2> SUFFICES ASSUME NEW n \in 0..Len(Plot(c)), Tells(c, SubSeq(Plot(c), 1, n))
               PROVE  Tells(c, SubSeq(Plot(c), 1, n))'
    BY <1>1 DEF Stops
  <2> QED
    BY <1>1 DEF Tells, Places
<1> QED
  BY <1>1, <1>2, <1>3 DEF StoryOf, Tells, Places

(* The call that writes: its records stand where its program counter does. *)
LEMMA StoryOfTheCall ==
  ASSUME TypeOK, LoopInv, NEW c \in Calls, StoryOf(c), Step(c)
  PROVE  StoryOf(c)'
<1>1. level' = level
  BY StepCases
<1>2. Opening(c) \in Seq(Records) /\ <<>> \in Seq(Records)
  BY StoriesAreSequences
<1>3. CASE \E t \in Tools : Begin(c, t)
  <2> PICK t \in Tools : Begin(c, t)
    BY <1>3
  <2>1. pc[c] = "idle" /\ outcome' = outcome /\ outcome[c] = "none" /\ Tells(c, <<>>)
    BY DEF Begin, StoryOf
  <2>2. CASE Write(c, "tool.request") /\ pc' = [pc EXCEPT ![c] = "tool"]
    <3>1. pc'[c] = "tool"
      BY <2>2 DEF TypeOK
    <3>2. Opening(c)' = <<>> \o Told(c, "tool.request")
      <4>1. Told(c, "tool.request")' = Told(c, "tool.request")
        BY <1>1 DEF Told, Passes
      <4>2. Told(c, "tool.request") \in Seq(Records)
        BY StoriesAreSequences DEF Topics
      <4> QED
        BY <2>1, <4>1, <4>2 DEF Opening
    <3>3. Tells(c, Opening(c))'
      BY <1>2, <2>1, <2>2, <3>2, WriteTells DEF Topics
    <3> QED
      BY <2>1, <3>1, <3>3 DEF StoryOf
  <2>3. CASE WriteRaises(c, "tool.request") /\ Return(c, "logger_error")
    <3>1. pc'[c] = "ended" /\ got'[c] = "logger_error" /\ written' = written
      BY <2>3 DEF Return, TypeOK, WriteRaises, logs
    <3>2. Tells(c, <<>>)'
      BY <2>1, <3>1 DEF Tells, Places
    <3> QED
      BY <2>1, <3>1, <3>2, StopsSomewhere DEF StoryOf
  <2> QED
    BY <2>2, <2>3 DEF Begin
<1>4. CASE Waits(c)
  <2>1. /\ outcome' = outcome /\ tool' = tool /\ written' = written
        /\ pc[c] \in {"tool", "awaiting"}
        /\ \/ pc'[c] \in {"tool", "awaiting"}
           \/ pc'[c] = "ended" /\ got'[c] = "cancelled"
    BY <1>4 DEF Waits, Await, Resume, Cancel, TypeOK, logs
  <2>2. Opening(c)' = Opening(c)
    BY <1>1, <2>1, SameTexts
  <2>3. Tells(c, Opening(c))'
    BY <2>1, <2>2 DEF StoryOf, Tells, Places
  <2> QED
    BY <2>1, <2>3, StopsSomewhere DEF StoryOf
<1>5. CASE Ends(c)
  <2>1. /\ pc[c] \in {"tool", "leaving"} /\ tool' = tool /\ Leave(c)
        /\ pc[c] = "tool" => ~(tool[c] = "dingtalk" /\ outcome'[c] = "failure")
        /\ pc[c] = "leaving" => outcome'[c] = outcome[c]
    BY <1>5 DEF Ends
  <2>2. Opening(c)' = Opening(c) /\ Tells(c, Opening(c))
    BY <1>1, <2>1, SameTexts DEF StoryOf
  <2> DEFINE topic == IF outcome'[c] \in Returned THEN "tool.response" ELSE "tool.failed"
  <2>3. topic \in Topics
    BY DEF Topics
  <2>4. Plot(c)' = Opening(c) \o Told(c, topic)
    BY <1>1, <2>1, <2>2, SameTexts DEF Plot
  <2>5. CASE Write(c, topic) /\ Return(c, outcome'[c])
    <3>1. pc'[c] = "ended"
      BY <2>5 DEF Return, TypeOK
    <3> HIDE DEF topic
    <3>2. Tells(c, Plot(c))'
      BY <1>2, <2>2, <2>3, <2>4, <2>5, WriteTells
    <3> QED
      BY <3>1, <3>2, StopsSomewhere DEF StoryOf
  <2>6. CASE WriteRaises(c, topic) /\ Return(c, "logger_error")
    <3>1. pc'[c] = "ended" /\ got'[c] = "logger_error" /\ written' = written
      BY <2>6 DEF Return, TypeOK, WriteRaises, logs
    <3>2. Tells(c, Opening(c))'
      BY <2>2, <3>1 DEF Tells, Places
    <3> QED
      BY <3>1, <3>2, StopsSomewhere DEF StoryOf
  <2> QED
    BY <2>1, <2>5, <2>6 DEF Leave
<1>6. CASE Reports(c)
  <2>1. /\ pc[c] = "tool" /\ tool[c] = "dingtalk" /\ Fail(c) /\ tool' = tool
        /\ outcome[c] = "none" /\ Tells(c, Opening(c))
    BY <1>6 DEF Reports, StoryOf
  <2>2. pc'[c] = "leaving"
    BY <2>1 DEF Fail, TypeOK
  <2>3. CASE Write(c, "report") /\ outcome' = [outcome EXCEPT ![c] = "failure"]
    <3>1. Told(c, "tool.request") \in Seq(Records) /\ outcome'[c] = "failure"
      BY <2>3, StoriesAreSequences DEF Topics, TypeOK
    <3>2. \A topic : Told(c, topic)' = Told(c, topic)
      BY <1>1, <2>1, SameTexts
    <3>3. Opening(c)' = Opening(c) \o Told(c, "report")
      BY <2>1, <3>1, <3>2 DEF Opening
    <3>4. Tells(c, Opening(c))'
      BY <1>2, <2>1, <2>3, <3>3, WriteTells DEF Topics
    <3> QED
      BY <2>2, <3>4 DEF StoryOf
  <2>4. CASE WriteRaises(c, "report") /\ outcome' = [outcome EXCEPT ![c] = "logger_error"]
    <3>1. outcome'[c] = "logger_error" /\ written' = written
      BY <2>4 DEF WriteRaises, logs, TypeOK
    <3>2. Opening(c)' = Opening(c)
      BY <1>1, <2>1, <3>1, SameTexts
    <3>3. Tells(c, Opening(c))'
      BY <2>1, <3>1, <3>2 DEF Tells, Places
    <3> QED
      BY <2>2, <3>3 DEF StoryOf
  <2> QED
    BY <2>1, <2>3, <2>4 DEF Fail
<1> QED
  BY <1>3, <1>4, <1>5, <1>6, StepCases

LEMMA StepStoryInv ==
  ASSUME TypeOK, LoopInv, StoryInv, NEW c \in Calls, Step(c)
  PROVE  StoryInv'
<1>1. \A d \in Calls \ {c} : pc'[d] = pc[d] /\ tool'[d] = tool[d]
  BY StepWrites
<1>2. \A d \in Calls \ {c} : got'[d] = got[d] /\ outcome'[d] = outcome[d]
  <2> USE DEF TypeOK
  <2>1. CASE \E t \in Tools : Begin(c, t)
    BY <2>1 DEF Begin, Return
  <2>2. CASE Waits(c)
    BY <2>2 DEF Waits, Await, Resume, Cancel
  <2>3. CASE Ends(c)
    BY <2>3 DEF Ends, Leave, Return
  <2>4. CASE Reports(c)
    BY <2>4 DEF Reports, Fail
  <2> QED
    BY <2>1, <2>2, <2>3, <2>4, StepCases
<1>3. Grows(c) /\ level' = level
  BY StepCases, StepWrites
<1> QED
  BY <1>1, <1>2, <1>3, OthersStory, StoryOfTheCall DEF StoryInv

-----------------------------------------------------------------------------
(* The steps of the disk and the clock, which the history noDir follows.   *)
LEMMA HostInv ==
  ASSUME IInv, Host
  PROVE  IInv'
<1>1. TypeOK'
  BY DEF IInv, TypeOK, Host, FillOrFree, Block, Unblock, NextHour, disk, Running
<1>2. UNCHANGED <<written, tool, pc, loop, outcome, got, sent, unsure>>
  BY DEF Host
<1>3. LoopInv' /\ DeliveryInv' /\ AnswerInv' /\ OrderInv'
  BY <1>2 DEF IInv, LoopInv, DeliveryInv, AnswerInv, OrderInv, LastOnes, SyncCallsAreWhole
<1>4. Running' = Running
  BY <1>2 DEF Running
<1>5. noDir' = IF MkdirFails' THEN noDir \cup Running ELSE noDir
  BY DEF Host
<1>6. DiskInv'
  BY <1>2, <1>4, <1>5 DEF IInv, DiskInv
<1>7. TearInv'
  <2>1. /\ Cardinality(Lost') = Cardinality(Lost) /\ tears' = tears
        /\ Cardinality(torn') \in {Cardinality(torn), Cardinality({})}
    <3>1. Lost' = Lost /\ tears' = tears /\ torn' \in {torn, {}}
      BY DEF Host, FillOrFree, Block, Unblock, NextHour, disk, Lost
    <3> QED
      BY <3>1
  <2>2. Cardinality({}) = 0
    BY FS_EmptySet
  <2>3. Cardinality(Lost) \in Nat /\ Cardinality(torn) \in Nat /\ tears \in Nat
    BY LostIsFinite DEF IInv, TypeOK
  <2> QED
    BY <2>1, <2>2, <2>3 DEF IInv, TearInv
<1>8. StoryInv'
  <2>1. level' = level
    BY DEF Host
  <2> QED
    BY <1>2, <2>1, QuietStory DEF IInv, StoryInv
<1> QED
  BY <1>1, <1>3, <1>6, <1>7, <1>8 DEF IInv

LEMMA StutterInv ==
  ASSUME IInv, UNCHANGED vars
  PROVE  IInv'
<1>1. /\ UNCHANGED <<level, dir, full, torn, legible, written, tears>>
      /\ UNCHANGED <<tool, pc, loop, outcome, got, sent, noDir, unsure>>
  BY DEF vars, disk, logs, history
<1>2. TypeOK'
  BY <1>1 DEF IInv, TypeOK
<1>3. LoopInv' /\ DeliveryInv' /\ AnswerInv'
  BY <1>1 DEF IInv, LoopInv, DeliveryInv, AnswerInv
<1>4. DiskInv'
  BY <1>1 DEF IInv, DiskInv, MkdirFails, Running
<1>5. OrderInv'
  BY <1>1 DEF IInv, OrderInv, LastOnes, SyncCallsAreWhole
<1>6. TearInv'
  BY <1>1 DEF IInv, TearInv, Lost
<1>7. StoryInv'
  BY <1>1, QuietStory DEF IInv, StoryInv
<1> QED
  BY <1>2, <1>3, <1>4, <1>5, <1>6, <1>7 DEF IInv

LEMMA InitInv ==
  ASSUME Init
  PROVE  IInv
<1>1. TypeOK
  BY DEF Init, TypeOK
<1>2. LoopInv /\ DeliveryInv /\ AnswerInv
  BY ServerAssumption DEF Init, LoopInv, DeliveryInv, AnswerInv
<1>3. DiskInv
  BY DEF Init, DiskInv, Running
<1>4. OrderInv
  BY ServerAssumption DEF Init, OrderInv, SyncCallsAreWhole
<1>5. TearInv
  <2>1. Lost = {} /\ torn = {} /\ tears = 0
    BY DEF Init, Lost
  <2> QED
    BY <2>1, FS_EmptySet DEF TearInv
<1>6. StoryInv
  <2> SUFFICES ASSUME NEW c \in Calls
               PROVE  Tells(c, <<>>)
    BY DEF Init, StoryInv, StoryOf
  <2>1. Places(c) = {}
    BY DEF Init, Places
  <2>2. <<>> \in [DOMAIN <<>> -> {}]
    OBVIOUS
  <2> QED
    BY <2>1, <2>2 DEF Tells
<1> QED
  BY <1>1, <1>2, <1>3, <1>4, <1>5, <1>6 DEF IInv

(* IInv holds in every state the server reaches.                           *)
THEOREM Invariance == Spec => []IInv
<1>1. IInv /\ [Next]_vars => IInv'
  <2> SUFFICES ASSUME IInv, [Next]_vars
               PROVE  IInv'
    OBVIOUS
  <2>1. ASSUME NEW c \in Calls, Step(c)
        PROVE  IInv'
    BY <2>1, StepTypeOK, StepLoopInv, StepDeliveryInv, StepAnswerInv, StepDiskInv, StepOrderInv,
    StepTearInv, StepStoryInv DEF IInv
  <2> QED
    BY <2>1, HostInv, StutterInv DEF Next
<1> QED
  BY <1>1, InitInv, PTL DEF Spec

(* The variables keep their types for any number of calls.                 *)
THEOREM TypeCorrect == Spec => []TypeOK
<1>1. IInv => TypeOK
  BY DEF IInv
<1> QED
  BY <1>1, Invariance, PTL

(* An agent that is told ok has sent its message to the group; one that is *)
(* told of a failure has not, unless the answer of the webhook was lost or *)
(* could not be understood (dingtalk.py, server.py 61-84).                 *)
THEOREM DeliveryKnown == Spec => []DeliveryIsKnown
<1>1. IInv => DeliveryIsKnown
  BY DEF IInv, DeliveryInv, AnswerInv, DeliveryIsKnown
<1> QED
  BY <1>1, Invariance, PTL

(* Whatever becomes of the disk, the log changes no answer unless its      *)
(* directory could not be made or the answer cannot be encoded             *)
(* (logger.py 186-214).                                                    *)
THEOREM AnswerSurvivesTheLog == Spec => []AnswerIsTheTools
<1>1. IInv => AnswerIsTheTools
  BY DEF IInv, TypeOK, AnswerInv, DiskInv, AnswerIsTheTools
<1> QED
  BY <1>1, Invariance, PTL

(* The records of a synchronous call stand together in the log, whatever   *)
(* other calls wait for the loop (server.py 61-84, logger.py 186-214).     *)
THEOREM SyncCallsTogether == Spec => []SyncCallsAreWhole
<1>1. IInv => SyncCallsAreWhole
  BY DEF IInv, OrderInv
<1> QED
  BY <1>1, Invariance, PTL

(* However often the disk is full, no more records are lost than lines were*)
(* torn: a record that cannot be written is on stderr, and a torn line     *)
(* swallows the one record behind it (logger.py 199-214).                  *)
THEOREM LossIsPaidByTears == Spec => []LostToTears
<1>1. IInv => LostToTears
  <2> SUFFICES ASSUME IInv
               PROVE  LostToTears
    OBVIOUS
  <2>1. Cardinality(Lost) \in Nat /\ Cardinality(torn) \in Nat /\ tears \in Nat
    BY LostIsFinite DEF IInv, TypeOK
  <2> QED
    BY <2>1 DEF IInv, TearInv, LostToTears, Lost
<1> QED
  BY <1>1, Invariance, PTL

(* The records of a call tell what it asked, what went wrong and how it    *)
(* ended, for any number of calls and any level; the log of a call that was*)
(* cancelled, or whose logger raised, ends too soon but is never wrong     *)
(* (server.py 61-84, dingtalk.py, logger.py 186-214).                      *)
THEOREM LogTellsTheStory == Spec => []StoryIsTrue
<1>1. IInv => StoryIsTrue
  <2> SUFFICES ASSUME IInv, NEW c \in Calls
               PROVE  /\ pc[c] = "ended" /\ got[c] \notin {"cancelled", "logger_error"}
                           => Tells(c, Plot(c))
                      /\ Stops(c)
    BY DEF StoryIsTrue, Stops
  <2>1. StoryOf(c) /\ pc[c] \in {"idle", "tool", "awaiting", "leaving", "ended"}
    BY DEF IInv, StoryInv, TypeOK
  <2>2. Tells(c, <<>>) \/ Tells(c, Opening(c)) => Stops(c)
    BY StopsSomewhere
  <2> QED
    BY <2>1, <2>2 DEF StoryOf
<1> QED
  BY <1>1, Invariance, PTL

=============================================================================
