----------------------------- MODULE ToolServer -----------------------------
(***************************************************************************)
(* The running server: calls of tools on one event loop, each inside the   *)
(* wrapper that logs it (server.py 61-84), the logger and the disk it      *)
(* writes to (logger.py), and of the tools the one whose effect cannot be  *)
(* taken back, dingtalk_send_markdown (dingtalk.py).  FastMCP calls a      *)
(* synchronous tool on the loop, which stands still until the tool         *)
(* returns; an asynchronous one gives the loop away at each await.         *)
(* Meanwhile the disk fills up, the log directory goes out of reach and    *)
(* the hour, which names the log file, changes.                            *)
(***************************************************************************)
EXTENDS Naturals, FiniteSets, Sequences, HttpExchange

CONSTANTS
  Calls,      \* the calls of one run; each is made once
  Nobody,     \* the owner of a loop that is free
  Levels      \* the levels a deployment may configure

(* dingtalk is synchronous and has a time limit; file is read_file, grep,  *)
(* search_file and search_log; database is synchronous and may take any    *)
(* time.  The Jira tools have a time limit, and the listings are short:    *)
(* they are like a database call that ends.                                *)
Tools == {"dingtalk", "file", "database"}
IsAsync(t) == t = "file"

ASSUME ServerAssumption ==
  /\ Nobody \notin Calls
  /\ Levels \subseteq {"debug", "info", "warning", "error"}

VARIABLES
  level,      \* logging.level
  dir,        \* the log directory: "there", "gone" or "blocked"
  full,       \* the disk is full
  torn,       \* the levels whose file of this hour ends in a torn line
  legible,    \* the records that can be read, in a file or on stderr
  tool,       \* what each call calls
  pc,         \* where it stands
  loop,       \* the call that runs
  outcome,    \* what the tool returned or raised
  got,        \* what the wrapper returned or raised
  sent,       \* the calls whose message is in the DingTalk group
  written,    \* history: the records handed to the disk, in order
  tears,      \* history: how many lines were torn
  noDir,      \* history: the calls during which no directory could be made
  unsure      \* history: the calls of "sent" that got no readable answer

disk    == <<dir, full>>
logs    == <<torn, legible, written, tears>>
history == <<noDir, unsure>>
vars    == <<level, disk, logs, tool, pc, loop, outcome, got, sent, history>>

Rank == [debug |-> 0, info |-> 1, warning |-> 2, error |-> 3]

(* "report" stands for the records of a tool about its own failure.        *)
Topics == {"tool.request", "tool.response", "tool.failed", "report"}
LevelOf(topic) == IF topic \in {"tool.request", "tool.response"} THEN "info" ELSE "error"

Records == [call : Calls, topic : Topics]
Rec(c, topic) == [call |-> c, topic |-> topic]

(* What a tool may return or raise: "odd_names" is a success with file     *)
(* names that are not UTF-8, "failure" any answer with success: False.     *)
Returned == {"ok", "odd_names", "failure"}
Raised == {"exception", "logger_error"}

-----------------------------------------------------------------------------
Init ==
  /\ level \in Levels
  /\ dir \in {"there", "gone", "blocked"}
  /\ full \in BOOLEAN
  /\ torn = {}
  /\ legible = {}
  /\ tool = [c \in Calls |-> "none"]
  /\ pc = [c \in Calls |-> "idle"]
  /\ loop = Nobody
  /\ outcome = [c \in Calls |-> "none"]
  /\ got = [c \in Calls |-> "none"]
  /\ sent = {}
  /\ written = <<>>
  /\ tears = 0
  /\ noDir = {}
  /\ unsure = {}

(* Below the configured level _write does nothing.                         *)
Passes(topic) == Rank[LevelOf(topic)] >= Rank[level]

(* mkdir(parents=True, exist_ok=True), which no handler surrounds.         *)
MkdirFails == dir = "blocked" \/ (dir = "gone" /\ full)

(* Names that are not UTF-8 are surrogates in Python: json.dumps keeps     *)
(* them and the file's encoder raises, which is no OSError.  Only the      *)
(* response holds what the tool returned.                                  *)
Encodes(c, topic) == ~(topic = "tool.response" /\ outcome'[c] = "odd_names")

(* Mutant: an OSError of the file leaves the logger like one of mkdir.     *)
WriteRaisesWhenFull(c, topic) ==
  /\ Passes(topic)
  /\ MkdirFails \/ full \/ ~Encodes(c, topic)
  /\ dir' = IF MkdirFails THEN dir ELSE "there"
  /\ UNCHANGED logs

(* Mutant: the logger tries again until the directory can be made.         *)
WriteWaits(c, topic) ==
  /\ Passes(topic) /\ ~MkdirFails /\ ~Encodes(c, topic)
  /\ dir' = "there"
  /\ UNCHANGED logs

(* _write raises: no directory, or names that cannot be encoded.           *)
WriteRaises(c, topic) ==
  /\ Passes(topic)
  /\ MkdirFails \/ ~Encodes(c, topic)
  /\ dir' = IF MkdirFails THEN dir ELSE "there"
  /\ UNCHANGED logs

(* Mutant: what cannot be written is dropped.                              *)
WriteNoFallback(c, topic) ==
  \/ ~Passes(topic) /\ UNCHANGED <<dir, logs>>
  \/ /\ Passes(topic) /\ ~MkdirFails /\ Encodes(c, topic)
     /\ dir' = "there"
     /\ written' = Append(written, Rec(c, topic))
     /\ legible' = IF full THEN legible ELSE legible \cup {Rec(c, topic)}
     /\ UNCHANGED <<torn, tears>>

(* The record is one line of the file of its level.  On a full disk the    *)
(* file may not open, or the line be cut short; the logger puts the record *)
(* on stderr, whatever its names, and leaves a torn line as it is, so that *)
(* the next record is the end of that line.                                *)
Write(c, topic) ==
  LET l == LevelOf(topic) IN
  \/ ~Passes(topic) /\ UNCHANGED <<dir, logs>>
  \/ /\ Passes(topic) /\ ~MkdirFails
     /\ dir' = "there"
     /\ written' = Append(written, Rec(c, topic))
     /\ \/ /\ ~full /\ Encodes(c, topic)
           /\ legible' = IF l \in torn THEN legible ELSE legible \cup {Rec(c, topic)}
           /\ torn' = torn \ {l}
           /\ UNCHANGED tears
        \/ /\ full
           /\ legible' = legible \cup {Rec(c, topic)}
           /\ \/ UNCHANGED <<torn, tears>>
              \/ Encodes(c, topic) /\ torn' = torn \cup {l} /\ tears' = tears + 1

-----------------------------------------------------------------------------
(* The wrapper.                                                            *)
Return(c, what) ==
  /\ pc' = [pc EXCEPT ![c] = "ended"]
  /\ got' = [got EXCEPT ![c] = what]
  /\ loop' = Nobody

(* Mutant: synchronous tools run in threads, beside the loop.              *)
BeginInThread(c, t) ==
  /\ pc[c] = "idle"
  /\ tool' = [tool EXCEPT ![c] = t]
  /\ noDir' = IF MkdirFails THEN noDir \cup {c} ELSE noDir
  /\ \/ /\ Write(c, "tool.request")
        /\ pc' = [pc EXCEPT ![c] = "tool"]
        /\ loop' = c
        /\ UNCHANGED got
     \/ /\ WriteRaises(c, "tool.request")
        /\ Return(c, "logger_error")
  /\ UNCHANGED <<outcome, sent, unsure>>

(* The request is logged outside the try: when that fails the tool is      *)
(* never called.                                                           *)
Begin(c, t) ==
  /\ pc[c] = "idle" /\ loop = Nobody
  /\ tool' = [tool EXCEPT ![c] = t]
  /\ noDir' = IF MkdirFails THEN noDir \cup {c} ELSE noDir
  /\ \/ /\ Write(c, "tool.request")
        /\ pc' = [pc EXCEPT ![c] = "tool"]
        /\ loop' = c
        /\ UNCHANGED got
     \/ /\ WriteRaises(c, "tool.request")
        /\ Return(c, "logger_error")
  /\ UNCHANGED <<outcome, sent, unsure>>

(* Mutant: whatever the tool did is logged as its response.                *)
LeaveAsResponse(c) ==
  /\ \/ Write(c, "tool.response") /\ Return(c, outcome'[c])
     \/ WriteRaises(c, "tool.response") /\ Return(c, "logger_error")

(* The response, or the exception, is logged and handed on, unless the     *)
(* logger raises.                                                          *)
Leave(c) ==
  LET topic == IF outcome'[c] \in Returned THEN "tool.response" ELSE "tool.failed" IN
  \/ Write(c, topic) /\ Return(c, outcome'[c])
  \/ WriteRaises(c, topic) /\ Return(c, "logger_error")

(* An asynchronous tool waits for a file and goes on.                      *)
Await(c) ==
  /\ pc[c] = "tool" /\ loop = c /\ IsAsync(tool[c])
  /\ pc' = [pc EXCEPT ![c] = "awaiting"]
  /\ loop' = Nobody
  /\ UNCHANGED <<dir, logs, tool, outcome, got, sent, history>>

Resume(c) ==
  /\ pc[c] = "awaiting" /\ loop = Nobody
  /\ pc' = [pc EXCEPT ![c] = "tool"]
  /\ loop' = c
  /\ UNCHANGED <<dir, logs, tool, outcome, got, sent, history>>

(* The client takes its request back.  CancelledError is no Exception: it  *)
(* passes the wrapper unlogged.                                            *)
Cancel(c) ==
  /\ pc[c] = "awaiting" /\ loop = Nobody
  /\ pc' = [pc EXCEPT ![c] = "ended"]
  /\ got' = [got EXCEPT ![c] = "cancelled"]
  /\ UNCHANGED <<dir, logs, tool, loop, outcome, sent, history>>

(* The file and database tools write no records of their own.              *)
Finish(c) ==
  /\ pc[c] = "tool" /\ loop = c /\ tool[c] # "dingtalk"
  /\ \E what \in {"ok", "failure", "exception"}
                 \cup IF tool[c] = "file" THEN {"odd_names"} ELSE {} :
       outcome' = [outcome EXCEPT ![c] = what]
  /\ Leave(c)
  /\ UNCHANGED <<tool, sent, history>>

-----------------------------------------------------------------------------
(* dingtalk_send_markdown.                                                 *)
(* Mutant: the failure is reported and not returned.                       *)
FailReturnsNone(c) ==
  /\ \/ Write(c, "report") /\ outcome' = [outcome EXCEPT ![c] = "None"]
     \/ WriteRaises(c, "report") /\ outcome' = [outcome EXCEPT ![c] = "logger_error"]
  /\ pc' = [pc EXCEPT ![c] = "leaving"]
  /\ UNCHANGED <<loop, got>>

(* error(...) and return a failure: what the logger raises takes its place.*)
Fail(c) ==
  /\ \/ Write(c, "report") /\ outcome' = [outcome EXCEPT ![c] = "failure"]
     \/ WriteRaises(c, "report") /\ outcome' = [outcome EXCEPT ![c] = "logger_error"]
  /\ pc' = [pc EXCEPT ![c] = "leaving"]
  /\ UNCHANGED <<loop, got>>

Reject(c) ==   \* a blank title or markdown
  /\ pc[c] = "tool" /\ loop = c /\ tool[c] = "dingtalk"
  /\ Fail(c)
  /\ UNCHANGED <<tool, sent, history>>

(* What becomes of the POST; errcode tells whether the message was taken.  *)
Replies == [fate : Outcomes, errcode : {0, 1}]
Understood(r) == r.fate = "json"
Taken(r) == IF Understood(r) THEN {r.errcode = 0} ELSE CarriedOut(r.fate)

(* Mutant: the answer counts as success whatever its errcode.              *)
SucceedsAnyCode(r) == Understood(r)

Succeeds(r) == Understood(r) /\ r.errcode = 0

(* The one POST, and what its answer is taken for: HttpRequestError, an    *)
(* answer that is no object and an errcode are reported, the rest raises.  *)
Send(c) ==
  /\ pc[c] = "tool" /\ loop = c /\ tool[c] = "dingtalk"
  /\ \E r \in Replies :
       /\ sent' \in {IF t THEN sent \cup {c} ELSE sent : t \in Taken(r)}
       /\ unsure' = IF Understood(r) \/ c \notin sent' THEN unsure ELSE unsure \cup {c}
       /\ \/ /\ RequestJson(r.fate) \in Uncaught
             /\ outcome' = [outcome EXCEPT ![c] = "exception"]
             /\ Leave(c)
          \/ /\ Succeeds(r)
             /\ outcome' = [outcome EXCEPT ![c] = "ok"]
             /\ Leave(c)
          \/ /\ RequestJson(r.fate) \notin Uncaught /\ ~Succeeds(r)
             /\ Fail(c)
  /\ UNCHANGED <<tool, noDir>>

(* After the report the failure is the wrapper's.                          *)
LeaveReported(c) ==
  /\ pc[c] = "leaving"
  /\ UNCHANGED outcome
  /\ Leave(c)
  /\ UNCHANGED <<tool, sent, history>>

Step(c) ==
  /\ \/ \E t \in Tools : Begin(c, t)
     \/ Await(c) \/ Resume(c) \/ Cancel(c) \/ Finish(c)
     \/ Reject(c) \/ Send(c) \/ LeaveReported(c)
  /\ UNCHANGED <<level, full>>

-----------------------------------------------------------------------------
(* The disk and the clock.                                                 *)
Running == {c \in Calls : pc[c] \notin {"idle", "ended"}}

FillOrFree ==
  /\ full' = ~full
  /\ UNCHANGED <<dir, torn>>

(* A file in its place, a lost mount, other permissions.                   *)
Block ==
  /\ dir # "blocked"
  /\ dir' = "blocked"
  /\ UNCHANGED <<full, torn>>

Unblock ==
  /\ dir = "blocked"
  /\ \/ dir' = "there"
     \/ dir' = "gone" /\ written = <<>>
  /\ UNCHANGED <<full, torn>>

(* Each hour has files of its own.                                         *)
NextHour ==
  /\ torn # {}
  /\ torn' = {}
  /\ UNCHANGED disk

(* When every call has ended nobody looks at the directory or the clock any*)
(* more: only the space goes on changing (a bound of the model).           *)
Host ==
  /\ \/ FillOrFree
     \/ (\E c \in Calls : pc[c] # "ended") /\ (Block \/ Unblock \/ NextHour)
  /\ noDir' = IF MkdirFails' THEN noDir \cup Running ELSE noDir
  /\ UNCHANGED <<level, legible, written, tears, tool, pc, loop, outcome, got, sent, unsure>>

Next == (\E c \in Calls : Step(c)) \/ Host

Spec == Init /\ [][Next]_vars

(* A tool that awaits gets the loop back and awaits a finite number of     *)
(* times, DingTalk's time limit ends its request, the wrapper goes on.  A  *)
(* database statement has no time limit, so nothing is said of it.         *)
Fairness ==
  \A c \in Calls :
    /\ SF_vars(Resume(c) /\ UNCHANGED <<level, full>>)
    /\ SF_vars(tool[c] = "file" /\ Finish(c) /\ UNCHANGED <<level, full>>)
    /\ WF_vars((Send(c) \/ LeaveReported(c)) /\ UNCHANGED <<level, full>>)

FairSpec == Spec /\ Fairness

-----------------------------------------------------------------------------
TypeOK ==
  /\ level \in Levels
  /\ dir \in {"there", "gone", "blocked"}
  /\ full \in BOOLEAN
  /\ torn \subseteq {"info", "error"}
  /\ legible \subseteq Records
  /\ tool \in [Calls -> Tools \cup {"none"}]
  /\ pc \in [Calls -> {"idle", "tool", "awaiting", "leaving", "ended"}]
  /\ loop \in Calls \cup {Nobody}
  /\ outcome \in [Calls -> {"none"} \cup Returned \cup Raised]
  /\ got \in [Calls -> {"none", "cancelled"} \cup Returned \cup Raised]
  /\ sent \subseteq Calls
  /\ written \in Seq(Records)
  /\ tears \in Nat
  /\ noDir \subseteq Calls /\ unsure \subseteq Calls

(* Logging makes no difference to what a call answers, whatever becomes of *)
(* the disk, unless the log directory could not be made during the call or *)
(* the answer has names that cannot be encoded (tool-design.md 47-52: an   *)
(* operation that completed returns Success, logger.py 210 falls back).    *)
AnswerIsTheTools ==
  \A c \in Calls :
    pc[c] = "ended" /\ got[c] # "cancelled" /\ c \notin noDir /\ outcome[c] # "odd_names" =>
      got[c] = outcome[c] /\ outcome[c] # "logger_error"

(* A disk that is full loses no record: it is on stderr.  What a torn line *)
(* costs is the record that is written behind it once there is room again, *)
(* and no more than that one (logger.py 207-214).                          *)
LostToTears ==
  Cardinality({i \in DOMAIN written : written[i] \notin legible}) <= tears

(* The records of a call tell its story: the request first, a report of a  *)
(* failure of DingTalk, at the end a response or a failure as the tool     *)
(* returned or raised; all of them when the call was answered, the first   *)
(* of them when it was cancelled or the logger raised, none that the level *)
(* leaves out.                                                             *)
Told(c, topic) == IF Passes(topic) THEN <<Rec(c, topic)>> ELSE <<>>
Opening(c) ==
  Told(c, "tool.request")
    \o IF tool[c] = "dingtalk" /\ outcome[c] = "failure" THEN Told(c, "report") ELSE <<>>
Plot(c) ==
  Opening(c) \o Told(c, IF outcome[c] \in Returned THEN "tool.response" ELSE "tool.failed")

(* The records of c, in the order of the log, are those of story.          *)
Places(c) == {i \in DOMAIN written : written[i].call = c}
Tells(c, story) ==
  \E at \in [DOMAIN story -> Places(c)] :
    /\ \A i \in Places(c) : \E k \in DOMAIN story : at[k] = i
    /\ \A j, k \in DOMAIN story : j < k => at[j] < at[k]
    /\ \A k \in DOMAIN story : written[at[k]] = story[k]

StoryIsTrue ==
  \A c \in Calls :
    IF pc[c] = "ended" /\ got[c] \notin {"cancelled", "logger_error"}
    THEN Tells(c, Plot(c))
    ELSE \E n \in 0..Len(Plot(c)) : Tells(c, SubSeq(Plot(c), 1, n))

(* No context_id is ever set (logger.py 43 has no caller), so the records  *)
(* of a call are told apart by their place.  For a synchronous tool that   *)
(* works: nothing stands between its first record and its last.            *)
SyncCallsAreWhole ==
  \A i, j, k \in DOMAIN written :
    i < j /\ j < k /\ written[i].call = written[k].call /\ ~IsAsync(tool[written[i].call]) =>
      written[j].call = written[i].call

(* The agent that is told ok has sent its message; one that is told that   *)
(* "the notification could not be sent" (hints.py 18-21) has not, unless   *)
(* the webhook's answer was lost or could not be understood.  Trouble with *)
(* the log can hide a message that was sent but never make one up.         *)
DeliveryIsKnown ==
  \A c \in Calls :
    tool[c] = "dingtalk" /\ pc[c] = "ended" =>
      /\ got[c] = "ok" => c \in sent
      /\ got[c] \in {"failure", "exception"} /\ c \in sent => c \in unsure

(* Every call ends, however the others use the loop, as long as no         *)
(* database statement keeps the loop for ever.                             *)
Held == loop # Nobody /\ tool[loop] = "database"
CallsEnd ==
  []<>~Held => \A c \in Calls : (pc[c] # "idle") ~> (pc[c] = "ended")

=============================================================================
