--------------------------- MODULE JiraTransition ---------------------------
(***************************************************************************)
(* The operations of JiraService on one issue among the others             *)
(* (service.py 57-320, client.py): the list of the open issues, the        *)
(* details of an issue, an image attached to it, and the start and the     *)
(* resolution of work on it.  A list is one request; a transition is four: *)
(* read the issue, read who the token's user is (once), read the           *)
(* transitions, post one; an image is the first two and the download.      *)
(* Between any two of them the users of Jira reassign, move, transition or *)
(* delete the issue or its image, and each request may fail or be carried  *)
(* out without the tool learning of it.  After an internal error the agent *)
(* calls again, twice at most, as the hint of that answer tells it         *)
(* (hints.py 14-17).                                                       *)
(***************************************************************************)
EXTENDS Naturals, FiniteSets, HttpExchange

CONSTANTS
  Statuses,     \* the statuses of the Jira workflow
  Workflow,     \* the transitions each status offers: [id, to] records
  StartTarget,  \* jira.start_target_status
  ResolveTarget,\* jira.resolve_target_status
  OpenStatuses, \* jira.latest_assigned_statuses
  MaxMeddling,  \* bound: changes by other users during one goal
  MaxInFlight   \* bound: posts given up on and not yet settled

MaxRetries == 2

ASSUME WorkflowAssumption ==
  /\ DOMAIN Workflow = Statuses
  /\ OpenStatuses \subseteq Statuses
  /\ \A s \in Statuses : \A x \in Workflow[s] : x.to \in Statuses
  \* Jira: an id names one transition, which has one destination.
  /\ \A s, t \in Statuses : \A x \in Workflow[s], y \in Workflow[t] :
       x.id = y.id => x.to = y.to

VARIABLES
  issue,        \* the issue as Jira has it
  userKnown,    \* JiraClient._current_user_identifiers is not None
  goal,         \* the tool the agent calls
  step,         \* the request the tool is about to make
  read,         \* of the JiraIssue of the first request: is it in the
                \* configured project, is it assigned to the token's user,
                \* has it the image that is asked for
  chosen,       \* transition_id
  answer,       \* error_type of the answer, what a success shows, or the
                \* exception raised
  retries,      \* calls made again after an internal error
  inFlight,     \* posts the tool gave up on and Jira has yet to see
  grounds,      \* history: the grounds of the posts Jira carried out
  applied,      \* history: times a post of this goal changed the status
  disturbed,    \* history: anything else changed the issue during this goal
  seen,         \* history: what was true of the issue during this call
  meddling      \* history: changes by other users during this goal

tool    == <<userKnown, step, read, chosen, answer>>
agent   == <<goal, retries>>
history == <<grounds, applied, disturbed, seen, meddling>>
vars    == <<issue, tool, agent, inFlight, history>>

(* get_attachment_image is not registered as a tool (register.py 30-33).   *)
Moves == {"start", "resolve"}
Goals == {"list", "details", "image"} \cup Moves
Target(g) == IF g = "resolve" THEN ResolveTarget ELSE StartTarget

Issues == [present : BOOLEAN, ours : BOOLEAN, mine : BOOLEAN, image : BOOLEAN, status : Statuses]
Reads == [ours : BOOLEAN, mine : BOOLEAN, image : BOOLEAN]
Read(i, g) == [ours |-> i.ours, mine |-> i.mine, image |-> g = "image" /\ i.image]
NoId == ""  \* str(selected.get("id") or "")
Unread == [ours |-> FALSE, mine |-> FALSE, image |-> FALSE]

(* The search of the list: project, assignee and status, as JQL.           *)
Open(i) == i.present /\ i.ours /\ i.mine /\ i.status \in OpenStatuses

(* The transitions of the issue that reach the target of goal g.           *)
Reaching(i, g) == {x \in Workflow[i.status] : x.to = Target(g)}

(* What an answer to goal g may claim of the issue.                        *)
FactNames == {"absent", "elsewhere", "here", "not_mine", "open", "not_open",
              "own_image", "no_image", "no_way", "many_ways", "there"}
Facts(i, g) ==
  {f \in FactNames :
     \/ f = "absent" /\ ~i.present
     \/ f = "elsewhere" /\ ~i.ours
     \/ f = "here" /\ i.present /\ i.ours
     \/ f = "not_mine" /\ ~i.mine
     \/ g = "list" /\ f = "open" /\ Open(i)
     \/ g = "list" /\ f = "not_open" /\ ~Open(i)
     \/ g = "image" /\ f = "own_image" /\ i.present /\ i.ours /\ i.mine /\ i.image
     \/ g = "image" /\ f = "no_image" /\ ~i.image
     \/ g \in Moves /\ f = "no_way" /\ Reaching(i, g) = {}
     \/ g \in Moves /\ f = "many_ways" /\ Cardinality(Reaching(i, g)) > 1
     \/ g \in Moves /\ f = "there" /\ i.status = Target(g)}

-----------------------------------------------------------------------------
Init ==
  /\ issue \in {i \in Issues : i.present}
  /\ userKnown = FALSE
  /\ goal = "details"
  /\ step = "answered"
  /\ read = Unread
  /\ chosen = NoId
  /\ answer = "none"
  /\ retries = 0
  /\ inFlight = {}
  /\ grounds = {}
  /\ applied = 0
  /\ disturbed = FALSE
  /\ seen = {}
  /\ meddling = 0

Answer(a) == step' = "answered" /\ answer' = a

(* Each method but the list begins with the lookup of the issue: the agent *)
(* starts on a goal, or calls the tool again after an internal error.      *)
BeginCall(g) ==
  /\ step' = IF g = "list" THEN "search" ELSE "lookup"
  /\ read' = Unread
  /\ chosen' = NoId
  /\ answer' = "none"

NewGoal(g) ==
  /\ step = "answered"
  /\ goal' = g
  /\ retries' = 0
  /\ applied' = 0
  /\ grounds' = {}
  /\ disturbed' = FALSE
  /\ inFlight' = {[r EXCEPT !.old = TRUE] : r \in inFlight}
  /\ meddling' = 0
  /\ seen' = Facts(issue, g)
  /\ BeginCall(g)
  /\ UNCHANGED <<issue, userKnown>>

(* Mutant: the agent is told to retry, but not how often.                  *)
CallAgainForEver ==
  /\ step = "answered"
  /\ answer \in {"internal_error"} \cup Uncaught
  /\ retries <= MaxRetries
  /\ retries' = retries + 1
  /\ seen' = Facts(issue, goal)
  /\ BeginCall(goal)
  /\ UNCHANGED <<issue, userKnown, goal, inFlight, grounds, applied,
                 disturbed, meddling>>

CallAgain ==
  /\ step = "answered"
  /\ answer \in {"internal_error"} \cup Uncaught
  /\ retries < MaxRetries
  /\ retries' = retries + 1
  /\ seen' = Facts(issue, goal)
  /\ BeginCall(goal)
  /\ UNCHANGED <<issue, userKnown, goal, inFlight, grounds, applied,
                 disturbed, meddling>>

(* JiraClient._request: an HttpRequestError becomes a JiraApiError, which  *)
(* every request of the service turns into an internal error.              *)
Errs(o) ==
  \/ RequestJson(o) = "HttpRequestError" /\ Answer("internal_error")
  \/ RequestJson(o) \in Uncaught /\ Answer(RequestJson(o))

(* A read also fails when the answer is not the object it asked for.       *)
Fails(o) ==
  \/ Errs(o)
  \/ RequestJson(o) \in {"None", "payload"} /\ o # "json" /\ Answer("internal_error")

(* A read: Jira answers 404 for an issue it does not have.                 *)
ReadOutcomes == Outcomes \ (IF issue.present THEN {"not_found"} ELSE {"json", "odd", "empty"})

(* list_open_assigned_issues: the issue is in the list, or others are and  *)
(* it is not, because it is not open or because 100 others changed since;  *)
(* or the list is empty and its hint says that there are no open issues.   *)
Search ==
  /\ step = "search"
  /\ \E o \in Outcomes :
       \/ Fails(o)
       \/ o = "json" /\ Open(issue) /\ Answer("listed")
       \/ o = "json" /\ Answer("unlisted")
       \/ o = "json" /\ ~Open(issue) /\ Answer("none_open")
  /\ UNCHANGED <<issue, userKnown, read, chosen, agent, inFlight, history>>

(* Mutant: the project is taken from the key the agent gave, which an      *)
(* issue that has moved still answers to.                                  *)
LookupByGivenKey ==
  /\ step = "lookup"
  /\ \E o \in ReadOutcomes :
       \/ o = "not_found" /\ Answer("issue_not_found") /\ UNCHANGED read
       \/ o # "not_found" /\ Fails(o) /\ UNCHANGED read
       \/ /\ o = "json"
          /\ read' = Read(issue, goal)
          /\ IF goal = "details" THEN Answer("ok")
             ELSE step' = "whoami" /\ UNCHANGED answer
  /\ UNCHANGED <<issue, userKnown, chosen, agent, inFlight, history>>

(* get_issue and the project check, which is on the key Jira returns.      *)
Lookup ==
  /\ step = "lookup"
  /\ \E o \in ReadOutcomes :
       \/ o = "not_found" /\ Answer("issue_not_found") /\ UNCHANGED read
       \/ o # "not_found" /\ Fails(o) /\ UNCHANGED read
       \/ /\ o = "json"
          /\ read' = Read(issue, goal)
          /\ \/ ~issue.ours /\ Answer("project_not_allowed")
             \/ issue.ours /\ goal = "details" /\ Answer("ok")
             \/ issue.ours /\ goal # "details" /\ step' = "whoami" /\ UNCHANGED answer
  /\ UNCHANGED <<issue, userKnown, chosen, agent, inFlight, history>>

(* _find_image_attachment, in the issue as it was read: an attachment      *)
(* without a URL is an error.                                              *)
ChooseImage ==
  \/ ~read.image /\ Answer("attachment_not_found")
  \/ read.image /\ Answer("internal_error")
  \/ read.image /\ step' = "download" /\ UNCHANGED answer

(* Mutant: the image of an issue is shown whoever it is assigned to.       *)
WhoAmIForMoves ==
  /\ step = "whoami"
  /\ \/ /\ ~userKnown
        /\ \E o \in Outcomes : Fails(o)
        /\ UNCHANGED userKnown
     \/ /\ userKnown' = TRUE
        /\ \/ ~read.mine /\ goal \in Moves /\ Answer("assignee_not_allowed")
           \/ goal = "image" /\ ChooseImage
           \/ read.mine /\ goal \in Moves /\ step' = "transitions" /\ UNCHANGED answer
  /\ UNCHANGED <<issue, read, chosen, agent, inFlight, history>>

(* get_current_user_identifiers, kept after the first success, and the     *)
(* assignee check, on the issue as it was read.  A myself response without *)
(* an identifier is an error.                                              *)
WhoAmI ==
  /\ step = "whoami"
  /\ \/ /\ ~userKnown
        /\ \E o \in Outcomes : Fails(o)
        /\ UNCHANGED userKnown
     \/ /\ userKnown' = TRUE
        /\ \/ ~read.mine /\ Answer("assignee_not_allowed")
           \/ read.mine /\ goal = "image" /\ ChooseImage
           \/ read.mine /\ goal # "image" /\ step' = "transitions" /\ UNCHANGED answer
  /\ UNCHANGED <<issue, read, chosen, agent, inFlight, history>>

(* The body of any 2xx answer is the image, if it is not too large.  The   *)
(* image may be gone: its URL answers 404, which is an internal error.     *)
DownloadOutcomes ==
  IF issue.present /\ issue.image THEN Outcomes \ {"not_found"}
  ELSE {o \in Outcomes : RequestBytes(o) # "body"}

Download ==
  /\ step = "download"
  /\ \E o \in DownloadOutcomes :
       \/ RequestBytes(o) = "HttpRequestError" /\ Answer("internal_error")
       \/ RequestBytes(o) \in Uncaught /\ Answer(RequestBytes(o))
       \/ RequestBytes(o) = "body" /\ (Answer("ok") \/ Answer("internal_error"))
  /\ UNCHANGED <<issue, userKnown, read, chosen, agent, inFlight, history>>

(* Mutant: an available transition is taken whatever its target.           *)
GetTransitionsAnyTarget ==
  /\ step = "transitions"
  /\ \E o \in ReadOutcomes :
       \/ Fails(o) /\ UNCHANGED chosen
       \/ /\ o = "json"
          /\ \E x \in Workflow[issue.status] :
               /\ chosen' = x.id
               /\ \/ x.id = NoId /\ Answer("internal_error")
                  \/ x.id # NoId /\ step' = "post" /\ UNCHANGED answer
  /\ UNCHANGED <<issue, userKnown, read, agent, inFlight, history>>

(* get_transitions and the choice of the one that reaches the target.      *)
GetTransitions ==
  /\ step = "transitions"
  /\ \E o \in ReadOutcomes :
       \/ Fails(o) /\ UNCHANGED chosen
       \/ /\ o = "json"
          /\ \/ /\ Reaching(issue, goal) = {}
                /\ Answer("transition_not_available")
                /\ UNCHANGED chosen
             \/ /\ Cardinality(Reaching(issue, goal)) > 1
                /\ Answer("transition_ambiguous")
                /\ UNCHANGED chosen
             \/ \E x \in Reaching(issue, goal) :
                  /\ Reaching(issue, goal) = {x}
                  /\ chosen' = x.id
                  /\ \/ x.id = NoId /\ Answer("internal_error")
                     \/ x.id # NoId /\ step' = "post" /\ UNCHANGED answer
  /\ UNCHANGED <<issue, userKnown, read, agent, inFlight, history>>

-----------------------------------------------------------------------------
(* Jira carries a post out when the issue's status offers the transition.  *)
Offered(id) == {x \in Workflow[issue.status] : issue.present /\ x.id = id}

Apply(r) ==
  /\ \E x \in Offered(r.id) :
       /\ issue' = [issue EXCEPT !.status = x.to]
       /\ applied' = IF r.old \/ x.to = issue.status THEN applied ELSE applied + 1
  /\ grounds' = grounds \cup {r.ground}
  /\ disturbed' = (disturbed \/ r.old)
  /\ seen' = seen \cup Facts(issue', goal)

NotApplied == UNCHANGED <<issue, grounds, applied, disturbed, seen>>

(* Mutant: a failed post is logged and the tool goes on.                   *)
PostAnyway ==
  /\ step = "post"
  /\ Answer("ok")
  /\ LET r == [id |-> chosen, ground |-> read, old |-> FALSE] IN
       Apply(r) \/ NotApplied
  /\ UNCHANGED <<userKnown, read, chosen, agent, inFlight, meddling>>

(* transition_issue: only what request_json raises tells of a failure.  A  *)
(* post the tool has given up on may still be on its way.                  *)
Post ==
  /\ step = "post"
  /\ LET r == [id |-> chosen, ground |-> read, old |-> FALSE] IN
       \E o \in Outcomes :
         /\ \/ Errs(o)
            \/ RequestJson(o) \in {"payload", "None"} /\ Answer("ok")
         /\ \/ TRUE \in CarriedOut(o) /\ Apply(r) /\ UNCHANGED inFlight
            \/ FALSE \in CarriedOut(o) /\ NotApplied /\ UNCHANGED inFlight
            \/ /\ o = "silent" /\ NotApplied
               /\ Cardinality(inFlight) < MaxInFlight
               /\ inFlight' = inFlight \cup {r}
  /\ UNCHANGED <<userKnown, read, chosen, agent, meddling>>

(* It reaches Jira after all, which carries it out or refuses it, or never *)
(* does.                                                                   *)
LatePost ==
  /\ \E r \in inFlight :
       /\ inFlight' = inFlight \ {r}
       /\ Apply(r) \/ NotApplied
  /\ UNCHANGED <<tool, agent, meddling>>

(* Another user changes one thing about the issue.                         *)
Meddle ==
  /\ meddling < MaxMeddling
  /\ \/ issue' = [issue EXCEPT !.present = ~@]
     \/ issue' = [issue EXCEPT !.ours = ~@]
     \/ issue' = [issue EXCEPT !.mine = ~@]
     \/ issue.image /\ issue' = [issue EXCEPT !.image = FALSE]
     \/ \E s \in Statuses \ {issue.status} : issue' = [issue EXCEPT !.status = s]
  /\ meddling' = meddling + 1
  /\ disturbed' = TRUE
  /\ seen' = seen \cup Facts(issue', goal)
  /\ UNCHANGED <<tool, agent, inFlight, grounds, applied>>

Next ==
  \/ \E g \in Goals : NewGoal(g)
  \/ CallAgain
  \/ Search \/ Lookup \/ WhoAmI \/ Download \/ GetTransitions \/ Post
  \/ LatePost \/ Meddle

Spec == Init /\ [][Next]_vars

-----------------------------------------------------------------------------
Answers == Uncaught \cup
  {"none", "ok", "listed", "unlisted", "none_open", "internal_error", "issue_not_found",
   "project_not_allowed", "assignee_not_allowed", "attachment_not_found",
   "transition_not_available", "transition_ambiguous"}
Ids == {NoId} \cup UNION {{x.id : x \in Workflow[s]} : s \in Statuses}

TypeOK ==
  /\ issue \in Issues
  /\ userKnown \in BOOLEAN
  /\ goal \in Goals
  /\ step \in {"search", "lookup", "whoami", "download", "transitions", "post", "answered"}
  /\ read \in Reads
  /\ chosen \in Ids
  /\ answer \in Answers
  /\ retries \in 0..MaxRetries
  /\ inFlight \subseteq [id : Ids, ground : Reads, old : BOOLEAN]
  /\ grounds \subseteq Reads
  /\ applied \in Nat
  /\ disturbed \in BOOLEAN
  /\ seen \subseteq FactNames
  /\ meddling \in Nat

(* No issue is ever transitioned for the agent unless this call, or the    *)
(* call that sent the post, had read it as one of the configured project   *)
(* that is assigned to the token's user: not by a retry, not by a post     *)
(* that arrives after the tool gave up on it, not for an issue that moved. *)
OnlyOwnIssues ==
  \A g \in grounds \cup {r.ground : r \in inFlight} : g.ours /\ g.mine

(* What an answer says is so: that the issue was moved only when it has    *)
(* been in the target status, a refusal only when the issue was absent,    *)
(* elsewhere, someone else's, without the image or without one way there,  *)
(* an empty list only when it was not open.                                *)
ClaimIsTrue ==
  step = "answered" =>
    /\ answer = "ok" /\ goal \in Moves => "there" \in seen
    /\ answer = "none_open" => "not_open" \in seen
    /\ answer = "issue_not_found" => "absent" \in seen
    /\ answer = "project_not_allowed" => "elsewhere" \in seen
    /\ answer = "assignee_not_allowed" => "not_mine" \in seen
    /\ answer = "attachment_not_found" => "no_image" \in seen
    /\ answer = "transition_not_available" => "no_way" \in seen
    /\ answer = "transition_ambiguous" => "many_ways" \in seen

(* The agent is shown nothing of an issue that was not in the configured   *)
(* project during the call, in the list only open issues of the user, and  *)
(* an image only of an issue that had it while it was the user's, whatever *)
(* became of the issue before the image was downloaded.                    *)
NothingForeignShown ==
  step = "answered" =>
    /\ answer = "ok" /\ goal = "details" => "here" \in seen
    /\ answer = "ok" /\ goal = "image" => "own_image" \in seen
    /\ answer = "listed" => "open" \in seen

(* Every answer was right at some moment of the call, in what it says of   *)
(* the issue and in what it shows of it, although each rests on reads that *)
(* are up to three requests old (service.py 244-308, 129-170).             *)
AnswerIsTrue == ClaimIsTrue /\ NothingForeignShown

(* Calling again after an internal error does not move the issue twice,    *)
(* although the first post may have been carried out, or may be carried    *)
(* out later: the tool posts nothing but a transition to the target, of    *)
(* which Jira has none or a loop once the issue is there.  Only another    *)
(* change to the issue in between can make it move again.                  *)
AppliedOnce == applied > 1 => disturbed

(* tool-design.md 89-104: a failure of the downstream API is answered with *)
(* internal_error and the reason, "timeout descriptions" for one.          *)
FailureIsAnswered == answer # "OSError"

=============================================================================
