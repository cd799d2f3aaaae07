------------------------ MODULE JiraTransitionProofs ------------------------
(***************************************************************************)
(* Proofs about JiraTransition, for every workflow and every pair of       *)
(* target statuses.  The properties are not inductive: what a post may do  *)
(* was settled several requests earlier.  IInv carries that knowledge from *)
(* request to request:                                                     *)
(*   CurrentSeen    what is true of the issue now is among what was seen   *)
(*   StepFitsGoal   each request belongs to one of the tools that make it  *)
(*   ReadSeen       what the checks refuse or let pass was so during the   *)
(*                  call                                                   *)
(*   PostIsOwn      a post is made on a read that passed both checks       *)
(*   PostReaches    the posts of this goal reach its target, if anything   *)
(*   MovedToTarget  without a disturbance one post moved the issue at most,*)
(*                  and it is where that post put it                       *)
(***************************************************************************)
EXTENDS JiraTransition, TLAPS

CurrentSeen == step # "answered" => Facts(issue, goal) \subseteq seen

StepFitsGoal ==
  /\ step = "search" => goal = "list"
  /\ step = "lookup" => goal # "list"
  /\ step = "whoami" => goal \in Moves \cup {"image"}
  /\ step = "download" => goal = "image"
  /\ step \in {"transitions", "post"} => goal \in Moves

ReadSeen ==
  /\ step = "whoami" =>
       /\ ~read.mine => "not_mine" \in seen
       /\ goal = "image" /\ ~read.image => "no_image" \in seen
       /\ goal = "image" /\ read.mine /\ read.image => "own_image" \in seen
  /\ step = "download" => "own_image" \in seen

PostIsOwn ==
  /\ step \in {"whoami", "transitions", "post"} => read.ours
  /\ step \in {"transitions", "post"} => read.mine

ReachesTarget(id) ==
  \A s \in Statuses : \A x \in Workflow[s] : x.id = id => x.to = Target(goal)

PostReaches ==
  /\ step = "post" => ReachesTarget(chosen)
  /\ \A r \in inFlight : ~r.old => ReachesTarget(r.id)

MovedToTarget ==
  ~disturbed => applied = 0 \/ (applied = 1 /\ issue.status = Target(goal))

IInv ==
  /\ TypeOK
  /\ CurrentSeen
  /\ StepFitsGoal
  /\ ReadSeen
  /\ PostIsOwn
  /\ PostReaches
  /\ MovedToTarget
  /\ OnlyOwnIssues
  /\ ClaimIsTrue
  /\ NothingForeignShown

-----------------------------------------------------------------------------
(* The initial states satisfy the invariant: nothing has been answered.    *)
LEMMA InitInv == Init => IInv
<1> SUFFICES ASSUME Init PROVE IInv
  OBVIOUS
<1>1. TypeOK
  <2>1. issue \in Issues
    BY DEF Init
  <2>2. read \in Reads /\ chosen \in Ids
    BY DEF Init, Unread, Reads, Ids
  <2>3. goal \in Goals /\ retries \in 0..MaxRetries
    BY DEF Init, Goals, Moves, MaxRetries
  <2> QED BY <2>1, <2>2, <2>3 DEF Init, TypeOK, Answers
<1>2. CurrentSeen /\ StepFitsGoal /\ ReadSeen /\ PostIsOwn /\ ClaimIsTrue /\ NothingForeignShown
  BY DEF Init, CurrentSeen, StepFitsGoal, ReadSeen, PostIsOwn, ClaimIsTrue, NothingForeignShown
<1>3. PostReaches /\ MovedToTarget /\ OnlyOwnIssues
  BY DEF Init, PostReaches, MovedToTarget, OnlyOwnIssues
<1> QED BY <1>1, <1>2, <1>3 DEF IInv

(* What is noted of an issue is one of the facts that TypeOK names.        *)
LEMMA FactsType ==
  ASSUME NEW i, NEW g
  PROVE  Facts(i, g) \subseteq FactNames
  BY DEF Facts

(* A call begins with what is true of the issue as all that was seen.      *)
LEMMA NewGoalInv == ASSUME IInv, NEW g \in Goals, NewGoal(g) PROVE IInv'
<1>0. \A r \in inFlight' : \E q \in inFlight : r = [q EXCEPT !.old = TRUE]
  BY DEF NewGoal
<1>1. TypeOK'
  <2>1. inFlight' \subseteq [id : Ids, ground : Reads, old : BOOLEAN]
    BY <1>0 DEF IInv, TypeOK
  <2>2. read' \in Reads /\ chosen' \in Ids
    BY DEF NewGoal, BeginCall, Unread, Reads, Ids
  <2>3. seen' \subseteq FactNames
    BY FactsType DEF NewGoal
  <2>4. retries' \in 0..MaxRetries /\ applied' \in Nat /\ meddling' \in Nat
    BY DEF NewGoal, MaxRetries
  <2> QED BY <2>1, <2>2, <2>3, <2>4 DEF IInv, TypeOK, Answers, NewGoal, BeginCall
<1>2. CurrentSeen' /\ StepFitsGoal' /\ ReadSeen' /\ PostIsOwn'
  <2>1. CurrentSeen'
    BY DEF CurrentSeen, NewGoal, BeginCall, Facts, Reaching, Target, Open
  <2> QED BY <2>1 DEF StepFitsGoal, ReadSeen, PostIsOwn, NewGoal, BeginCall
<1>3. PostReaches' /\ MovedToTarget' /\ ClaimIsTrue' /\ NothingForeignShown'
  BY DEF IInv, TypeOK, PostReaches, MovedToTarget, ClaimIsTrue, NothingForeignShown,
         NewGoal, BeginCall
<1>4. OnlyOwnIssues'
  <2>1. \A r \in inFlight' : \E q \in inFlight : r.ground = q.ground
    BY <1>0 DEF IInv, TypeOK
  <2> QED BY <2>1 DEF IInv, OnlyOwnIssues, NewGoal
<1> QED BY <1>1, <1>2, <1>3, <1>4 DEF IInv

LEMMA CallAgainInv == ASSUME IInv, CallAgain PROVE IInv'
<1>1. TypeOK'
  <2>1. read' \in Reads /\ chosen' \in Ids
    BY DEF CallAgain, BeginCall, Unread, Reads, Ids
  <2>2. seen' \subseteq FactNames
    BY FactsType DEF CallAgain
  <2> QED BY <2>1, <2>2 DEF IInv, TypeOK, Answers, CallAgain, BeginCall, MaxRetries
<1>2. CurrentSeen' /\ StepFitsGoal' /\ ReadSeen' /\ PostIsOwn'
  <2>1. CurrentSeen'
    BY DEF CurrentSeen, CallAgain, BeginCall, Facts, Reaching, Target, Open
  <2>2. StepFitsGoal'
    BY DEF IInv, TypeOK, Goals, StepFitsGoal, CallAgain, BeginCall
  <2> QED BY <2>1, <2>2 DEF ReadSeen, PostIsOwn, CallAgain, BeginCall
<1>3. PostReaches' /\ MovedToTarget' /\ ClaimIsTrue' /\ NothingForeignShown' /\ OnlyOwnIssues'
  BY DEF IInv, PostReaches, ReachesTarget, MovedToTarget, ClaimIsTrue, NothingForeignShown,
         OnlyOwnIssues, CallAgain, BeginCall
<1> QED BY <1>1, <1>2, <1>3 DEF IInv

(* A request that fails is answered with an error that claims nothing.     *)
LEMMA FailureClaimsNothing ==
  ASSUME NEW o, Fails(o) \/ Errs(o)
  PROVE  step' = "answered" /\ answer' \in Uncaught \cup {"internal_error"}
  BY DEF Fails, Errs, Answer

(* A read changes nothing that IInv says of posts, so only what it leaves  *)
(* in step, read, chosen and answer is to be checked.                      *)
LEMMA ReadStep ==
  ASSUME IInv, UNCHANGED <<issue, agent, inFlight, history>>,
         step' \in {"whoami", "download", "transitions", "post", "answered"},
         userKnown' \in BOOLEAN, read' \in Reads, chosen' \in Ids, answer' \in Answers,
         step # "answered",
         StepFitsGoal', ReadSeen', PostIsOwn', ClaimIsTrue', NothingForeignShown',
         step' = "post" => ReachesTarget(chosen)'
  PROVE  IInv'
<1>1. TypeOK'
  BY DEF IInv, TypeOK, agent, history
<1>2. CurrentSeen'
  BY DEF IInv, CurrentSeen, agent, history, Facts, Reaching, Target, Open
<1>3. PostReaches'
  BY DEF IInv, PostReaches, ReachesTarget, Target, agent, history
<1>4. MovedToTarget' /\ OnlyOwnIssues'
  BY DEF IInv, MovedToTarget, OnlyOwnIssues, Target, agent, history
<1> QED BY <1>1, <1>2, <1>3, <1>4 DEF IInv

(* An answer that claims nothing of the issue disturbs nothing.            *)
LEMMA FailedStep ==
  ASSUME IInv, UNCHANGED <<issue, agent, inFlight, history>>, step # "answered",
         userKnown' \in BOOLEAN, read' \in Reads, chosen' \in Ids,
         step' = "answered", answer' \in Uncaught \cup {"internal_error", "unlisted"}
  PROVE  IInv'
<1>1. answer' \in Answers
  BY DEF Answers
<1>2. StepFitsGoal' /\ ReadSeen' /\ PostIsOwn' /\ ClaimIsTrue' /\ NothingForeignShown'
  BY DEF StepFitsGoal, ReadSeen, PostIsOwn, ClaimIsTrue, NothingForeignShown, Uncaught
<1> QED BY <1>1, <1>2, ReadStep

LEMMA SearchInv == ASSUME IInv, Search PROVE IInv'
<1>1. /\ UNCHANGED <<issue, userKnown, read, chosen, agent, inFlight, history>>
      /\ step = "search" /\ goal = "list" /\ UNCHANGED goal /\ UNCHANGED seen
      /\ userKnown \in BOOLEAN /\ read \in Reads /\ chosen \in Ids
      /\ Facts(issue, goal) \subseteq seen
  BY DEF Search, IInv, TypeOK, StepFitsGoal, CurrentSeen, agent, history
<1>2. CASE (\E o \in Outcomes : Fails(o)) \/ Answer("unlisted")
  BY <1>1, <1>2, FailureClaimsNothing, FailedStep DEF Answer
<1>3. CASE Open(issue) /\ Answer("listed")
  <2>1. "open" \in seen
    BY <1>1, <1>3 DEF Facts, FactNames
  <2> QED
    BY <1>1, <1>3, <2>1, ReadStep DEF Answer, Answers, StepFitsGoal, ReadSeen, PostIsOwn, ClaimIsTrue, NothingForeignShown
<1>4. CASE ~Open(issue) /\ Answer("none_open")
  <2>1. "not_open" \in seen
    BY <1>1, <1>4 DEF Facts, FactNames
  <2> QED
    BY <1>1, <1>4, <2>1, ReadStep DEF Answer, Answers, StepFitsGoal, ReadSeen, PostIsOwn, ClaimIsTrue, NothingForeignShown
<1> QED BY <1>2, <1>3, <1>4 DEF Search

LEMMA LookupInv == ASSUME IInv, Lookup PROVE IInv'
<1>1. /\ UNCHANGED <<issue, userKnown, chosen, agent, inFlight, history>>
      /\ step = "lookup" /\ goal \in Goals \ {"list"} /\ UNCHANGED goal /\ UNCHANGED seen
      /\ Facts(issue, goal) \subseteq seen
  BY DEF IInv, TypeOK, StepFitsGoal, CurrentSeen, Lookup, agent, history
<1>2. /\ read \in Reads /\ Read(issue, goal) \in Reads
      /\ chosen \in Ids /\ userKnown \in BOOLEAN
  BY DEF IInv, TypeOK, Issues, Read, Reads
<1>3. PICK o \in ReadOutcomes :
       \/ o = "not_found" /\ Answer("issue_not_found") /\ UNCHANGED read
       \/ o # "not_found" /\ Fails(o) /\ UNCHANGED read
       \/ /\ o = "json"
          /\ read' = Read(issue, goal)
          /\ \/ ~issue.ours /\ Answer("project_not_allowed")
             \/ issue.ours /\ goal = "details" /\ Answer("ok")
             \/ issue.ours /\ goal # "details" /\ step' = "whoami" /\ UNCHANGED answer
  BY DEF Lookup
<1>4. CASE o = "not_found" /\ Answer("issue_not_found") /\ UNCHANGED read
  <2>1. ~issue.present
    BY <1>4 DEF ReadOutcomes
  <2>2. "absent" \in seen
    BY <1>1, <2>1 DEF Facts, FactNames
  <2> QED
    BY <1>1, <1>2, <1>4, <2>2, ReadStep DEF Answer, Answers, StepFitsGoal, ReadSeen, PostIsOwn, ClaimIsTrue, NothingForeignShown
<1>5. CASE Fails(o) /\ UNCHANGED read
  BY <1>1, <1>2, <1>5, FailureClaimsNothing, FailedStep
<1>6. CASE ~issue.ours /\ Answer("project_not_allowed") /\ read' = Read(issue, goal)
  <2>1. "elsewhere" \in seen
    BY <1>1, <1>6 DEF Facts, FactNames
  <2> QED
    BY <1>1, <1>2, <1>6, <2>1, ReadStep DEF Answer, Answers, StepFitsGoal, ReadSeen, PostIsOwn, ClaimIsTrue, NothingForeignShown
<1>7. CASE /\ o = "json" /\ issue.ours /\ goal = "details" /\ Answer("ok")
           /\ read' = Read(issue, goal)
  <2>1. issue.present
    BY <1>7 DEF ReadOutcomes
  <2>2. "here" \in seen
    BY <1>1, <1>7, <2>1 DEF Facts, FactNames
  <2> QED
    BY <1>1, <1>2, <1>7, <2>2, ReadStep DEF Answer, Answers, Moves, StepFitsGoal, ReadSeen, PostIsOwn, ClaimIsTrue, NothingForeignShown
<1>8. CASE /\ o = "json" /\ issue.ours /\ goal # "details"
           /\ step' = "whoami" /\ UNCHANGED answer /\ read' = Read(issue, goal)
  <2>1. issue.present
    BY <1>8 DEF ReadOutcomes
  <2>2. read'.ours /\ (~read'.mine => "not_mine" \in seen)
    BY <1>1, <1>8 DEF Facts, FactNames, Read
  <2>3. /\ goal = "image" /\ ~read'.image => "no_image" \in seen
        /\ goal = "image" /\ read'.mine /\ read'.image => "own_image" \in seen
    BY <1>1, <1>8, <2>1 DEF Facts, FactNames, Read
  <2>4. goal \in Moves \cup {"image"} /\ answer \in Answers
    BY <1>1, <1>8 DEF Goals, IInv, TypeOK
  <2> QED
    BY <1>1, <1>2, <1>8, <2>2, <2>3, <2>4, ReadStep DEF StepFitsGoal, ReadSeen, PostIsOwn, ClaimIsTrue, NothingForeignShown
<1> QED BY <1>3, <1>4, <1>5, <1>6, <1>7, <1>8

LEMMA WhoAmIInv == ASSUME IInv, WhoAmI PROVE IInv'
<1>1. /\ UNCHANGED <<issue, read, chosen, agent, inFlight, history>>
      /\ step = "whoami" /\ userKnown' \in BOOLEAN
      /\ read \in Reads /\ chosen \in Ids /\ answer \in Answers
      /\ goal \in Moves \cup {"image"} /\ UNCHANGED goal /\ UNCHANGED seen
  BY DEF WhoAmI, IInv, TypeOK, StepFitsGoal, agent, history
<1>2. /\ read.ours
      /\ ~read.mine => "not_mine" \in seen
      /\ goal = "image" /\ ~read.image => "no_image" \in seen
      /\ goal = "image" /\ read.mine /\ read.image => "own_image" \in seen
  BY <1>1 DEF IInv, PostIsOwn, ReadSeen
<1>3. CASE (\E o \in Outcomes : Fails(o)) \/ Answer("internal_error")
  BY <1>1, <1>3, FailureClaimsNothing, FailedStep DEF Answer
<1>4. CASE ~read.mine /\ Answer("assignee_not_allowed")
  BY <1>1, <1>2, <1>4, ReadStep DEF Answer, Answers, StepFitsGoal, ReadSeen, PostIsOwn, ClaimIsTrue, NothingForeignShown
<1>5. CASE goal = "image" /\ ~read.image /\ Answer("attachment_not_found")
  BY <1>1, <1>2, <1>5, ReadStep DEF Answer, Answers, StepFitsGoal, ReadSeen, PostIsOwn, ClaimIsTrue, NothingForeignShown
<1>6. CASE /\ goal = "image" /\ read.mine /\ read.image
           /\ step' = "download" /\ UNCHANGED answer
  BY <1>1, <1>2, <1>6, ReadStep DEF StepFitsGoal, ReadSeen, PostIsOwn, ClaimIsTrue, NothingForeignShown
<1>7. CASE read.mine /\ goal # "image" /\ step' = "transitions" /\ UNCHANGED answer
  BY <1>1, <1>2, <1>7, ReadStep DEF StepFitsGoal, ReadSeen, PostIsOwn, ClaimIsTrue, NothingForeignShown
<1> QED BY <1>3, <1>4, <1>5, <1>6, <1>7 DEF WhoAmI, ChooseImage

(* What is downloaded was the user's when it was chosen.                   *)
LEMMA DownloadInv == ASSUME IInv, Download PROVE IInv'
<1>1. /\ UNCHANGED <<issue, userKnown, read, chosen, agent, inFlight, history>>
      /\ step = "download" /\ goal = "image" /\ UNCHANGED goal /\ UNCHANGED seen
      /\ userKnown \in BOOLEAN /\ read \in Reads /\ chosen \in Ids
      /\ "own_image" \in seen
  BY DEF Download, IInv, TypeOK, StepFitsGoal, ReadSeen, agent, history
<1>2. CASE \E a \in Uncaught \cup {"internal_error"} : Answer(a)
  BY <1>1, <1>2, FailedStep DEF Answer
<1>3. CASE Answer("ok")
  BY <1>1, <1>3, ReadStep DEF Answer, Answers, Moves, StepFitsGoal, ReadSeen, PostIsOwn, ClaimIsTrue, NothingForeignShown
<1> QED BY <1>2, <1>3 DEF Download

(* The transition chosen reaches the target: an id has one destination.    *)
LEMMA GetTransitionsInv == ASSUME IInv, GetTransitions PROVE IInv'
<1>1. /\ UNCHANGED <<issue, userKnown, read, agent, inFlight, history>>
      /\ step = "transitions" /\ read \in Reads /\ chosen \in Ids /\ userKnown \in BOOLEAN
      /\ Facts(issue, goal) \subseteq seen /\ read.ours /\ read.mine
      /\ answer \in Answers /\ goal \in Moves /\ UNCHANGED seen /\ UNCHANGED goal
  BY DEF GetTransitions, IInv, TypeOK, StepFitsGoal, PostIsOwn, CurrentSeen, agent, history
<1>2. issue.status \in Statuses
  BY DEF IInv, TypeOK, Issues
<1>3. CASE (\E o \in ReadOutcomes : Fails(o)) /\ UNCHANGED chosen
  BY <1>1, <1>3, FailureClaimsNothing, FailedStep
<1>4. CASE Reaching(issue, goal) = {} /\ Answer("transition_not_available") /\ UNCHANGED chosen
  <2>1. "no_way" \in seen
    BY <1>1, <1>4 DEF Facts, FactNames
  <2> QED
    BY <1>1, <1>4, <2>1, ReadStep DEF Answer, Answers, StepFitsGoal, ReadSeen, PostIsOwn, ClaimIsTrue, NothingForeignShown
<1>5. CASE /\ Cardinality(Reaching(issue, goal)) > 1
           /\ Answer("transition_ambiguous") /\ UNCHANGED chosen
  <2>1. "many_ways" \in seen
    BY <1>1, <1>5 DEF Facts, FactNames
  <2> QED
    BY <1>1, <1>5, <2>1, ReadStep DEF Answer, Answers, StepFitsGoal, ReadSeen, PostIsOwn, ClaimIsTrue, NothingForeignShown
<1>6. ASSUME NEW x \in Reaching(issue, goal), chosen' = x.id
      PROVE  chosen' \in Ids /\ ReachesTarget(chosen)'
  <2>1. x \in Workflow[issue.status] /\ x.to = Target(goal)
    BY DEF Reaching
  <2>2. \A s \in Statuses : \A y \in Workflow[s] : y.id = x.id => y.to = x.to
    BY <1>2, <2>1, WorkflowAssumption
  <2>3. ReachesTarget(chosen)'
    BY <1>1, <1>6, <2>1, <2>2 DEF ReachesTarget, Target
  <2> QED BY <1>2, <1>6, <2>1, <2>3 DEF Ids
<1>7. CASE \E x \in Reaching(issue, goal) :
             chosen' = x.id /\ Answer("internal_error")
  BY <1>1, <1>6, <1>7, FailedStep DEF Answer
<1>8. CASE \E x \in Reaching(issue, goal) :
             chosen' = x.id /\ step' = "post" /\ UNCHANGED answer
  BY <1>1, <1>6, <1>8, ReadStep DEF StepFitsGoal, ReadSeen, PostIsOwn, ClaimIsTrue, NothingForeignShown
<1> QED BY <1>3, <1>4, <1>5, <1>7, <1>8 DEF GetTransitions

-----------------------------------------------------------------------------
(* A post of this goal leaves the issue in the target status, and moves it *)
(* only from another one.                                                  *)
LEMMA ApplyFacts ==
  ASSUME IInv, NEW r \in [id : Ids, ground : Reads, old : BOOLEAN], Apply(r),
         r.ground.ours, r.ground.mine, ~r.old => ReachesTarget(r.id), UNCHANGED goal
  PROVE  /\ issue' \in Issues /\ grounds' \subseteq Reads /\ applied' \in Nat
         /\ disturbed' \in BOOLEAN
         /\ seen' \subseteq FactNames
         /\ Facts(issue', goal) \subseteq seen' /\ seen \subseteq seen'
         /\ \A g \in grounds' : g.ours /\ g.mine
         /\ ~r.old => issue'.status = Target(goal)
         /\ MovedToTarget'
<1>1. PICK x \in Offered(r.id) :
        /\ issue' = [issue EXCEPT !.status = x.to]
        /\ applied' = IF r.old \/ x.to = issue.status THEN applied ELSE applied + 1
  BY DEF Apply
<1>2. issue \in Issues /\ issue.status \in Statuses
  BY DEF IInv, TypeOK, Issues
<1>3. x \in Workflow[issue.status] /\ x.id = r.id
  BY DEF Offered
<1>4. x.to \in Statuses
  BY <1>2, <1>3, WorkflowAssumption
<1>5. issue' \in Issues /\ issue'.status = x.to
  BY <1>1, <1>2, <1>4 DEF Issues
<1>6. ~r.old => x.to = Target(goal)
  BY <1>2, <1>3 DEF ReachesTarget
<1>7. applied \in Nat /\ applied' \in Nat
  BY <1>1 DEF IInv, TypeOK
<1>8. MovedToTarget'
  <2>1. SUFFICES ASSUME ~disturbed'
                 PROVE  applied' = 0 \/ (applied' = 1 /\ issue'.status = Target(goal))
    BY DEF MovedToTarget, Target
  <2>2. ~r.old /\ ~disturbed
    BY <2>1 DEF Apply
  <2>3. applied = 0 \/ (applied = 1 /\ issue.status = Target(goal))
    BY <2>2 DEF IInv, MovedToTarget
  <2> QED BY <1>1, <1>5, <1>6, <1>7, <2>2, <2>3
<1>9. /\ grounds' \subseteq Reads /\ \A g \in grounds' : g.ours /\ g.mine
      /\ disturbed' \in BOOLEAN
  BY DEF Apply, IInv, TypeOK, OnlyOwnIssues
<1>10. /\ seen' \subseteq FactNames
       /\ Facts(issue', goal) \subseteq seen' /\ seen \subseteq seen'
  BY FactsType DEF Apply, IInv, TypeOK
<1> QED BY <1>5, <1>6, <1>7, <1>8, <1>9, <1>10

(* Success is answered only for a post that Jira carried out.              *)
LEMMA PostInv == ASSUME IInv, Post PROVE IInv'
<1> DEFINE r == [id |-> chosen, ground |-> read, old |-> FALSE]
<1>1. /\ UNCHANGED <<userKnown, read, chosen, goal, retries, meddling>> /\ step = "post"
      /\ r \in [id : Ids, ground : Reads, old : BOOLEAN]
      /\ r.ground.ours /\ r.ground.mine /\ ~r.old /\ ReachesTarget(r.id) /\ goal \in Moves
  BY DEF Post, agent, IInv, TypeOK, StepFitsGoal, PostIsOwn, PostReaches
<1>2. PICK o \in Outcomes :
        /\ \/ Errs(o)
           \/ RequestJson(o) \in {"payload", "None"} /\ Answer("ok")
        /\ \/ TRUE \in CarriedOut(o) /\ Apply(r) /\ UNCHANGED inFlight
           \/ FALSE \in CarriedOut(o) /\ NotApplied /\ UNCHANGED inFlight
           \/ /\ o = "silent" /\ NotApplied
              /\ inFlight' = inFlight \cup {r}
  BY DEF Post
<1> HIDE DEF r
<1>3. step' = "answered" /\ answer' \in Uncaught \cup {"internal_error", "ok"}
  BY <1>2, FailureClaimsNothing DEF Answer
<1>4. answer' = "ok" => Apply(r)
  <2>1. SUFFICES ASSUME answer' = "ok" PROVE Apply(r)
    OBVIOUS
  <2>2. RequestJson(o) \in {"payload", "None"}
    BY <1>2, <2>1, FailureClaimsNothing DEF Uncaught
  <2>3. o \notin {"failed", "silent", "not_found", "refused", "unreachable"}
    BY <2>2 DEF RequestJson, RequestBytes
  <2>4. CarriedOut(o) = {TRUE}
    BY <2>3 DEF CarriedOut, Outcomes
  <2> QED BY <1>2, <2>3, <2>4
<1>5. inFlight' \subseteq inFlight \cup {r}
  BY <1>2
<1>6. CASE Apply(r)
  <2>1. /\ issue' \in Issues /\ grounds' \subseteq Reads /\ applied' \in Nat
        /\ disturbed' \in BOOLEAN
        /\ seen' \subseteq FactNames
        /\ Facts(issue', goal) \subseteq seen'
        /\ \A g \in grounds' : g.ours /\ g.mine
        /\ issue'.status = Target(goal)
        /\ MovedToTarget'
    BY <1>1, <1>6, ApplyFacts
  <2>2. TypeOK'
    BY <1>1, <1>3, <1>5, <2>1 DEF IInv, TypeOK, Answers
  <2>3. "there" \in seen'
    BY <1>1, <2>1 DEF Facts, FactNames
  <2>4. ClaimIsTrue' /\ NothingForeignShown'
    BY <1>1, <1>3, <2>3 DEF ClaimIsTrue, NothingForeignShown, Moves, Uncaught
  <2>6. CurrentSeen' /\ StepFitsGoal' /\ ReadSeen' /\ PostIsOwn'
    BY <1>1, <1>3 DEF CurrentSeen, StepFitsGoal, ReadSeen, PostIsOwn
  <2>5. PostReaches' /\ OnlyOwnIssues'
    BY <1>1, <1>3, <1>5, <2>1
    DEF IInv, PostReaches, ReachesTarget, Target, OnlyOwnIssues
  <2> QED BY <2>1, <2>2, <2>4, <2>5, <2>6 DEF IInv
<1>7. CASE NotApplied
  <2>1. TypeOK'
    BY <1>1, <1>3, <1>5, <1>7 DEF IInv, TypeOK, Answers, NotApplied
  <2>2. CurrentSeen' /\ StepFitsGoal' /\ ReadSeen' /\ PostIsOwn'
    BY <1>3 DEF CurrentSeen, StepFitsGoal, ReadSeen, PostIsOwn
  <2>3. MovedToTarget' /\ PostReaches' /\ OnlyOwnIssues'
    BY <1>1, <1>3, <1>5, <1>7
    DEF IInv, PostReaches, ReachesTarget, Target, OnlyOwnIssues, MovedToTarget, NotApplied
  <2>4. CASE answer' # "ok"
    BY <1>3, <2>1, <2>2, <2>3, <2>4 DEF ClaimIsTrue, NothingForeignShown, IInv, Uncaught
  <2>5. CASE answer' = "ok"
    BY <1>4, <1>6, <2>5
  <2> QED BY <2>4, <2>5
<1> QED BY <1>2, <1>6, <1>7

(* A late post of this goal reaches the target; one of an earlier goal is  *)
(* a disturbance.                                                          *)
LEMMA LatePostInv == ASSUME IInv, LatePost PROVE IInv'
<1>1. PICK r \in inFlight : inFlight' = inFlight \ {r} /\ (Apply(r) \/ NotApplied)
  BY DEF LatePost
<1>2. /\ UNCHANGED <<userKnown, step, read, chosen, answer, goal, retries, meddling>>
      /\ r \in [id : Ids, ground : Reads, old : BOOLEAN]
      /\ r.ground.ours /\ r.ground.mine /\ (~r.old => ReachesTarget(r.id))
  BY <1>1 DEF LatePost, tool, agent, IInv, TypeOK, PostReaches, OnlyOwnIssues
<1>3. PostReaches'
  BY <1>1, <1>2 DEF IInv, PostReaches, ReachesTarget, Target
<1>4. CASE Apply(r)
  <2>1. /\ issue' \in Issues /\ grounds' \subseteq Reads /\ applied' \in Nat
        /\ disturbed' \in BOOLEAN
        /\ seen' \subseteq FactNames
        /\ Facts(issue', goal) \subseteq seen' /\ seen \subseteq seen'
        /\ \A g \in grounds' : g.ours /\ g.mine
        /\ MovedToTarget'
    BY <1>2, <1>4, ApplyFacts
  <2>2. TypeOK'
    BY <1>1, <1>2, <2>1 DEF IInv, TypeOK
  <2>3. CurrentSeen'
    BY <1>2, <2>1 DEF CurrentSeen, Facts, Reaching, Target, Open
  <2>4. ClaimIsTrue' /\ NothingForeignShown' /\ StepFitsGoal' /\ ReadSeen' /\ PostIsOwn'
    BY <1>2, <2>1
    DEF IInv, ClaimIsTrue, NothingForeignShown, StepFitsGoal, ReadSeen, PostIsOwn
  <2>5. OnlyOwnIssues'
    BY <1>1, <2>1 DEF IInv, OnlyOwnIssues
  <2> QED BY <1>3, <2>1, <2>2, <2>3, <2>4, <2>5 DEF IInv
<1>5. CASE NotApplied
  <2>1. TypeOK'
    BY <1>1, <1>2, <1>5 DEF IInv, TypeOK, NotApplied
  <2>2. /\ CurrentSeen' /\ StepFitsGoal' /\ ReadSeen' /\ PostIsOwn'
        /\ ClaimIsTrue' /\ NothingForeignShown'
    BY <1>2, <1>5
    DEF IInv, CurrentSeen, StepFitsGoal, ReadSeen, PostIsOwn, ClaimIsTrue, NothingForeignShown,
        NotApplied, Facts, Reaching, Target, Open
  <2>3. MovedToTarget' /\ OnlyOwnIssues'
    BY <1>1, <1>2, <1>5 DEF IInv, MovedToTarget, OnlyOwnIssues, NotApplied, Target
  <2> QED BY <1>3, <2>1, <2>2, <2>3 DEF IInv
<1> QED BY <1>1, <1>4, <1>5

(* Others may change the issue between any two requests.                   *)
LEMMA MeddleInv == ASSUME IInv, Meddle PROVE IInv'
<1>1. /\ UNCHANGED <<userKnown, step, read, chosen, answer, goal, retries,
                     inFlight, grounds, applied>>
      /\ meddling' = meddling + 1 /\ disturbed' = TRUE
      /\ seen' = seen \cup Facts(issue', goal)
  BY DEF Meddle, tool, agent
<1>2. issue' \in Issues
  BY DEF Meddle, IInv, TypeOK, Issues
<1>3. TypeOK'
  <2>1. seen' \subseteq FactNames
    BY <1>1, FactsType DEF IInv, TypeOK
  <2>2. meddling' \in Nat
    BY <1>1 DEF IInv, TypeOK
  <2> QED BY <1>1, <1>2, <2>1, <2>2 DEF IInv, TypeOK
<1>4. CurrentSeen'
  BY <1>1 DEF CurrentSeen, Facts, Reaching, Target, Open
<1>5. /\ StepFitsGoal' /\ ReadSeen' /\ PostIsOwn' /\ MovedToTarget'
      /\ ClaimIsTrue' /\ NothingForeignShown'
  BY <1>1
  DEF IInv, StepFitsGoal, ReadSeen, PostIsOwn, MovedToTarget, ClaimIsTrue, NothingForeignShown
<1>6. PostReaches' /\ OnlyOwnIssues'
  BY <1>1 DEF IInv, PostReaches, ReachesTarget, Target, OnlyOwnIssues
<1> QED BY <1>3, <1>4, <1>5, <1>6 DEF IInv

LEMMA StutterInv == ASSUME IInv, UNCHANGED vars PROVE IInv'
<1>1. TypeOK'
  BY DEF IInv, TypeOK, vars, tool, agent, history
<1>2. /\ CurrentSeen' /\ StepFitsGoal' /\ ReadSeen' /\ PostIsOwn'
      /\ ClaimIsTrue' /\ NothingForeignShown' /\ OnlyOwnIssues'
  BY DEF IInv, CurrentSeen, StepFitsGoal, ReadSeen, PostIsOwn, ClaimIsTrue,
         NothingForeignShown, OnlyOwnIssues, Facts, Reaching, Target, Open,
         vars, tool, agent, history
<1>3. PostReaches' /\ MovedToTarget'
  BY DEF IInv, PostReaches, MovedToTarget, ReachesTarget, Target, vars, tool, agent, history
<1> QED BY <1>1, <1>2, <1>3 DEF IInv

-----------------------------------------------------------------------------
(* The invariant holds in every reachable state, whatever the workflow.    *)
THEOREM Invariance == Spec => []IInv
<1>1. ASSUME IInv, [Next]_vars PROVE IInv'
  <2>1. CASE \E g \in Goals : NewGoal(g)
    BY <1>1, <2>1, NewGoalInv
  <2>2. CASE UNCHANGED vars
    BY <1>1, <2>2, StutterInv
  <2> QED
    BY <1>1, <2>1, <2>2, CallAgainInv, SearchInv, LookupInv, WhoAmIInv, DownloadInv,
       GetTransitionsInv, PostInv, LatePostInv, MeddleInv
    DEF Next
<1> QED BY <1>1, InitInv, PTL DEF Spec

(* No issue is transitioned for the agent, now or later, but on a read of  *)
(* it in the configured project and assigned to the token's user           *)
(* (service.py 251-269 before 311-312).                                    *)
THEOREM OnlyOwnIssuesMove == Spec => []OnlyOwnIssues
  BY Invariance, PTL DEF IInv

(* Every answer was right at some moment of the call that gave it, in what *)
(* it says of the issue and in what it shows of it (service.py 244-320).   *)
THEOREM AnswersAreTrue == Spec => []AnswerIsTrue
  BY Invariance, PTL DEF IInv, AnswerIsTrue

(* Nothing is shown of an issue that was not in the project, or, for lists *)
(* and images, not the user's, during the call (service.py 95-100,         *)
(* 142-160, 336-352).                                                      *)
THEOREM OnlyOwnIsShown == Spec => []NothingForeignShown
  BY Invariance, PTL DEF IInv

(* Retrying after an internal error, as its hint asks (hints.py 14-17),    *)
(* moves the issue once at most unless something else moves it too.        *)
THEOREM RetryMovesOnce == Spec => []AppliedOnce
<1>1. IInv => AppliedOnce
  BY DEF IInv, TypeOK, MovedToTarget, AppliedOnce
<1> QED BY <1>1, Invariance, PTL

(* The variables keep their types.                                         *)
THEOREM TypeCorrect == Spec => []TypeOK
  BY Invariance, PTL DEF IInv

=============================================================================
