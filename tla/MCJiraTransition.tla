-------------------------- MODULE MCJiraTransition --------------------------
(***************************************************************************)
(* JiraTransition on a workflow with one way forward, a status from which  *)
(* two transitions reach done, a transition without an id, and one (50)    *)
(* that several statuses offer, done among them.                           *)
(***************************************************************************)
EXTENDS JiraTransition

MCStatuses == {"todo", "doing", "review", "done"}
MCOpenStatuses == {"todo", "doing"}
MCWorkflow ==
  [todo   |-> {[id |-> "11", to |-> "doing"], [id |-> "", to |-> "done"]},
   doing  |-> {[id |-> "21", to |-> "todo"], [id |-> "50", to |-> "done"]},
   review |-> {[id |-> "31", to |-> "done"], [id |-> "50", to |-> "done"]},
   done   |-> {[id |-> "41", to |-> "doing"], [id |-> "50", to |-> "done"]}]

=============================================================================
