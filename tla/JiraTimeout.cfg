SPECIFICATION Spec
CONSTANTS
  Statuses <- MCStatuses
  Workflow <- MCWorkflow
  StartTarget = "doing"
  ResolveTarget = "done"
  OpenStatuses <- MCOpenStatuses
  MaxMeddling = 2
  MaxInFlight = 2
INVARIANT FailureIsAnswered
