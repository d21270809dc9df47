SPECIFICATION Spec
CONSTANTS
  Agents <- MCAgents
  Jobs <- MCJobs
  Operator = "operator"
  Quiet = TRUE
INVARIANTS
  Claimable
  OneActive
PROPERTY FinishedStays
CHECK_DEADLOCK FALSE
