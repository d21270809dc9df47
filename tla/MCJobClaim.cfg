SPECIFICATION Spec
CONSTANTS
  Agents <- MCAgents
  Jobs <- MCOneJob
  Operator = "operator"
  Quiet = FALSE
PROPERTY FinishedStays
CHECK_DEADLOCK FALSE
