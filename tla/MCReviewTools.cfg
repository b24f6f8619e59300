SPECIFICATION Spec
CONSTANTS
  dbe = dbe
  fin = fin
  grow = grow
  keep = keep
  plan = plan
  load = load
  broken = broken
  private = private
  Undecided = Undecided
  Roles = {dbe, fin}
  RoleOrder <- MCRoleOrder
  Positions = {grow, keep, Undecided}
  Requests = {plan, load, broken, private}
  BadArguments = {broken}
  UnknownTools = {}
  RoleSensitive = {load}
  MayUse <- MCMayUse
  Drafts <- ToolDrafts
  RoundLimits = {2}
  MaxToolCalls = 2
  MaxToolCallsPerTurn = 2
  StopWhenStable = TRUE
  MaxUsd = 0
  Estimates = {0}
  MaxEstimate = 1
  Excess = 0
  Notice = 0
CHECK_DEADLOCK FALSE
INVARIANTS SameFooting RequestsAccounted RecordConsistent
