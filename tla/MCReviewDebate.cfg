SPECIFICATION Spec
CONSTANTS
  dbe = dbe
  fin = fin
  grow = grow
  keep = keep
  plan = plan
  load = load
  broken = broken
  private = private
  Undecided = Undecided
  Roles = {dbe, fin}
  RoleOrder <- MCRoleOrder
  Positions = {grow, keep, Undecided}
  Requests = {plan, load, broken, private}
  BadArguments = {broken}
  UnknownTools = {}
  RoleSensitive = {load}
  MayUse <- MCMayUse
  Drafts <- DebateDrafts
  RoundLimits = {0, 3}
  MaxToolCalls = 2
  MaxToolCallsPerTurn = 2
  StopWhenStable = TRUE
  MaxUsd = 2
  Estimates = {0, 1}
  MaxEstimate = 1
  Excess = 1
  Notice = 1
CHECK_DEADLOCK FALSE
INVARIANTS SpendBound ChargesKept LastWordKept EarlyStopSettled
PROPERTIES ImplementsLifecycle Termination
