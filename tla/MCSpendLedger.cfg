SPECIFICATION Spec
CONSTANTS
  web = web
  cli = cli
  first = first
  second = second
  evaluate = evaluate
  NoJob = NoJob
  Jobs = {first, second, evaluate}
  Procs = {web, cli}
  ProcOf <- MCProcOf
  Evaluations = {evaluate}
  TotalCap <- MCTotalCap
  PerRunCap <- MCPerRunCap
  Overshoot = 1
  MaxConcurrent = 2
CHECK_DEADLOCK FALSE
INVARIANTS EntriesSurvive TotalBound
PROPERTIES JobsEnd
