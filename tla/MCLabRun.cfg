SPECIFICATION Spec
CONSTANTS
  None = None
  percona = percona
  repeated = repeated
  experiment = experiment
  lab = lab
  idx = idx
  Jobs = {percona, repeated, experiment}
  Labs = {percona, repeated}
  Percona = {percona}
  Databases = {lab}
  Indexes = {idx}
  DatabaseOf <- MCDatabaseOf
  Plan <- MCPlan
  Passes <- MCPasses
  MaxJobs = 2
  MaxMishaps = 1
CHECK_DEADLOCK FALSE
INVARIANTS AloneMeasuresItsOwn LostIndexIsNoticed IndexesAreTemporary LogIsTemporary
