SPECIFICATION Spec
CONSTANTS
  forecast = forecast
  index = index
  idleIndex = idleIndex
  explain = explain
  loadTest = loadTest
  badCandidate = badCandidate
  forbidden = forbidden
  garbled = garbled
  sqlite = sqlite
  otherSqlite = otherSqlite
  mysql = mysql
  NoEngine = NoEngine
  Forged = Forged
  Analyses = {}
  Forecasts = {forecast}
  Experiments = {index, idleIndex}
  Plans = {explain}
  Measurements = {loadTest}
  Failing = {badCandidate}
  Denied = {forbidden}
  Malformed = {garbled}
  Emptied <- MCEmptied
  SandboxTools = {index, idleIndex, explain, badCandidate}
  LabTools = {loadTest, forbidden}
  Opening = {badCandidate}
  Used = {index}
  Engines = {sqlite, otherSqlite, mysql}
  SQLites = {sqlite, otherSqlite}
  LocalSQLite = sqlite
  Samples = {1}
  MaxCalls = 3
CHECK_DEADLOCK FALSE
INVARIANTS RunReplays AlterationFound
