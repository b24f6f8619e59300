CONSTANTS
  Worlds <- MCWorlds
  Limits <- MCLimits
  Teams <- MCTeams
SPECIFICATION Spec
INVARIANTS TurnsStandUp ForecastsFollowMeasurements SingleHasNoRegret
CHECK_DEADLOCK FALSE
