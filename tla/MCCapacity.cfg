CONSTANTS
  a = a  b = b  c = c  f = f  g = g  t = t  u = u
  OptionIds = {a, b, c}
  Scenarios <- MCScenarios
  Candidates = {"ix", "rw"}
  Effects <- MCEffects
  Vcpu <- MCVcpu
  Writer = "medium"
  Tenants = {t, u}
  Fingerprints = {f, g}
  Sensitive = {f}
  Contended = {g}
  Rate <- MCRate
  Cpu <- MCCpu
  LockWait = 30
  Wait <- MCWait
  P95 = 110
  Threshold = 80
  Day = 12  HorizonStart = 6  HorizonEnd = 12  SlotLength = 2
  Month = 30
SPECIFICATION CapacitySpec
INVARIANTS ResolvesUnlessBroken CombinedIsItsLeaves SecondOpinionsAgree SharesAddUp
CHECK_DEADLOCK FALSE
