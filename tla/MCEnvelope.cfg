CONSTANTS
  Levels = {2, 3}
  Hour = 1  Day = 2  Week = 2  SlotLength = 1  Window = 6
  Weight <- MCWeight
  FullWeeks = 3  MinDays = 2  ThinDays = 2
  MinCoverage = 5000  GoodCoverage = 9000
  ThinSlotShare = 500  DriftUp = 1250  DriftDown = 800
  MinRecentSlots = 2  MinBaselineSlots = 3
  Spans = {1, 3, 6}
  MaxTime = 7  MaxCollections = 2
SPECIFICATION Spec
INVARIANTS PartialsUnderstate ShiftIsFollowed CollectedIsFoundInSlots
PROPERTY MoreNeverDisqualifies
CHECK_DEADLOCK FALSE
