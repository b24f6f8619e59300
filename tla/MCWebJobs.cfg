SPECIFICATION Spec
CONSTANTS
  local = local
  claude = claude
  Unset = Unset
  review = review
  first = first
  other = other
  Reviews = {review}
  Imports = {first, other}
  Models = {local, claude}
  KindOf <- MCKindOf
  Env <- MCEnv
  Totals = {1}
  MaxSaves = 2
  MaxCrashes = 1
  MaxFaults = 1
  MaxSeconds = 1
CHECK_DEADLOCK FALSE
INVARIANTS LimitsForgottenOnlyByMishap ModelIsTheOneShown LinksHold
SYMMETRY MCImports
