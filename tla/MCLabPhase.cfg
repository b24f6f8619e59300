SPECIFICATION PhaseSpec
CONSTANTS
  w1 = w1
  w2 = w2
  batch = batch
  order = order
  customer = customer
  Nobody = Nobody
  Workers = {w1, w2}
  Batch = batch
  Calls = 3
  Writes = {1, 2}
  Rows = {order, customer}
  CheckoutRows <- MCCheckoutRows
  BatchRows <- MCBatchRows
  MaxLosses = 1
CHECK_DEADLOCK FALSE
INVARIANTS CallsMeasured ErrorsReleaseLocks InterferenceBounded
PROPERTIES PhaseEnds
