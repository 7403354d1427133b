SPECIFICATION Spec
CONSTANTS
  e1 = e1
  e2 = e2
  t1 = t1
  t2 = t2
  w1 = w1
  w2 = w2
  NoTx = NoTx
  NoRow = NoRow
  Event <- MCEvent
  Tx <- MCTx
  Relay <- MCRelays
  NumHandlers = 2
  MaxAttempts = 2
  BatchSize = 2
  MaxRollbacks = 2
SYMMETRY Symmetry
INVARIANTS
  TypeOK
  EventsFollowTheirTransaction
  ClaimsAreExclusive
  AttemptLedger
  RedeliveryNeedsACause
PROPERTY
  ImplementsDelivery
CHECK_DEADLOCK FALSE
