SPECIFICATION FairSpec
CONSTANTS
  e1 = e1
  e2 = e2
  t1 = t1
  t2 = t2
  w1 = w1
  w2 = w2
  NoTx = NoTx
  NoRow = NoRow
  Event <- MCEvent
  Tx <- MCTx
  Relay <- MCRelays
  NumHandlers = 1
  MaxAttempts = 2
  BatchSize = 1
  MaxRollbacks = 1
PROPERTY
  EveryEventSettles
CHECK_DEADLOCK FALSE
