SPECIFICATION FairSpec
CONSTANTS
  Waiters = {w1, w2, w3}
  Notifiers = {n1, n2}
  NoThread = NoThread
  Ids = {i1, i2}
  NoId = NoId
INVARIANTS
  TypeOK
  NoPanic
PROPERTY
  NotifiedReturns
