SPECIFICATION FairSpec
CONSTANTS
  Threads = {t1, t2, t3}
  Tasks = {a, b}
  NoTask = NoTask
INVARIANTS
  TypeOK
  CellExclusive
  ContendedByWake
  NoLostWake
PROPERTY
  OwedIsWoken
