SPECIFICATION FairSpec
CONSTANTS
  Senders = {s1, s2}
  Keys = {k1, k2}
  MaxMsgs = 3
INVARIANTS
  TypeOK
  KeyExclusion
  KeyAccounted
  NoPanic
  PerKeyFifo
  NoLostWakeup
  ClosedIsFinal
PROPERTIES
  ImplementsConflictQueue
  EveryMessageTaken
  ClosedReported
