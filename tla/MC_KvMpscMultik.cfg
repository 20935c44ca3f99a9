SPECIFICATION FairSpec
CONSTANTS
  Senders = {s1, s2}
  Keys = {k1, k2}
  KeySets = {{k1}, {k2}, {k1, k2}}
  MaxMsgs = 3
INVARIANTS
  TypeOK
  KeyExclusion
  KeyAccounted
  NothingLost
  NoneWaitsInVain
  NoLostWakeup
  ClosedLeavesNoneWaiting
PROPERTIES
  ImplementsConflictQueue
  ClosedReported
