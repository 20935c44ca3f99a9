SPECIFICATION FairSpec
CONSTANTS
  Threads = {t1, t2, t3}
  MaxMsgs = 4
INVARIANT
  TypeOK
PROPERTIES
  ImplementsUnorderedQueue
  EveryElementPopped
