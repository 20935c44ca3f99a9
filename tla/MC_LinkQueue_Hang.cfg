SPECIFICATION Spec
CONSTANTS
  Pushers = {p1}
  Addresses = {a1, a2}
  Dummy = dummy
  Null = null
  MaxMsgs = 2
INVARIANT
  NullMeansLinking
CHECK_DEADLOCK FALSE
