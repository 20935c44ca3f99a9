SPECIFICATION Spec
CONSTANTS
  Senders = {s1, s2}
  Keys = {k1, k2}
  MaxMsgs = 2
INVARIANT
  ClosedMeansDrained
