SPECIFICATION Spec
CONSTANTS
  Senders = {s1}
  Keys = {k1, k2}
  KeySets = {{k1}, {k2}, {k1, k2}}
  MaxMsgs = 3
INVARIANT
  NoPanic
