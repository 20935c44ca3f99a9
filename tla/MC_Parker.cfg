SPECIFICATION FairSpec
CONSTANTS
  ParkThread = p
  Unparkers = {u1, u2, u3}
  Unlocked = Unlocked
INVARIANTS
  TypeOK
  NoPanic
  NoLostUnpark
PROPERTY
  UnparkEndsPark
