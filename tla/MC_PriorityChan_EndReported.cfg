SPECIFICATION FairSpec
CONSTANTS
  Senders = {s1, s2}
  Receiver = rx
  Task = task
  NoTask = NoTask
  NoPriority = NoPriority
  Priorities = {1, 2}
  MaxMsgs = 2
PROPERTY
  EndReported
