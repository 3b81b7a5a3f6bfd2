SPECIFICATION FairSpec
CONSTANTS
  Channels = {0, 1}
  MaxDr = 1
  NbReps = {2}
  QueueLimit = 1
  MaxBurst = 1
  MaxCount = 3
  NoChannel = NoChannel
INVARIANTS
  AssertionsHold
  RadioAttended
PROPERTIES
  SentAsScheduled
  FrameSent
