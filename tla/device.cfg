SPECIFICATION FairSpecDuty
CONSTANTS
  Channels = {0, 1}
  MaskBits = {0, 1, 6}
  QueueLimit = 2
  MaxTries = 3
  BackoffTries = {2}
  MaxDr = 1
  AdrAckReq = 1
  AdrAckLimit = 1
  AckCntMod = 3
  SeqMod = 2
  Commands <- MCAllCommands
  NbReps = {0, 1}
  MaxBurst = 1
  MaxFreeing = 2
  NoPacket = NoPacket
  NoCommand = NoCommand
INVARIANTS
  TypeOK
  AssertionsHold
  RadioFollowsMac
  NoTimerOrphaned
  ChannelReserved
  NeverStranded
PROPERTIES
  BackoffAfterRequest
  ImplementsClassA
  DutyCycleKept
  FrameEventuallyResolved
  QueueServedUnlessStarved
