SPECIFICATION FairSpec
CONSTANTS
  Channels = {0, 1}
  MaskBits = {0, 1, 6}
  QueueLimit = 1
  MaxTries = 3
  BackoffTries = {2}
  MaxDr = 1
  AdrAckReq = 1
  AdrAckLimit = 1
  AckCntMod = 3
  SeqMod = 2
  Commands <- MCRejectedMask
  NbReps = {}
  MaxBurst = 1
  MaxFreeing = 2
  NoPacket = NoPacket
  NoCommand = NoCommand
PROPERTIES
  QueueServed
