SPECIFICATION FairSpec
CONSTANTS
  Devices = {d1}
  Gateways = {g1, g2, g3}
  MaxRssi = 2
  FrmMod = 4
  Unheard = 2
  MaxFrames = 3
  Unprompted = TRUE
  Messages <- MCCommand
  NoMessage = NoMessage
  NoStats = NoStats
  NoGateway = NoGateway
INVARIANTS
  WindowsClose
  ReportedOnce
  NothingOwedIsLost
PROPERTIES
  AnswersBestGateway
  AnswerForwarded
CHECK_DEADLOCK FALSE
