SPECIFICATION FairSpec
CONSTANTS
  Devices = {d1, d2}
  LinkSpeeds = {TRUE, FALSE}
  MaxUplinks = 2
  NoPacket = NoPacket
INVARIANTS
  StrippedOnce
  AnswersLastUplink
  NothingLeftBehind
PROPERTIES
  AcceptedIsSent
CHECK_DEADLOCK FALSE
