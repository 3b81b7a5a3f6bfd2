SPECIFICATION Spec
CONSTANTS
  Devices = {1, 2}
  Rssis <- MCRssis
  Used = {2}
  FrameNumbers = 3
  Words = 8
  Selectable <- MCSelectable
  MaxFrames = 4
  MaxCalculations = 4
  NoData = NoData
  NoRequest = NoRequest
INVARIANTS
  ReceivedWereSent
  ConfirmedInTimeIsFollowed
PROPERTIES
  EachComparableArmOnce
CHECK_DEADLOCK FALSE
