SPECIFICATION SpecSimulation
CONSTANTS
  Devices <- MCDevices
  Gateways <- MCGateways
  MaxRssi = 1
  FrmMod = 4
  Unheard = 3
  MaxFrames = 2
  Unprompted = FALSE
  Messages <- MCMessages
  NoMessage = NoMessage
  NoStats = NoStats
  NoGateway = NoGateway
  Programs <- MCPrograms
  Places <- MCPlaces
  Duration = 2
  Interval = 1
  MaxTransmissions = 2
  MaxIterations = 2
INVARIANTS
  StatisticsSound
  LinesOfOneDevice
  ListensToNearest
CHECK_DEADLOCK FALSE
