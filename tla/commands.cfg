SPECIFICATION Spec
CONSTANTS
  Applications = {a1}
  Requests <- MCRequests
  Energies <- MCEnergies
  Snrs <- MCSnr
  StrayBits = {0, 1}
  MaxFrames = 2
  MaxFreeing = 1
  LinkChecks = TRUE
  NoPacket = NoPacket
INVARIANTS
  WireFaithful
  SettingsCoherent
  ConfirmedAsExecuted
PROPERTIES
  ExecutedAsRequested
  AnswersComplete
CHECK_DEADLOCK FALSE
