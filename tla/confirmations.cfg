SPECIFICATION Spec
CONSTANTS
  Applications = {a1}
  Requests <- MCPowerApplication
  Energies <- MCEnergies
  Snrs <- MCSnr
  StrayBits = {0}
  MaxFrames = 2
  MaxFreeing = 1
  LinkChecks = FALSE
  NoPacket = NoPacket
INVARIANT ConfirmedTruthfully
CHECK_DEADLOCK FALSE
