SPECIFICATION Spec
CONSTANTS
  Current <- DefaultCurrents
  InitialEnergy <- MCInitialEnergy
  MaxTime = 6
INVARIANTS
  AccountsAgree
