CONSTANTS
  Roots = {r1}
  Calls = {c1, c2}
  Patches <- MCPatches
  Fields <- MCFields
  Nothing = Nothing
  Faults = {"read", "write"}
  MaxFaults = 1
  MaxCrashes = 1
SPECIFICATION FairSpec
INVARIANTS
  TypeOK
  LoneUpdateFixesIndex
  IndexedIsStored
PROPERTIES
  Implements
  UpdateReturns
