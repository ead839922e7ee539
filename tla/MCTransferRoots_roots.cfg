\* One root, one provider that is trusted and one that answers anything, every fault, one
\* event that is lost.
CONSTANTS
  r1 = r1
  r2 = r2
  RedundantRpcs = {r1, r2}
  TrustedRpcs = {r1}
  RpcAnswers = {"down", "behind", "missing", "match", "mismatch"}
  MaxReorgCheckBackoffIndex = 0
  MaxBackoffIndex = 0
  Routes <- BothEnds
  ShouldExitOrus = FALSE
  Faults = {"conflict", "transaction", "lost", "crash"}
  MaxLost = 1
SPECIFICATION FairSpec
INVARIANTS
  TypeOK
  OrphanIsNeverBonded
  WrapperConfirmsStanding
  HiddenIsOnL1
PROPERTIES
  RootIsConfirmed
  RootIsSet
  ConfirmedIsKnown
\* The root may be set: then nothing is left to do.
CHECK_DEADLOCK FALSE
