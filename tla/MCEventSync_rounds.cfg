\* Two kinds, one after the other, rounds that overlap, every fault, a restart.
CONSTANTS
  p = p
  s = s
  None = None
  r1 = r1
  r2 = r2
  Prior = {p}
  Free = {}
  Settle = {s}
  Rounds = {r1, r2}
  Deployed = 1
  CustomStart = 2
  InitialHead = 2
  BatchBlocks = 1
  Faults = {"lag", "rpc", "swallow", "throw", "credit"}
  MaxBlock = 3
  MaxFaults = 2
  MaxCrashes = 1
SPECIFICATION FairSpec
INVARIANTS
  TypeOK
  SyncedIsStarted
  SettleFollowsPrior
PROPERTIES
  Implements
  EventIsStarted
