\* Two transfers that share a nonce, one reorg, a trusted provider, calls that outlive
\* polls, a restart.
CONSTANTS
  t1 = t1
  t2 = t2
  c1 = c1
  c2 = c2
  r1 = r1
  Absent = Absent
  TransferNonce <- SharedNonce
  Transfers = {t1, t2}
  Indexes = {0}
  Blocklist = {}
  RedundantRpcs = {r1}
  TrustedRpcs = {r1}
  RpcAnswers = {}
  Calls = {c1, c2}
  MaxReorgCheckBackoffIndex = 0
  MaxBackoffIndex = 0
  MaxReorgs = 1
  MaxCrashes = 1
  MaxDisputed = 0
  Faults = {"timeout"}
SPECIFICATION Spec
SYMMETRY Symmetry
INVARIANTS
  ConflictingTransfersNotBothBonded
  PollStartsATransferOnce
PROPERTY OrphanIsNeverBonded
