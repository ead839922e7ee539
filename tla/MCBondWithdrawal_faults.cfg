\* One transfer, every fault and provider answer, no reorg.
CONSTANTS
  t1 = t1
  t2 = t2
  c1 = c1
  c2 = c2
  r1 = r1
  Absent = Absent
  TransferNonce <- SharedNonce
  Transfers = {t1}
  Indexes = {0}
  Blocklist = {t1}
  RedundantRpcs = {r1}
  TrustedRpcs = {}
  RpcAnswers = {"down", "behind", "missing", "match", "mismatch"}
  Calls = {c1}
  MaxReorgCheckBackoffIndex = 2
  MaxBackoffIndex = 3
  MaxReorgs = 0
  MaxCrashes = 1
  MaxDisputed = 1
  Faults = {"spentElsewhere", "forgotten", "populate", "ageOut", "timeout", "throws",
   "notReceivable", "notEnoughCredit", "feeTooLow", "blacklisted", "callException",
   "nonceTooLow", "lostResponse"}
SPECIFICATION Spec
INVARIANTS
  TypeOK
  NoFalseAlarm
