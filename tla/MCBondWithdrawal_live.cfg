\* One transfer, the errors that are tried again, a provider that comes and goes: retries end.
CONSTANTS
  t1 = t1
  t2 = t2
  c1 = c1
  c2 = c2
  r1 = r1
  Absent = Absent
  TransferNonce <- SharedNonce
  Transfers = {t1}
  Indexes = {0}
  Blocklist = {}
  RedundantRpcs = {r1}
  TrustedRpcs = {}
  RpcAnswers = {"down", "behind", "missing", "match"}
  Calls = {c1}
  MaxReorgCheckBackoffIndex = 0
  MaxBackoffIndex = 1
  MaxReorgs = 0
  MaxCrashes = 0
  MaxDisputed = 0
  Faults = {"throws", "notEnoughCredit", "feeTooLow", "callException", "nonceTooLow",
   "lostResponse"}
SPECIFICATION FairSpec
PROPERTY TransferIsSpentOrGivenUp
