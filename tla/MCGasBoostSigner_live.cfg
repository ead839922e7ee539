\* Two calls, a second signer on the db, which is empty at first or behind the account, a
\* provider that fails at the start, a node that drops transactions.
CONSTANTS
  t1 = t1
  t2 = t2
  x1 = x1
  Main = Main
  None = None
  Other = Other
  Txs = {t1, t2}
  Extra = {x1}
  SetLatestNonceOnStart = FALSE
  InitialCount = 2
  InitialItems <- Either
  Faults = {"initFails"}
  DeepReorgs = FALSE
  MaxNonce = 5
  MaxCrashes = 0
  MaxForeign = 0
  MaxEvictions = 2
  MaxReorgs = 1
\* The system may stop when every call has returned.
CHECK_DEADLOCK FALSE
SPECIFICATION FairSpec
PROPERTIES
  MutexIsReleased
  SentIsMined
