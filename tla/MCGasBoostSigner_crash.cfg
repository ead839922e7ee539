\* Three calls, a db behind the account, two restarts, a provider that fails while the
\* signer starts, every failure of a send, another program with the key.
CONSTANTS
  t1 = t1
  t2 = t2
  t3 = t3
  Main = Main
  None = None
  Other = Other
  Txs = {t1, t2, t3}
  Extra = {}
  SetLatestNonceOnStart = FALSE
  InitialCount = 2
  InitialItems <- Known
  Faults = {"initFails", "sendFails", "lostResponse"}
  DeepReorgs = TRUE
  MaxNonce = 6
  MaxCrashes = 2
  MaxForeign = 1
  MaxEvictions = 0
  MaxReorgs = 1
\* The system may stop when every call has returned.
CHECK_DEADLOCK FALSE
SPECIFICATION Spec
SYMMETRY Symmetry
INVARIANTS
  TypeOK
  SentIsNeverDisplaced
  NoNonceGap
