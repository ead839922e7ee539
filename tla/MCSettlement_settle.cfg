\* Two transfers with one or two bonders, one of which may be withdrawn, and one failure.
CONSTANTS
  t1 = t1
  t2 = t2
  b1 = b1
  b2 = b2
  None = None
  Transfers = {t1, t2}
  Bonders = {b1, b2}
  MayBond <- OneOrTwoBonders
  MayWithdraw = {t2}
  Unbondable = {}
  MaxChecks = 2
  MaxFaults = 1
  Faults = {"transaction", "call", "lost", "again", "crash", "twoWeeks"}
SPECIFICATION FairSpec
INVARIANTS
  TypeOK
  MarkedIsCleared
  AllSettledIsSpent
PROPERTIES
  BondIsCleared
  RootIsFinished
\* The root may be finished: then nothing is left to do.
CHECK_DEADLOCK FALSE
