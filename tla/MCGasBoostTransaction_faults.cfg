\* Both types, every fault, a market below and above the maximum, no reorg.
CONSTANTS
  p1 = p1
  p2 = p2
  Caller = Caller
  None = None
  Other = Other
  Pollers = {p1}
  MarketFees = {10, 14}
  GivenFees = {0, 12}
  Numerator = 5
  Denominator = 4
  Cap = 13
  MaxFee = 40
  MaxRetries = 2
  MaxRebroadcastIndex = 1
  Faults = {"serverError", "lostResponse", "otherError", "fatalError", "reverts",
   "getTransaction", "foreign", "drop"}
  MaxReorgs = 0
\* The system may stop when the transaction is mined or given up.
CHECK_DEADLOCK FALSE
SPECIFICATION FairSpec
INVARIANTS
  TypeOK
  UnretriedFeeWithinMax
PROPERTY WaitIsAnswered
