\* Both types, a reorg that ends with a second poller, every fault but lost responses and
\* dropped transactions.
CONSTANTS
  p1 = p1
  p2 = p2
  Caller = Caller
  None = None
  Other = Other
  Pollers = {p1, p2}
  MarketFees = {10}
  GivenFees = {0}
  Numerator = 5
  Denominator = 4
  Cap = 13
  MaxFee = 26
  MaxRetries = 2
  MaxRebroadcastIndex = 1
  Faults = {"getTransaction", "foreign", "reverts", "fatalError", "otherError", "serverError"}
  MaxReorgs = 1
\* The system may stop when the transaction is mined or given up.
CHECK_DEADLOCK FALSE
SPECIFICATION FairSpec
INVARIANT InflightIsPolled
PROPERTY WaitIsAnswered
