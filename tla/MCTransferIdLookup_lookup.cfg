\* Two destinations, seven events in any blocks and transactions, roots of up to three
\* transfers, batches of two blocks.
CONSTANTS
  c1 = c1
  c2 = c2
  Chains = {c1, c2}
  MaxPendingTransfers = 3
  BatchBlocks = 1
  LateIndex = 1
  IdOrders <- EitherWay
  MaxEvents = 7
\* The log is bounded.
CHECK_DEADLOCK FALSE
SPECIFICATION Spec
SYMMETRY Symmetry
INVARIANTS
  LookupIsExact
  GraphLookupIsExact
