CONSTANTS
  Control = Control  Agent = Agent  Child = Child  Other = Other
  base = base  pair = pair  own = own
  Deltas = {pair, own}  Policy = base  ForChild = {own}
  NUpdates <- Updates1  NRules <- Rules1  CallerOf <- Callers
  MAX_RULES = 3  MAX_UPDATES = 2  RingCap = 2  MaxGen = 2
SPECIFICATION Spec
INVARIANTS TypeOK TxAtomic CatalogAligned OwnPolicyOnly
PROPERTIES TxEnds Implements
