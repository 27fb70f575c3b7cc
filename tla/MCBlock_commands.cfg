SPECIFICATION Spec
CONSTANTS
  Txs = {t1, t2}
  MaxTxs = 2
  MaxBlocks = 2
  MaxNonce = 2
INVARIANTS
  HashNamesContent
  Validates
CHECK_DEADLOCK FALSE
