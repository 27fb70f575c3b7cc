SPECIFICATION Spec
CONSTANTS
  Txs = {t1, t2}
  MaxTxs = 3
  MaxBlocks = 2
  MaxNonce = 2
INVARIANTS
  HashNamesContent
CHECK_DEADLOCK FALSE
