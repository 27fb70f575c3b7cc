SPECIFICATION FairSpec
CONSTANTS
  b1 = b1
  b9 = b9
  n1 = n1
  Central = central
  Peers = {n1}
  NoAddr = noaddr
  Chain <- Genesis
  Foreign = {b9}
  Txs = {t1}
  Empty = empty
  Handlers = {h1}
  Inventories <- Ahead
  Lists <- Alone
  MaxKnown = 2
  MaxMessages = 1
  MaxStarts = 2
PROPERTIES
  StartnodeStarts
CHECK_DEADLOCK FALSE
