SPECIFICATION FairSpec
CONSTANTS
  alice = alice
  bob = bob
  Addresses = {alice, bob}
  Payments <- AllTransfers
  Hashes = {1, 2, 3, 4}
  TxIds = {1, 2, 3, 4, 5, 6, 7}
  NoHash = 0
  NoTx = 0
  CollectSize = 2
  MaxCrashes = 3
  MaxReindexes = 2
INVARIANTS
  ChainLinked
  NoOrphan
  IndexOnChain
  UpdateFindsInputs
  FindUTXOIsUnspent
  SupplyNotInflated
  SelectedIsSignable
  IndexIsUnspent
  BalanceIsUnspent
PROPERTIES
  CommandEnds
