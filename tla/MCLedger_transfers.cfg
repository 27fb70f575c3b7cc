SPECIFICATION Spec
CONSTANTS
  alice = alice
  bob = bob
  Addresses = {alice, bob}
  Payments <- Transfers
  Hashes = {1, 2, 3, 4, 5}
  TxIds = {1, 2, 3, 4, 5, 6, 7, 8, 9}
  NoHash = 0
  NoTx = 0
  CollectSize = 2
  MaxCrashes = 2
  MaxReindexes = 0
INVARIANTS
  SupplyConserved
PROPERTIES
  ImplementsBank
