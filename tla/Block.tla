------------------------------- MODULE Block -------------------------------
(***************************************************************************)
(* How a block gets its hash: internal/domain/block, the Merkle tree of    *)
(* its transactions and the proof of work over it.                         *)
(*                                                                         *)
(* SHA-256 is taken to have no collisions: a hash is the term it was       *)
(* computed from.  Whether a hash is below the target is an oracle, asked  *)
(* once for every term.  Blocks are mined one after the other, each on the *)
(* hash of any earlier one or on none.                                     *)
(***************************************************************************)
EXTENDS Integers, Sequences

CONSTANTS
  Txs,          \* serialized transactions
  MaxTxs,       \* transactions of a block
  MaxBlocks,    \* bound on the blocks mined
  MaxNonce      \* where Run gives up (math.MaxInt64)

ASSUME BlockAssumption == MaxTxs \in Nat \ {0} /\ MaxBlocks \in Nat /\ MaxNonce \in Nat \ {0}

VARIABLES
  mined,    \* the blocks made, in order: records [txs, prev, nonce, hash]
  low,      \* the oracle: term -> it is below the target, for the terms asked
  txs, prev, nonce, hash,    \* the block Run works on
  pc

work == <<txs, prev, nonce, hash>>
vars == <<mined, low, work, pc>>

NoHash == <<>>

-----------------------------------------------------------------------------
(* NewMerkleNode: of a leaf, and of two nodes. *)
Leaf(tx)   == <<tx>>
Node(l, r) == <<l, r>>

(* One round of NewMerkleTree's outer loop: j = 0, 2, .. below half of the *)
(* row, each joining nodes j and j + 1.                                    *)
Level(row) ==
  [k \in 1..((Len(row) \div 2 + 1) \div 2) |-> Node(row[2 * k - 1], row[2 * k])]

RoundsUp(n) == (n + 1) \div 2   \* fault: the padded length is counted
Rounds(n)   == n \div 2

(* NewMerkleTree: an odd row is padded with its last element, and the      *)
(* number of rounds is half the length before the padding.                 *)
NewMerkleTree(data) ==
  LET n      == Len(data)
      padded == IF n % 2 = 0 THEN data ELSE Append(data, data[n])
      row[i \in 0..Rounds(n)] ==
        IF i = 0 THEN [k \in DOMAIN padded |-> Leaf(padded[k])] ELSE Level(row[i - 1])
  IN  row[Rounds(n)]

(* The tree has a root: &nodes[0] does not panic. *)
HasRoot(data) == NewMerkleTree(data) # <<>>

HashTransactions(data) == NewMerkleTree(data)[1]

InitData(n) == <<prev, HashTransactions(txs), n>>

-----------------------------------------------------------------------------
Init ==
  /\ mined = <<>>
  /\ low = [x \in {} |-> TRUE]
  /\ txs = <<>> /\ prev = NoHash /\ nonce = 0 /\ hash = NoHash
  /\ pc = "idle"

TxLists == UNION {[1..n -> Txs] : n \in 1..MaxTxs}

(* CreateBlock; its first InitData panics when the tree has no root. *)
CreateBlock ==
  /\ pc = "idle"
  /\ Len(mined) < MaxBlocks
  /\ \E b \in {mined[i].hash : i \in DOMAIN mined} \cup {NoHash}, ts \in TxLists :
       /\ prev' = b
       /\ txs' = ts
       /\ pc' = IF HasRoot(ts) THEN "run" ELSE "panic"
  /\ nonce' = 0
  /\ hash' = NoHash
  /\ UNCHANGED <<mined, low>>

NextNonceAlways(found) == nonce + 1   \* fault: counts after the hit as well
NextNonce(found)       == IF found THEN nonce ELSE nonce + 1

(* One turn of Run's loop: hash, compare with the target, leave or go on.  *)
Try ==
  /\ pc = "run"
  /\ nonce < MaxNonce
  /\ LET term == InitData(nonce)
     IN  \E found \in IF term \in DOMAIN low THEN {low[term]} ELSE BOOLEAN :
           /\ low' = [t \in DOMAIN low \cup {term} |-> IF t = term THEN found ELSE low[t]]
           /\ hash' = term
           /\ nonce' = NextNonce(found)
           /\ pc' = IF found THEN "found" ELSE "run"
  /\ UNCHANGED <<mined, txs, prev>>

(* Run returns, at a hit or with the nonces used up: the caller takes what *)
(* nonce and hash are then.                                                *)
Finish ==
  /\ pc = "found" \/ (pc = "run" /\ nonce = MaxNonce)
  /\ mined' = Append(mined, [txs |-> txs, prev |-> prev, nonce |-> nonce, hash |-> hash])
  /\ pc' = "idle"
  /\ UNCHANGED <<low, work>>

Next == CreateBlock \/ Try \/ Finish

Spec == Init /\ [][Next]_vars
-----------------------------------------------------------------------------
Blocks == {mined[i] : i \in DOMAIN mined}

(* A hash names one content: two blocks with one hash have the same        *)
(* transactions and the same block before them, so the store may be keyed  *)
(* by the hash alone and a block that is known need not be compared        *)
(* (HashTransactions, block.go:20-29; AddBlock, chain.go:71-73).           *)
HashNamesContent ==
  \A b, c \in Blocks : b.hash = c.hash => b.txs = c.txs /\ b.prev = c.prev

(* What printchain reports of a block, from its stored fields alone, is    *)
(* what Run found: the nonce kept is the one that hit, and it is the first *)
(* (Run and Validate, proof.go:38-70).                                     *)
Validates ==
  \A b \in Blocks :
    LET term(n) == <<b.prev, HashTransactions(b.txs), n>>
    IN  /\ b.nonce < MaxNonce => b.hash = term(b.nonce) /\ low[term(b.nonce)]
        /\ \A n \in 0..(b.nonce - 1) : ~low[term(n)]
=============================================================================
