---------------------------- MODULE BlockProofs ----------------------------
(***************************************************************************)
(* Proofs about Block: for any transactions, any bounds and any oracle, a  *)
(* stored block validates; and for blocks as the commands build them, of   *)
(* one or two transactions, the hash names the content.                    *)
(***************************************************************************)
EXTENDS Block, SequenceTheorems, TLAPS

(* What Run hashes for block b at nonce n, from the block's fields. *)
Term(b, n) == <<b.prev, HashTransactions(b.txs), n>>

(* What the oracle said when it was asked for term t. *)
Hit(t)  == t \in DOMAIN low /\ low[t] = TRUE
Miss(t) == t \in DOMAIN low /\ low[t] = FALSE

(* A stored block has the first nonce that hit, and the hash of that hit;  *)
(* or all nonces missed, and it has the hash of the last one.              *)
Stored(b) ==
  /\ b.txs \in TxLists
  /\ b.nonce \in 0..MaxNonce
  /\ \A n \in 0..(b.nonce - 1) : Miss(Term(b, n))
  /\ IF b.nonce < MaxNonce
     THEN b.hash = Term(b, b.nonce) /\ Hit(Term(b, b.nonce))
     ELSE b.hash = Term(b, b.nonce - 1)

(* Run has missed with every nonce below the one it is at; its hash is     *)
(* that of the last nonce it tried.                                        *)
Running ==
  pc \in {"run", "found"} =>
    /\ txs \in TxLists
    /\ nonce \in 0..MaxNonce
    /\ \A n \in 0..(nonce - 1) : Miss(InitData(n))
    /\ IF pc = "found"
       THEN nonce < MaxNonce /\ hash = InitData(nonce) /\ Hit(InitData(nonce))
       ELSE nonce > 0 => hash = InitData(nonce - 1)

BInv ==
  /\ mined \in Seq(Blocks)
  /\ \A t \in DOMAIN low : Hit(t) \/ Miss(t)
  /\ \A b \in Blocks : Stored(b)
  /\ Running

-----------------------------------------------------------------------------
(* What the oracle said, it says again. *)
LEMMA OracleIsFixed ==
  ASSUME NEW t, [Next]_vars
  PROVE  /\ Hit(t) => Hit(t)'
         /\ Miss(t) => Miss(t)'
<1>1. CASE Try
  <2>1. PICK found \in IF InitData(nonce) \in DOMAIN low THEN {low[InitData(nonce)]} ELSE BOOLEAN :
          low' = [s \in DOMAIN low \cup {InitData(nonce)} |->
                    IF s = InitData(nonce) THEN found ELSE low[s]]
    BY <1>1 DEF Try
  <2>2. t \in DOMAIN low => t \in DOMAIN low' /\ low'[t] = low[t]
    BY <2>1
  <2> QED BY <2>2 DEF Hit, Miss
<1>2. CASE UNCHANGED low
  BY <1>2 DEF Hit, Miss
<1> QED BY <1>1, <1>2 DEF Next, CreateBlock, Finish, vars

(* A block is added behind those there are. *)
LEMMA BlocksGrow ==
  ASSUME NEW b, mined \in Seq(Blocks), mined' = Append(mined, b)
  PROVE  Blocks' = Blocks \cup {b} /\ mined' \in Seq(Blocks')
<1>1. /\ mined \in Seq(Blocks \cup {b}) /\ Len(mined) \in Nat
      /\ DOMAIN mined = 1..Len(mined)
  BY LenProperties, SeqMonotonic
<1>2. /\ mined' \in Seq(Blocks \cup {b}) /\ Len(mined') = Len(mined) + 1
      /\ \A i \in 1..Len(mined) : mined'[i] = mined[i]
      /\ mined'[Len(mined) + 1] = b
  BY <1>1, AppendProperties
<1>3. DOMAIN mined' = 1..(Len(mined) + 1)
  BY <1>2, LenProperties
<1>4. Blocks' = Blocks \cup {b}
  BY <1>1, <1>2, <1>3 DEF Blocks
<1> QED BY <1>2, <1>4

-----------------------------------------------------------------------------
(* A list of one or two transactions is one of its elements. *)
LEMMA ShortLists ==
  ASSUME MaxTxs <= 2, NEW data \in TxLists
  PROVE  \/ data \in [1..1 -> Txs] \/ data \in [1..2 -> Txs]
<1>1. PICK n \in 1..MaxTxs : data \in [1..n -> Txs]
  BY DEF TxLists
<1>2. n = 1 \/ n = 2
  BY <1>1, BlockAssumption
<1> QED BY <1>1, <1>2

(* The tree of one transaction is its leaf: the copy that pads the row is  *)
(* never joined to it.                                                     *)
LEMMA TreeOfOne ==
  ASSUME NEW data \in [1..1 -> Txs]
  PROVE  HashTransactions(data) = Leaf(data[1])
<1> DEFINE n == Len(data)
           padded == IF n % 2 = 0 THEN data ELSE Append(data, data[n])
           leaves == [k \in DOMAIN padded |-> Leaf(padded[k])]
           Grows(r) == r = [i \in 0..Rounds(n) |-> IF i = 0 THEN leaves ELSE Level(r[i - 1])]
           row == CHOOSE r : Grows(r)
<1>1. data \in Seq(Txs) /\ n = 1 /\ data[1] \in Txs
  <2>1. data \in Seq(Txs)
    BY SeqDef
  <2> QED BY <2>1, LenProperties
<1>2. Rounds(n) = 0 /\ padded = Append(data, data[1])
  BY <1>1 DEF Rounds
<1>3. padded[1] = data[1] /\ 1 \in DOMAIN padded
  <2>1. Len(padded) = 2 /\ padded[1] = data[1] /\ padded \in Seq(Txs)
    BY <1>1, <1>2, AppendProperties
  <2>2. DOMAIN padded = 1..2
    <3> HIDE DEF padded
    <3> QED BY <2>1, LenProperties
  <2> QED BY <2>1, <2>2
<1>4. NewMerkleTree(data) = row[Rounds(n)]
  BY DEF NewMerkleTree
<1>5. Grows(row)
  <2>1. \E r : Grows(r)
    <3> WITNESS [i \in 0..Rounds(n) |-> leaves]
    <3> HIDE DEF leaves
    <3> QED BY <1>2
  <2> QED BY <2>1
<1>6. row[0] = leaves
  <2> HIDE DEF row, leaves
  <2> QED BY <1>2, <1>5
<1>7. leaves[1] = Leaf(data[1])
  <2> HIDE DEF padded
  <2> QED BY <1>3
<1> QED
  <2> HIDE DEF row, leaves, n
  <2> QED BY <1>2, <1>4, <1>6, <1>7 DEF HashTransactions

(* The tree of two transactions joins their leaves. *)
LEMMA TreeOfTwo ==
  ASSUME NEW data \in [1..2 -> Txs]
  PROVE  HashTransactions(data) = Node(Leaf(data[1]), Leaf(data[2]))
<1> DEFINE n == Len(data)
           padded == IF n % 2 = 0 THEN data ELSE Append(data, data[n])
           leaves == [k \in DOMAIN padded |-> Leaf(padded[k])]
           Grows(r) == r = [i \in 0..Rounds(n) |-> IF i = 0 THEN leaves ELSE Level(r[i - 1])]
           row == CHOOSE r : Grows(r)
           S == {Leaf(data[1]), Leaf(data[2])}
<1>1. data \in Seq(Txs) /\ n = 2
  <2>1. data \in Seq(Txs)
    BY SeqDef
  <2> QED BY <2>1, LenProperties
<1>2. Rounds(n) = 1 /\ padded = data
  BY <1>1 DEF Rounds
<1>3. /\ leaves \in Seq(S) /\ Len(leaves) = 2
      /\ leaves[1] = Leaf(data[1]) /\ leaves[2] = Leaf(data[2])
  <2>1. /\ DOMAIN leaves = 1..2 /\ leaves \in [1..2 -> S]
        /\ leaves[1] = Leaf(data[1]) /\ leaves[2] = Leaf(data[2])
    BY <1>2
  <2> HIDE DEF leaves, S
  <2>2. leaves \in Seq(S)
    BY <2>1, SeqDef
  <2> QED BY <2>1, <2>2, LenProperties
<1>4. NewMerkleTree(data) = row[Rounds(n)]
  BY DEF NewMerkleTree
<1>5. Grows(row)
  <2>1. \E r : Grows(r)
    <3> WITNESS [i \in 0..Rounds(n) |-> IF i = 0 THEN leaves ELSE Level(leaves)]
    <3> HIDE DEF leaves
    <3> QED BY <1>2
  <2> QED BY <2>1
<1>6. row[1] = Level(leaves)
  <2> HIDE DEF row, leaves
  <2>1. row[0] = leaves
    BY <1>2, <1>5
  <2> QED BY <1>2, <1>5, <2>1
<1>7. Level(leaves)[1] = Node(leaves[1], leaves[2])
  <2> HIDE DEF leaves
  <2>1. (Len(leaves) \div 2 + 1) \div 2 = 1
    BY <1>3
  <2> QED BY <2>1 DEF Level
<1> QED
  <2> HIDE DEF row, leaves, n
  <2> QED BY <1>2, <1>3, <1>4, <1>6, <1>7 DEF HashTransactions

(* One or two transactions: the root says which, and how many. *)
LEMMA RootNamesTransactions ==
  ASSUME MaxTxs <= 2, NEW a \in TxLists, NEW b \in TxLists,
         HashTransactions(a) = HashTransactions(b)
  PROVE  a = b
<1>1. CASE a \in [1..1 -> Txs] /\ b \in [1..1 -> Txs]
  <2>1. Leaf(a[1]) = Leaf(b[1])
    BY <1>1, TreeOfOne
  <2>2. a[1] = b[1]
    BY <2>1 DEF Leaf
  <2> QED BY <1>1, <2>2
<1>2. CASE a \in [1..2 -> Txs] /\ b \in [1..2 -> Txs]
  <2>1. Node(Leaf(a[1]), Leaf(a[2])) = Node(Leaf(b[1]), Leaf(b[2]))
    BY <1>2, TreeOfTwo
  <2>2. a[1] = b[1] /\ a[2] = b[2]
    BY <2>1 DEF Leaf, Node
  <2> QED BY <1>2, <2>2
<1>3. ASSUME NEW x \in [1..1 -> Txs], NEW y \in [1..2 -> Txs],
             HashTransactions(x) = HashTransactions(y)
      PROVE  FALSE
  <2>1. Leaf(x[1]) = Node(Leaf(y[1]), Leaf(y[2]))
    BY <1>3, TreeOfOne, TreeOfTwo
  <2> QED BY <2>1 DEF Leaf, Node
<1> QED BY <1>1, <1>2, <1>3, ShortLists

-----------------------------------------------------------------------------
(* Run starts with nothing tried, CreateBlock on transactions that have a  *)
(* root.                                                                   *)
LEMMA CreateStep ==
  ASSUME BInv, CreateBlock
  PROVE  BInv'
<1>1. UNCHANGED <<mined, low>> /\ nonce' = 0 /\ txs' \in TxLists /\ pc' \in {"run", "panic"}
  BY DEF CreateBlock
<1>2. Blocks' = Blocks /\ mined' \in Seq(Blocks')
  BY <1>1 DEF Blocks, BInv
<1>3. \A b \in Blocks' : Stored(b)'
  BY <1>1, <1>2 DEF BInv, Stored, Hit, Miss, Term
<1>4. Running'
  BY <1>1, BlockAssumption DEF Running
<1>5. (\A t \in DOMAIN low : Hit(t) \/ Miss(t))'
  BY <1>1 DEF BInv, Hit, Miss
<1> QED BY <1>2, <1>3, <1>4, <1>5 DEF BInv

(* What is stored of the blocks made does not depend on the one being made.*)
LEMMA StoredStays ==
  ASSUME BInv, [Next]_vars, NEW b \in Blocks
  PROVE  Stored(b)'
<1>1. \A n : (Hit(Term(b, n)) => Hit(Term(b, n))') /\ (Miss(Term(b, n)) => Miss(Term(b, n))')
  BY OracleIsFixed DEF Term
<1> QED BY <1>1 DEF BInv, Stored, Term

(* One more nonce was tried: a hit is kept with its nonce, a miss is left  *)
(* behind.                                                                 *)
LEMMA TryStep ==
  ASSUME BInv, Try
  PROVE  BInv'
<1>1. /\ pc = "run" /\ nonce < MaxNonce /\ UNCHANGED <<mined, txs, prev>>
      /\ hash' = InitData(nonce)
  BY DEF Try
<1>2. nonce \in 0..MaxNonce /\ txs \in TxLists /\ \A n \in 0..(nonce - 1) : Miss(InitData(n))
  BY <1>1 DEF BInv, Running
<1>3. \A n : InitData(n)' = InitData(n)
  BY <1>1 DEF InitData
<1>4. /\ \A n \in 0..(nonce - 1) : InitData(n) \in DOMAIN low' /\ low'[InitData(n)] = FALSE
      /\ \A t \in DOMAIN low : t \in DOMAIN low' /\ low'[t] \in {TRUE, FALSE}
  BY <1>2, OracleIsFixed DEF BInv, Next, Hit, Miss
<1>5. /\ DOMAIN low' = DOMAIN low \cup {InitData(nonce)}
      /\ \/ low'[InitData(nonce)] = TRUE /\ nonce' = nonce /\ pc' = "found"
         \/ low'[InitData(nonce)] = FALSE /\ nonce' = nonce + 1 /\ pc' = "run"
  <2>1. PICK found \in IF InitData(nonce) \in DOMAIN low THEN {low[InitData(nonce)]} ELSE BOOLEAN :
          /\ low' = [t \in DOMAIN low \cup {InitData(nonce)} |->
                       IF t = InitData(nonce) THEN found ELSE low[t]]
          /\ nonce' = NextNonce(found)
          /\ pc' = IF found THEN "found" ELSE "run"
    BY DEF Try
  <2>2. found = TRUE \/ found = FALSE
    BY <2>1 DEF BInv, Hit, Miss
  <2>3. DOMAIN low' = DOMAIN low \cup {InitData(nonce)} /\ low'[InitData(nonce)] = found
    BY <2>1
  <2>4. found = TRUE => nonce' = nonce /\ pc' = "found"
    BY <2>1 DEF NextNonce
  <2>5. found = FALSE => nonce' = nonce + 1 /\ pc' = "run"
    BY <2>1 DEF NextNonce
  <2> QED BY <2>2, <2>3, <2>4, <2>5
<1>6. txs' \in TxLists /\ nonce' \in 0..MaxNonce
  BY <1>1, <1>2, <1>5, BlockAssumption
<1>7. Running'
  <2>1. \A n \in 0..(nonce' - 1) : InitData(n) \in DOMAIN low' /\ low'[InitData(n)] = FALSE
    <3>1. CASE nonce' = nonce
      BY <1>4, <3>1
    <3>2. CASE nonce' = nonce + 1 /\ low'[InitData(nonce)] = FALSE
      <4>1. \A n \in 0..(nonce' - 1) : n = nonce \/ n \in 0..(nonce - 1)
        BY <1>2, <3>2
      <4> QED BY <1>4, <1>5, <3>2, <4>1
    <3> QED BY <1>5, <3>1, <3>2
  <2>2. CASE low'[InitData(nonce)] = TRUE /\ nonce' = nonce /\ pc' = "found"
    BY <1>1, <1>5, <1>6, <2>1, <2>2 DEF Running, InitData, Hit, Miss
  <2>3. CASE nonce' = nonce + 1 /\ pc' = "run"
    <3>1. nonce' - 1 = nonce
      BY <1>2, <2>3
    <3> QED BY <1>1, <1>6, <2>1, <2>3, <3>1 DEF Running, InitData, Hit, Miss
  <2> QED BY <1>5, <2>2, <2>3
<1>8. \A b \in Blocks : Stored(b)'
  BY StoredStays DEF Next
<1>9. (\A t \in DOMAIN low : Hit(t) \/ Miss(t))'
  BY <1>4, <1>5 DEF Hit, Miss
<1> QED BY <1>1, <1>7, <1>8, <1>9 DEF BInv, Blocks

(* The block stored has what Run found. *)
LEMMA FinishStep ==
  ASSUME BInv, Finish
  PROVE  BInv'
<1>0. PICK b : b = [txs |-> txs, prev |-> prev, nonce |-> nonce, hash |-> hash]
  OBVIOUS
<1>1. /\ pc = "found" \/ (pc = "run" /\ nonce = MaxNonce)
      /\ mined' = Append(mined, b) /\ pc' = "idle" /\ low' = low
  BY <1>0 DEF Finish
<1>2. Blocks' = Blocks \cup {b} /\ mined' \in Seq(Blocks')
  BY <1>1, BlocksGrow DEF BInv
<1>3. \A n : Term(b, n) = InitData(n)
  BY <1>0 DEF Term, InitData
<1>4. Stored(b)
  <2>1. /\ b.txs \in TxLists /\ b.nonce = nonce /\ b.hash = hash /\ nonce \in 0..MaxNonce
        /\ \A n \in 0..(nonce - 1) : Miss(InitData(n))
    BY <1>0, <1>1 DEF BInv, Running
  <2>2. IF nonce < MaxNonce
        THEN hash = InitData(nonce) /\ Hit(InitData(nonce))
        ELSE hash = InitData(nonce - 1)
    BY <1>1, <2>1, BlockAssumption DEF BInv, Running
  <2> QED BY <1>3, <2>1, <2>2 DEF Stored
<1>5. Stored(b)'
  BY <1>1, <1>4 DEF Stored, Hit, Miss, Term
<1>6. \A c \in Blocks : Stored(c)'
  BY StoredStays DEF Next
<1>7. Running'
  BY <1>1 DEF Running
<1>8. (\A t \in DOMAIN low : Hit(t) \/ Miss(t))'
  BY <1>1 DEF BInv, Hit, Miss
<1> QED BY <1>2, <1>5, <1>6, <1>7, <1>8 DEF BInv

-----------------------------------------------------------------------------
(* The invariant holds of every block that was mined and of the one Run is *)
(* at, whatever the oracle says.                                           *)
THEOREM BlocksAreSound == Spec => []BInv
<1>1. Init => BInv
  <2> SUFFICES ASSUME Init PROVE BInv
    OBVIOUS
  <2>1. mined = <<>> /\ Blocks = {} /\ DOMAIN low = {} /\ pc = "idle"
    BY DEF Init, Blocks
  <2> QED BY <2>1 DEF BInv, Running
<1>2. BInv /\ [Next]_vars => BInv'
  <2> SUFFICES ASSUME BInv, [Next]_vars PROVE BInv'
    OBVIOUS
  <2>1. CASE UNCHANGED vars
    <3>1. UNCHANGED <<mined, low, txs, prev, nonce, hash, pc>> /\ Blocks' = Blocks
      BY <2>1 DEF vars, work, Blocks
    <3>2. (mined \in Seq(Blocks))' /\ (\A t \in DOMAIN low : Hit(t) \/ Miss(t))'
      BY <3>1 DEF BInv, Hit, Miss
    <3>3. (\A b \in Blocks : Stored(b))'
      BY <3>1 DEF BInv, Stored, Term, Hit, Miss
    <3>4. Running'
      BY <3>1 DEF BInv, Running, InitData, Hit, Miss
    <3> QED BY <3>2, <3>3, <3>4 DEF BInv
  <2> QED BY <2>1, CreateStep, TryStep, FinishStep DEF Next
<1> QED BY <1>1, <1>2, PTL DEF Spec

(* What printchain computes from a block's fields is below the target      *)
(* unless Run ran out of nonces, and no smaller nonce would have done      *)
(* (Run, Validate: proof.go:38-70).                                        *)
THEOREM MinedBlocksValidate == Spec => []Validates
<1>1. BInv => Validates
  <2> SUFFICES ASSUME BInv, NEW b \in Blocks
               PROVE  /\ b.nonce < MaxNonce => b.hash = Term(b, b.nonce) /\ low[Term(b, b.nonce)]
                      /\ \A n \in 0..(b.nonce - 1) : ~low[Term(b, n)]
    BY DEF Validates, Term
  <2> QED BY DEF BInv, Stored, Hit, Miss
<1> QED BY <1>1, BlocksAreSound, PTL

(* As long as a block has one or two transactions, its hash is that of no  *)
(* other content: any number of blocks, any nonces, hits and misses        *)
(* (HashTransactions, block.go:20-29; merkle.go:33-60).                    *)
THEOREM HashesNameContent == MaxTxs <= 2 /\ Spec => []HashNamesContent
<1> SUFFICES ASSUME MaxTxs <= 2 PROVE Spec => []HashNamesContent
  OBVIOUS
<1>1. BInv => HashNamesContent
  <2> SUFFICES ASSUME BInv, NEW b \in Blocks, NEW c \in Blocks, b.hash = c.hash
               PROVE  b.txs = c.txs /\ b.prev = c.prev
    BY DEF HashNamesContent
  <2>1. ASSUME NEW d \in Blocks PROVE d.txs \in TxLists /\ \E n : d.hash = Term(d, n)
    BY DEF BInv, Stored
  <2>2. b.prev = c.prev /\ HashTransactions(b.txs) = HashTransactions(c.txs)
    BY <2>1 DEF Term
  <2> QED BY <2>1, <2>2, RootNamesTransactions
<1> QED BY <1>1, BlocksAreSound, PTL

=============================================================================
