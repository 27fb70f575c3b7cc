---------------------------- MODULE LedgerProofs ----------------------------
(***************************************************************************)
(* For every set of addresses, payments, hashes and ids and every bound on *)
(* crashes: the chain stays linked, the index stays on the chain, Update   *)
(* never meets an input that is not there, and what is selected can be     *)
(* signed.  For payments of positive amounts the money adds up, and the    *)
(* commands implement the accounts of Bank.                                *)
(***************************************************************************)
EXTENDS LedgerProperties, FiniteSetTheorems, SequenceTheorems, Induction, TLAPS

-----------------------------------------------------------------------------
(* The helpers on sequences and maps. *)

(* A tuple is what SequenceTheorems calls a sequence over its elements. *)
LEMMA TupleDomain ==
  ASSUME NEW s, Tuple(s)
  PROVE  Len(s) \in Nat /\ DOMAIN s = 1..Len(s)
BY LenProperties DEF Tuple

(* Every sequence is such a tuple. *)
LEMMA SeqIsTuple ==
  ASSUME NEW S, NEW s \in Seq(S)
  PROVE  Tuple(s)
<1>1. s \in [1..Len(s) -> S] /\ Len(s) \in Nat
  BY LenProperties
<1>2. s \in [1..Len(s) -> {s[i] : i \in DOMAIN s}]
  BY <1>1
<1> QED BY <1>1, <1>2, SeqDef DEF Tuple

(* Literal sequences. *)
LEMMA OneTuple == ASSUME NEW x PROVE Tuple(<<x>>)
<1>1. <<x>> \in Seq({x})
  OBVIOUS
<1> QED BY <1>1, SeqIsTuple

(* Payment and change. *)
LEMMA PairTuple == ASSUME NEW x, NEW y PROVE Tuple(<<x, y>>)
<1>1. <<x, y>> \in Seq({x, y})
  OBVIOUS
<1> QED BY <1>1, SeqIsTuple

(* Concatenation. *)
LEMMA ConcatTuple ==
  ASSUME NEW s, NEW t, Tuple(s), Tuple(t)
  PROVE  Tuple(s \o t)
<1> DEFINE S == {s[i] : i \in DOMAIN s} \cup {t[i] : i \in DOMAIN t}
<1>1. s \in Seq(S) /\ t \in Seq(S)
  BY SeqMonotonic DEF Tuple
<1>2. s \o t \in Seq(S)
  BY <1>1, ConcatProperties
<1> QED BY <1>2, SeqIsTuple

(* Update's copying loop drops one output when the position is there. *)
LEMMA WithoutTuple ==
  ASSUME NEW s, Tuple(s), NEW i \in Nat
  PROVE  /\ Tuple(Without(s, i))
         /\ Len(Without(s, i)) = IF i \in 1..Len(s) THEN Len(s) - 1 ELSE Len(s)
<1> DEFINE S == {s[j] : j \in DOMAIN s}
<1>1. Len(s) \in Nat /\ DOMAIN s = 1..Len(s) /\ s \in Seq(S)
  BY TupleDomain DEF Tuple
<1>2. CASE i \in 1..Len(s)
  <2> DEFINE l == SubSeq(s, 1, i - 1)
             r == SubSeq(s, i + 1, Len(s))
  <2>0. i >= 1 /\ i <= Len(s) /\ i - 1 \in Int /\ i + 1 \in Int /\ Len(s) \in Int /\ 1 \in Int
    BY <1>1, <1>2
  <2>1. l \in Seq(S) /\ Len(l) = i - 1
    <3>1. \A j \in 1..(i - 1) : s[j] \in S
      BY <1>1, <1>2
    <3>2. l \in Seq(S) /\ Len(l) = IF 1 <= i - 1 THEN (i - 1) - 1 + 1 ELSE 0
      BY <3>1, <2>0, SubSeqProperties
    <3> HIDE DEF l
    <3> QED BY <3>2, <2>0
  <2>2. r \in Seq(S) /\ Len(r) = Len(s) - i
    <3>1. \A j \in (i + 1)..Len(s) : s[j] \in S
      BY <1>1, <1>2
    <3>2. r \in Seq(S) /\ Len(r) = IF i + 1 <= Len(s) THEN Len(s) - (i + 1) + 1 ELSE 0
      BY <3>1, <2>0, SubSeqProperties
    <3> HIDE DEF r
    <3> QED BY <3>2, <2>0
  <2>3. l \o r \in Seq(S) /\ Len(l \o r) = Len(s) - 1
    <3> HIDE DEF l, r
    <3>1. l \o r \in Seq(S) /\ Len(l \o r) = Len(l) + Len(r)
      BY <2>1, <2>2, ConcatProperties
    <3> QED BY <3>1, <2>0, <2>1, <2>2
  <2>4. Without(s, i) = l \o r
    BY <1>1, <1>2 DEF Without
  <2> QED BY <2>3, <2>4, <1>2, SeqIsTuple
<1>3. CASE i \notin 1..Len(s)
  BY <1>1, <1>3 DEF Without
<1> QED BY <1>2, <1>3

(* FindUTXO's loop over the outputs of a transaction. *)
LEMMA CompactTuple ==
  ASSUME NEW s, Tuple(s), NEW gone
  PROVE  Tuple(Compact(s, gone))
<1> DEFINE kept == DOMAIN s \ gone
           at(n) == CHOOSE i \in kept : Cardinality({j \in kept : j <= i}) = n
           n1 == Cardinality(kept)
           c == [n \in 1..n1 |-> s[at(n)]]
<1>1. Len(s) \in Nat /\ DOMAIN s = 1..Len(s)
  BY TupleDomain
<1>2. IsFiniteSet(1..Len(s))
  BY <1>1, FS_Interval
<1>3. IsFiniteSet(kept)
  BY <1>1, <1>2, FS_Subset
<1>4. n1 \in Nat
  BY <1>3, FS_CardinalityType
<1>5. c \in [1..n1 -> {c[i] : i \in DOMAIN c}]
  OBVIOUS
<1>6. c \in Seq({c[i] : i \in DOMAIN c})
  <2> HIDE DEF c, n1
  <2> QED BY <1>4, <1>5, SeqDef
<1> QED BY <1>6 DEF Tuple, Compact

-----------------------------------------------------------------------------
(* Storing a block. *)

(* A fresh hash or id is one the CHOOSE of Ledger can give. *)
LEMMA FreshHashIsNew ==
  ASSUME Hashes \ DOMAIN blocks # {}
  PROVE  FreshHash \in Hashes /\ FreshHash \notin DOMAIN blocks
BY DEF FreshHash

(* The same for the id of a transaction. *)
LEMMA FreshIdIsNew ==
  ASSUME TxIds \ UsedIds # {}
  PROVE  FreshId \in TxIds /\ FreshId \notin UsedIds
BY DEF FreshId

(* A stored transaction's id is used. *)
LEMMA StoredIsUsed ==
  ASSUME NEW h \in DOMAIN blocks, NEW i \in DOMAIN blocks[h].txs
  PROVE  blocks[h].txs[i].id \in UsedIds
BY DEF UsedIds, StoredTxs, TxsOf

(* A stored block stays as it is when a new one is put beside it; the ids  *)
(* in use only grow, by those of the new block.                            *)
LEMMA UsedIdsGrow ==
  ASSUME NEW h, h \notin DOMAIN blocks, NEW b, blocks' = Put(blocks, h, b)
  PROVE  /\ UsedIds \subseteq UsedIds'
         /\ \A i \in DOMAIN b.txs : b.txs[i].id \in UsedIds'
<1>1. /\ DOMAIN blocks' = DOMAIN blocks \cup {h}
      /\ \A g \in DOMAIN blocks : blocks'[g] = blocks[g]
      /\ blocks'[h] = b
  BY DEF Put
<1>2. \A g \in DOMAIN blocks' : \A i \in DOMAIN blocks'[g].txs :
        blocks'[g].txs[i].id \in UsedIds'
  BY DEF UsedIds, StoredTxs, TxsOf
<1>3. ASSUME NEW id \in UsedIds
      PROVE  id \in UsedIds'
  <2>1. PICK g \in DOMAIN blocks : \E i \in DOMAIN blocks[g].txs : id = blocks[g].txs[i].id
    BY DEF UsedIds, StoredTxs, TxsOf
  <2> QED BY <2>1, <1>1, <1>2
<1> QED BY <1>1, <1>2, <1>3

-----------------------------------------------------------------------------
(* The invariant, one lemma per kind of action. *)

(* An empty database satisfies it. *)
LEMMA InitIInv == Init => IInv
BY LedgerAssumption DEF Init, IInv, BlocksWellFormed, IndexWellFormed, PhaseAgrees, ChainLinked,
   IndexStored, WalkOnChain, UpdateReady, EmptyMap, Phases

(* A process that ends leaves the chain and an index as they were, or with *)
(* the index it had built.                                                 *)
LEMMA ExitKeepsIInv ==
  ASSUME IInv, Exit, UNCHANGED <<dbExists, blocks, lastHash>>, utxo' = utxo \/ utxo' = txn
  PROVE  IInv'
BY LedgerAssumption
   DEF Exit, IInv, BlocksWellFormed, IndexWellFormed, PhaseAgrees, ChainLinked, IndexStored,
       WalkOnChain, UpdateReady, EmptyMap, Phases, UsedIds, StoredTxs, TxsOf

(* Opening the database, starting a rebuild, deleting keys, and commands   *)
(* that only read, leave the chain alone and at most shrink the index.     *)
LEMMA ShrinkKeepsIInv ==
  ASSUME IInv,
         CreateBlockChain \/ ReindexUTXO \/ DeleteByPrefix \/ StartWalk \/ UNCHANGED vars
  PROVE  IInv'
<1> USE DEF IInv, vars, disk, command, counts
<1>1. CASE CreateBlockChain
  BY <1>1 DEF CreateBlockChain, BlocksWellFormed, IndexWellFormed, PhaseAgrees, ChainLinked,
     IndexStored, WalkOnChain, UpdateReady, Phases, UsedIds, StoredTxs, TxsOf
<1>2. CASE ReindexUTXO
  BY <1>2 DEF ReindexUTXO, ContinueBlockChain, BlocksWellFormed, IndexWellFormed, PhaseAgrees,
     ChainLinked, IndexStored, WalkOnChain, UpdateReady, Phases, UsedIds, StoredTxs, TxsOf
<1>3. CASE DeleteByPrefix
  BY <1>3 DEF DeleteByPrefix, DeleteKeys, AheadOf, Drop, BlocksWellFormed, IndexWellFormed, PhaseAgrees,
     ChainLinked, IndexStored, WalkOnChain, UpdateReady, Phases, UsedIds, StoredTxs, TxsOf
<1>4. CASE StartWalk
  <2>1. lastHash \in DOMAIN blocks /\ 1 \in DOMAIN blocks[lastHash].txs
    BY <1>4, TupleDomain DEF StartWalk, PhaseAgrees, ChainLinked, BlocksWellFormed
  <2> QED BY <1>4, <2>1 DEF StartWalk, BlocksWellFormed, IndexWellFormed, PhaseAgrees, ChainLinked,
     IndexStored, WalkOnChain, UpdateReady, Phases, UsedIds, StoredTxs, TxsOf
<1>5. CASE UNCHANGED vars
  BY <1>5 DEF BlocksWellFormed, IndexWellFormed, PhaseAgrees, ChainLinked,
     IndexStored, WalkOnChain, UpdateReady, Phases, UsedIds, StoredTxs, TxsOf
<1> QED BY <1>1, <1>2, <1>3, <1>4, <1>5

(* FindUTXO moves along the chain and indexes ids it finds there. *)
LEMMA WalkKeepsIInv ==
  ASSUME IInv, WalkTx
  PROVE  IInv'
<1> DEFINE b    == blocks[cursor]
           tx   == b.txs[pos]
           left == Compact(tx.outs, {r.out : r \in {s \in spent : s.id = tx.id}})
           had  == IF tx.id \in DOMAIN txn THEN txn[tx.id] ELSE <<>>
<1>1. /\ pc = "walk" /\ cursor \in DOMAIN blocks /\ pos \in DOMAIN b.txs
      /\ txn' = IF left = <<>> THEN txn ELSE Put(txn, tx.id, had \o left)
      /\ cursor' = IF pos < Len(b.txs) THEN cursor ELSE b.prev
      /\ pos' = IF pos < Len(b.txs) THEN pos + 1 ELSE 1
      /\ UNCHANGED <<disk, pc, todo, counts>>
  BY DEF WalkTx, IInv, WalkOnChain
<1>2. Tuple(had \o left)
  <2>1. Tuple(left)
    BY <1>1, CompactTuple DEF IInv, BlocksWellFormed
  <2>2. Tuple(had)
    BY DEF IInv, IndexWellFormed, Tuple
  <2> QED BY <2>1, <2>2, ConcatTuple
<1>3. UsedIds' = UsedIds /\ tx.id \in UsedIds
  BY <1>1 DEF UsedIds, StoredTxs, TxsOf, disk
<1>4. IndexWellFormed'
  BY <1>1, <1>2 DEF IInv, IndexWellFormed, Put, disk
<1>5. IndexStored'
  BY <1>1, <1>3 DEF IInv, IndexStored, Put, disk
<1>6. WalkOnChain'
  <2> SUFFICES ASSUME cursor' # NoHash
               PROVE  cursor' \in DOMAIN blocks /\ pos' \in DOMAIN blocks[cursor'].txs
    BY <1>1 DEF WalkOnChain, disk
  <2>1. Len(b.txs) \in Nat /\ DOMAIN b.txs = 1..Len(b.txs)
    BY <1>1, TupleDomain DEF IInv, BlocksWellFormed
  <2>2. CASE pos < Len(b.txs)
    BY <1>1, <2>1, <2>2
  <2>3. CASE ~(pos < Len(b.txs))
    <3>1. cursor' = b.prev /\ pos' = 1
      BY <1>1, <2>3
    <3>2. b.prev \in DOMAIN blocks
      BY <1>1, <3>1 DEF IInv, ChainLinked
    <3>3. DOMAIN blocks[b.prev].txs = 1..Len(blocks[b.prev].txs) /\ Len(blocks[b.prev].txs) \in Nat
          /\ Len(blocks[b.prev].txs) >= 1
      BY <3>2, TupleDomain DEF IInv, BlocksWellFormed
    <3> QED BY <3>1, <3>2, <3>3
  <2> QED BY <2>2, <2>3
<1> QED
  BY <1>1, <1>4, <1>5, <1>6
  DEF IInv, BlocksWellFormed, PhaseAgrees, ChainLinked, UpdateReady, disk

(* The genesis block starts the chain. *)
LEMMA GenesisKeepsIInv ==
  ASSUME IInv, NEW a \in Addresses, CommitGenesis(a)
  PROVE  IInv'
<1> DEFINE b == CreateBlock(<<CoinbaseTx(FreshId, a)>>, NoHash, 0)
<1>1. /\ pc = "genesis" /\ pc' = "delete" /\ lastHash' = FreshHash
      /\ blocks' = Put(blocks, FreshHash, b)
      /\ FreshHash \in Hashes /\ FreshHash \notin DOMAIN blocks
      /\ UNCHANGED <<dbExists, utxo, cursor, pos, txn, todo, spent, counts>>
  BY FreshHashIsNew DEF CommitGenesis
<1>2. DOMAIN blocks = {}
  BY <1>1 DEF IInv, PhaseAgrees, ChainLinked
<1>3. /\ DOMAIN blocks' = {FreshHash} /\ blocks'[FreshHash] = b
      /\ b.height = 0 /\ b.prev = NoHash /\ FreshHash # NoHash
  BY <1>1, <1>2, LedgerAssumption DEF Put, CreateBlock
<1>4. Tuple(b.txs) /\ Len(b.txs) = 1 /\ \A i \in DOMAIN b.txs : Tuple(b.txs[i].outs)
  <2>1. b.txs = <<CoinbaseTx(FreshId, a)>> /\ DOMAIN b.txs = 1..1
    BY DEF CreateBlock
  <2>2. b.txs[1].outs = <<Output(Subsidy, a)>>
    BY <2>1 DEF CoinbaseTx
  <2> HIDE DEF b
  <2>3. Tuple(<<CoinbaseTx(FreshId, a)>>) /\ Tuple(<<Output(Subsidy, a)>>)
    BY OneTuple
  <2> QED BY <2>1, <2>2, <2>3
<1>5. UsedIds \subseteq UsedIds'
  BY <1>1, UsedIdsGrow
<1>6. BlocksWellFormed' /\ ChainLinked'
  <2> HIDE DEF b
  <2>1. BlocksWellFormed'
    <3>1. ASSUME NEW h \in DOMAIN blocks'
          PROVE  /\ Tuple(blocks'[h].txs) /\ Len(blocks'[h].txs) >= 1
                 /\ \A i \in DOMAIN blocks'[h].txs : Tuple(blocks'[h].txs[i].outs)
      <4>1. blocks'[h] = b
        BY <1>3
      <4> QED BY <4>1, <1>4
    <3>2. DOMAIN blocks' \subseteq Hashes
      BY <1>1, <1>3
    <3> QED BY <3>1, <3>2 DEF BlocksWellFormed
  <2>2. lastHash' = FreshHash /\ FreshHash \in DOMAIN blocks' /\ FreshHash # NoHash
    BY <1>1, <1>3
  <2>3. \A h \in DOMAIN blocks' : h = FreshHash /\ blocks'[h].height = 0 /\ blocks'[h].prev = NoHash
    BY <1>3
  <2>4. ChainLinked'
    BY <2>2, <2>3 DEF ChainLinked
  <2> QED BY <2>1, <2>4
<1>7. IndexWellFormed' /\ IndexStored'
  BY <1>1, <1>5 DEF IInv, IndexWellFormed, IndexStored
<1>8. PhaseAgrees' /\ WalkOnChain' /\ UpdateReady'
  BY <1>1, <1>3 DEF IInv, PhaseAgrees, WalkOnChain, UpdateReady, Phases
<1> QED BY <1>6, <1>7, <1>8 DEF IInv

(* What send selects is in the index, at a position of its entry. *)
LEMMA SelectionIsIndexed ==
  ASSUME NEW u, NEW a, NEW amount, NEW ins \in FindSpendableOutputs(u, a, amount), NEW r \in ins
  PROVE  r.id \in DOMAIN u /\ r.out \in DOMAIN u[r.id] /\ r = [id |-> r.id, out |-> r.out]
<1>1. r \in OwnedBy(u, a)
  BY DEF FindSpendableOutputs
<1> QED BY <1>1 DEF OwnedBy

(* A mined block extends the chain, and what it spends is in the index. *)
LEMMA SendKeepsIInv ==
  ASSUME IInv, NEW p \in Payments, Send(p)
  PROVE  IInv'
<1> DEFINE outs(ins) == PaymentOutputs(Worth(utxo, ins), p.from, p.to, p.amount)
<1>1. PICK ins \in FindSpendableOutputs(utxo, p.from, p.amount) : \E id :
        MineBlock(<<CoinbaseTx(FreshId, p.from),
                    [id |-> id, ins |-> ins, key |-> p.from, outs |-> outs(ins)]>>)
  BY DEF Send
<1>2. PICK id :
        MineBlock(<<CoinbaseTx(FreshId, p.from),
                    [id |-> id, ins |-> ins, key |-> p.from, outs |-> outs(ins)]>>)
  BY <1>1
<1> DEFINE cb == CoinbaseTx(FreshId, p.from)
           tx == [id |-> id, ins |-> ins, key |-> p.from, outs |-> outs(ins)]
           b  == CreateBlock(<<cb, tx>>, lastHash, blocks[lastHash].height + 1)
<1>3. /\ pc = "idle" /\ dbExists /\ lastHash # NoHash
      /\ pc' = "update" /\ lastHash' = FreshHash /\ cursor' = FreshHash /\ pos' = 1 /\ txn' = utxo
      /\ blocks' = Put(blocks, FreshHash, b)
      /\ FreshHash \in Hashes /\ FreshHash \notin DOMAIN blocks
      /\ UNCHANGED <<dbExists, utxo, todo, spent, counts>>
  BY <1>2, FreshHashIsNew DEF Send, ContinueBlockChain, MineBlock
<1>4. FreshId \notin UsedIds
  <2>1. Cardinality(TxIds \ UsedIds) >= 2
    BY DEF Send
  <2>2. TxIds \ UsedIds # {}
    BY <2>1, FS_EmptySet
  <2> QED BY <2>2, FreshIdIsNew
<1>5. /\ DOMAIN blocks' = DOMAIN blocks \cup {FreshHash}
      /\ \A h \in DOMAIN blocks : blocks'[h] = blocks[h]
      /\ blocks'[FreshHash] = b
  BY <1>3 DEF Put
<1>6. /\ b.prev = lastHash /\ b.height = blocks[lastHash].height + 1
      /\ b.txs = <<cb, tx>>
  BY DEF CreateBlock
<1>7. /\ DOMAIN b.txs = 1..2 /\ b.txs[1] = cb /\ b.txs[2] = tx /\ Len(b.txs) = 2
      /\ Tuple(b.txs)
  <2> HIDE DEF cb, tx, b
  <2>1. Tuple(<<cb, tx>>)
    BY PairTuple
  <2> QED BY <1>6, <2>1
<1>8. Tuple(cb.outs) /\ Tuple(tx.outs)
  <2>1. cb.outs = <<Output(Subsidy, p.from)>>
    BY DEF CoinbaseTx
  <2>2. Tuple(outs(ins))
    BY OneTuple, PairTuple DEF PaymentOutputs
  <2>3. Tuple(<<Output(Subsidy, p.from)>>)
    BY OneTuple
  <2> QED BY <2>1, <2>2, <2>3
<1>9. todo = {}
  BY <1>3 DEF IInv, PhaseAgrees
<1>10. UsedIds \subseteq UsedIds'
  BY <1>3, UsedIdsGrow
<1>11. BlocksWellFormed'
  <2> HIDE DEF cb, tx, b
  <2>1. \A i \in DOMAIN b.txs : Tuple(b.txs[i].outs)
    BY <1>7, <1>8
  <2> QED BY <1>3, <1>5, <1>7, <2>1 DEF IInv, BlocksWellFormed
<1>12. ChainLinked'
  <2> HIDE DEF b
  <2>1. lastHash \in DOMAIN blocks /\ FreshHash # NoHash
    BY <1>3, LedgerAssumption DEF IInv, ChainLinked
  <2> QED BY <1>3, <1>5, <1>6, <2>1 DEF IInv, ChainLinked
<1>13. IndexWellFormed' /\ IndexStored'
  BY <1>3, <1>10 DEF IInv, IndexWellFormed, IndexStored
<1>14. PhaseAgrees' /\ WalkOnChain'
  BY <1>3, LedgerAssumption DEF IInv, PhaseAgrees, WalkOnChain, Phases
<1>15. UpdateReady'
  <2>1. \A r \in ins : /\ r.id \in DOMAIN utxo /\ r.out \in DOMAIN utxo[r.id]
                       /\ r = [id |-> r.id, out |-> r.out]
    BY SelectionIsIndexed
  <2>2. \A r \in Spend(tx) : r \in ins
    BY DEF Spend
  <2>3. cb.id = FreshId
    BY DEF CoinbaseTx
  <2>4. \A r \in ins : r.id # cb.id
    BY <1>4, <2>1, <2>3 DEF IInv, IndexStored
  <2> HIDE DEF cb, tx, b
  <2> QED BY <1>3, <1>5, <1>7, <1>9, <2>1, <2>2, <2>4 DEF UpdateReady
<1> QED BY <1>11, <1>12, <1>13, <1>14, <1>15 DEF IInv

(* Removing one input leaves the others of its transaction their key: only *)
(* the input of position 1 can empty an entry, it comes first, and the     *)
(* entry has a position for each of the others.                            *)
LEMMA UpdateInputKeepsIInv ==
  ASSUME IInv, UpdateInput
  PROVE  IInv'
<1>1. PICK r \in todo :
        /\ \A s \in todo : s.id = r.id => r.out <= s.out
        /\ r.id \in DOMAIN txn
        /\ txn' = WriteBack(r.id, Without(txn[r.id], r.out))
        /\ todo' = todo \ {r}
  BY DEF UpdateInput
<1> DEFINE left == Without(txn[r.id], r.out)
           n == Len(txn[r.id])
<1>2. /\ pc = "update" /\ cursor \in DOMAIN blocks /\ Len(blocks[cursor].txs) = 2
      /\ pos = 2 /\ pos' = pos
      /\ UNCHANGED <<disk, pc, cursor, spent, counts>>
  BY DEF UpdateInput, IInv, UpdateReady
<1>3. \A s \in todo :
        /\ s.id \in DOMAIN txn /\ s.out \in Nat \ {0} /\ s = [id |-> s.id, out |-> s.out]
        /\ Len(txn[s.id]) >= 1
        /\ s.out = 1 => \A q \in todo : q.id = s.id => q.out <= Len(txn[s.id])
  BY <1>2 DEF IInv, UpdateReady
<1>4. Tuple(txn[r.id]) /\ n \in Nat /\ n >= 1 /\ r.out \in Nat \ {0}
  BY <1>1, <1>3, TupleDomain DEF IInv, IndexWellFormed
<1>5. Tuple(left) /\ Len(left) = IF r.out \in 1..n THEN n - 1 ELSE n
  BY <1>4, WithoutTuple
<1>6. txn' = IF left = <<>> THEN Drop(txn, {r.id}) ELSE Put(txn, r.id, left)
  BY <1>1 DEF WriteBack
<1>7. left = <<>> <=> Len(left) = 0
  BY <1>5, EmptySeq DEF Tuple
<1>8. ASSUME NEW s \in todo', s.id = r.id
      PROVE  s.out >= 2 /\ Len(left) >= 1
  <2>1. s \in todo /\ s # r
    BY <1>1, <1>8
  <2>2. s.out # r.out
    BY <1>3, <1>8, <2>1
  <2>3. s.out >= r.out + 1 /\ s.out \in Nat
    BY <1>1, <1>3, <1>4, <1>8, <2>1, <2>2
  <2>4. r.out = 1 => s.out <= n
    BY <1>3, <1>8, <2>1
  <2> HIDE DEF left, n
  <2> QED BY <1>4, <1>5, <2>3, <2>4
<1>9. IndexWellFormed'
  BY <1>2, <1>5, <1>6 DEF IInv, IndexWellFormed, Put, Drop, disk
<1>10. IndexStored'
  BY <1>1, <1>2, <1>6 DEF IInv, IndexStored, Put, Drop, disk, UsedIds, StoredTxs, TxsOf
<1>11. UpdateReady'
  <2>1. ASSUME NEW s \in todo'
        PROVE  /\ s.id \in DOMAIN txn' /\ s.out \in Nat \ {0} /\ s = [id |-> s.id, out |-> s.out]
               /\ Len(txn'[s.id]) >= 1
               /\ s.out = 1 => \A q \in todo' : q.id = s.id => q.out <= Len(txn'[s.id])
    <3>1. s \in todo /\ todo' \subseteq todo
      BY <1>1
    <3>2. CASE s.id = r.id
      <4>1. s.out >= 2 /\ Len(left) >= 1
        BY <1>8, <3>2
      <4>2. left # <<>>
        BY <4>1, <1>7
      <4>3. s.id \in DOMAIN txn' /\ txn'[s.id] = left
        BY <1>6, <4>2, <3>2 DEF Put
      <4> HIDE DEF left, n
      <4> QED BY <4>1, <4>3, <1>3, <3>1
    <3>3. CASE s.id # r.id
      <4>1. s.id \in DOMAIN txn' /\ txn'[s.id] = txn[s.id]
        BY <1>3, <1>6, <3>1, <3>3 DEF Put, Drop
      <4> HIDE DEF left, n
      <4> QED BY <4>1, <1>3, <3>1
    <3> QED BY <3>2, <3>3
  <2> QED BY <1>2, <2>1 DEF UpdateReady, disk
<1> QED
  BY <1>2, <1>9, <1>10, <1>11
  DEF IInv, BlocksWellFormed, PhaseAgrees, ChainLinked, WalkOnChain, disk

(* Indexing a transaction's outputs turns Update to the inputs of the next,*)
(* all of them in the index as Send read it.                               *)
LEMMA UpdateOutputsKeepsIInv ==
  ASSUME IInv, UpdateOutputs
  PROVE  IInv'
<1> DEFINE txs == blocks[cursor].txs
<1>1. /\ pc = "update" /\ todo = {} /\ cursor \in DOMAIN blocks /\ Len(txs) = 2 /\ pos \in 1..2
      /\ txn' = Put(txn, txs[pos].id, txs[pos].outs)
      /\ todo' = IF pos < 2 THEN Spend(txs[pos + 1]) ELSE {}
      /\ pos' = pos + 1
      /\ UNCHANGED <<disk, pc, cursor, spent, counts>>
  BY DEF UpdateOutputs, IInv, UpdateReady
<1>2. DOMAIN txs = 1..2 /\ Tuple(txs[pos].outs) /\ txs[pos].id \in UsedIds
  BY <1>1, TupleDomain, StoredIsUsed DEF IInv, BlocksWellFormed
<1>3. IndexWellFormed'
  BY <1>1, <1>2 DEF IInv, IndexWellFormed, Put, disk
<1>4. IndexStored'
  BY <1>1, <1>2 DEF IInv, IndexStored, Put, disk, UsedIds, StoredTxs, TxsOf
<1>5. UpdateReady'
  <2>1. CASE pos = 1
    <3>1. \A s \in todo' :
            s.id \in DOMAIN txn /\ s.id # txs[1].id /\ s.out \in DOMAIN txn[s.id]
            /\ s = [id |-> s.id, out |-> s.out]
      BY <1>1, <2>1 DEF IInv, UpdateReady
    <3>2. \A s \in todo' : s.id \in DOMAIN txn' /\ txn'[s.id] = txn[s.id]
      BY <1>1, <2>1, <3>1 DEF Put
    <3>3. \A s \in todo' : Len(txn[s.id]) \in Nat /\ DOMAIN txn[s.id] = 1..Len(txn[s.id])
      BY <3>1, TupleDomain DEF IInv, IndexWellFormed
    <3>4. ASSUME NEW s \in todo'
          PROVE  /\ s.id \in DOMAIN txn' /\ s.out \in Nat \ {0} /\ s = [id |-> s.id, out |-> s.out]
                 /\ Len(txn'[s.id]) >= 1
                 /\ s.out = 1 => \A q \in todo' : q.id = s.id => q.out <= Len(txn'[s.id])
      <4>1. s.out \in 1..Len(txn[s.id])
        BY <3>1, <3>3
      <4>2. \A q \in todo' : q.id = s.id => q.out \in 1..Len(txn[s.id])
        BY <3>1, <3>3
      <4>3. s.id \in DOMAIN txn' /\ Len(txn'[s.id]) = Len(txn[s.id]) /\ Len(txn[s.id]) \in Nat
        BY <3>2, <3>3
      <4>4. s.out \in Nat \ {0} /\ Len(txn'[s.id]) >= 1
        BY <4>1, <4>3
      <4>5. \A q \in todo' : q.id = s.id => q.out <= Len(txn'[s.id])
        BY <4>2, <4>3
      <4> QED BY <3>1, <4>3, <4>4, <4>5
    <3> QED BY <1>1, <2>1, <3>4 DEF UpdateReady, disk
  <2>2. CASE pos = 2
    BY <1>1, <2>2 DEF UpdateReady, disk
  <2> QED BY <1>1, <2>1, <2>2
<1> QED
  BY <1>1, <1>3, <1>4, <1>5
  DEF IInv, BlocksWellFormed, PhaseAgrees, ChainLinked, WalkOnChain, disk

-----------------------------------------------------------------------------
(* The results. *)

(* No step leaves the invariant. *)
LEMMA NextKeepsIInv == IInv /\ [Next]_vars => IInv'
<1> SUFFICES ASSUME IInv, [Next]_vars
             PROVE  IInv'
  OBVIOUS
<1>1. CASE CreateBlockChain \/ ReindexUTXO \/ DeleteByPrefix \/ StartWalk \/ UNCHANGED vars
  BY <1>1, ShrinkKeepsIInv
<1>2. CASE \E a \in Addresses : CommitGenesis(a)
  BY <1>2, GenesisKeepsIInv
<1>3. CASE WalkTx
  BY <1>3, WalkKeepsIInv
<1>4. CASE \E p \in Payments : Send(p)
  BY <1>4, SendKeepsIInv
<1>5. CASE UpdateInput
  BY <1>5, UpdateInputKeepsIInv
<1>6. CASE UpdateOutputs
  BY <1>6, UpdateOutputsKeepsIInv
<1>7. CASE WriteIndex \/ UpdateCommit \/ Crash
  <2>1. Exit /\ UNCHANGED <<dbExists, blocks, lastHash>> /\ (utxo' = utxo \/ utxo' = txn)
    BY <1>7 DEF WriteIndex, UpdateCommit, Crash, disk
  <2> QED BY <2>1, ExitKeepsIInv
<1>8. CASE ReadOnly
  BY <1>8, ShrinkKeepsIInv DEF ReadOnly
<1> QED BY <1>1, <1>2, <1>3, <1>4, <1>5, <1>6, <1>7, <1>8 DEF Next

(* The invariant holds in every state the commands, and crashes anywhere   *)
(* between their transactions, can reach.                                  *)
THEOREM LedgerInvariant == Spec => []IInv
BY InitIInv, NextKeepsIInv, PTL DEF Spec

(* "last-hash" always names the newest of one block per height, linked     *)
(* down to the genesis block.                                              *)
THEOREM ChainIsLinked == Spec => []ChainLinked
<1>1. IInv => ChainLinked
  BY DEF IInv
<1> QED BY <1>1, LedgerInvariant, PTL

(* Walking back from a linked chain's last block misses no block: among    *)
(* those a closed set would miss, the highest has a block after it.        *)
LEMMA LinkedHasNoOrphan == BlocksWellFormed /\ ChainLinked => NoOrphan
<1> SUFFICES ASSUME BlocksWellFormed, ChainLinked, lastHash # NoHash,
                    NEW h \in DOMAIN blocks, NEW S \in SUBSET DOMAIN blocks,
                    lastHash \in S,
                    \A g \in S : blocks[g].prev # NoHash => blocks[g].prev \in S,
                    h \notin S
             PROVE  FALSE
  BY DEF NoOrphan, OnChain
<1> DEFINE depth(g) == blocks[lastHash].height - blocks[g].height
           missed   == {depth(g) : g \in DOMAIN blocks \ S}
<1>1. \A g \in DOMAIN blocks : blocks[g].height \in Nat /\ depth(g) \in Nat
  BY DEF ChainLinked
<1>2. missed \in SUBSET Nat /\ missed # {}
  BY <1>1
<1>3. PICK d \in missed : \A e \in missed : d <= e
  <2> HIDE DEF missed
  <2> QED BY <1>2, LeastNatural
<1>4. PICK g \in DOMAIN blocks \ S : d = depth(g)
  BY <1>3
<1>5. PICK f \in DOMAIN blocks : blocks[f].prev = g
  BY <1>4 DEF ChainLinked
<1>6. blocks[f].height = blocks[g].height + 1 /\ blocks[f].prev # NoHash
  <2>1. g # NoHash
    BY <1>4, LedgerAssumption DEF BlocksWellFormed
  <2> QED BY <1>5, <2>1 DEF ChainLinked
<1>7. f \notin S
  BY <1>4, <1>5, <1>6
<1> QED
  <2>1. depth(f) \in missed
    BY <1>7
  <2>2. depth(f) = d - 1 /\ d \in Nat
    BY <1>1, <1>4, <1>6
  <2> HIDE DEF missed
  <2> QED BY <1>3, <2>1, <2>2

(* No stored block is out of the iterator's reach. *)
THEOREM NoBlockIsOrphan == Spec => []NoOrphan
<1>1. IInv => NoOrphan
  BY LinkedHasNoOrphan DEF IInv
<1> QED BY <1>1, LedgerInvariant, PTL

(* Every indexed id is that of a transaction FindTransaction finds. *)
THEOREM IndexIsOnChain == Spec => []IndexOnChain
<1>1. IInv => IndexOnChain
  <2> SUFFICES ASSUME IInv
               PROVE  IndexOnChain
    OBVIOUS
  <2>1. CASE lastHash = NoHash
    <3>1. UsedIds = {}
      BY <2>1 DEF IInv, ChainLinked, UsedIds, StoredTxs, TxsOf
    <3> QED BY <3>1 DEF IInv, IndexStored, IndexOnChain
  <2>2. CASE lastHash # NoHash
    <3>1. OnChain = DOMAIN blocks
      BY <2>2, LinkedHasNoOrphan DEF IInv, NoOrphan
    <3> QED BY <3>1 DEF IInv, IndexStored, IndexOnChain, UsedIds, StoredTxs
  <2> QED BY <2>1, <2>2
<1> QED BY <1>1, LedgerInvariant, PTL

(* Update finds the key of every input it removes: it cannot panic between *)
(* MineBlock's commit and its own.                                         *)
THEOREM UpdateAlwaysFindsInputs == Spec => []UpdateFindsInputs
<1>1. IInv => UpdateFindsInputs
  BY DEF IInv, UpdateReady, UpdateFindsInputs
<1> QED BY <1>1, LedgerInvariant, PTL

-----------------------------------------------------------------------------
(* Signing.  No entry of the index is longer than its transaction.         *)

(* FindUTXO's loop over the outputs of a transaction keeps some of them. *)
LEMMA CompactShorter ==
  ASSUME NEW s, Tuple(s), NEW gone
  PROVE  Len(Compact(s, gone)) \in Nat /\ Len(Compact(s, gone)) <= Len(s)
<1> DEFINE kept == DOMAIN s \ gone
<1>1. Len(s) \in Nat /\ DOMAIN s = 1..Len(s)
  BY TupleDomain
<1>2. IsFiniteSet(1..Len(s)) /\ Cardinality(1..Len(s)) = Len(s)
  <2>1. /\ IsFiniteSet(1..Len(s))
        /\ Cardinality(1..Len(s)) = IF 1 > Len(s) THEN 0 ELSE Len(s) - 1 + 1
    BY <1>1, FS_Interval
  <2> QED BY <1>1, <2>1
<1>3. /\ IsFiniteSet(kept) /\ Cardinality(kept) <= Len(s)
      /\ Cardinality(kept) \in Nat
  BY <1>1, <1>2, FS_Subset, FS_CardinalityType
<1>4. DOMAIN Compact(s, gone) = 1..Cardinality(kept)
  BY DEF Compact
<1>5. Len(Compact(s, gone)) \in Nat /\ DOMAIN Compact(s, gone) = 1..Len(Compact(s, gone))
  BY CompactTuple, TupleDomain
<1> HIDE DEF kept
<1> QED BY <1>3, <1>4, <1>5

(* Nothing of a single output is left out when nothing was spent. *)
LEMMA CompactOne == ASSUME NEW x PROVE Compact(<<x>>, {}) = <<x>>
<1>1. DOMAIN <<x>> \ {} = {1}
  OBVIOUS
<1>2. Cardinality({1}) = 1
  BY FS_Singleton
<1>3. {j \in {1} : j <= 1} = {1}
  OBVIOUS
<1>4. (CHOOSE i \in {1} : Cardinality({j \in {1} : j <= i}) = 1) = 1
  BY <1>2, <1>3
<1>5. Compact(<<x>>, {}) =
        [n \in 1..1 |-> <<x>>[CHOOSE i \in {1} : Cardinality({j \in {1} : j <= i}) = n]]
  <2>1. PICK K : K = DOMAIN <<x>> \ {}
    OBVIOUS
  <2>2. Compact(<<x>>, {}) =
          [n \in 1..Cardinality(K) |->
             <<x>>[CHOOSE i \in K : Cardinality({j \in K : j <= i}) = n]]
    BY <2>1 DEF Compact
  <2>3. K = {1}
    BY <1>1, <2>1
  <2> QED BY <1>2, <2>2, <2>3
<1>6. Compact(<<x>>, {}) = [n \in 1..1 |-> x]
  <2>1. \A n \in 1..1 :
          <<x>>[CHOOSE i \in {1} : Cardinality({j \in {1} : j <= i}) = n] = x
    <3> SUFFICES ASSUME NEW n \in 1..1
                 PROVE  <<x>>[CHOOSE i \in {1} : Cardinality({j \in {1} : j <= i}) = n] = x
      OBVIOUS
    <3>1. n = 1
      OBVIOUS
    <3> DEFINE at == CHOOSE i \in {1} : Cardinality({j \in {1} : j <= i}) = n
    <3>2. at = 1
      BY <1>4, <3>1
    <3> HIDE DEF at
    <3>3. <<x>>[at] = x
      BY <3>2
    <3> QED BY <3>3 DEF at
  <2> QED BY <1>5, <2>1
<1> QED BY <1>6

(* A block stored beside the others. *)
LEMMA BlocksGrow ==
  ASSUME NEW h, h \notin DOMAIN blocks, NEW b, blocks' = Put(blocks, h, b)
  PROVE  /\ DOMAIN blocks \subseteq DOMAIN blocks'
         /\ \A g \in DOMAIN blocks : blocks'[g] = blocks[g]
         /\ NoRepeat' => NoRepeat
<1>1. DOMAIN blocks \subseteq DOMAIN blocks' /\ \A g \in DOMAIN blocks : blocks'[g] = blocks[g]
  BY DEF Put
<1> QED BY <1>1 DEF NoRepeat

(* An empty database. *)
LEMMA InitSignInv == Init => SignInv
BY LedgerAssumption
   DEF Init, SignInv, MemoryAgrees, FirstWalk, WalkFresh, IndexFits, Fits, EmptyMap

(* Every command starts with an empty memory, and Exit empties it.  What   *)
(* DeleteByPrefix deletes is what its iterator has passed.                 *)
LEMMA NextKeepsMemory == IInv /\ MemoryAgrees /\ [Next]_vars => MemoryAgrees'
<1> SUFFICES ASSUME IInv, MemoryAgrees, [Next]_vars
             PROVE  MemoryAgrees'
  OBVIOUS
<1> USE DEF MemoryAgrees, disk, command, counts
<1>1. CASE CreateBlockChain \/ StartWalk \/ WalkTx
  BY <1>1 DEF CreateBlockChain, StartWalk, WalkTx
<1>2. CASE \E a \in Addresses : CommitGenesis(a)
  <2>1. UsedIds = {}
    BY <1>2 DEF CommitGenesis, IInv, PhaseAgrees, ChainLinked, UsedIds, StoredTxs, TxsOf
  <2>2. DOMAIN utxo = {} /\ DOMAIN txn = {}
    BY <2>1 DEF IInv, IndexStored
  <2> QED BY <1>2, <2>2 DEF CommitGenesis
<1>3. CASE \E p \in Payments : Send(p)
  BY <1>3 DEF Send, ContinueBlockChain
<1>4. CASE UpdateInput \/ UpdateOutputs
  BY <1>4 DEF UpdateInput, UpdateOutputs
<1>5. CASE WriteIndex \/ UpdateCommit
  BY <1>5 DEF WriteIndex, UpdateCommit, Exit, EmptyMap
<1>6. CASE Crash
  BY <1>6 DEF Crash, Exit, EmptyMap
<1>7. CASE ReadOnly \/ UNCHANGED vars
  BY <1>7 DEF ReadOnly, vars
<1>8. CASE ReindexUTXO
  BY <1>8, LedgerAssumption DEF ReindexUTXO, ContinueBlockChain
<1>9. CASE DeleteByPrefix
  <2>1. PICK keys \in SUBSET DOMAIN txn : utxo' = Drop(utxo, keys) /\ txn' = Drop(txn, keys)
    BY <1>9 DEF DeleteByPrefix, DeleteKeys, AheadOf
  <2>2. DOMAIN utxo' = DOMAIN utxo \ keys /\ DOMAIN txn' = DOMAIN txn \ keys
    BY <2>1 DEF Drop
  <2>3. pc = "delete" /\ UNCHANGED <<pc, spent, reindexes, crashes>>
    BY <1>9 DEF DeleteByPrefix
  <2> QED BY <2>2, <2>3
<1> QED BY <1>1, <1>2, <1>3, <1>4, <1>5, <1>6, <1>7, <1>8, <1>9 DEF Next

(* createblockchain's rebuild: an empty index, one transaction to meet. *)
LEMMA NextKeepsFirstWalk == IInv /\ MemoryAgrees /\ FirstWalk /\ [Next]_vars => FirstWalk'
<1> SUFFICES ASSUME IInv, MemoryAgrees, FirstWalk, [Next]_vars,
                    reindexes' = 0, pc' \in {"delete", "walk"}
             PROVE  FirstWalk'
  BY DEF FirstWalk
<1> USE DEF disk, command, counts
<1>1. CASE CreateBlockChain \/ ReindexUTXO
  BY <1>1 DEF CreateBlockChain, ReindexUTXO, MemoryAgrees
<1>2. ASSUME NEW a \in Addresses, CommitGenesis(a)
      PROVE  FirstWalk'
  <2> DEFINE txs == <<CoinbaseTx(FreshId, a)>>
  <2>1. /\ pc = "genesis" /\ pc' = "delete" /\ lastHash' = FreshHash
        /\ blocks' = Put(blocks, FreshHash, CreateBlock(txs, NoHash, 0))
        /\ FreshId \in TxIds
        /\ UNCHANGED <<utxo, cursor, txn, spent>>
    BY <1>2, FreshIdIsNew DEF CommitGenesis
  <2>2. DOMAIN blocks = {} /\ UsedIds = {}
    BY <2>1 DEF IInv, PhaseAgrees, ChainLinked, UsedIds, StoredTxs, TxsOf
  <2>3. DOMAIN utxo = {} /\ DOMAIN txn = {} /\ spent = {}
    BY <2>1, <2>2 DEF IInv, IndexStored, MemoryAgrees
  <2>4. DOMAIN blocks' = {lastHash'} /\ blocks'[lastHash'].prev = NoHash
        /\ blocks'[lastHash'].txs = txs
    <3> HIDE DEF txs
    <3> QED BY <2>1, <2>2 DEF Put, CreateBlock
  <2>5. ~ (pc' = "walk" /\ cursor' = NoHash)
    BY <2>1
  <2> HIDE DEF FirstWalk
  <2> QED BY <2>1, <2>3, <2>4, <2>5 DEF FirstWalk
<1>3. CASE DeleteByPrefix
  BY <1>3 DEF DeleteByPrefix, FirstWalk
<1>4. CASE StartWalk
  <2>1. cursor' # NoHash /\ pc = "delete"
    BY <1>4 DEF StartWalk, IInv, PhaseAgrees
  <2> QED BY <1>4, <2>1 DEF StartWalk, FirstWalk
<1>5. CASE WalkTx
  <2>1. PICK id \in TxIds, a \in Addresses :
          /\ blocks[lastHash].txs = <<CoinbaseTx(id, a)>>
          /\ DOMAIN txn = {} /\ spent = {}
    BY <1>5 DEF WalkTx, FirstWalk
  <2>2. cursor = lastHash /\ DOMAIN blocks = {lastHash} /\ blocks[lastHash].prev = NoHash
        /\ DOMAIN utxo = {} /\ pc = "walk" /\ cursor # NoHash /\ pos \in DOMAIN blocks[cursor].txs
    BY <1>5 DEF WalkTx, FirstWalk, IInv, WalkOnChain
  <2> DEFINE tx == CoinbaseTx(id, a)
  <2>3. pos = 1 /\ blocks[cursor].txs[pos] = tx /\ Len(blocks[cursor].txs) = 1
    <3>1. blocks[cursor].txs = <<tx>>
      BY <2>1, <2>2
    <3> HIDE DEF tx
    <3> QED BY <2>2, <3>1
  <2>4. tx.id = id /\ tx.outs = <<Output(Subsidy, a)>>
    BY DEF CoinbaseTx
  <2>5. {r.out : r \in {s \in spent : s.id = tx.id}} = {}
    BY <2>1
  <2>6. Compact(tx.outs, {}) = <<Output(Subsidy, a)>>
    BY <2>4, CompactOne
  <2>7. /\ txn' = Put(txn, id, <<>> \o <<Output(Subsidy, a)>>)
        /\ cursor' = NoHash /\ pc' = pc /\ UNCHANGED disk
    <3> DEFINE left == Compact(tx.outs, {r.out : r \in {s \in spent : s.id = tx.id}})
               had  == IF tx.id \in DOMAIN txn THEN txn[tx.id] ELSE <<>>
    <3>1. left = <<Output(Subsidy, a)>> /\ had = <<>> /\ left # <<>>
      <4>1. left = Compact(tx.outs, {})
        <5> HIDE DEF tx
        <5> QED BY <2>5
      <4>2. <<Output(Subsidy, a)>> # <<>>
        OBVIOUS
      <4> HIDE DEF tx, left
      <4> QED BY <2>1, <2>6, <4>1, <4>2
    <3>2. /\ txn' = IF left = <<>> THEN txn ELSE Put(txn, tx.id, had \o left)
          /\ cursor' = IF pos < 1 THEN cursor ELSE blocks[cursor].prev
          /\ pc' = pc /\ UNCHANGED disk
      <4> HIDE DEF tx
      <4> QED BY <1>5, <2>3 DEF WalkTx
    <3> HIDE DEF tx, left, had
    <3> QED BY <2>2, <2>3, <2>4, <3>1, <3>2
  <2>8. txn' = Put(EmptyMap, id, <<Output(Subsidy, a)>>)
    <3>1. <<>> \o <<Output(Subsidy, a)>> = <<Output(Subsidy, a)>>
      OBVIOUS
    <3>2. ASSUME NEW v PROVE Put(txn, id, v) = Put(EmptyMap, id, v)
      BY <2>1 DEF Put, EmptyMap
    <3> QED BY <2>7, <3>1, <3>2
  <2> QED BY <2>1, <2>2, <2>7, <2>8 DEF FirstWalk
<1>6. CASE WriteIndex \/ UpdateCommit \/ Crash \/ \E p \in Payments : Send(p)
  BY <1>6 DEF WriteIndex, UpdateCommit, Crash, Send, Exit
<1>7. CASE UpdateInput \/ UpdateOutputs
  BY <1>7 DEF UpdateInput, UpdateOutputs
<1>8. CASE ReadOnly \/ UNCHANGED vars
  BY <1>8 DEF ReadOnly, vars, FirstWalk
<1> QED BY <1>1, <1>2, <1>3, <1>4, <1>5, <1>6, <1>7, <1>8 DEF Next

(* The walk meets no id twice while no id is on the chain twice. *)
LEMMA NextKeepsWalkFresh == IInv /\ MemoryAgrees /\ WalkFresh /\ [Next]_vars => WalkFresh'
<1> SUFFICES ASSUME IInv, MemoryAgrees, WalkFresh, [Next]_vars,
                    pc' = "walk", NoRepeat', cursor' # NoHash,
                    NEW h \in DOMAIN blocks', NEW i \in DOMAIN blocks'[h].txs,
                    blocks'[h].height < blocks'[cursor'].height \/ (h = cursor' /\ i >= pos')
             PROVE  blocks'[h].txs[i].id \notin DOMAIN txn'
  BY DEF WalkFresh
<1> USE DEF disk, command, counts
<1>1. CASE StartWalk
  BY <1>1 DEF StartWalk, MemoryAgrees
<1>2. CASE WalkTx
  <2> DEFINE b  == blocks[cursor]
             tx == b.txs[pos]
  <2>1. /\ pc = "walk" /\ cursor # NoHash /\ cursor \in DOMAIN blocks /\ pos \in DOMAIN b.txs
        /\ DOMAIN txn' \subseteq DOMAIN txn \cup {tx.id}
        /\ cursor' = IF pos < Len(b.txs) THEN cursor ELSE b.prev
        /\ pos' = IF pos < Len(b.txs) THEN pos + 1 ELSE 1
        /\ UNCHANGED <<blocks, lastHash>>
    BY <1>2 DEF WalkTx, IInv, WalkOnChain, Put
  <2>2. /\ Len(b.txs) \in Nat /\ DOMAIN b.txs = 1..Len(b.txs)
        /\ h \in DOMAIN blocks /\ DOMAIN blocks[h].txs = 1..Len(blocks[h].txs) /\ i \in Nat
    BY <2>1, TupleDomain DEF IInv, BlocksWellFormed
  <2>3. blocks[h].height \in Nat /\ b.height \in Nat
    BY <2>1, <2>2 DEF IInv, ChainLinked
  <2>4. (blocks[h].height < b.height \/ (h = cursor /\ i >= pos)) /\ ~ (h = cursor /\ i = pos)
    <3>1. CASE pos < Len(b.txs)
      <4>1. cursor' = cursor /\ pos' = pos + 1 /\ pos \in Nat
        BY <2>1, <2>2, <3>1
      <4> QED BY <4>1, <2>1, <2>2, <2>3
    <3>2. CASE ~ (pos < Len(b.txs))
      <4>1. cursor' = b.prev /\ pos' = 1
        BY <2>1, <3>2
      <4>2. cursor' \in DOMAIN blocks /\ b.height = blocks[cursor'].height + 1
            /\ blocks[cursor'].height \in Nat
        BY <2>1, <4>1 DEF IInv, ChainLinked
      <4>3. blocks[h].height <= blocks[cursor'].height
        BY <2>1, <2>3, <4>2
      <4> QED BY <2>3, <4>2, <4>3
    <3> QED BY <3>1, <3>2
  <2>5. NoRepeat
    BY <2>1 DEF NoRepeat
  <2>6. blocks[h].txs[i].id \notin DOMAIN txn
    BY <2>1, <2>2, <2>4, <2>5 DEF WalkFresh
  <2>7. blocks[h].txs[i].id # tx.id
    BY <2>1, <2>2, <2>4, <2>5 DEF NoRepeat
  <2> HIDE DEF b, tx
  <2> QED BY <2>1, <2>6, <2>7
<1>3. CASE CreateBlockChain \/ ReindexUTXO \/ \E a \in Addresses : CommitGenesis(a)
  BY <1>3 DEF CreateBlockChain, ReindexUTXO, CommitGenesis
<1>4. CASE WriteIndex \/ UpdateCommit \/ Crash \/ \E p \in Payments : Send(p)
  BY <1>4 DEF WriteIndex, UpdateCommit, Crash, Send, Exit
<1>5. CASE DeleteByPrefix \/ UpdateInput \/ UpdateOutputs
  BY <1>5 DEF DeleteByPrefix, UpdateInput, UpdateOutputs
<1>6. CASE ReadOnly \/ UNCHANGED vars
  <2>1. UNCHANGED <<blocks, txn, pc, cursor, pos>>
    BY <1>6 DEF ReadOnly, vars
  <2>2. NoRepeat
    BY <2>1 DEF NoRepeat
  <2> QED BY <2>1, <2>2 DEF WalkFresh
<1> QED BY <1>1, <1>2, <1>3, <1>4, <1>5, <1>6 DEF Next

(* Entries of the index are bounded by the outputs they were made from. *)
LEMMA NextKeepsFits == IInv /\ SignInv /\ [Next]_vars => IndexFits'
<1> SUFFICES ASSUME IInv, SignInv, [Next]_vars, reindexes' = 0 \/ NoRepeat'
             PROVE  Fits(utxo)' /\ Fits(txn)'
  BY DEF IndexFits
<1> USE DEF disk, command, counts
<1>1. ASSUME UNCHANGED blocks, reindexes' = reindexes
      PROVE  (reindexes = 0 \/ NoRepeat) /\ Fits(utxo) /\ Fits(txn)
  <2>1. reindexes = 0 \/ NoRepeat
    BY <1>1 DEF NoRepeat
  <2> QED BY <2>1 DEF SignInv, IndexFits
<1>2. CASE CreateBlockChain \/ StartWalk \/ ReadOnly \/ UNCHANGED vars
  <2>1. UNCHANGED <<blocks, utxo, txn, reindexes>>
    BY <1>2 DEF CreateBlockChain, StartWalk, ReadOnly, vars
  <2> QED BY <1>1, <2>1 DEF Fits
<1>3. CASE ReindexUTXO
  <2>1. reindexes' # 0 /\ UNCHANGED <<blocks, utxo>> /\ txn' = utxo
    BY <1>3 DEF ReindexUTXO, SignInv, MemoryAgrees
  <2>2. NoRepeat
    BY <2>1 DEF NoRepeat
  <2> QED BY <2>1, <2>2 DEF SignInv, IndexFits, Fits
<1>4. CASE DeleteByPrefix
  <2>1. UNCHANGED <<blocks, reindexes>>
    BY <1>4 DEF DeleteByPrefix
  <2>2. Fits(utxo) /\ Fits(txn)
    BY <1>1, <2>1
  <2>3. DOMAIN utxo' \subseteq DOMAIN utxo /\ \A id \in DOMAIN utxo' : utxo'[id] = utxo[id]
    BY <1>4 DEF DeleteByPrefix, DeleteKeys, Drop
  <2>4. DOMAIN txn' \subseteq DOMAIN txn /\ \A id \in DOMAIN txn' : txn'[id] = txn[id]
    BY <1>4 DEF DeleteByPrefix, AheadOf, Drop
  <2>5. Fits(utxo)'
    BY <2>1, <2>2, <2>3 DEF Fits
  <2>6. Fits(txn)'
    BY <2>1, <2>2, <2>4 DEF Fits
  <2> QED BY <2>5, <2>6
<1>5. CASE WriteIndex \/ UpdateCommit \/ Crash
  <2>1. UNCHANGED <<blocks, reindexes>> /\ (utxo' = utxo \/ utxo' = txn) /\ DOMAIN txn' = {}
    BY <1>5 DEF WriteIndex, UpdateCommit, Crash, Exit, EmptyMap
  <2> QED BY <1>1, <2>1 DEF Fits
<1>6. ASSUME NEW b, Hashes \ DOMAIN blocks # {}, blocks' = Put(blocks, FreshHash, b),
             UNCHANGED <<utxo, reindexes>>, txn' = utxo \/ txn' = txn
      PROVE  Fits(utxo)' /\ Fits(txn)'
  <2>1. /\ DOMAIN blocks \subseteq DOMAIN blocks'
        /\ \A g \in DOMAIN blocks : blocks'[g] = blocks[g]
        /\ NoRepeat' => NoRepeat
    BY <1>6, FreshHashIsNew, BlocksGrow
  <2>2. Fits(utxo) /\ Fits(txn)
    BY <1>6, <2>1 DEF SignInv, IndexFits
  <2> QED BY <1>6, <2>1, <2>2 DEF Fits
<1>7. CASE \E a \in Addresses : CommitGenesis(a)
  BY <1>6, <1>7 DEF CommitGenesis
<1>8. CASE \E p \in Payments : Send(p)
  BY <1>6, <1>8 DEF Send, MineBlock
<1>9. CASE WalkTx
  <2> DEFINE tx   == blocks[cursor].txs[pos]
             left == Compact(tx.outs, {r.out : r \in {s \in spent : s.id = tx.id}})
             had  == IF tx.id \in DOMAIN txn THEN txn[tx.id] ELSE <<>>
  <2>1. /\ pc = "walk" /\ cursor # NoHash
        /\ cursor \in DOMAIN blocks /\ pos \in DOMAIN blocks[cursor].txs
        /\ txn' = (IF left = <<>> THEN txn ELSE Put(txn, tx.id, had \o left))
        /\ UNCHANGED <<blocks, utxo, reindexes>>
    BY <1>9 DEF WalkTx, IInv, WalkOnChain
  <2>2. Fits(utxo) /\ Fits(txn)
    BY <1>1, <2>1
  <2>3. Tuple(tx.outs)
    BY <2>1 DEF IInv, BlocksWellFormed
  <2>4. Tuple(left) /\ Len(left) <= Len(tx.outs)
    BY <2>3, CompactTuple, CompactShorter
  <2>5. blocks[cursor].height \in Nat /\ pos \in Nat
    BY <2>1, TupleDomain DEF IInv, ChainLinked, BlocksWellFormed
  <2>6. tx.id \notin DOMAIN txn
    <3>1. CASE NoRepeat
      BY <2>1, <2>5, <3>1 DEF SignInv, WalkFresh
    <3>2. CASE reindexes = 0
      BY <2>1, <3>2 DEF SignInv, FirstWalk
    <3> QED BY <1>1, <2>1, <3>1, <3>2
  <2>7. had \o left = left
    <3>1. had = <<>>
      BY <2>6
    <3> HIDE DEF left, had
    <3> QED BY <2>4, <3>1 DEF Tuple
  <2>8. Fits(txn')
    <3> SUFFICES ASSUME NEW id \in DOMAIN txn'
                 PROVE  \E h \in DOMAIN blocks : \E i \in DOMAIN blocks[h].txs :
                          /\ blocks[h].txs[i].id = id
                          /\ Len(txn'[id]) <= Len(blocks[h].txs[i].outs)
      BY DEF Fits
    <3>1. CASE id \in DOMAIN txn
      <4>1. txn'[id] = txn[id]
        <5> HIDE DEF tx, left, had
        <5> QED BY <2>1, <2>6, <3>1 DEF Put
      <4> QED BY <2>2, <3>1, <4>1 DEF Fits
    <3>2. CASE id \notin DOMAIN txn
      <4>1. id = tx.id /\ txn'[id] = left
        <5> HIDE DEF tx, left, had
        <5> QED BY <2>1, <2>7, <3>2 DEF Put
      <4> HIDE DEF left
      <4> QED BY <2>1, <2>4, <4>1
    <3> QED BY <3>1, <3>2
  <2> QED BY <2>1, <2>2, <2>8 DEF Fits
<1>10. CASE UpdateInput
  <2>1. PICK r \in todo :
          /\ r.id \in DOMAIN txn
          /\ txn' = WriteBack(r.id, Without(txn[r.id], r.out))
    BY <1>10 DEF UpdateInput
  <2> DEFINE left == Without(txn[r.id], r.out)
  <2>2. Fits(utxo) /\ Fits(txn) /\ UNCHANGED <<blocks, utxo, reindexes>>
    BY <1>1, <1>10 DEF UpdateInput
  <2>3. Len(txn[r.id]) \in Nat /\ Len(left) <= Len(txn[r.id]) /\ Len(left) \in Nat
    <3>1. Tuple(txn[r.id]) /\ r.out \in Nat
      BY <1>10, <2>1 DEF UpdateInput, IInv, IndexWellFormed, UpdateReady
    <3>2. Len(txn[r.id]) \in Nat /\ Tuple(left)
          /\ Len(left) = IF r.out \in 1..Len(txn[r.id]) THEN Len(txn[r.id]) - 1 ELSE Len(txn[r.id])
      BY <3>1, TupleDomain, WithoutTuple
    <3>3. Len(left) \in Nat
      BY <3>2, TupleDomain
    <3> HIDE DEF left
    <3> QED BY <3>2, <3>3
  <2>4. ASSUME NEW id \in DOMAIN txn'
        PROVE  id \in DOMAIN txn /\ (txn'[id] = txn[id] \/ (id = r.id /\ txn'[id] = left))
    <3> HIDE DEF left
    <3> QED BY <2>1, <2>4 DEF WriteBack, Put, Drop, left
  <2>5. \A h \in DOMAIN blocks : \A i \in DOMAIN blocks[h].txs : Len(blocks[h].txs[i].outs) \in Nat
    BY TupleDomain DEF IInv, BlocksWellFormed
  <2>6. Fits(txn')
    <3> SUFFICES ASSUME NEW id \in DOMAIN txn'
                 PROVE  \E h \in DOMAIN blocks : \E i \in DOMAIN blocks[h].txs :
                          /\ blocks[h].txs[i].id = id
                          /\ Len(txn'[id]) <= Len(blocks[h].txs[i].outs)
      BY DEF Fits
    <3>1. PICK h \in DOMAIN blocks : \E i \in DOMAIN blocks[h].txs :
            blocks[h].txs[i].id = id /\ Len(txn[id]) <= Len(blocks[h].txs[i].outs)
      BY <2>2, <2>4 DEF Fits
    <3>2. PICK i \in DOMAIN blocks[h].txs :
            blocks[h].txs[i].id = id /\ Len(txn[id]) <= Len(blocks[h].txs[i].outs)
      BY <3>1
    <3> HIDE DEF left
    <3>3. Len(txn'[id]) <= Len(blocks[h].txs[i].outs)
      BY <2>3, <2>4, <2>5, <3>2
    <3> QED BY <3>2, <3>3
  <2> QED BY <2>2, <2>6 DEF Fits
<1>11. CASE UpdateOutputs
  <2> DEFINE tx == blocks[cursor].txs[pos]
  <2>1. Fits(utxo) /\ Fits(txn) /\ UNCHANGED <<blocks, utxo, reindexes>>
        /\ txn' = Put(txn, tx.id, tx.outs)
    BY <1>1, <1>11 DEF UpdateOutputs
  <2>2. cursor \in DOMAIN blocks /\ pos \in DOMAIN blocks[cursor].txs
    <3>1. cursor \in DOMAIN blocks /\ pos \in 1..3 /\ pos <= Len(blocks[cursor].txs)
      BY <1>11 DEF UpdateOutputs, IInv, UpdateReady
    <3>2. DOMAIN blocks[cursor].txs = 1..Len(blocks[cursor].txs)
      BY <3>1, TupleDomain DEF IInv, BlocksWellFormed
    <3>3. Len(blocks[cursor].txs) \in Nat
      BY <3>1, TupleDomain DEF IInv, BlocksWellFormed
    <3> QED BY <3>1, <3>2, <3>3
  <2>3. Len(tx.outs) \in Nat
    BY <2>2, TupleDomain DEF IInv, BlocksWellFormed
  <2>4. Fits(txn')
    <3> SUFFICES ASSUME NEW id \in DOMAIN txn'
                 PROVE  \E h \in DOMAIN blocks : \E i \in DOMAIN blocks[h].txs :
                          /\ blocks[h].txs[i].id = id
                          /\ Len(txn'[id]) <= Len(blocks[h].txs[i].outs)
      BY DEF Fits
    <3>1. CASE id = tx.id
      <4>1. txn'[id] = tx.outs
        BY <2>1, <3>1 DEF Put
      <4> QED BY <2>2, <2>3, <3>1, <4>1
    <3>2. CASE id # tx.id
      BY <2>1, <3>2 DEF Put, Fits
    <3> QED BY <3>1, <3>2
  <2> QED BY <2>1, <2>4 DEF Fits
<1> QED BY <1>2, <1>3, <1>4, <1>5, <1>7, <1>8, <1>9, <1>10, <1>11 DEF Next

(* The walk and the index agree with the transactions they come from. *)
LEMMA NextKeepsSignInv == IInv /\ SignInv /\ [Next]_vars => SignInv'
BY NextKeepsMemory, NextKeepsFirstWalk, NextKeepsWalkFresh, NextKeepsFits DEF SignInv

(* Every input a payment may select is one SignTransaction can look up, of *)
(* an index that was never rebuilt, whatever was killed and sent again, or *)
(* of a chain that has no transaction twice, however often it was rebuilt. *)
(* A rebuild of a chain with one twice is not covered: there it is false.  *)
THEOREM SelectionIsSignable == Spec => []SelectedIsSignable
<1>1. IInv /\ SignInv => SelectedIsSignable
  <2> SUFFICES ASSUME IInv, SignInv, lastHash # NoHash, reindexes = 0 \/ NoRepeat,
                      NEW p \in Payments,
                      NEW ins \in FindSpendableOutputs(utxo, p.from, p.amount),
                      NEW r \in ins
               PROVE  \E tx \in TxsOf(OnChain) : tx.id = r.id /\ r.out \in DOMAIN tx.outs
    BY DEF SelectedIsSignable, SignTransaction
  <2>1. r.id \in DOMAIN utxo /\ r.out \in DOMAIN utxo[r.id]
    BY SelectionIsIndexed
  <2>2. PICK h \in DOMAIN blocks : \E i \in DOMAIN blocks[h].txs :
          blocks[h].txs[i].id = r.id /\ Len(utxo[r.id]) <= Len(blocks[h].txs[i].outs)
    BY <2>1 DEF SignInv, IndexFits, Fits
  <2>3. PICK i \in DOMAIN blocks[h].txs :
          blocks[h].txs[i].id = r.id /\ Len(utxo[r.id]) <= Len(blocks[h].txs[i].outs)
    BY <2>2
  <2> DEFINE tx == blocks[h].txs[i]
  <2>4. /\ DOMAIN utxo[r.id] = 1..Len(utxo[r.id]) /\ Len(utxo[r.id]) \in Nat
        /\ DOMAIN tx.outs = 1..Len(tx.outs) /\ Len(tx.outs) \in Nat
    BY <2>1, TupleDomain DEF IInv, IndexWellFormed, BlocksWellFormed
  <2>5. r.out \in DOMAIN tx.outs
    <3> HIDE DEF tx
    <3> QED BY <2>1, <2>3, <2>4 DEF tx
  <2>6. h \in OnChain
    BY LinkedHasNoOrphan DEF IInv, NoOrphan
  <2> QED BY <2>3, <2>5, <2>6 DEF TxsOf
<1>2. Spec => [](IInv /\ SignInv)
  BY InitIInv, NextKeepsIInv, InitSignInv, NextKeepsSignInv, PTL DEF Spec
<1> QED BY <1>1, <1>2, PTL

-----------------------------------------------------------------------------
(* Sums.  Worth folds over a set; what it computes is shown by induction   *)
(* on the set, in the form of a smallest counterexample.                   *)

(* Among finite sets there is one that contains no other of them. *)
LEMMA SmallestSet ==
  ASSUME NEW F, F # {}, \A T \in F : IsFiniteSet(T)
  PROVE  \E T \in F : \A U \in SUBSET T : U # T => U \notin F
<1> DEFINE sizes == {Cardinality(T) : T \in F}
<1>1. sizes \in SUBSET Nat /\ sizes # {}
  BY FS_CardinalityType
<1>2. PICK d \in sizes : \A e \in sizes : d <= e
  <2> HIDE DEF sizes
  <2> QED BY <1>1, LeastNatural
<1>3. PICK T \in F : d = Cardinality(T)
  BY <1>2
<1>4. ASSUME NEW U \in SUBSET T, U # T, U \in F
      PROVE  FALSE
  <2>1. /\ IsFiniteSet(T)
        /\ Cardinality(U) <= Cardinality(T) /\ Cardinality(U) # Cardinality(T)
    BY <1>3, <1>4, FS_Subset
  <2>2. Cardinality(U) \in Nat /\ Cardinality(T) \in Nat /\ Cardinality(T) <= Cardinality(U)
    BY <1>1, <1>2, <1>3, <1>4
  <2> QED BY <2>1, <2>2
<1> QED BY <1>4

Value(u, r) == u[r.id][r.out].val
Some(s) == CHOOSE r \in s : TRUE

(* g holds the sum over each subset of S, as the fold defines it. *)
SumsUp(u, S, g) ==
  g = [s \in SUBSET S |->
         IF s = {} THEN 0 ELSE Value(u, Some(s)) + g[s \ {Some(s)}]]

(* The definition, in these terms. *)
LEMMA WorthIsSum ==
  ASSUME NEW u, NEW S
  PROVE  Worth(u, S) = (CHOOSE g : SumsUp(u, S, g))[S]
BY DEF Worth, MapThenSumSet, MapThenFoldSet, SumsUp, Value, Some

(* There is at most one such function. *)
LEMMA SumsAreUnique ==
  ASSUME NEW u, NEW S, IsFiniteSet(S), NEW g, NEW h, SumsUp(u, S, g), SumsUp(u, S, h)
  PROVE  g = h
<1>1. /\ DOMAIN g = SUBSET S /\ DOMAIN h = SUBSET S
      /\ g = [s \in SUBSET S |-> g[s]] /\ h = [s \in SUBSET S |-> h[s]]
  BY Zenon DEF SumsUp
<1>2. SUFFICES ASSUME NEW s0 \in SUBSET S, g[s0] # h[s0]
               PROVE  FALSE
  BY <1>1
<1> DEFINE F == {s \in SUBSET S : g[s] # h[s]}
<1>3. PICK s \in F : \A t \in SUBSET s : t # s => t \notin F
  <2>1. F # {} /\ \A t \in F : IsFiniteSet(t)
    BY <1>2, FS_Subset
  <2> HIDE DEF F
  <2> QED BY <2>1, SmallestSet
<1>4. s # {}
  BY <1>3 DEF SumsUp
<1>5. Some(s) \in s
  BY <1>4 DEF Some
<1>6. g[s \ {Some(s)}] = h[s \ {Some(s)}]
  BY <1>3, <1>5
<1>7. g[s] = Value(u, Some(s)) + g[s \ {Some(s)}] /\ h[s] = Value(u, Some(s)) + h[s \ {Some(s)}]
  BY <1>3, <1>4 DEF SumsUp
<1> QED BY <1>3, <1>6, <1>7

(* What holds the sums over the subsets of S holds those over a part of S. *)
LEMMA SumsRestrict ==
  ASSUME NEW u, NEW S, NEW T \in SUBSET S, NEW g, SumsUp(u, S, g)
  PROVE  SumsUp(u, T, [s \in SUBSET T |-> g[s]])
<1> DEFINE h == [s \in SUBSET T |-> g[s]]
<1>1. ASSUME NEW s \in SUBSET T
      PROVE  h[s] = IF s = {} THEN 0 ELSE Value(u, Some(s)) + h[s \ {Some(s)}]
  <2>1. g[s] = IF s = {} THEN 0 ELSE Value(u, Some(s)) + g[s \ {Some(s)}]
    <3>1. s \in SUBSET S
      OBVIOUS
    <3> QED BY <3>1, Zenon DEF SumsUp
  <2>2. h[s] = g[s] /\ h[s \ {Some(s)}] = g[s \ {Some(s)}]
    OBVIOUS
  <2> QED BY <2>1, <2>2
<1>2. h = [s \in SUBSET T |-> IF s = {} THEN 0 ELSE Value(u, Some(s)) + h[s \ {Some(s)}]]
  <2>1. h = [s \in SUBSET T |-> h[s]]
    OBVIOUS
  <2> HIDE DEF h
  <2> QED BY <1>1, <2>1
<1> QED BY <1>2 DEF SumsUp

(* Every finite set has its sums. *)
LEMMA SumsExist ==
  ASSUME NEW u, NEW S, IsFiniteSet(S)
  PROVE  \E g : SumsUp(u, S, g)
<1> SUFFICES ASSUME ~ \E g : SumsUp(u, S, g)
             PROVE  FALSE
  OBVIOUS
<1> DEFINE F == {s \in SUBSET S : ~ \E g : SumsUp(u, s, g)}
<1>1. PICK T \in F : \A t \in SUBSET T : t # T => t \notin F
  <2>1. F # {} /\ \A t \in F : IsFiniteSet(t)
    <3>1. S \in F
      OBVIOUS
    <3> QED BY <3>1, FS_Subset
  <2> HIDE DEF F
  <2> QED BY <2>1, SmallestSet
<1>2. T \in SUBSET S /\ IsFiniteSet(T) /\ ~ \E g : SumsUp(u, T, g)
  BY <1>1, FS_Subset
<1> DEFINE sums(t) == CHOOSE g : SumsUp(u, t, g)
           h == [s \in SUBSET T |->
                   IF s = {} THEN 0
                   ELSE Value(u, Some(s)) + sums(s \ {Some(s)})[s \ {Some(s)}]]
<1>3. \A t \in SUBSET T : t # T => SumsUp(u, t, sums(t))
  BY <1>1, <1>2
<1>4. ASSUME NEW U \in SUBSET T, U # T
      PROVE  h[U] = sums(U)[U]
  <2>1. SumsUp(u, U, sums(U))
    BY <1>3, <1>4
  <2>2. sums(U)[U] = IF U = {} THEN 0 ELSE Value(u, Some(U)) + sums(U)[U \ {Some(U)}]
    <3> HIDE DEF sums
    <3>1. U \in SUBSET U
      OBVIOUS
    <3> QED BY <2>1, <3>1, Zenon DEF SumsUp
  <2>3. h[U] = IF U = {} THEN 0
               ELSE Value(u, Some(U)) + sums(U \ {Some(U)})[U \ {Some(U)}]
    <3> HIDE DEF sums
    <3> QED OBVIOUS
  <2>4. sums(U)[U \ {Some(U)}] = sums(U \ {Some(U)})[U \ {Some(U)}]
    <3> DEFINE W == U \ {Some(U)}
    <3>0. W \in SUBSET U
      OBVIOUS
    <3>1. SumsUp(u, W, [s \in SUBSET W |-> sums(U)[s]])
      <4> HIDE DEF sums, W
      <4> QED BY <2>1, <3>0, SumsRestrict
    <3>2. SumsUp(u, W, sums(W))
      BY <1>3, <1>4
    <3>3. IsFiniteSet(W)
      BY <1>2, FS_Subset
    <3>4. [s \in SUBSET W |-> sums(U)[s]] = sums(W)
      <4> HIDE DEF sums, W
      <4> QED BY <3>1, <3>2, <3>3, SumsAreUnique
    <3>5. W \in SUBSET W
      OBVIOUS
    <3> HIDE DEF sums
    <3>6. [s \in SUBSET W |-> sums(U)[s]][W] = sums(U)[W]
      BY <3>5
    <3> QED BY <3>4, <3>6
  <2> HIDE DEF h, sums
  <2> QED BY <2>2, <2>3, <2>4
<1>5. SumsUp(u, T, h)
  <2>1. ASSUME NEW s \in SUBSET T, s # {}
        PROVE  h[s \ {Some(s)}] = sums(s \ {Some(s)})[s \ {Some(s)}]
    <3>1. Some(s) \in s
      BY <2>1 DEF Some
    <3>2. s \ {Some(s)} \in SUBSET T /\ s \ {Some(s)} # T
      BY <3>1
    <3> HIDE DEF h, sums
    <3> QED BY <3>2, <1>4
  <2>2. h = [s \in SUBSET T |-> IF s = {} THEN 0 ELSE Value(u, Some(s)) + h[s \ {Some(s)}]]
    <3> DEFINE new(s) == Value(u, Some(s)) + h[s \ {Some(s)}]
               old(s) == Value(u, Some(s)) + sums(s \ {Some(s)})[s \ {Some(s)}]
    <3>1. \A s \in SUBSET T : s # {} => new(s) = old(s)
      BY <2>1
    <3>2. h = [s \in SUBSET T |-> IF s = {} THEN 0 ELSE old(s)]
      OBVIOUS
    <3>3. \A s \in SUBSET T :
            (IF s = {} THEN 0 ELSE old(s)) = (IF s = {} THEN 0 ELSE new(s))
      <4> HIDE DEF h, sums, new, old
      <4> QED BY <3>1
    <3>4. h = [s \in SUBSET T |-> IF s = {} THEN 0 ELSE new(s)]
      <4> HIDE DEF h, sums, new, old
      <4> QED BY <3>2, <3>3
    <3> HIDE DEF h
    <3> QED BY <3>4
  <2> HIDE DEF h
  <2> QED BY <2>2 DEF SumsUp
<1> QED BY <1>2, <1>5

(* What the fold computes. *)
LEMMA WorthDef ==
  ASSUME NEW u, NEW S, IsFiniteSet(S)
  PROVE  Worth(u, S) = IF S = {} THEN 0
                       ELSE Value(u, Some(S)) + Worth(u, S \ {Some(S)})
<1> DEFINE W == S \ {Some(S)}
           g == CHOOSE h : SumsUp(u, S, h)
           k == CHOOSE h : SumsUp(u, W, h)
<1>1. SumsUp(u, S, g)
  BY SumsExist
<1>2. W \in SUBSET S /\ IsFiniteSet(W)
  BY FS_Subset
<1>3. SumsUp(u, W, k)
  <2> HIDE DEF W
  <2> QED BY <1>2, SumsExist
<1>4. Worth(u, S) = g[S] /\ Worth(u, W) = k[W]
  BY WorthIsSum
<1> HIDE DEF g, k
<1>5. [s \in SUBSET W |-> g[s]] = k
  <2> HIDE DEF W
  <2>1. SumsUp(u, W, [s \in SUBSET W |-> g[s]])
    BY <1>1, <1>2, SumsRestrict
  <2> QED BY <2>1, <1>2, <1>3, SumsAreUnique
<1>6. k[W] = g[W]
  <2>1. W \in SUBSET W
    OBVIOUS
  <2> HIDE DEF W
  <2> QED BY <1>5, <2>1
<1>7. g[S] = IF S = {} THEN 0 ELSE Value(u, Some(S)) + g[W]
  <2>1. S \in SUBSET S
    OBVIOUS
  <2> QED BY <1>1, <2>1, Zenon DEF SumsUp
<1> HIDE DEF W
<1>8. Worth(u, S) = IF S = {} THEN 0 ELSE Value(u, Some(S)) + Worth(u, W)
  BY <1>4, <1>6, <1>7
<1> QED BY <1>8 DEF W

(* Nothing is worth nothing. *)
LEMMA WorthOfNone == ASSUME NEW u PROVE Worth(u, {}) = 0
BY WorthDef, FS_EmptySet

(* Integers sum up to an integer. *)
LEMMA WorthType ==
  ASSUME NEW u, NEW S, IsFiniteSet(S), \A r \in S : Value(u, r) \in Int
  PROVE  Worth(u, S) \in Int
<1> SUFFICES ASSUME Worth(u, S) \notin Int
             PROVE  FALSE
  OBVIOUS
<1> DEFINE F == {s \in SUBSET S : Worth(u, s) \notin Int}
<1>1. PICK T \in F : \A t \in SUBSET T : t # T => t \notin F
  <2>1. F # {} /\ \A t \in F : IsFiniteSet(t)
    <3>1. S \in F
      OBVIOUS
    <3> QED BY <3>1, FS_Subset
  <2> HIDE DEF F
  <2> QED BY <2>1, SmallestSet
<1>2. T \in SUBSET S /\ IsFiniteSet(T) /\ Worth(u, T) \notin Int
  BY <1>1, FS_Subset
<1>3. T # {}
  BY <1>2, WorthOfNone
<1>4. Some(T) \in T
  BY <1>3 DEF Some
<1>5. Worth(u, T \ {Some(T)}) \in Int
  BY <1>1, <1>2, <1>4
<1>6. Worth(u, T) = Value(u, Some(T)) + Worth(u, T \ {Some(T)})
  BY <1>2, <1>3, WorthDef
<1> QED BY <1>2, <1>4, <1>5, <1>6

(* Any element may be taken out of the sum. *)
LEMMA WorthSplit ==
  ASSUME NEW u, NEW S, IsFiniteSet(S), \A r \in S : Value(u, r) \in Int, NEW r \in S
  PROVE  Worth(u, S) = Value(u, r) + Worth(u, S \ {r})
<1> DEFINE Splits(s, x) == Worth(u, s) = Value(u, x) + Worth(u, s \ {x})
           F == {s \in SUBSET S : \E x \in s : ~ Splits(s, x)}
<1> SUFFICES ASSUME ~ Splits(S, r)
             PROVE  FALSE
  OBVIOUS
<1>1. PICK T \in F : \A t \in SUBSET T : t # T => t \notin F
  <2>1. F # {} /\ \A t \in F : IsFiniteSet(t)
    <3>1. S \in F
      OBVIOUS
    <3> QED BY <3>1, FS_Subset
  <2> HIDE DEF F
  <2> QED BY <2>1, SmallestSet
<1>2. T \in SUBSET S /\ IsFiniteSet(T)
  BY <1>1, FS_Subset
<1>3. PICK x \in T : ~ Splits(T, x)
  BY <1>1
<1> DEFINE y == Some(T)
           xy == (T \ {x}) \ {y}
<1>4. y \in T
  BY <1>3 DEF Some
<1>5. Worth(u, T) = Value(u, y) + Worth(u, T \ {y})
  BY <1>2, <1>3, WorthDef
<1>6. x # y
  BY <1>3, <1>5
<1> HIDE DEF y
<1>7. Splits(T \ {y}, x) /\ Splits(T \ {x}, y)
  BY <1>1, <1>2, <1>3, <1>4, <1>6
<1>8. (T \ {y}) \ {x} = xy
  OBVIOUS
<1>9. Worth(u, xy) \in Int /\ Value(u, x) \in Int /\ Value(u, y) \in Int
  <2>1. xy \in SUBSET S /\ IsFiniteSet(xy)
    BY <1>2, FS_Subset
  <2> HIDE DEF xy
  <2> QED BY <2>1, <1>2, <1>3, <1>4, WorthType
<1>10. Worth(u, T \ {y}) = Value(u, x) + Worth(u, xy)
       /\ Worth(u, T \ {x}) = Value(u, y) + Worth(u, xy)
  BY <1>7, <1>8
<1>11. Worth(u, T) # Value(u, x) + Worth(u, T \ {x})
  BY <1>3
<1> HIDE DEF xy
<1> QED BY <1>5, <1>9, <1>10, <1>11

(* A set in two parts. *)
LEMMA WorthUnion ==
  ASSUME NEW u, NEW S, NEW T, IsFiniteSet(S), IsFiniteSet(T), S \cap T = {},
         \A r \in S \cup T : Value(u, r) \in Int
  PROVE  Worth(u, S \cup T) = Worth(u, S) + Worth(u, T)
<1> DEFINE Adds(t) == Worth(u, S \cup t) = Worth(u, S) + Worth(u, t)
           F == {t \in SUBSET T : ~ Adds(t)}
<1> SUFFICES ASSUME ~ Adds(T)
             PROVE  FALSE
  OBVIOUS
<1>1. PICK U \in F : \A t \in SUBSET U : t # U => t \notin F
  <2>1. F # {} /\ \A t \in F : IsFiniteSet(t)
    <3>1. T \in F
      OBVIOUS
    <3> QED BY <3>1, FS_Subset
  <2> HIDE DEF F
  <2> QED BY <2>1, SmallestSet
<1>2. U \in SUBSET T /\ IsFiniteSet(U) /\ ~ Adds(U) /\ IsFiniteSet(S \cup U)
  BY <1>1, FS_Subset, FS_Union
<1>3. Worth(u, S) \in Int
  BY WorthType
<1>4. U # {}
  BY <1>2, <1>3, WorthOfNone
<1>5. PICK x : x \in U
  BY <1>4
<1>6. Adds(U \ {x})
  BY <1>1, <1>2, <1>5
<1>7. Worth(u, S \cup U) = Value(u, x) + Worth(u, (S \cup U) \ {x})
  BY <1>2, <1>5, WorthSplit
<1>8. (S \cup U) \ {x} = S \cup (U \ {x})
  BY <1>2, <1>5
<1>9. Worth(u, U) = Value(u, x) + Worth(u, U \ {x})
  BY <1>2, <1>5, WorthSplit
<1>10. Value(u, x) \in Int /\ Worth(u, U \ {x}) \in Int
  <2>1. IsFiniteSet(U \ {x})
    BY <1>2, FS_Subset
  <2> QED BY <2>1, <1>2, <1>5, WorthType
<1>11. Worth(u, S \cup (U \ {x})) = Worth(u, S) + Worth(u, U \ {x})
  BY <1>6
<1>12. Worth(u, S \cup U) # Worth(u, S) + Worth(u, U)
  BY <1>2
<1>13. Worth(u, S \cup U) = Value(u, x) + Worth(u, S \cup (U \ {x}))
  BY <1>7, <1>8
<1> QED BY <1>3, <1>9, <1>10, <1>11, <1>12, <1>13

(* The sum does not depend on where the values stand: f moves each of S to *)
(* a place of T that holds the same in v as it held in u.                  *)
LEMMA WorthMoved ==
  ASSUME NEW u, NEW v, NEW S, NEW T, IsFiniteSet(S), IsFiniteSet(T),
         \A r \in S : Value(u, r) \in Int,
         NEW f \in [S -> T],
         \A t \in T : \E r \in S : f[r] = t,
         \A q, r \in S : f[q] = f[r] => q = r,
         \A r \in S : Value(v, f[r]) = Value(u, r)
  PROVE  Worth(v, T) = Worth(u, S)
<1> DEFINE Image(s) == {f[r] : r \in s}
           F == {s \in SUBSET S : Worth(v, Image(s)) # Worth(u, s)}
<1> SUFFICES ASSUME Worth(v, T) # Worth(u, S)
             PROVE  FALSE
  OBVIOUS
<1>1. PICK U \in F : \A s \in SUBSET U : s # U => s \notin F
  <2>1. F # {} /\ \A s \in F : IsFiniteSet(s)
    <3>1. Image(S) = T
      OBVIOUS
    <3>2. S \in F
      BY <3>1
    <3> QED BY <3>2, FS_Subset
  <2> HIDE DEF F
  <2> QED BY <2>1, SmallestSet
<1>2. U \in SUBSET S /\ IsFiniteSet(U) /\ Worth(v, Image(U)) # Worth(u, U)
  BY <1>1, FS_Subset
<1>3. U # {}
  <2>1. Image({}) = {}
    OBVIOUS
  <2> QED BY <1>2, <2>1, WorthOfNone
<1>4. PICK x : x \in U
  BY <1>3
<1>5. Worth(v, Image(U \ {x})) = Worth(u, U \ {x})
  BY <1>1, <1>2, <1>4
<1>6. Image(U \ {x}) = Image(U) \ {f[x]}
  BY <1>2, <1>4
<1>7. IsFiniteSet(Image(U)) /\ f[x] \in Image(U) /\ \A t \in Image(U) : Value(v, t) \in Int
  <2>1. Image(U) \in SUBSET T
    BY <1>2
  <2>2. IsFiniteSet(Image(U))
    <3> HIDE DEF Image
    <3> QED BY <2>1, FS_Subset
  <2> QED BY <1>2, <1>4, <2>2
<1>8. Worth(v, Image(U)) = Value(v, f[x]) + Worth(v, Image(U) \ {f[x]})
  <2> HIDE DEF Image
  <2> QED BY <1>7, WorthSplit
<1>9. Worth(u, U) = Value(u, x) + Worth(u, U \ {x})
  BY <1>2, <1>4, WorthSplit
<1>10. Value(v, f[x]) = Value(u, x)
  BY <1>2, <1>4
<1> HIDE DEF Image
<1> QED BY <1>2, <1>5, <1>6, <1>8, <1>9, <1>10

(* Values that are not negative sum up to one that is not. *)
LEMMA WorthIsNatural ==
  ASSUME NEW u, NEW S, IsFiniteSet(S), \A r \in S : Value(u, r) \in Nat
  PROVE  Worth(u, S) \in Nat
<1> SUFFICES ASSUME Worth(u, S) \notin Nat
             PROVE  FALSE
  OBVIOUS
<1> DEFINE F == {s \in SUBSET S : Worth(u, s) \notin Nat}
<1>1. PICK T \in F : \A t \in SUBSET T : t # T => t \notin F
  <2>1. F # {} /\ \A t \in F : IsFiniteSet(t)
    <3>1. S \in F
      OBVIOUS
    <3> QED BY <3>1, FS_Subset
  <2> HIDE DEF F
  <2> QED BY <2>1, SmallestSet
<1>2. T \in SUBSET S /\ IsFiniteSet(T) /\ Worth(u, T) \notin Nat
  BY <1>1, FS_Subset
<1>3. T # {}
  BY <1>2, WorthOfNone
<1>4. Some(T) \in T
  BY <1>3 DEF Some
<1>5. Worth(u, T \ {Some(T)}) \in Nat
  BY <1>1, <1>2, <1>4
<1>6. Worth(u, T) = Value(u, Some(T)) + Worth(u, T \ {Some(T)})
  BY <1>2, <1>3, WorthDef
<1> QED BY <1>2, <1>4, <1>5, <1>6

(* A single reference. *)
LEMMA WorthOfOne ==
  ASSUME NEW u, NEW r, Value(u, r) \in Int
  PROVE  Worth(u, {r}) = Value(u, r)
<1>1. IsFiniteSet({r})
  BY FS_Singleton
<1>2. Worth(u, {r}) = Value(u, r) + Worth(u, {r} \ {r})
  BY <1>1, WorthSplit
<1>3. Worth(u, {r} \ {r}) = 0
  <2>1. {r} \ {r} = {}
    OBVIOUS
  <2> QED BY <2>1, WorthOfNone
<1> QED BY <1>2, <1>3

-----------------------------------------------------------------------------
(* The money an index holds, and what Update does to it. *)

(* An index whose entries are sequences of coins, no two of one owner. *)
Purse(u) == Coins(u) /\ \A id \in DOMAIN u : Tuple(u[id])

(* What a reference is made of. *)
LEMMA RefsAreRefs ==
  ASSUME NEW u, NEW A, NEW r
  PROVE  r \in RefsOf(u, A) <=>
           /\ r.id \in DOMAIN u /\ r.out \in DOMAIN u[r.id]
           /\ r = [id |-> r.id, out |-> r.out]
           /\ u[r.id][r.out].owner \in A
<1>1. ASSUME r \in RefsOf(u, A)
      PROVE  /\ r.id \in DOMAIN u /\ r.out \in DOMAIN u[r.id]
             /\ r = [id |-> r.id, out |-> r.out]
             /\ u[r.id][r.out].owner \in A
  BY <1>1 DEF RefsOf
<1>2. ASSUME r.id \in DOMAIN u, r.out \in DOMAIN u[r.id], r = [id |-> r.id, out |-> r.out],
             u[r.id][r.out].owner \in A
      PROVE  r \in RefsOf(u, A)
  <2> DEFINE of(id) == {[id |-> id, out |-> i] : i \in {j \in DOMAIN u[id] : u[id][j].owner \in A}}
  <2>1. r \in of(r.id)
    BY <1>2
  <2> QED BY <1>2, <2>1 DEF RefsOf
<1> QED BY <1>1, <1>2

(* getbalance reads the coins of one owner. *)
LEMMA OwnedIsRefs ==
  ASSUME NEW u, NEW a
  PROVE  OwnedBy(u, a) = RefsOf(u, {a})
<1> DEFINE locked(id) == {j \in DOMAIN u[id] : IsLockedWithKey(u[id][j], a)}
           owned(id)  == {j \in DOMAIN u[id] : u[id][j].owner \in {a}}
           refs(id, S) == {[id |-> id, out |-> i] : i \in S}
<1>1. \A id : locked(id) = owned(id)
  BY DEF IsLockedWithKey
<1>2. OwnedBy(u, a) = UNION {refs(id, locked(id)) : id \in DOMAIN u}
  BY DEF OwnedBy
<1>3. RefsOf(u, {a}) = UNION {refs(id, owned(id)) : id \in DOMAIN u}
  BY DEF RefsOf
<1> HIDE DEF locked, owned, refs
<1> QED BY <1>1, <1>2, <1>3

(* All coins belong to somebody. *)
LEMMA EverythingIsRefs ==
  ASSUME NEW u, Purse(u)
  PROVE  Everything(u) = RefsOf(u, Addresses)
<1>1. \A id \in DOMAIN u : DOMAIN u[id] = {j \in DOMAIN u[id] : u[id][j].owner \in Addresses}
  BY DEF Purse, Coins
<1> QED BY <1>1 DEF Everything, RefsOf

(* An index of finitely many entries holds finitely many outputs. *)
LEMMA RefsAreFinite ==
  ASSUME NEW u, IsFiniteSet(DOMAIN u), \A id \in DOMAIN u : Tuple(u[id]), NEW A
  PROVE  IsFiniteSet(RefsOf(u, A))
<1> DEFINE kept(id) == {j \in DOMAIN u[id] : u[id][j].owner \in A}
           of(id) == {[id |-> id, out |-> i] : i \in kept(id)}
           All == {of(id) : id \in DOMAIN u}
<1>1. ASSUME NEW id \in DOMAIN u
      PROVE  IsFiniteSet(of(id))
  <2>1. IsFiniteSet(DOMAIN u[id])
    <3>1. DOMAIN u[id] = 1..Len(u[id]) /\ 1 \in Int /\ Len(u[id]) \in Int
      BY TupleDomain
    <3> QED BY <3>1, FS_Interval
  <2>2. IsFiniteSet(kept(id))
    <3>1. kept(id) \in SUBSET DOMAIN u[id]
      OBVIOUS
    <3> HIDE DEF kept
    <3> QED BY <2>1, <3>1, FS_Subset
  <2>3. [i \in kept(id) |-> [id |-> id, out |-> i]] \in Surjection(kept(id), of(id))
    BY DEF Surjection
  <2> HIDE DEF kept, of
  <2> QED BY <2>2, <2>3, FS_Surjection DEF ExistsSurjection
<1>2. IsFiniteSet(All)
  <2>1. [id \in DOMAIN u |-> of(id)] \in Surjection(DOMAIN u, All)
    <3> HIDE DEF of
    <3> QED BY DEF Surjection
  <2> HIDE DEF All
  <2> QED BY <2>1, FS_Surjection DEF ExistsSurjection
<1>3. IsFiniteSet(UNION All)
  <2>1. \A S \in All : IsFiniteSet(S)
    <3> HIDE DEF of
    <3> QED BY <1>1
  <2> HIDE DEF All
  <2> QED BY <1>2, <2>1, FS_UNION
<1>4. UNION All = RefsOf(u, A)
  BY DEF RefsOf
<1> HIDE DEF All
<1> QED BY <1>3, <1>4

(* The coins of an index are worth natural numbers. *)
LEMMA RefsFinite ==
  ASSUME NEW u, Purse(u), NEW A
  PROVE  /\ IsFiniteSet(RefsOf(u, A))
         /\ \A r \in RefsOf(u, A) : Value(u, r) \in Nat /\ Value(u, r) \in Int
<1>1. IsFiniteSet(RefsOf(u, A))
  BY RefsAreFinite DEF Purse, Coins
<1>2. \A r \in RefsOf(u, A) : Value(u, r) \in Nat
  BY RefsAreRefs DEF Purse, Coins, Value
<1>3. \A r \in RefsOf(u, A) : Value(u, r) \in Nat /\ Value(u, r) \in Int
  BY <1>2
<1> QED BY <1>1, <1>3

(* So what they are worth together is a number. *)
LEMMA HeldIsNatural ==
  ASSUME NEW u, Purse(u), NEW A
  PROVE  Held(u, A) \in Nat /\ \A S \in SUBSET RefsOf(u, A) : IsFiniteSet(S) /\ Worth(u, S) \in Nat
<1>1. ASSUME NEW S \in SUBSET RefsOf(u, A)
      PROVE  IsFiniteSet(S) /\ Worth(u, S) \in Nat
  <2>1. IsFiniteSet(S) /\ \A r \in S : Value(u, r) \in Nat
    BY RefsFinite, FS_Subset
  <2> QED BY <2>1, WorthIsNatural
<1> QED BY <1>1 DEF Held

(* A part of an owner's coins is worth no more than all of them. *)
LEMMA PartIsLess ==
  ASSUME NEW u, Purse(u), NEW A, NEW S \in SUBSET RefsOf(u, A)
  PROVE  Worth(u, S) <= Held(u, A)
<1> DEFINE R == RefsOf(u, A) \ S
<1>1. IsFiniteSet(R) /\ IsFiniteSet(S) /\ Worth(u, R) \in Nat /\ Worth(u, S) \in Nat
  BY HeldIsNatural
<1>2. S \cup R = RefsOf(u, A) /\ S \cap R = {}
  OBVIOUS
<1>3. \A r \in S \cup R : Value(u, r) \in Int
  BY RefsFinite
<1> HIDE DEF R
<1>4. Worth(u, S \cup R) = Worth(u, S) + Worth(u, R)
  BY <1>1, <1>2, <1>3, WorthUnion
<1>5. Held(u, A) = Worth(u, S) + Worth(u, R)
  BY <1>2, <1>4 DEF Held
<1> QED BY <1>1, <1>5

(* Indexing the outputs of a new id adds what they are worth. *)
LEMMA HeldPut ==
  ASSUME NEW u, Purse(u), NEW id, id \notin DOMAIN u, NEW s, Tuple(s), NEW A,
         \A i \in DOMAIN s : s[i] \in [val : Nat, owner : Addresses]
  PROVE  LET new == {[id |-> id, out |-> i] : i \in {j \in DOMAIN s : s[j].owner \in A}}
         IN  Held(Put(u, id, s), A) = Held(u, A) + Worth(Put(u, id, s), new)
<1> DEFINE new == {[id |-> id, out |-> i] : i \in {j \in DOMAIN s : s[j].owner \in A}}
           v == Put(u, id, s)
           old == RefsOf(u, A)
<1>1. /\ DOMAIN v = DOMAIN u \cup {id} /\ v[id] = s
      /\ \A x \in DOMAIN u : v[x] = u[x]
  BY DEF Put
<1> HIDE DEF v
<1>2. RefsOf(v, A) = old \cup new /\ old \cap new = {}
  <2>1. ASSUME NEW r \in RefsOf(v, A)
        PROVE  r \in old \cup new
    BY <1>1, RefsAreRefs
  <2>2. ASSUME NEW r \in old \cup new
        PROVE  r \in RefsOf(v, A)
    BY <1>1, RefsAreRefs
  <2>3. \A r \in old : r.id # id
    BY RefsAreRefs
  <2>4. \A r \in new : r.id = id
    OBVIOUS
  <2> HIDE DEF old, new
  <2> QED BY <2>1, <2>2, <2>3, <2>4
<1>3. \A r \in old : Value(v, r) = Value(u, r)
  BY <1>1, RefsAreRefs DEF Value
<1>4. \A r \in new : Value(v, r) \in Int
  BY <1>1 DEF Value
<1>5. IsFiniteSet(old) /\ \A r \in old : Value(u, r) \in Int
  BY RefsFinite
<1>6. IsFiniteSet(new)
  <2> DEFINE kept == {j \in DOMAIN s : s[j].owner \in A}
  <2>1. IsFiniteSet(DOMAIN s)
    BY TupleDomain, FS_Interval
  <2>2. IsFiniteSet(kept)
    <3>1. kept \in SUBSET DOMAIN s
      OBVIOUS
    <3> HIDE DEF kept
    <3> QED BY <2>1, <3>1, FS_Subset
  <2>3. [i \in kept |-> [id |-> id, out |-> i]] \in Surjection(kept, new)
    BY DEF Surjection
  <2> HIDE DEF kept, new
  <2> QED BY <2>2, <2>3, FS_Surjection DEF ExistsSurjection
<1> HIDE DEF old, new
<1>7. Worth(v, old) = Worth(u, old)
  <2> DEFINE f == [r \in old |-> r]
  <2>1. /\ f \in [old -> old] /\ \A t \in old : \E r \in old : f[r] = t
        /\ \A q, r \in old : f[q] = f[r] => q = r
        /\ \A r \in old : Value(v, f[r]) = Value(u, r)
    BY <1>3
  <2> HIDE DEF f
  <2> QED BY <1>5, <2>1, WorthMoved
<1>8. Worth(v, old \cup new) = Worth(v, old) + Worth(v, new)
  <2>1. \A r \in old \cup new : Value(v, r) \in Int
    BY <1>3, <1>4, <1>5
  <2> QED BY <1>2, <1>5, <1>6, <2>1, WorthUnion
<1>9. Held(v, A) = Held(u, A) + Worth(v, new)
  BY <1>2, <1>7, <1>8 DEF Held, old
<1> QED BY <1>9 DEF v, new

(* The same for a transaction with one output, *)
LEMMA HeldPutOne ==
  ASSUME NEW u, Purse(u), NEW id, id \notin DOMAIN u, NEW n \in Nat, NEW a \in Addresses, NEW A
  PROVE  Held(Put(u, id, <<Output(n, a)>>), A) = Held(u, A) + Share(A, a, n)
<1> DEFINE s == <<Output(n, a)>>
           v == Put(u, id, s)
           new == {[id |-> id, out |-> i] : i \in {j \in DOMAIN s : s[j].owner \in A}}
           r == [id |-> id, out |-> 1]
<1>1. Tuple(s) /\ DOMAIN s = {1} /\ s[1] = [val |-> n, owner |-> a]
  BY OneTuple DEF Output
<1> HIDE DEF s
<1>2. Held(v, A) = Held(u, A) + Worth(v, new)
  BY <1>1, HeldPut
<1>3. v[id] = s
  BY DEF Put
<1>4. Held(u, A) \in Nat
  BY HeldIsNatural
<1>5. CASE a \in A
  <2>1. new = {r}
    BY <1>1, <1>5
  <2>2. Value(v, r) = n
    BY <1>1, <1>3 DEF Value
  <2>3. Worth(v, {r}) = n
    <3> HIDE DEF v, r
    <3> QED BY <2>2, WorthOfOne
  <2> QED BY <1>2, <1>5, <2>1, <2>3 DEF Share, s
<1>6. CASE a \notin A
  <2>1. new = {}
    BY <1>1, <1>6
  <2>2. Worth(v, {}) = 0
    BY WorthOfNone
  <2> HIDE DEF v, new
  <2> QED BY <1>2, <1>4, <1>6, <2>1, <2>2 DEF Share, s, v
<1> QED BY <1>5, <1>6

(* and with two. *)
LEMMA HeldPutTwo ==
  ASSUME NEW u, Purse(u), NEW id, id \notin DOMAIN u, NEW n \in Nat, NEW m \in Nat,
         NEW a \in Addresses, NEW b \in Addresses, NEW A
  PROVE  Held(Put(u, id, <<Output(n, a), Output(m, b)>>), A)
           = Held(u, A) + (Share(A, a, n) + Share(A, b, m))
<1> DEFINE s == <<Output(n, a), Output(m, b)>>
           v == Put(u, id, s)
           new == {[id |-> id, out |-> i] : i \in {j \in DOMAIN s : s[j].owner \in A}}
           q == [id |-> id, out |-> 1]
           r == [id |-> id, out |-> 2]
           Q == IF a \in A THEN {q} ELSE {}
           R == IF b \in A THEN {r} ELSE {}
<1>1. /\ Tuple(s) /\ DOMAIN s = {1, 2}
      /\ s[1] = [val |-> n, owner |-> a] /\ s[2] = [val |-> m, owner |-> b]
  BY PairTuple DEF Output
<1> HIDE DEF s
<1>2. Held(v, A) = Held(u, A) + Worth(v, new)
  BY <1>1, HeldPut
<1>3. v[id] = s
  BY DEF Put
<1>4. Value(v, q) = n /\ Value(v, r) = m
  BY <1>1, <1>3 DEF Value
<1>5. new = Q \cup R /\ Q \cap R = {}
  BY <1>1
<1>6. Worth(v, Q) = Share(A, a, n) /\ Worth(v, R) = Share(A, b, m)
  <2> HIDE DEF v, q, r
  <2> QED BY <1>4, WorthOfOne, WorthOfNone DEF Share
<1>7. Worth(v, Q \cup R) = Worth(v, Q) + Worth(v, R)
  <2>1. IsFiniteSet(Q) /\ IsFiniteSet(R)
    BY FS_Singleton, FS_EmptySet
  <2>2. \A x \in Q \cup R : Value(v, x) \in Int
    BY <1>4
  <2> HIDE DEF Q, R, v
  <2> QED BY <1>5, <2>1, <2>2, WorthUnion
<1> HIDE DEF v, new, Q, R
<1> QED BY <1>2, <1>5, <1>6, <1>7 DEF v, s

(* What is left of the sequence when one position goes. *)
LEMMA WithoutElements ==
  ASSUME NEW s, Tuple(s), NEW i \in DOMAIN s
  PROVE  /\ Tuple(Without(s, i)) /\ Len(Without(s, i)) = Len(s) - 1
         /\ \A j \in 1..(Len(s) - 1) :
              Without(s, i)[j] = IF j < i THEN s[j] ELSE s[j + 1]
<1> DEFINE S == {s[j] : j \in DOMAIN s}
           l == SubSeq(s, 1, i - 1)
           r == SubSeq(s, i + 1, Len(s))
<1>1. Len(s) \in Nat /\ DOMAIN s = 1..Len(s) /\ s \in Seq(S) /\ i \in 1..Len(s)
  BY TupleDomain DEF Tuple
<1>2. /\ Tuple(Without(s, i)) /\ Len(Without(s, i)) = Len(s) - 1
      /\ Without(s, i) = l \o r
  <2>1. i \in Nat
    BY <1>1
  <2>2. Tuple(Without(s, i)) /\ Len(Without(s, i)) = Len(s) - 1
    BY <1>1, <2>1, WithoutTuple
  <2> QED BY <2>2 DEF Without
<1>3. /\ l \in Seq(S) /\ Len(l) = i - 1
      /\ \A j \in 1..(i - 1) : l[j] = s[j]
  <2> DEFINE n == i - 1
  <2>1. 1 \in Int /\ n \in Int /\ \A j \in 1..n : s[j] \in S
    BY <1>1
  <2> HIDE DEF n, S
  <2>2. /\ SubSeq(s, 1, n) \in Seq(S)
        /\ Len(SubSeq(s, 1, n)) = IF 1 <= n THEN n - 1 + 1 ELSE 0
        /\ \A j \in 1..(n - 1 + 1) : SubSeq(s, 1, n)[j] = s[1 + j - 1]
    BY <2>1, SubSeqProperties
  <2> HIDE DEF l
  <2> USE DEF n
  <2>3. l = SubSeq(s, 1, n)
    BY DEF l
  <2>4. \A j \in 1..(i - 1) : j \in 1..(n - 1 + 1) /\ 1 + j - 1 = j
    BY <1>1
  <2> QED BY <1>1, <2>2, <2>3, <2>4
<1>4. /\ r \in Seq(S) /\ Len(r) = Len(s) - i
      /\ \A j \in 1..(Len(s) - i) : r[j] = s[i + j]
  <2> DEFINE m == i + 1
             n == Len(s)
  <2>1. m \in Int /\ n \in Int /\ \A j \in m..n : s[j] \in S
    BY <1>1
  <2> HIDE DEF m, n, S
  <2>2. /\ SubSeq(s, m, n) \in Seq(S)
        /\ Len(SubSeq(s, m, n)) = IF m <= n THEN n - m + 1 ELSE 0
        /\ \A j \in 1..(n - m + 1) : SubSeq(s, m, n)[j] = s[m + j - 1]
    BY <2>1, SubSeqProperties
  <2> HIDE DEF r
  <2> USE DEF m, n
  <2>3. r = SubSeq(s, m, n)
    BY DEF r
  <2>4. \A j \in 1..(Len(s) - i) : j \in 1..(Len(s) - (i + 1) + 1) /\ (i + 1) + j - 1 = i + j
    BY <1>1
  <2> QED BY <1>1, <2>2, <2>3, <2>4
<1> HIDE DEF l, r
<1>5. ASSUME NEW j \in 1..(Len(s) - 1)
      PROVE  (l \o r)[j] = IF j < i THEN s[j] ELSE s[j + 1]
  <2>1. Len(l \o r) = Len(l) + Len(r)
        /\ \A k \in 1..(Len(l) + Len(r)) :
             (l \o r)[k] = IF k <= Len(l) THEN l[k] ELSE r[k - Len(l)]
    BY <1>3, <1>4, ConcatProperties
  <2>2. j \in 1..(Len(l) + Len(r)) /\ (j <= Len(l) <=> j < i)
    BY <1>1, <1>3, <1>4
  <2>3. CASE j < i
    <3>1. (l \o r)[j] = l[j] /\ j \in 1..(i - 1)
      BY <1>1, <2>1, <2>2, <2>3
    <3> QED BY <1>3, <2>3, <3>1
  <2>4. CASE ~ (j < i)
    <3>1. (l \o r)[j] = r[j - Len(l)] /\ j - Len(l) = j - (i - 1)
      BY <1>3, <2>1, <2>2, <2>4
    <3>2. j - (i - 1) \in 1..(Len(s) - i) /\ i + (j - (i - 1)) = j + 1
      BY <1>1, <2>4
    <3>3. r[j - (i - 1)] = s[j + 1]
      BY <1>4, <3>2
    <3> QED BY <2>4, <3>1, <3>3
  <2> QED BY <2>3, <2>4
<1> QED BY <1>2, <1>5

(* What Update writes back when it removes output i of entry id. *)
Removed(u, id, i) ==
  IF Without(u[id], i) = <<>> THEN Drop(u, {id}) ELSE Put(u, id, Without(u[id], i))

(* The other entries stay, and of that one the other coins. *)
LEMMA RemovedEntries ==
  ASSUME NEW u, NEW id \in DOMAIN u, Tuple(u[id]), NEW i \in DOMAIN u[id]
  PROVE  LET v == Removed(u, id, i)
             n == Len(u[id])
         IN  /\ \A x : x # id => /\ x \in DOMAIN v <=> x \in DOMAIN u
                                 /\ x \in DOMAIN u => v[x] = u[x]
             /\ id \in DOMAIN v <=> n >= 2
             /\ id \in DOMAIN v => /\ DOMAIN v[id] = 1..(n - 1) /\ Tuple(v[id])
                                   /\ \A j \in 1..(n - 1) :
                                        v[id][j] = IF j < i THEN u[id][j] ELSE u[id][j + 1]
             /\ DOMAIN u[id] = 1..n /\ n \in Nat
<1> DEFINE v == Removed(u, id, i)
           n == Len(u[id])
           left == Without(u[id], i)
<1>1. /\ Tuple(left) /\ Len(left) = n - 1
      /\ \A j \in 1..(n - 1) : left[j] = IF j < i THEN u[id][j] ELSE u[id][j + 1]
  BY WithoutElements
<1>2. DOMAIN u[id] = 1..n /\ n \in Nat /\ DOMAIN left = 1..(n - 1) /\ Len(left) \in Nat
  BY <1>1, TupleDomain
<1>3. left = <<>> <=> n = 1
  <2>1. left = <<>> <=> Len(left) = 0
    BY <1>1, EmptySeq DEF Tuple
  <2> HIDE DEF left, n
  <2> QED BY <1>1, <1>2, <2>1
<1>4. n >= 1
  BY <1>2
<1>5. v = IF left = <<>> THEN Drop(u, {id}) ELSE Put(u, id, left)
  BY DEF Removed
<1> HIDE DEF left, n, v
<1>6. CASE n = 1
  <2>1. v = Drop(u, {id})
    BY <1>3, <1>5, <1>6
  <2> QED BY <1>2, <1>6, <2>1 DEF Drop, v, n
<1>7. CASE n # 1
  <2>1. v = Put(u, id, left)
    BY <1>3, <1>5, <1>7
  <2>2. n >= 2
    BY <1>2, <1>4, <1>7
  <2>3. DOMAIN v = DOMAIN u \cup {id} /\ v[id] = left /\ \A x \in DOMAIN u : x # id => v[x] = u[x]
    BY <2>1 DEF Put
  <2> QED BY <1>1, <1>2, <2>2, <2>3 DEF v, n
<1> QED BY <1>6, <1>7

(* It stays an index of coins. *)
LEMMA PurseRemoved ==
  ASSUME NEW u, Purse(u), NEW id \in DOMAIN u, NEW i \in DOMAIN u[id]
  PROVE  /\ Purse(Removed(u, id, i))
         /\ DOMAIN Removed(u, id, i) \subseteq DOMAIN u
         /\ \A x \in DOMAIN Removed(u, id, i) : \A j \in DOMAIN Removed(u, id, i)[x] :
              \E k \in DOMAIN u[x] :
                /\ Removed(u, id, i)[x][j] = u[x][k]
                /\ x = id => k # i
<1> DEFINE v == Removed(u, id, i)
           n == Len(u[id])
           at(j) == IF j < i THEN j ELSE j + 1
<1>1. Tuple(u[id])
  BY DEF Purse
<1>2. /\ \A x : x # id => /\ x \in DOMAIN v <=> x \in DOMAIN u
                          /\ x \in DOMAIN u => v[x] = u[x]
      /\ id \in DOMAIN v => /\ DOMAIN v[id] = 1..(n - 1) /\ Tuple(v[id])
                            /\ \A j \in 1..(n - 1) :
                                 v[id][j] = IF j < i THEN u[id][j] ELSE u[id][j + 1]
      /\ DOMAIN u[id] = 1..n /\ n \in Nat
  BY <1>1, RemovedEntries
<1> HIDE DEF v, n
<1>3. DOMAIN v \subseteq DOMAIN u
  BY <1>2
<1>4. \A j \in 1..(n - 1) : at(j) \in DOMAIN u[id] /\ at(j) # i
  BY <1>2
<1>5. id \in DOMAIN v => \A j \in DOMAIN v[id] : v[id][j] = u[id][at(j)]
  BY <1>2
<1>6. \A j, k \in 1..(n - 1) : at(j) = at(k) => j = k
  BY <1>2
<1> HIDE DEF at
<1>7. ASSUME NEW x \in DOMAIN v, NEW j \in DOMAIN v[x]
      PROVE  /\ v[x][j] \in [val : Nat, owner : Addresses]
             /\ \A k \in DOMAIN v[x] : v[x][j].owner = v[x][k].owner => j = k
             /\ \E k \in DOMAIN u[x] : v[x][j] = u[x][k] /\ (x = id => k # i)
  <2>1. CASE x = id
    <3>1. \A k, l \in DOMAIN u[id] : /\ u[id][k] \in [val : Nat, owner : Addresses]
                                     /\ u[id][k].owner = u[id][l].owner => k = l
      BY DEF Purse, Coins
    <3>2. j \in 1..(n - 1) /\ v[x][j] = u[id][at(j)] /\ at(j) \in DOMAIN u[id] /\ at(j) # i
      BY <1>2, <1>4, <1>5, <2>1
    <3>3. ASSUME NEW k \in DOMAIN v[x], v[x][j].owner = v[x][k].owner
          PROVE  j = k
      <4>1. k \in 1..(n - 1) /\ v[x][k] = u[id][at(k)] /\ at(k) \in DOMAIN u[id]
        BY <1>2, <1>4, <1>5, <2>1
      <4>2. at(j) = at(k)
        BY <3>1, <3>2, <3>3, <4>1
      <4> QED BY <1>6, <3>2, <4>1, <4>2
    <3> QED BY <2>1, <3>1, <3>2, <3>3
  <2>2. CASE x # id
    BY <1>2, <2>2 DEF Purse, Coins
  <2> QED BY <2>1, <2>2
<1>8. IsFiniteSet(DOMAIN v)
  BY <1>3, FS_Subset DEF Purse, Coins
<1>9. \A x \in DOMAIN v : Tuple(v[x])
  BY <1>2 DEF Purse
<1> QED BY <1>3, <1>7, <1>8, <1>9 DEF v, Purse, Coins

(* It holds one coin less. *)
LEMMA HeldRemoved ==
  ASSUME NEW u, Purse(u), NEW id \in DOMAIN u, NEW i \in DOMAIN u[id], NEW A
  PROVE  Held(u, A) = Held(Removed(u, id, i), A) + Share(A, u[id][i].owner, u[id][i].val)
<1> DEFINE v == Removed(u, id, i)
           n == Len(u[id])
           x == [id |-> id, out |-> i]
           S == RefsOf(u, A) \ {x}
           T == RefsOf(v, A)
           f == [r \in S |-> IF r.id = id /\ r.out > i THEN [id |-> id, out |-> r.out - 1] ELSE r]
<1>1. Tuple(u[id])
  BY DEF Purse
<1>2. /\ \A y : y # id => /\ y \in DOMAIN v <=> y \in DOMAIN u
                          /\ y \in DOMAIN u => v[y] = u[y]
      /\ id \in DOMAIN v <=> n >= 2
      /\ id \in DOMAIN v => /\ DOMAIN v[id] = 1..(n - 1)
                            /\ \A j \in 1..(n - 1) :
                                 v[id][j] = IF j < i THEN u[id][j] ELSE u[id][j + 1]
      /\ DOMAIN u[id] = 1..n /\ n \in Nat
  BY <1>1, RemovedEntries
<1>3. i \in 1..n
  BY <1>2
<1> HIDE DEF v, n
<1>4. \A r \in S : /\ r.id \in DOMAIN u /\ r.out \in DOMAIN u[r.id]
                   /\ r = [id |-> r.id, out |-> r.out] /\ u[r.id][r.out].owner \in A
                   /\ r.id = id => r.out \in 1..n /\ r.out # i
  <2>1. \A r \in S : /\ r.id \in DOMAIN u /\ r.out \in DOMAIN u[r.id]
                     /\ r = [id |-> r.id, out |-> r.out] /\ u[r.id][r.out].owner \in A
    BY RefsAreRefs
  <2> QED BY <1>2, <2>1
<1>5. ASSUME NEW r \in S
      PROVE  f[r] \in T /\ Value(v, f[r]) = Value(u, r)
  <2>1. CASE r.id # id
    <3>1. f[r] = r
      BY <2>1
    <3>2. r.id \in DOMAIN v /\ v[r.id] = u[r.id]
      BY <1>2, <1>4, <2>1
    <3> HIDE DEF f, S
    <3> QED BY <1>4, <3>1, <3>2, RefsAreRefs DEF Value
  <2>2. CASE r.id = id /\ r.out > i
    <3> DEFINE q == [id |-> id, out |-> r.out - 1]
    <3>1. f[r] = q
      BY <2>2
    <3>2. r.out - 1 \in 1..(n - 1) /\ ~ (r.out - 1 < i) /\ (r.out - 1) + 1 = r.out /\ n >= 2
      BY <1>2, <1>3, <1>4, <2>2
    <3>3. id \in DOMAIN v /\ r.out - 1 \in DOMAIN v[id] /\ v[id][r.out - 1] = u[id][r.out]
      BY <1>2, <3>2
    <3>4. q \in T
      BY <1>4, <2>2, <3>3, RefsAreRefs
    <3>5. Value(v, q) = Value(u, r)
      BY <2>2, <3>3 DEF Value
    <3> HIDE DEF f, S, T, q
    <3> QED BY <3>1, <3>4, <3>5
  <2>3. CASE r.id = id /\ ~ (r.out > i)
    <3>1. f[r] = r
      BY <2>3
    <3>2. r.out \in 1..(n - 1) /\ r.out < i /\ n >= 2
      BY <1>2, <1>3, <1>4, <2>3
    <3>3. id \in DOMAIN v /\ r.out \in DOMAIN v[id] /\ v[id][r.out] = u[id][r.out]
      BY <1>2, <3>2
    <3>4. r \in T
      BY <1>4, <2>3, <3>3, RefsAreRefs
    <3>5. Value(v, r) = Value(u, r)
      BY <2>3, <3>3 DEF Value
    <3> HIDE DEF f, S, T
    <3> QED BY <3>1, <3>4, <3>5
  <2> QED BY <2>1, <2>2, <2>3
<1>6. ASSUME NEW t \in T
      PROVE  \E r \in S : f[r] = t
  <2>1. /\ t.id \in DOMAIN v /\ t.out \in DOMAIN v[t.id]
        /\ t = [id |-> t.id, out |-> t.out] /\ v[t.id][t.out].owner \in A
    BY RefsAreRefs
  <2>2. CASE t.id # id
    <3>1. t \in RefsOf(u, A)
      BY <1>2, <2>1, <2>2, RefsAreRefs
    <3>2. t \in S
      BY <2>2, <3>1
    <3>3. f[t] = t
      BY <2>2, <3>2
    <3> HIDE DEF f, S
    <3> QED BY <3>2, <3>3
  <2>3. CASE t.id = id /\ t.out < i
    <3>1. t.out \in 1..(n - 1) /\ t.out \in 1..n /\ t.out # i /\ v[id][t.out] = u[id][t.out]
      BY <1>2, <2>1, <2>3
    <3>2. t \in RefsOf(u, A)
      BY <1>2, <2>1, <2>3, <3>1, RefsAreRefs
    <3>3. t \in S
      BY <3>1, <3>2
    <3>4. f[t] = t
      BY <1>3, <2>3, <3>1, <3>3
    <3> HIDE DEF f, S
    <3> QED BY <3>3, <3>4
  <2>4. CASE t.id = id /\ ~ (t.out < i)
    <3> DEFINE r == [id |-> id, out |-> t.out + 1]
    <3>1. /\ t.out \in 1..(n - 1) /\ t.out + 1 \in 1..n /\ t.out + 1 > i /\ t.out + 1 # i
          /\ v[id][t.out] = u[id][t.out + 1] /\ (t.out + 1) - 1 = t.out
      BY <1>2, <1>3, <2>1, <2>4
    <3>2. r \in RefsOf(u, A)
      BY <1>2, <2>1, <2>4, <3>1, RefsAreRefs
    <3>3. r \in S
      BY <3>1, <3>2
    <3>4. f[r] = [id |-> id, out |-> (t.out + 1) - 1]
      BY <3>1, <3>3
    <3>5. f[r] = t
      BY <2>1, <2>4, <3>1, <3>4
    <3> HIDE DEF f, S, r
    <3> QED BY <3>3, <3>5
  <2> QED BY <2>2, <2>3, <2>4
<1>7. ASSUME NEW q \in S, NEW r \in S, f[q] = f[r]
      PROVE  q = r
  <2> DEFINE to(k) == IF k > i THEN k - 1 ELSE k
  <2>1. \A s \in S : s.id # id => f[s] = s
    OBVIOUS
  <2>2. \A s \in S : s.id = id => f[s] = [id |-> id, out |-> to(s.out)]
    BY <1>4
  <2>3. \A j, k \in 1..n : j # i /\ k # i /\ to(j) = to(k) => j = k
    BY <1>2, <1>3
  <2> HIDE DEF f, S, to
  <2>4. q.id = r.id
    <3>1. ASSUME NEW s \in S
          PROVE  f[s].id = s.id
      <4>1. CASE s.id # id
        BY <2>1, <4>1
      <4>2. CASE s.id = id
        <5>1. f[s] = [id |-> id, out |-> to(s.out)]
          BY <2>2, <4>2
        <5> QED BY <4>2, <5>1
      <4> QED BY <4>1, <4>2
    <3> QED BY <1>7, <3>1
  <2>5. CASE q.id # id
    BY <1>7, <2>1, <2>4, <2>5
  <2>6. CASE q.id = id
    <3>1. to(q.out) = to(r.out)
      <4>1. f[q] = [id |-> id, out |-> to(q.out)] /\ f[r] = [id |-> id, out |-> to(r.out)]
        BY <2>2, <2>4, <2>6
      <4>2. f[q].out = to(q.out) /\ f[r].out = to(r.out)
        BY <4>1
      <4> QED BY <1>7, <4>2
    <3>2. q.out = r.out
      BY <1>4, <2>3, <2>4, <2>6, <3>1
    <3> QED BY <1>4, <2>4, <3>2
  <2> QED BY <2>5, <2>6
<1>8. IsFiniteSet(S) /\ \A r \in S : Value(u, r) \in Int
  BY RefsFinite, FS_Subset
<1>9. f \in [S -> T]
  <2>1. f = [r \in S |-> f[r]]
    OBVIOUS
  <2> HIDE DEF f, S, T
  <2> QED BY <1>5, <2>1
<1>10. IsFiniteSet(T)
  <2>1. f \in Surjection(S, T)
    <3> HIDE DEF f, S, T
    <3> QED BY <1>6, <1>9 DEF Surjection
  <2> HIDE DEF f, S, T
  <2> QED BY <1>8, <2>1, FS_Surjection DEF ExistsSurjection
<1>11. Worth(v, T) = Worth(u, S)
  <2> HIDE DEF f, S, T
  <2> QED BY <1>5, <1>6, <1>7, <1>8, <1>9, <1>10, WorthMoved
<1>12. Held(u, A) = Worth(u, S) + Share(A, u[id][i].owner, u[id][i].val)
  <2>1. IsFiniteSet(RefsOf(u, A)) /\ \A r \in RefsOf(u, A) : Value(u, r) \in Int
    BY RefsFinite
  <2>2. x.id = id /\ x.out = i /\ x = [id |-> x.id, out |-> x.out]
    OBVIOUS
  <2>3. x \in RefsOf(u, A) <=> u[id][i].owner \in A
    <3> HIDE DEF x
    <3> QED BY <2>2, RefsAreRefs
  <2>4. Value(u, x) = u[id][i].val /\ u[id][i].val \in Nat
    BY DEF Value, Purse, Coins
  <2>5. CASE u[id][i].owner \in A
    <3>1. Worth(u, RefsOf(u, A)) = Value(u, x) + Worth(u, S)
      <4> HIDE DEF x
      <4> QED BY <2>1, <2>3, <2>5, WorthSplit
    <3>2. Worth(u, S) \in Int
      <4> HIDE DEF S
      <4> QED BY <1>8, WorthType
    <3> HIDE DEF S, x
    <3> QED BY <2>4, <2>5, <3>1, <3>2 DEF Held, Share
  <2>6. CASE u[id][i].owner \notin A
    <3>1. S = RefsOf(u, A)
      BY <2>3, <2>6
    <3>2. Worth(u, S) \in Int
      <4> HIDE DEF S
      <4> QED BY <1>8, WorthType
    <3> HIDE DEF S, x
    <3> QED BY <2>6, <3>1, <3>2 DEF Held, Share
  <2> QED BY <2>5, <2>6
<1> HIDE DEF S, f
<1> QED BY <1>11, <1>12 DEF Held, v

-----------------------------------------------------------------------------
(* The books, one lemma per kind of action.                                *)

(* Payments of a positive amount, which is what a user means; send refuses *)
(* no amount but 0.                                                        *)
Positive == \A p \in Payments : p.amount > 0

(* An empty index. *)
LEMMA NothingHeld ==
  ASSUME NEW u, DOMAIN u = {}
  PROVE  Coins(u) /\ Purse(u) /\ \A A : Held(u, A) = 0
<1>1. Coins(u) /\ Purse(u)
  BY FS_EmptySet DEF Purse, Coins
<1>2. ASSUME NEW A
      PROVE  Held(u, A) = 0
  <2>1. RefsOf(u, A) = {}
    BY DEF RefsOf
  <2> QED BY <2>1, WorthOfNone DEF Held
<1> QED BY <1>1, <1>2

(* The index of the genesis block. *)
LEMMA OneCoinHeld ==
  ASSUME NEW id, NEW a \in Addresses
  PROVE  LET u == Put(EmptyMap, id, <<Output(Subsidy, a)>>)
         IN  Coins(u) /\ Held(u, Addresses) = Subsidy
<1> DEFINE u == Put(EmptyMap, id, <<Output(Subsidy, a)>>)
<1>1. DOMAIN EmptyMap = {} /\ id \notin DOMAIN EmptyMap
  BY DEF EmptyMap
<1>2. Purse(EmptyMap) /\ Held(EmptyMap, Addresses) = 0
  BY <1>1, NothingHeld
<1>3. Held(u, Addresses) = 0 + Share(Addresses, a, Subsidy)
  BY <1>1, <1>2, HeldPutOne DEF Subsidy
<1>4. Held(u, Addresses) = Subsidy
  <2> HIDE DEF u
  <2> QED BY <1>3 DEF Share, Subsidy
<1>5. DOMAIN u = {id} /\ u[id] = <<Output(Subsidy, a)>>
  BY <1>1 DEF Put
<1>6. Coins(u)
  <2>1. IsFiniteSet({id})
    BY FS_Singleton
  <2>2. \A i \in DOMAIN u[id] : i = 1 /\ u[id][i] \in [val : Nat, owner : Addresses]
    BY <1>5 DEF Output, Subsidy
  <2> HIDE DEF u
  <2> QED BY <1>5, <2>1, <2>2 DEF Coins
<1> QED BY <1>4, <1>6

(* The number of blocks. *)
LEMMA BlocksCount ==
  ASSUME BlocksPay
  PROVE  Cardinality(DOMAIN blocks) \in Nat
BY FS_CardinalityType DEF BlocksPay

(* A reward spends nothing that is stored, a payment only that. *)
LEMMA InputsStored ==
  ASSUME IInv, BlocksPay, NEW t \in StoredTxs
  PROVE  /\ t.id \in TxIds
         /\ \A r \in t.ins : r.id \in UsedIds \/ r.id = NoTx
         /\ \/ t.ins = {CoinbaseInput}
            \/ IsPayment(t)
<1>1. PICK h \in DOMAIN blocks : \E i \in DOMAIN blocks[h].txs : t = blocks[h].txs[i]
  BY DEF StoredTxs, TxsOf
<1>2. PICK i \in DOMAIN blocks[h].txs : t = blocks[h].txs[i]
  BY <1>1
<1>3. DOMAIN blocks[h].txs = 1..Len(blocks[h].txs) /\ Len(blocks[h].txs) \in 1..2
  BY TupleDomain DEF IInv, BlocksWellFormed, BlocksPay
<1>4. i = 1 \/ (i = 2 /\ Len(blocks[h].txs) = 2)
  BY <1>2, <1>3
<1>5. CASE i = 1
  <2>1. PICK a \in Addresses : IsReward(t, a)
    BY <1>2, <1>5 DEF BlocksPay
  <2>2. t.ins = {CoinbaseInput} /\ t.id \in TxIds
    BY <2>1 DEF IsReward, CoinbaseTx
  <2> QED BY <2>2 DEF CoinbaseInput
<1>6. CASE i = 2 /\ Len(blocks[h].txs) = 2
  <2>1. IsPayment(t)
    BY <1>2, <1>6 DEF BlocksPay
  <2> QED BY <2>1 DEF IsPayment
<1> QED BY <1>4, <1>5, <1>6

(* Ids of stored transactions are ids. *)
LEMMA UsedAreIds ==
  ASSUME IInv, BlocksPay
  PROVE  UsedIds \subseteq TxIds /\ NoTx \notin UsedIds
BY InputsStored, NoTxAssumption DEF UsedIds

(* An entry of the index is a purse while the books balance. *)
LEMMA BooksArePurses ==
  ASSUME IInv, Coins(utxo), Coins(txn)
  PROVE  Purse(utxo) /\ Purse(txn)
BY DEF IInv, IndexWellFormed, Purse

(* Blocks and index stay, and no Update begins or ends. *)
LEMMA QuietKeepsBooks ==
  ASSUME BooksBalance, UNCHANGED <<blocks, utxo, txn, crashes>>,
         pc # "update", pc' # "update", pc' \in {"delete", "walk"} \/ pc \notin {"delete", "walk"}
  PROVE  BooksBalance'
<1>1. StoredTxs' = StoredTxs /\ UsedIds' = UsedIds
  BY DEF StoredTxs, UsedIds, TxsOf
<1>2. BlocksPay' /\ IdsName'
  BY <1>1 DEF BooksBalance, BlocksPay, IdsName, IsReward, IsPayment
<1>3. Coins(utxo)' /\ Coins(txn)'
  BY DEF BooksBalance, Coins
<1>4. SpentOnce(utxo)' /\ SpentOnce(txn)'
  BY <1>1 DEF BooksBalance, SpentOnce, Referred
<1>5. Totals'
  BY DEF BooksBalance, Totals, Settled
<1> QED BY <1>2, <1>3, <1>4, <1>5 DEF BooksBalance

(* Nothing at all happens. *)
LEMMA StutterKeepsBooks ==
  ASSUME BooksBalance, UNCHANGED vars
  PROVE  BooksBalance'
<1> USE DEF vars, disk, command, counts
<1>1. StoredTxs' = StoredTxs /\ UsedIds' = UsedIds
  BY DEF StoredTxs, UsedIds, TxsOf
<1>2. BlocksPay' /\ IdsName'
  BY <1>1 DEF BooksBalance, BlocksPay, IdsName, IsReward, IsPayment
<1>3. Coins(utxo)' /\ Coins(txn)'
  BY DEF BooksBalance, Coins
<1>4. SpentOnce(utxo)' /\ SpentOnce(txn)'
  BY <1>1 DEF BooksBalance, SpentOnce, Referred
<1>5. ASSUME NEW p \in Payments, Updating(p)
      PROVE  Updating(p)'
  <2>1. Recorded(p)'
    BY <1>1, <1>5 DEF Updating, Recorded, IsReward, IsPayment, Referred
  <2>2. Taken(p)' /\ Moved(p)'
    BY <1>5 DEF Updating, Taken, Moved
  <2> QED BY <2>1, <2>2 DEF Updating
<1>6. Totals'
  BY DEF BooksBalance, Totals, Settled
<1> QED BY <1>2, <1>3, <1>4, <1>5, <1>6 DEF BooksBalance

(* A process dies: what was to be indexed is lost. *)
LEMMA CrashKeepsBooks ==
  ASSUME IInv, MemoryAgrees, BooksBalance, Crash
  PROVE  BooksBalance'
<1>1. /\ UNCHANGED <<blocks, utxo>> /\ DOMAIN txn' = {} /\ pc' = "idle"
      /\ crashes \in Nat /\ crashes' = crashes + 1
  BY DEF Crash, Exit, EmptyMap, disk, MemoryAgrees
<1>2. StoredTxs' = StoredTxs /\ UsedIds' = UsedIds
  BY <1>1 DEF StoredTxs, UsedIds, TxsOf
<1>3. BlocksPay' /\ IdsName'
  BY <1>1, <1>2 DEF BooksBalance, BlocksPay, IdsName, IsReward, IsPayment
<1>4. Coins(utxo)' /\ Coins(txn)'
  <2>1. Coins(txn')
    BY <1>1, NothingHeld
  <2> QED BY <1>1, <2>1 DEF BooksBalance, Coins
<1>5. SpentOnce(utxo)' /\ SpentOnce(txn)'
  BY <1>1, <1>2 DEF BooksBalance, SpentOnce, Referred
<1>6. Totals'
  <2>1. Held(utxo, Addresses)' = Held(utxo, Addresses) /\ Held(utxo, Addresses) \in Nat
    BY <1>1, BooksArePurses, HeldIsNatural DEF BooksBalance
  <2>2. Settled \in Int /\ Settled' \in Int /\ Settled <= Settled'
    BY <1>1, BlocksCount DEF BooksBalance, Settled
  <2>3. Held(utxo, Addresses) <= Subsidy * Settled
    BY DEF BooksBalance, Totals
  <2>4. crashes' # 0
    BY <1>1
  <2> QED BY <2>1, <2>2, <2>3, <2>4 DEF Totals, Subsidy
<1> QED BY <1>1, <1>3, <1>4, <1>5, <1>6 DEF BooksBalance

(* The rebuild of createblockchain: the walk is over one transaction. *)
LEMMA WalkKeepsBooks ==
  ASSUME IInv, BooksBalance, reindexes' = 0, WalkTx, FirstWalk'
  PROVE  BooksBalance'
<1>1. /\ pc = "walk" /\ pc' = "walk" /\ UNCHANGED <<blocks, utxo, crashes>>
  BY DEF WalkTx, disk, counts
<1>2. StoredTxs' = StoredTxs /\ UsedIds' = UsedIds
  BY <1>1 DEF StoredTxs, UsedIds, TxsOf
<1>3. BlocksPay' /\ IdsName'
  BY <1>1, <1>2 DEF BooksBalance, BlocksPay, IdsName, IsReward, IsPayment
<1>4. PICK id \in TxIds, a \in Addresses :
        /\ blocks[lastHash].txs = <<CoinbaseTx(id, a)>> /\ DOMAIN blocks = {lastHash}
        /\ DOMAIN txn' = {} \/ txn' = Put(EmptyMap, id, <<Output(Subsidy, a)>>)
  BY <1>1 DEF FirstWalk, WalkTx, disk
<1>5. Coins(txn')
  BY <1>4, NothingHeld, OneCoinHeld
<1>6. Coins(utxo)' /\ Coins(txn)'
  BY <1>1, <1>5 DEF BooksBalance, Coins
<1>7. DOMAIN txn' \subseteq {id}
  BY <1>4 DEF Put, EmptyMap
<1>8. \A t \in StoredTxs : \A r \in t.ins : r.id \notin DOMAIN txn'
  <2>1. \A t \in StoredTxs : t = CoinbaseTx(id, a)
    BY <1>4 DEF StoredTxs, TxsOf
  <2>2. \A r \in CoinbaseTx(id, a).ins : r.id = NoTx
    BY DEF CoinbaseTx, CoinbaseInput
  <2> QED BY <1>7, <2>1, <2>2, NoTxAssumption
<1>9. SpentOnce(utxo)' /\ SpentOnce(txn)'
  BY <1>1, <1>2, <1>8 DEF BooksBalance, SpentOnce, Referred
<1>10. Totals'
  BY <1>1 DEF BooksBalance, Totals, Settled
<1> QED BY <1>1, <1>3, <1>6, <1>9, <1>10 DEF BooksBalance

(* Its result is the index, and holds the first reward. *)
LEMMA WriteIndexKeepsBooks ==
  ASSUME IInv, BooksBalance, reindexes = 0, FirstWalk, WriteIndex
  PROVE  BooksBalance'
<1>1. /\ UNCHANGED <<blocks, crashes>> /\ utxo' = txn /\ DOMAIN txn' = {} /\ pc' = "idle"
      /\ pc = "walk" /\ cursor = NoHash
  BY DEF WriteIndex, Exit, EmptyMap, counts
<1>2. StoredTxs' = StoredTxs /\ UsedIds' = UsedIds
  BY <1>1 DEF StoredTxs, UsedIds, TxsOf
<1>3. BlocksPay' /\ IdsName'
  BY <1>1, <1>2 DEF BooksBalance, BlocksPay, IdsName, IsReward, IsPayment
<1>4. Coins(utxo)' /\ Coins(txn)'
  <2>1. Coins(txn')
    BY <1>1, NothingHeld
  <2> QED BY <1>1, <2>1 DEF BooksBalance, Coins
<1>5. SpentOnce(utxo)' /\ SpentOnce(txn)'
  BY <1>1, <1>2 DEF BooksBalance, SpentOnce, Referred
<1>6. Totals'
  <2>1. PICK id \in TxIds, a \in Addresses : txn = Put(EmptyMap, id, <<Output(Subsidy, a)>>)
    BY <1>1 DEF FirstWalk
  <2>2. Held(utxo', Addresses) = Subsidy
    BY <1>1, <2>1, OneCoinHeld
  <2>3. DOMAIN blocks = {lastHash}
    BY <1>1 DEF FirstWalk
  <2>4. Settled' = 1
    <3>1. Cardinality({lastHash}) = 1
      BY FS_Singleton
    <3>2. Cardinality(DOMAIN blocks') = 1
      BY <1>1, <2>3, <3>1
    <3> QED BY <1>1, <3>2 DEF Settled
  <2> QED BY <2>2, <2>4 DEF Totals, Subsidy
<1> QED BY <1>1, <1>3, <1>4, <1>5, <1>6 DEF BooksBalance

(* The genesis block, before anything is indexed. *)
LEMMA GenesisKeepsBooks ==
  ASSUME IInv, MemoryAgrees, NEW a \in Addresses, CommitGenesis(a)
  PROVE  BooksBalance'
<1> DEFINE cb == CoinbaseTx(FreshId, a)
<1>1. /\ pc = "genesis" /\ pc' = "delete" /\ UNCHANGED <<utxo, txn, crashes>>
      /\ blocks' = Put(blocks, FreshHash, CreateBlock(<<cb>>, NoHash, 0))
      /\ FreshId \in TxIds
  BY FreshIdIsNew DEF CommitGenesis, counts
<1>2. DOMAIN blocks = {}
  BY <1>1 DEF IInv, PhaseAgrees, ChainLinked
<1>3. DOMAIN utxo' = {} /\ DOMAIN txn' = {}
  BY <1>1, <1>2 DEF IInv, IndexStored, UsedIds, StoredTxs, TxsOf, MemoryAgrees
<1>4. DOMAIN blocks' = {FreshHash} /\ blocks'[FreshHash].txs = <<cb>>
  <2> HIDE DEF cb
  <2> QED BY <1>1, <1>2 DEF Put, CreateBlock
<1>5. IsReward(cb, a) /\ cb.id = FreshId
  BY <1>1 DEF IsReward, CoinbaseTx
<1> HIDE DEF cb
<1>6. BlocksPay'
  <2>1. IsFiniteSet({FreshHash})
    BY FS_Singleton
  <2>2. IsReward(cb, a) /\ Len(<<cb>>) = 1 /\ <<cb>>[1] = cb
    BY <1>5
  <2>3. \A h \in DOMAIN blocks' : blocks'[h].txs = <<cb>>
    BY <1>4
  <2> QED BY <1>4, <2>1, <2>2, <2>3 DEF BlocksPay, IsReward
<1>7. \A t \in StoredTxs' : t = cb
  BY <1>4 DEF StoredTxs, TxsOf
<1>8. IdsName'
  BY <1>7 DEF IdsName
<1>9. Coins(utxo') /\ Coins(txn')
  BY <1>3, NothingHeld
<1>10. Coins(utxo)' /\ Coins(txn)'
  BY <1>9 DEF Coins
<1>11. SpentOnce(utxo)' /\ SpentOnce(txn)'
  BY <1>3 DEF SpentOnce
<1>12. Totals'
  <2>1. Held(utxo', Addresses) = 0
    BY <1>3, NothingHeld
  <2>2. Settled' = 1
    <3>1. Cardinality({FreshHash}) = 1
      BY FS_Singleton
    <3>2. Cardinality(DOMAIN blocks') = 1
      BY <1>4, <3>1
    <3> QED BY <1>1, <3>2 DEF Settled
  <2> QED BY <1>1, <2>1, <2>2 DEF Totals, Subsidy
<1> QED BY <1>1, <1>6, <1>8, <1>10, <1>11, <1>12 DEF BooksBalance

(* Update's transaction commits: what it moved between owners sums up to   *)
(* one more reward.                                                        *)
LEMMA CommitKeepsBooks ==
  ASSUME IInv, BooksBalance, UpdateCommit
  PROVE  BooksBalance'
<1>1. /\ UNCHANGED <<blocks, crashes>> /\ utxo' = txn /\ DOMAIN txn' = {} /\ pc' = "idle"
      /\ pc = "update"
  BY DEF UpdateCommit, Exit, EmptyMap, counts
<1>2. StoredTxs' = StoredTxs /\ UsedIds' = UsedIds
  BY <1>1 DEF StoredTxs, UsedIds, TxsOf
<1>3. BlocksPay' /\ IdsName'
  BY <1>1, <1>2 DEF BooksBalance, BlocksPay, IdsName, IsReward, IsPayment
<1>4. Coins(utxo)' /\ Coins(txn)'
  <2>1. Coins(txn')
    BY <1>1, NothingHeld
  <2> QED BY <1>1, <2>1 DEF BooksBalance, Coins
<1>5. SpentOnce(utxo)' /\ SpentOnce(txn)'
  BY <1>1, <1>2 DEF BooksBalance, SpentOnce, Referred
<1>6. Totals'
  <2>1. pos = 3 /\ todo = {}
    BY DEF UpdateCommit, IInv, UpdateReady
  <2>2. PICK p \in Payments : Updating(p)
    BY <1>1 DEF BooksBalance
  <2> DEFINE acc == Worth(utxo, blocks[cursor].txs[2].ins)
  <2>3. /\ acc \in Nat
        /\ Held(txn, Addresses) = Held(utxo, Addresses)
             + Share(Addresses, p.from, Subsidy - acc + Worth(utxo, todo))
             + (Share(Addresses, p.from, acc - p.amount) + Share(Addresses, p.to, p.amount))
    BY <2>1, <2>2 DEF Updating, Recorded, Moved
  <2>4. Worth(utxo, todo) = 0 /\ p.from \in Addresses /\ p.to \in Addresses /\ p.amount \in Int
        /\ Held(utxo, Addresses) \in Nat
    BY <2>1, WorthOfNone, LedgerAssumption, BooksArePurses, HeldIsNatural DEF BooksBalance
  <2> HIDE DEF acc
  <2>5. Held(txn, Addresses) = Held(utxo, Addresses) + Subsidy
    BY <2>3, <2>4 DEF Share, Subsidy
  <2>6. Settled' = Settled + 1 /\ Settled \in Int
    BY <1>1, BlocksCount DEF BooksBalance, Settled
  <2> QED BY <1>1, <2>4, <2>5, <2>6 DEF BooksBalance, Totals, Subsidy
<1> QED BY <1>1, <1>3, <1>4, <1>5, <1>6 DEF BooksBalance

(* What a positive payment takes from the index: coins of its sender, of   *)
(* at least that much.                                                     *)
LEMMA SelectionPays ==
  ASSUME Positive, NEW p \in Payments, NEW u, Purse(u),
         NEW ins \in FindSpendableOutputs(u, p.from, p.amount)
  PROVE  /\ ins # {} /\ ins \subseteq OwnedBy(u, p.from)
         /\ Worth(u, ins) \in Nat /\ Worth(u, ins) >= p.amount
<1>1. ~ (p.amount <= 0) /\ p.amount \in Int
  BY LedgerAssumption DEF Positive
<1>2. ins \in SUBSET OwnedBy(u, p.from) /\ Worth(u, ins) >= p.amount /\ \E last \in ins : TRUE
  BY <1>1 DEF FindSpendableOutputs
<1>3. Worth(u, ins) \in Nat
  BY <1>2, OwnedIsRefs, HeldIsNatural
<1> QED BY <1>2, <1>3

(* A coin of its owner, by its reference. *)
LEMMA OwnedIsThere ==
  ASSUME NEW u, NEW a, NEW r \in OwnedBy(u, a)
  PROVE  /\ r.id \in DOMAIN u /\ r.out \in DOMAIN u[r.id] /\ u[r.id][r.out].owner = a
         /\ r = [id |-> r.id, out |-> r.out]
<1>1. r \in RefsOf(u, {a})
  BY OwnedIsRefs
<1>2. /\ r.id \in DOMAIN u /\ r.out \in DOMAIN u[r.id]
      /\ r = [id |-> r.id, out |-> r.out]
      /\ u[r.id][r.out].owner \in {a}
  BY <1>1, RefsAreRefs
<1> QED BY <1>2

(* A mined block: its payment has an id that nothing indexed or refers to, *)
(* also when an equal payment was stored and never indexed.                *)
LEMMA SendKeepsBooks ==
  ASSUME Positive, IInv, MemoryAgrees, BooksBalance, NEW p \in Payments, Send(p)
  PROVE  BooksBalance'
<1> DEFINE outs(ins) == PaymentOutputs(Worth(utxo, ins), p.from, p.to, p.amount)
           other == CHOOSE id \in TxIds \ (UsedIds \cup {FreshId}) : TRUE
<1>1. PICK cb : cb = CoinbaseTx(FreshId, p.from)
  OBVIOUS
<1>2. PICK ins \in FindSpendableOutputs(utxo, p.from, p.amount) :
        \E id \in HashIds(StoredTxs, ins, p.from, outs(ins), other) :
          MineBlock(<<cb, [id |-> id, ins |-> ins, key |-> p.from, outs |-> outs(ins)]>>)
  BY <1>1 DEF Send
<1>3. PICK id \in HashIds(StoredTxs, ins, p.from, outs(ins), other) :
        MineBlock(<<cb, [id |-> id, ins |-> ins, key |-> p.from, outs |-> outs(ins)]>>)
  BY <1>2
<1>4. PICK tx : tx = [id |-> id, ins |-> ins, key |-> p.from, outs |-> outs(ins)]
  OBVIOUS
<1> DEFINE b == CreateBlock(<<cb, tx>>, lastHash, blocks[lastHash].height + 1)
<1>5. /\ pc = "idle" /\ pc' = "update" /\ cursor' = FreshHash /\ pos' = 1 /\ txn' = utxo
      /\ blocks' = Put(blocks, FreshHash, b) /\ FreshHash \notin DOMAIN blocks
      /\ UNCHANGED <<utxo, todo, crashes>> /\ todo = {}
  BY <1>3, <1>4, FreshHashIsNew DEF Send, ContinueBlockChain, MineBlock, counts, IInv, PhaseAgrees
<1>6. Purse(utxo)
  BY BooksArePurses DEF BooksBalance
<1>7. /\ ins # {} /\ ins \subseteq OwnedBy(utxo, p.from)
      /\ Worth(utxo, ins) \in Nat /\ Worth(utxo, ins) >= p.amount
  BY <1>6, SelectionPays
<1>8. /\ UsedIds \subseteq TxIds /\ NoTx \notin UsedIds /\ DOMAIN utxo \subseteq UsedIds
  BY UsedAreIds DEF BooksBalance, IInv, IndexStored
<1>9. \A r \in ins : /\ r.id \in DOMAIN utxo /\ r.out \in DOMAIN utxo[r.id]
                     /\ utxo[r.id][r.out].owner = p.from /\ r = [id |-> r.id, out |-> r.out]
  BY <1>7, OwnedIsThere
<1>10. FreshId \in TxIds /\ FreshId \notin UsedIds
  <2>1. Cardinality(TxIds \ UsedIds) >= 2
    BY DEF Send
  <2>2. TxIds \ UsedIds # {}
    BY <2>1, FS_EmptySet
  <2> QED BY <2>2, FreshIdIsNew
<1>11. other \in TxIds /\ other \notin UsedIds /\ other # FreshId
  <2>1. Cardinality(TxIds \ UsedIds) >= 2
    BY DEF Send
  <2>2. TxIds \ UsedIds # {FreshId}
    BY <2>1, FS_Singleton
  <2>3. TxIds \ (UsedIds \cup {FreshId}) # {}
    BY <1>10, <2>2
  <2> QED BY <2>3
<1>12. cb.id = FreshId /\ IsReward(cb, p.from) /\ \A r \in cb.ins : r.id = NoTx
  BY <1>1, <1>10 DEF IsReward, CoinbaseTx, CoinbaseInput
<1> HIDE DEF other
<1>13. \/ id = other
       \/ \E t \in StoredTxs : t.ins = ins /\ t.outs = outs(ins) /\ t.key = p.from /\ t.id = id
  BY <1>7 DEF HashIds
<1>14. id \in TxIds /\ id # FreshId /\ id \notin DOMAIN utxo /\ ~Referred(id)
  <2>1. CASE id = other
    <3>1. ~Referred(other)
      BY <1>11, InputsStored, NoTxAssumption DEF Referred, BooksBalance
    <3> QED BY <1>8, <1>11, <2>1, <3>1
  <2>2. CASE id # other
    <3>1. PICK t \in StoredTxs : t.ins = ins /\ t.key = p.from /\ t.id = id
      BY <1>13, <2>2
    <3>2. PICK r \in ins : TRUE
      BY <1>7
    <3>3. ~ (t.id \in DOMAIN utxo \/ Referred(t.id))
      BY <1>9, <3>1, <3>2 DEF BooksBalance, SpentOnce
    <3>4. id \in UsedIds
      BY <3>1 DEF UsedIds
    <3> QED BY <1>8, <1>10, <3>1, <3>3, <3>4
  <2> QED BY <2>1, <2>2
<1>15. ~Referred(FreshId)
  BY <1>10, InputsStored, NoTxAssumption DEF Referred, BooksBalance
<1>16. /\ tx.id = id /\ tx.ins = ins /\ tx.key = p.from /\ tx.outs = outs(ins)
       /\ tx = [id |-> tx.id, ins |-> tx.ins, key |-> tx.key, outs |-> tx.outs]
  BY <1>4
<1>17. \A t \in StoredTxs : t.id = id => t = tx
  <2> SUFFICES ASSUME NEW t \in StoredTxs, t.id = id
               PROVE  t = tx
    OBVIOUS
  <2>1. id \in UsedIds
    BY DEF UsedIds
  <2>2. PICK s \in StoredTxs : s.ins = ins /\ s.outs = outs(ins) /\ s.key = p.from /\ s.id = id
    BY <1>11, <1>13, <2>1
  <2>3. t = s
    BY <2>2 DEF BooksBalance, IdsName
  <2>4. s.ins # {CoinbaseInput}
    <3>1. PICK r \in ins : TRUE
      BY <1>7
    <3>2. r.id # NoTx
      BY <1>8, <1>9
    <3>3. CoinbaseInput.id = NoTx
      BY DEF CoinbaseInput
    <3> QED BY <2>2, <3>1, <3>2, <3>3
  <2>5. s = [id |-> s.id, ins |-> s.ins, key |-> s.key, outs |-> s.outs]
    BY <2>4, InputsStored DEF BooksBalance, IsPayment
  <2> QED BY <1>4, <2>2, <2>3, <2>5
<1> HIDE DEF outs
<1>18. /\ DOMAIN blocks' = DOMAIN blocks \cup {FreshHash}
       /\ \A h \in DOMAIN blocks : blocks'[h] = blocks[h]
       /\ blocks'[FreshHash].txs = <<cb, tx>>
  BY <1>5 DEF Put, CreateBlock
<1>19. StoredTxs' = StoredTxs \cup {cb, tx}
  <2>1. ASSUME NEW t \in StoredTxs'
        PROVE  t \in StoredTxs \cup {cb, tx}
    <3>1. PICK h \in DOMAIN blocks' : \E i \in DOMAIN blocks'[h].txs : t = blocks'[h].txs[i]
      BY DEF StoredTxs, TxsOf
    <3>2. CASE h \in DOMAIN blocks
      BY <1>18, <3>1, <3>2 DEF StoredTxs, TxsOf
    <3>3. CASE h = FreshHash
      BY <1>18, <3>1, <3>3
    <3> QED BY <1>18, <3>2, <3>3
  <2>2. ASSUME NEW t \in StoredTxs
        PROVE  t \in StoredTxs'
    <3>1. PICK h \in DOMAIN blocks : \E i \in DOMAIN blocks[h].txs : t = blocks[h].txs[i]
      BY DEF StoredTxs, TxsOf
    <3> QED BY <1>18, <3>1 DEF StoredTxs, TxsOf
  <2>3. cb \in StoredTxs' /\ tx \in StoredTxs'
    <3>1. FreshHash \in DOMAIN blocks' /\ 1 \in DOMAIN <<cb, tx>> /\ 2 \in DOMAIN <<cb, tx>>
          /\ <<cb, tx>>[1] = cb /\ <<cb, tx>>[2] = tx
      BY <1>18
    <3>2. \A i \in DOMAIN <<cb, tx>> : <<cb, tx>>[i] \in StoredTxs'
      BY <1>18 DEF StoredTxs, TxsOf
    <3> QED BY <3>1, <3>2
  <2> QED BY <2>1, <2>2, <2>3
<1>20. UsedIds \subseteq UsedIds'
  BY <1>19 DEF UsedIds
<1>21. IsPayment(tx)'
  <2>1. \A r \in tx.ins : r.id \in UsedIds'
    BY <1>8, <1>9, <1>16, <1>20
  <2>2. IsPayment(tx)' <=> /\ tx = [id |-> tx.id, ins |-> tx.ins, key |-> tx.key, outs |-> tx.outs]
                          /\ tx.id \in TxIds
                          /\ tx.ins # {} /\ \A r \in tx.ins : r.id \in UsedIds'
    BY DEF IsPayment
  <2> QED BY <1>7, <1>14, <1>16, <2>1, <2>2
<1>22. \A x : Referred(x)' <=> Referred(x) \/ (\E r \in ins : r.id = x) \/ (x = NoTx /\ \E r \in cb.ins : TRUE)
  BY <1>12, <1>16, <1>19 DEF Referred
<1>23. ~Referred(cb.id)' /\ ~Referred(tx.id)'
  BY <1>8, <1>9, <1>10, <1>12, <1>14, <1>15, <1>16, <1>22, NoTxAssumption
<1>24. BlocksPay'
  <2>1. IsFiniteSet(DOMAIN blocks')
    BY <1>18, FS_AddElement DEF BooksBalance, BlocksPay
  <2>2. ASSUME NEW h \in DOMAIN blocks'
        PROVE  \A txs : txs = blocks'[h].txs =>
                 /\ Len(txs) \in 1..2
                 /\ \E a \in Addresses : IsReward(txs[1], a)
                 /\ Len(txs) = 2 => IsPayment(txs[2])'
    <3>1. CASE h \in DOMAIN blocks
      <4>1. blocks'[h] = blocks[h]
        BY <1>18, <3>1
      <4> QED BY <1>20, <3>1, <4>1 DEF BooksBalance, BlocksPay, IsPayment
    <3>2. CASE h = FreshHash
      <4>1. p.from \in Addresses
        BY LedgerAssumption
      <4>2. Len(<<cb, tx>>) = 2 /\ <<cb, tx>>[1] = cb /\ <<cb, tx>>[2] = tx
        OBVIOUS
      <4> QED BY <1>12, <1>18, <1>21, <3>2, <4>1, <4>2 DEF IsPayment
    <3> QED BY <1>18, <3>1, <3>2
  <2> QED BY <2>1, <2>2 DEF BlocksPay, IsReward, IsPayment
<1>25. IdsName'
  <2>1. \A t \in StoredTxs : t.id \in UsedIds
    BY DEF UsedIds
  <2>2. cb.id # tx.id /\ cb.id \notin UsedIds
    BY <1>10, <1>12, <1>14, <1>16
  <2>3. \A s, t \in StoredTxs \cup {cb, tx} : s.id = t.id => s = t
    BY <1>16, <1>17, <2>1, <2>2 DEF BooksBalance, IdsName
  <2> QED BY <1>19, <2>3 DEF IdsName
<1>26. Coins(utxo)' /\ Coins(txn)'
  BY <1>5 DEF BooksBalance, Coins
<1>27. \A t \in StoredTxs \cup {cb, tx} :
         (t.id \in DOMAIN utxo \/ Referred(t.id)') =>
           \A r \in t.ins : r.id \in DOMAIN utxo =>
             \A j \in DOMAIN utxo[r.id] : utxo[r.id][j].owner # t.key
  <2>1. ASSUME NEW t \in StoredTxs, t.id \in DOMAIN utxo \/ Referred(t.id)'
        PROVE  t.id \in DOMAIN utxo \/ Referred(t.id)
    <3>1. t.id # NoTx
      BY <1>8 DEF UsedIds
    <3> QED BY <1>9, <1>22, <2>1, <3>1
  <2>2. \A t \in StoredTxs :
         (t.id \in DOMAIN utxo \/ Referred(t.id)) =>
           \A r \in t.ins : r.id \in DOMAIN utxo =>
             \A j \in DOMAIN utxo[r.id] : utxo[r.id][j].owner # t.key
    BY DEF BooksBalance, SpentOnce
  <2>3. cb.id \notin DOMAIN utxo /\ tx.id \notin DOMAIN utxo
    BY <1>8, <1>10, <1>12, <1>14, <1>16
  <2> QED BY <1>23, <2>1, <2>2, <2>3
<1>28. SpentOnce(utxo)' /\ SpentOnce(txn)'
  BY <1>5, <1>19, <1>27 DEF SpentOnce
<1>29. Updating(p)'
  <2>1. blocks'[cursor'].txs[1] = cb /\ blocks'[cursor'].txs[2] = tx
    BY <1>5, <1>18
  <2>2. /\ IsReward(cb, p.from)
        /\ tx.key = p.from /\ tx.ins = ins
        /\ tx.outs = PaymentOutputs(Worth(utxo, ins), p.from, p.to, p.amount)
    BY <1>12, <1>16 DEF outs
  <2>3. /\ cb.id # tx.id /\ cb.id \notin DOMAIN utxo /\ tx.id \notin DOMAIN utxo
    BY <1>8, <1>10, <1>12, <1>14, <1>16
  <2>4. /\ pos' = 1 /\ txn' = utxo /\ utxo' = utxo /\ todo' = {}
    BY <1>5
  <2>5. \A A \in SUBSET Addresses : Held(utxo, A) \in Nat
    BY <1>6, HeldIsNatural DEF BooksBalance
  <2>6. \A A \in SUBSET Addresses : Held(utxo, A) = Held(utxo, A) + 0 + 0
    BY <2>5
  <2>7. Recorded(p)'
    BY <1>7, <1>21, <1>23, <2>1, <2>2, <2>3, <2>4 DEF Recorded, IsReward, IsPayment
  <2>8. Taken(p)'
    BY <2>1, <2>2, <2>3, <2>4 DEF Taken
  <2>9. Moved(p)'
    BY <2>4, <2>6 DEF Moved
  <2> QED BY <2>7, <2>8, <2>9 DEF Updating
<1>30. Totals'
  <2>1. IsFiniteSet(DOMAIN blocks) /\ Cardinality(DOMAIN blocks) \in Nat
    BY BlocksCount DEF BooksBalance, BlocksPay
  <2>2. Cardinality(DOMAIN blocks') = Cardinality(DOMAIN blocks) + 1
    BY <1>5, <1>18, <2>1, FS_AddElement
  <2>3. Settled' = Settled
    BY <1>5, <2>1, <2>2 DEF Settled
  <2>4. Held(utxo, Addresses)' = Held(utxo, Addresses)
    BY <1>5
  <2> QED BY <1>5, <2>3, <2>4 DEF BooksBalance, Totals
<1> QED BY <1>24, <1>25, <1>26, <1>28, <1>29, <1>30 DEF BooksBalance

(* Update takes one input out of its index: the coin the payment spends,   *)
(* which is the only one of its owner in that entry.                       *)
LEMMA UpdateInputKeepsBooks ==
  ASSUME IInv, BooksBalance, UpdateInput
  PROVE  BooksBalance'
<1>1. PICK r \in todo : /\ r.id \in DOMAIN txn /\ todo' = todo \ {r}
                        /\ txn' = WriteBack(r.id, Without(txn[r.id], r.out))
  BY DEF UpdateInput
<1>2. /\ pc = "update" /\ UNCHANGED <<blocks, utxo, pc, cursor, pos, crashes>>
      /\ pos = 2
  BY <1>1 DEF UpdateInput, disk, counts, IInv, UpdateReady
<1>3. PICK p \in Payments : Updating(p)
  BY <1>2 DEF BooksBalance
<1>4. PICK tx : tx = blocks[cursor].txs[2]
  OBVIOUS
<1>5. PICK acc : acc = Worth(utxo, tx.ins)
  OBVIOUS
<1>6. /\ acc \in Nat /\ tx.ins \subseteq OwnedBy(utxo, p.from)
      /\ tx.id \notin DOMAIN txn /\ todo \subseteq tx.ins
      /\ \A q \in todo : q.id \in DOMAIN txn /\ txn[q.id] = utxo[q.id]
      /\ \A q \in tx.ins \ todo : q.id \in DOMAIN txn =>
           \A j \in DOMAIN txn[q.id] : txn[q.id][j].owner # p.from
      /\ \A A \in SUBSET Addresses :
           Held(txn, A) = Held(utxo, A)
             + Share(A, p.from, Subsidy - acc + Worth(utxo, todo)) + 0
  <2>1. /\ acc \in Nat /\ tx.ins \subseteq OwnedBy(utxo, p.from)
    BY <1>3, <1>4, <1>5 DEF Updating, Recorded
  <2>2. /\ tx.id \notin DOMAIN txn /\ todo \subseteq tx.ins
        /\ \A q \in todo : q.id \in DOMAIN txn /\ txn[q.id] = utxo[q.id]
        /\ \A q \in tx.ins \ todo : q.id \in DOMAIN txn =>
             \A j \in DOMAIN txn[q.id] : txn[q.id][j].owner # p.from
    BY <1>2, <1>3, <1>4 DEF Updating, Taken
  <2>3. \A A \in SUBSET Addresses :
           Held(txn, A) = Held(utxo, A)
             + Share(A, p.from, Subsidy - acc + Worth(utxo, todo)) + 0
    BY <1>2, <1>3, <1>4, <1>5 DEF Updating, Moved
  <2> QED BY <2>1, <2>2, <2>3
<1>7. Purse(utxo) /\ Purse(txn) /\ Coins(utxo) /\ Coins(txn)
  BY BooksArePurses DEF BooksBalance
<1>8. \A q \in tx.ins : /\ q.id \in DOMAIN utxo /\ q.out \in DOMAIN utxo[q.id]
                        /\ utxo[q.id][q.out].owner = p.from /\ q = [id |-> q.id, out |-> q.out]
  BY <1>6, OwnedIsThere
<1>9. /\ r \in tx.ins /\ r.id \in DOMAIN utxo /\ txn[r.id] = utxo[r.id]
      /\ r.out \in DOMAIN txn[r.id] /\ txn[r.id][r.out].owner = p.from
  BY <1>1, <1>6, <1>8
<1>10. \A q \in tx.ins : q.id = r.id => q = r
  BY <1>7, <1>8, <1>9 DEF Coins
<1>11. txn' = Removed(txn, r.id, r.out)
  BY <1>1 DEF WriteBack, Removed
<1>12. /\ Purse(txn')
       /\ DOMAIN txn' \subseteq DOMAIN txn
       /\ \A x \in DOMAIN txn' : \A j \in DOMAIN txn'[x] :
            \E k \in DOMAIN txn[x] : /\ txn'[x][j] = txn[x][k]
                                     /\ x = r.id => k # r.out
  BY <1>1, <1>7, <1>9, <1>11, PurseRemoved
<1>13. \A x : x # r.id => /\ x \in DOMAIN txn' <=> x \in DOMAIN txn
                          /\ x \in DOMAIN txn => txn'[x] = txn[x]
  BY <1>1, <1>7, <1>9, <1>11, RemovedEntries DEF Purse
<1>14. StoredTxs' = StoredTxs /\ UsedIds' = UsedIds
  BY <1>2 DEF StoredTxs, UsedIds, TxsOf
<1>15. BlocksPay' /\ IdsName'
  BY <1>2, <1>14 DEF BooksBalance, BlocksPay, IdsName, IsReward, IsPayment
<1>16. Coins(utxo)' /\ Coins(txn)'
  BY <1>2, <1>7, <1>12 DEF Purse, Coins
<1>17. SpentOnce(utxo)' /\ SpentOnce(txn)'
  <2>1. SpentOnce(utxo)'
    BY <1>2, <1>14 DEF BooksBalance, SpentOnce, Referred
  <2>2. ASSUME NEW t \in StoredTxs, t.id \in DOMAIN txn' \/ Referred(t.id),
               NEW q \in t.ins, q.id \in DOMAIN txn', NEW j \in DOMAIN txn'[q.id]
        PROVE  txn'[q.id][j].owner # t.key
    <3>1. q.id \in DOMAIN txn /\ (t.id \in DOMAIN txn \/ Referred(t.id))
      BY <1>12, <2>2
    <3>2. PICK k \in DOMAIN txn[q.id] : txn'[q.id][j] = txn[q.id][k]
      BY <1>12, <2>2
    <3>3. txn[q.id][k].owner # t.key
      BY <2>2, <3>1 DEF BooksBalance, SpentOnce
    <3> QED BY <3>2, <3>3
  <2> QED BY <1>14, <2>1, <2>2 DEF SpentOnce, Referred
<1>18. \A q \in todo' : q.id \in DOMAIN txn' /\ txn'[q.id] = utxo[q.id]
  BY <1>1, <1>6, <1>10, <1>13
<1>19. ASSUME NEW q \in tx.ins \ todo', q.id \in DOMAIN txn', NEW j \in DOMAIN txn'[q.id]
       PROVE  txn'[q.id][j].owner # p.from
  <2>1. CASE q = r
    <3>1. PICK k \in DOMAIN txn[r.id] : txn'[r.id][j] = txn[r.id][k] /\ k # r.out
      BY <1>12, <1>19, <2>1
    <3>2. txn[r.id][k].owner # p.from
      BY <1>1, <1>7, <1>9, <3>1 DEF Coins
    <3> QED BY <2>1, <3>1, <3>2
  <2>2. CASE q # r
    <3>1. q \in tx.ins \ todo /\ q.id # r.id
      BY <1>1, <1>10, <2>2
    <3> QED BY <1>6, <1>13, <1>19, <3>1
  <2> QED BY <2>1, <2>2
<1>20. ASSUME NEW A \in SUBSET Addresses
       PROVE  Held(txn', A) = Held(utxo, A)
                + Share(A, p.from, Subsidy - acc + Worth(utxo, todo')) + 0
  <2> DEFINE n == txn[r.id][r.out].val
  <2>1. Held(txn, A) = Held(txn', A) + Share(A, p.from, n)
    BY <1>1, <1>7, <1>9, <1>11, HeldRemoved
  <2>2. todo \subseteq RefsOf(utxo, {p.from}) /\ IsFiniteSet(RefsOf(utxo, {p.from}))
        /\ \A q \in RefsOf(utxo, {p.from}) : Value(utxo, q) \in Int
    BY <1>6, <1>7, OwnedIsRefs, RefsFinite
  <2>3. IsFiniteSet(todo) /\ \A q \in todo : Value(utxo, q) \in Int
    BY <2>2, FS_Subset
  <2>4. Worth(utxo, todo) = Value(utxo, r) + Worth(utxo, todo \ {r})
    BY <1>1, <2>3, WorthSplit
  <2>5. Value(utxo, r) = n /\ n \in Int
    BY <1>1, <1>9, <2>3 DEF Value
  <2>6. Worth(utxo, todo) \in Int /\ Worth(utxo, todo') \in Int
    <3>1. IsFiniteSet(todo \ {r}) /\ \A q \in todo \ {r} : Value(utxo, q) \in Int
      BY <2>3, FS_Subset
    <3> QED BY <1>1, <2>3, <3>1, WorthType
  <2>7. Held(utxo, A) \in Int /\ Held(txn, A) \in Int /\ Held(txn', A) \in Int
    BY <1>7, <1>12, HeldIsNatural
  <2>8. Held(txn, A) = Held(utxo, A)
             + Share(A, p.from, Subsidy - acc + Worth(utxo, todo)) + 0
    BY <1>6
  <2>9. Worth(utxo, todo) = n + Worth(utxo, todo')
    BY <1>1, <2>4, <2>5
  <2> HIDE DEF n
  <2> QED BY <1>6, <2>1, <2>5, <2>6, <2>7, <2>8, <2>9 DEF Share, Subsidy
<1>21. Updating(p)'
  <2>1. tx.id \notin DOMAIN txn' /\ todo' \subseteq tx.ins
    BY <1>1, <1>6, <1>12
  <2>2. Recorded(p)'
    BY <1>2, <1>3, <1>14 DEF Updating, Recorded, IsReward, IsPayment, Referred
  <2>3. Taken(p)'
    BY <1>2, <1>4, <1>18, <1>19, <2>1 DEF Taken
  <2>4. Moved(p)'
    BY <1>2, <1>4, <1>5, <1>20 DEF Moved
  <2> QED BY <2>2, <2>3, <2>4 DEF Updating
<1>22. Totals'
  BY <1>2 DEF BooksBalance, Totals, Settled
<1> QED BY <1>15, <1>16, <1>17, <1>21, <1>22 DEF BooksBalance

(* One more entry, of coins of different owners. *)
LEMMA CoinsPut ==
  ASSUME NEW u, Coins(u), NEW id, NEW s,
         \A i \in DOMAIN s : /\ s[i] \in [val : Nat, owner : Addresses]
                             /\ \A j \in DOMAIN s : s[i].owner = s[j].owner => i = j
  PROVE  Coins(Put(u, id, s))
<1> DEFINE v == Put(u, id, s)
<1>1. /\ DOMAIN v = DOMAIN u \cup {id} /\ v[id] = s
      /\ \A x \in DOMAIN v : x # id => v[x] = u[x]
  BY DEF Put
<1> HIDE DEF v
<1>2. IsFiniteSet(DOMAIN v)
  BY <1>1, FS_AddElement DEF Coins
<1>3. ASSUME NEW x \in DOMAIN v, NEW i \in DOMAIN v[x]
      PROVE  /\ v[x][i] \in [val : Nat, owner : Addresses]
             /\ \A j \in DOMAIN v[x] : v[x][i].owner = v[x][j].owner => i = j
  <2>1. CASE x = id
    BY <1>1, <1>3, <2>1
  <2>2. CASE x # id
    BY <1>1, <1>3, <2>2 DEF Coins
  <2> QED BY <2>1, <2>2
<1>4. Coins(v)
  BY <1>2, <1>3 DEF Coins
<1> QED BY <1>4 DEF v

(* The entry of a transaction nobody refers to, whose inputs are spent. *)
LEMMA SpentOncePut ==
  ASSUME NEW u, SpentOnce(u), IdsName, NEW x \in StoredTxs, ~Referred(x.id), NEW s,
         \A r \in x.ins : r.id \in DOMAIN u =>
           \A j \in DOMAIN u[r.id] : u[r.id][j].owner # x.key
  PROVE  SpentOnce(Put(u, x.id, s))
<1> DEFINE v == Put(u, x.id, s)
<1>1. /\ DOMAIN v = DOMAIN u \cup {x.id}
      /\ \A y \in DOMAIN u : y # x.id => v[y] = u[y]
  BY DEF Put
<1> HIDE DEF v
<1>2. ASSUME NEW t \in StoredTxs, t.id \in DOMAIN v \/ Referred(t.id),
             NEW r \in t.ins, r.id \in DOMAIN v, NEW j \in DOMAIN v[r.id]
      PROVE  v[r.id][j].owner # t.key
  <2>1. r.id # x.id
    BY <1>2 DEF Referred
  <2>2. r.id \in DOMAIN u /\ v[r.id] = u[r.id]
    BY <1>1, <1>2, <2>1
  <2>3. CASE t.id = x.id
    BY <1>2, <2>2, <2>3 DEF IdsName
  <2>4. CASE t.id # x.id
    BY <1>1, <1>2, <2>2, <2>4 DEF SpentOnce
  <2> QED BY <2>3, <2>4
<1>3. SpentOnce(v)
  BY <1>2 DEF SpentOnce
<1> QED BY <1>3 DEF v

(* Update indexes the reward, and turns to the inputs of the payment. *)
LEMMA RewardKeepsBooks ==
  ASSUME IInv, BooksBalance, UpdateOutputs, pos = 1
  PROVE  BooksBalance'
<1>1. /\ pc = "update" /\ UNCHANGED <<blocks, utxo, pc, cursor, crashes>>
      /\ Len(blocks[cursor].txs) = 2 /\ cursor \in DOMAIN blocks /\ pos' = 2
  BY DEF UpdateOutputs, disk, counts, IInv, UpdateReady
<1>2. PICK p \in Payments : Updating(p)
  BY <1>1 DEF BooksBalance
<1>3. PICK cb, tx : cb = blocks[cursor].txs[1] /\ tx = blocks[cursor].txs[2]
  OBVIOUS
<1>4. PICK acc : acc = Worth(utxo, tx.ins)
  OBVIOUS
<1>5. /\ IsReward(cb, p.from) /\ IsPayment(tx) /\ acc \in Nat
      /\ cb.id # tx.id /\ ~Referred(cb.id) /\ ~Referred(tx.id)
      /\ tx.ins \subseteq OwnedBy(utxo, p.from)
      /\ txn = utxo /\ cb.id \notin DOMAIN utxo /\ tx.id \notin DOMAIN txn
  BY <1>2, <1>3, <1>4 DEF Updating, Recorded, Taken
<1>6. Purse(utxo) /\ Coins(utxo)
  BY BooksArePurses DEF BooksBalance
<1>7. /\ p.from \in Addresses /\ cb.outs = <<Output(Subsidy, p.from)>> /\ cb.ins = {CoinbaseInput}
      /\ cb = CoinbaseTx(cb.id, p.from)
  BY <1>5, LedgerAssumption DEF IsReward, CoinbaseTx
<1>8. NoTx \notin UsedIds /\ DOMAIN utxo \subseteq UsedIds
  BY UsedAreIds DEF BooksBalance, IInv, IndexStored
<1>9. Spend(tx) = tx.ins
  <2>1. PICK r \in tx.ins : r.id \in UsedIds
    BY <1>5 DEF IsPayment
  <2> QED BY <1>8, <2>1 DEF Spend, IsCoinbase, CoinbaseInput
<1>10. txn' = Put(utxo, cb.id, <<Output(Subsidy, p.from)>>) /\ todo' = tx.ins
  BY <1>1, <1>3, <1>5, <1>7, <1>9 DEF UpdateOutputs
<1>11. /\ DOMAIN txn' = DOMAIN utxo \cup {cb.id}
       /\ \A x \in DOMAIN utxo : txn'[x] = utxo[x]
  BY <1>5, <1>10 DEF Put
<1>12. cb \in StoredTxs /\ tx \in StoredTxs
  <2>1. DOMAIN blocks[cursor].txs = 1..2
    BY <1>1, TupleDomain DEF IInv, BlocksWellFormed
  <2>2. 1 \in 1..2 /\ 2 \in 1..2
    OBVIOUS
  <2> QED BY <1>1, <1>3, <2>1, <2>2 DEF StoredTxs, TxsOf
<1>13. StoredTxs' = StoredTxs /\ UsedIds' = UsedIds
  BY <1>1 DEF StoredTxs, UsedIds, TxsOf
<1>14. BlocksPay' /\ IdsName'
  BY <1>1, <1>13 DEF BooksBalance, BlocksPay, IdsName, IsReward, IsPayment
<1>15. Coins(utxo)' /\ Coins(txn)'
  <2>1. \A i \in DOMAIN <<Output(Subsidy, p.from)>> :
          i = 1 /\ <<Output(Subsidy, p.from)>>[i] \in [val : Nat, owner : Addresses]
    BY <1>7 DEF Output, Subsidy
  <2>2. Coins(txn')
    BY <1>6, <1>10, <2>1, CoinsPut
  <2> QED BY <1>1, <1>6, <2>2 DEF Coins
<1>16. SpentOnce(utxo)' /\ SpentOnce(txn)'
  <2>1. \A r \in cb.ins : r.id \notin DOMAIN utxo
    BY <1>7, <1>8 DEF CoinbaseInput
  <2>2. SpentOnce(utxo) /\ IdsName
    BY DEF BooksBalance
  <2>3. SpentOnce(txn')
    BY <1>5, <1>10, <1>12, <2>1, <2>2, SpentOncePut
  <2> QED BY <1>1, <1>13, <2>2, <2>3 DEF SpentOnce, Referred
<1>17. \A r \in tx.ins : r.id \in DOMAIN txn' /\ txn'[r.id] = utxo[r.id]
  BY <1>5, <1>11, OwnedIsThere
<1>18. ASSUME NEW A \in SUBSET Addresses
       PROVE  Held(txn', A) = Held(utxo, A) + Share(A, p.from, Subsidy - acc + Worth(utxo, tx.ins)) + 0
  <2>1. Held(txn', A) = Held(utxo, A) + Share(A, p.from, Subsidy)
    BY <1>5, <1>6, <1>7, <1>10, HeldPutOne DEF Subsidy
  <2>2. Held(utxo, A) \in Nat
    BY <1>6, HeldIsNatural
  <2> QED BY <1>4, <1>5, <2>1, <2>2 DEF Share, Subsidy
<1>19. Updating(p)'
  <2>1. tx.id \notin DOMAIN txn'
    BY <1>5, <1>11
  <2>2. Recorded(p)'
    BY <1>1, <1>2, <1>13 DEF Updating, Recorded, IsReward, IsPayment, Referred
  <2>3. Taken(p)'
    BY <1>1, <1>3, <1>10, <1>17, <2>1 DEF Taken
  <2>4. Moved(p)'
    BY <1>1, <1>3, <1>4, <1>10, <1>18 DEF Moved
  <2> QED BY <2>2, <2>3, <2>4 DEF Updating
<1>20. Totals'
  BY <1>1 DEF BooksBalance, Totals, Settled
<1> QED BY <1>14, <1>15, <1>16, <1>19, <1>20 DEF BooksBalance

(* It indexes the payment: two outputs of different owners, or one. *)
LEMMA PaymentKeepsBooks ==
  ASSUME Positive, ~SelfPaid, IInv, BooksBalance, UpdateOutputs, pos = 2
  PROVE  BooksBalance'
<1>1. /\ pc = "update" /\ UNCHANGED <<blocks, utxo, pc, cursor, crashes>>
      /\ Len(blocks[cursor].txs) = 2 /\ cursor \in DOMAIN blocks /\ pos' = 3 /\ todo = {}
  BY DEF UpdateOutputs, disk, counts, IInv, UpdateReady
<1>2. PICK p \in Payments : Updating(p)
  BY <1>1 DEF BooksBalance
<1>3. PICK tx : tx = blocks[cursor].txs[2]
  OBVIOUS
<1>4. PICK acc : acc = Worth(utxo, tx.ins)
  OBVIOUS
<1>5. /\ tx.key = p.from /\ tx.outs = PaymentOutputs(acc, p.from, p.to, p.amount)
      /\ acc \in Nat /\ acc >= p.amount /\ ~Referred(tx.id) /\ tx.id \notin DOMAIN txn
      /\ \A r \in tx.ins : r.id \in DOMAIN txn =>
           \A j \in DOMAIN txn[r.id] : txn[r.id][j].owner # p.from
      /\ \A A \in SUBSET Addresses :
           Held(txn, A) = Held(utxo, A) + Share(A, p.from, Subsidy - acc + Worth(utxo, todo)) + 0
  <2>1. /\ tx.key = p.from /\ tx.outs = PaymentOutputs(acc, p.from, p.to, p.amount)
        /\ acc \in Nat /\ acc >= p.amount /\ ~Referred(tx.id)
    BY <1>2, <1>3, <1>4 DEF Updating, Recorded
  <2>2. /\ tx.id \notin DOMAIN txn
        /\ \A r \in tx.ins : r.id \in DOMAIN txn =>
             \A j \in DOMAIN txn[r.id] : txn[r.id][j].owner # p.from
    BY <1>1, <1>2, <1>3 DEF Updating, Taken
  <2>3. \A A \in SUBSET Addresses :
           Held(txn, A) = Held(utxo, A) + Share(A, p.from, Subsidy - acc + Worth(utxo, todo)) + 0
    BY <1>2, <1>3, <1>4 DEF Updating, Moved
  <2> QED BY <2>1, <2>2, <2>3
<1>6. Purse(utxo) /\ Purse(txn) /\ Coins(utxo) /\ Coins(txn) /\ IdsName /\ SpentOnce(utxo) /\ SpentOnce(txn)
  BY BooksArePurses DEF BooksBalance
<1>7. p.from \in Addresses /\ p.to \in Addresses /\ p.amount \in Nat /\ acc - p.amount \in Nat
  BY <1>5, LedgerAssumption DEF Positive
<1>8. txn' = Put(txn, tx.id, tx.outs) /\ todo' = {}
  BY <1>1, <1>3 DEF UpdateOutputs
<1>9. DOMAIN blocks[cursor].txs = 1..2 /\ 2 \in DOMAIN blocks[cursor].txs /\ tx \in StoredTxs
  <2>1. DOMAIN blocks[cursor].txs = 1..2
    BY <1>1, TupleDomain DEF IInv, BlocksWellFormed
  <2>2. 2 \in 1..2
    OBVIOUS
  <2> QED BY <1>1, <1>3, <2>1, <2>2 DEF StoredTxs, TxsOf
<1>10. \/ acc = p.amount /\ tx.outs = <<Output(p.amount, p.to)>>
       \/ p.from # p.to /\ tx.outs = <<Output(p.amount, p.to), Output(acc - p.amount, p.from)>>
  <2>1. CASE acc > p.amount
    <3>1. tx.outs = <<Output(p.amount, p.to), Output(acc - p.amount, p.from)>>
      BY <1>5, <2>1 DEF PaymentOutputs
    <3>2. ASSUME p.from = p.to
          PROVE  FALSE
      <4>1. {tx.outs[n].owner : n \in DOMAIN tx.outs} = {p.to} /\ Len(tx.outs) = 2
        BY <3>1, <3>2 DEF Output
      <4>2. Cardinality({p.to}) = 1
        BY FS_Singleton
      <4>3. Cardinality({tx.outs[n].owner : n \in DOMAIN tx.outs}) < Len(tx.outs)
        BY <4>1, <4>2
      <4> QED BY <1>1, <1>3, <1>9, <4>3 DEF SelfPaid
    <3> QED BY <3>1, <3>2
  <2>2. CASE ~ (acc > p.amount)
    BY <1>5, <1>7, <2>2 DEF PaymentOutputs
  <2> QED BY <2>1, <2>2
<1>11. \A i \in DOMAIN tx.outs :
         /\ tx.outs[i] \in [val : Nat, owner : Addresses]
         /\ \A j \in DOMAIN tx.outs : tx.outs[i].owner = tx.outs[j].owner => i = j
  BY <1>7, <1>10 DEF Output
<1>12. /\ DOMAIN txn' = DOMAIN txn \cup {tx.id}
       /\ \A x \in DOMAIN txn : txn'[x] = txn[x]
  BY <1>5, <1>8 DEF Put
<1>13. StoredTxs' = StoredTxs /\ UsedIds' = UsedIds
  BY <1>1 DEF StoredTxs, UsedIds, TxsOf
<1>14. BlocksPay' /\ IdsName'
  BY <1>1, <1>13 DEF BooksBalance, BlocksPay, IdsName, IsReward, IsPayment
<1>15. Coins(utxo)' /\ Coins(txn)'
  <2>1. Coins(txn')
    BY <1>6, <1>8, <1>11, CoinsPut
  <2> QED BY <1>1, <1>6, <2>1 DEF Coins
<1>16. SpentOnce(utxo)' /\ SpentOnce(txn)'
  <2>1. SpentOnce(txn')
    BY <1>5, <1>6, <1>8, <1>9, SpentOncePut
  <2> QED BY <1>1, <1>6, <1>13, <2>1 DEF SpentOnce, Referred
<1>17. ASSUME NEW A \in SUBSET Addresses
       PROVE  Held(txn', A) = Held(utxo, A) + Share(A, p.from, Subsidy - acc + Worth(utxo, {}))
                + (Share(A, p.from, acc - p.amount) + Share(A, p.to, p.amount))
  <2>1. Held(txn', A) = Held(txn, A) + (Share(A, p.from, acc - p.amount) + Share(A, p.to, p.amount))
    <3>1. CASE acc = p.amount /\ tx.outs = <<Output(p.amount, p.to)>>
      <4>1. Held(txn', A) = Held(txn, A) + Share(A, p.to, p.amount)
        <5>1. txn' = Put(txn, tx.id, <<Output(p.amount, p.to)>>)
          BY <1>8, <3>1
        <5>2. Held(Put(txn, tx.id, <<Output(p.amount, p.to)>>), A)
                = Held(txn, A) + Share(A, p.to, p.amount)
          BY <1>5, <1>6, <1>7, HeldPutOne
        <5> QED BY <5>1, <5>2
      <4>2. Share(A, p.from, acc - p.amount) = 0 /\ Share(A, p.to, p.amount) \in Int
        BY <1>7, <3>1 DEF Share
      <4> QED BY <4>1, <4>2
    <3>2. CASE tx.outs = <<Output(p.amount, p.to), Output(acc - p.amount, p.from)>>
      <4>1. Held(txn', A) = Held(txn, A) + (Share(A, p.to, p.amount) + Share(A, p.from, acc - p.amount))
        BY <1>5, <1>6, <1>7, <1>8, <3>2, HeldPutTwo
      <4>2. Share(A, p.from, acc - p.amount) \in Int /\ Share(A, p.to, p.amount) \in Int
        BY <1>7 DEF Share
      <4> QED BY <4>1, <4>2
    <3> QED BY <1>10, <3>1, <3>2
  <2>2. Held(txn, A) = Held(utxo, A) + Share(A, p.from, Subsidy - acc + Worth(utxo, {})) + 0
    BY <1>1, <1>5
  <2>3. Held(utxo, A) \in Int /\ Worth(utxo, {}) = 0
    BY <1>6, HeldIsNatural, WorthOfNone
  <2>4. Share(A, p.from, Subsidy - acc + Worth(utxo, {})) \in Int
    BY <1>5, <2>3 DEF Share, Subsidy
  <2> QED BY <2>1, <2>2, <2>3, <2>4
<1>18. \A r \in tx.ins : r.id \in DOMAIN txn' =>
         \A j \in DOMAIN txn'[r.id] : txn'[r.id][j].owner # p.from
  <2>1. \A r \in tx.ins : r.id # tx.id
    BY <1>5, <1>9 DEF Referred
  <2> QED BY <1>5, <1>12, <2>1
<1>19. Updating(p)'
  <2>1. tx.id \in DOMAIN txn'
    BY <1>12
  <2>2. Recorded(p)'
    BY <1>1, <1>2, <1>13 DEF Updating, Recorded, IsReward, IsPayment, Referred
  <2>3. Taken(p)'
    <3>1. todo' = {} /\ pos' = 3 /\ tx = blocks'[cursor'].txs[2]
      BY <1>1, <1>3, <1>8
    <3>2. \A r \in tx.ins \ todo' : r.id \in DOMAIN txn' =>
            \A j \in DOMAIN txn'[r.id] : txn'[r.id][j].owner # p.from
      BY <1>18
    <3> QED BY <2>1, <3>1, <3>2 DEF Taken
  <2>4. Moved(p)'
    BY <1>1, <1>3, <1>4, <1>8, <1>17 DEF Moved
  <2> QED BY <2>2, <2>3, <2>4 DEF Updating
<1>20. Totals'
  BY <1>1 DEF BooksBalance, Totals, Settled
<1> QED BY <1>14, <1>15, <1>16, <1>19, <1>20 DEF BooksBalance

LEMMA UpdateOutputsKeepsBooks ==
  ASSUME Positive, ~SelfPaid, IInv, BooksBalance, UpdateOutputs
  PROVE  BooksBalance'
<1>1. pos = 1 \/ pos = 2
  BY DEF UpdateOutputs, IInv, UpdateReady
<1> QED BY <1>1, RewardKeepsBooks, PaymentKeepsBooks

(* Blocks stay as they are, in every action. *)
LEMMA BlocksStay ==
  ASSUME IInv, [Next]_vars
  PROVE  \A h \in DOMAIN blocks : h \in DOMAIN blocks' /\ blocks'[h] = blocks[h]
<1>1. CASE blocks' = blocks
  BY <1>1
<1>2. ASSUME NEW a \in Addresses, CommitGenesis(a)
      PROVE  \A h \in DOMAIN blocks : h \in DOMAIN blocks' /\ blocks'[h] = blocks[h]
  BY <1>2, FreshHashIsNew, BlocksGrow DEF CommitGenesis
<1>3. ASSUME NEW p \in Payments, Send(p)
      PROVE  \A h \in DOMAIN blocks : h \in DOMAIN blocks' /\ blocks'[h] = blocks[h]
  <2>1. PICK b : blocks' = Put(blocks, FreshHash, b)
    BY <1>3 DEF Send, MineBlock
  <2>2. Hashes \ DOMAIN blocks # {}
    BY <1>3 DEF Send
  <2> QED BY <2>1, <2>2, FreshHashIsNew, BlocksGrow
<1>4. \/ blocks' = blocks
      \/ \E a \in Addresses : CommitGenesis(a)
      \/ \E p \in Payments : Send(p)
  BY DEF Next, vars, disk, CreateBlockChain, ReindexUTXO, DeleteByPrefix, StartWalk, WalkTx,
         WriteIndex, UpdateInput, UpdateOutputs, UpdateCommit, Crash, ReadOnly
<1> QED BY <1>1, <1>2, <1>3, <1>4

(* So nobody has paid themselves before the step if nobody has after it,   *)
(* and an index that was never rebuilt was not rebuilt before either.      *)
LEMMA ConditionStays ==
  ASSUME IInv, MemoryAgrees, [Next]_vars, reindexes' = 0, ~SelfPaid'
  PROVE  reindexes = 0 /\ ~SelfPaid
<1>1. reindexes = 0
  <2>1. reindexes \in Nat
    BY LedgerAssumption DEF MemoryAgrees
  <2>2. reindexes' = reindexes \/ reindexes' = reindexes + 1
    BY DEF Next, vars, counts, CreateBlockChain, CommitGenesis, ReindexUTXO, DeleteByPrefix,
           StartWalk, WalkTx, WriteIndex, Send, UpdateInput, UpdateOutputs, UpdateCommit, Crash,
           ReadOnly
  <2> QED BY <2>1, <2>2
<1>2. ~SelfPaid
  <2> SUFFICES ASSUME NEW h \in DOMAIN blocks, NEW i \in DOMAIN blocks[h].txs
               PROVE  LET outs == blocks[h].txs[i].outs
                      IN  ~ (Cardinality({outs[n].owner : n \in DOMAIN outs}) < Len(outs))
    BY DEF SelfPaid
  <2>1. h \in DOMAIN blocks' /\ blocks'[h] = blocks[h]
    BY BlocksStay
  <2> QED BY <2>1 DEF SelfPaid
<1> QED BY <1>1, <1>2

LEMMA InitMoneyInv == Init => MoneyInv
<1> SUFFICES ASSUME Init
             PROVE  BooksBalance
  BY DEF MoneyInv
<1>1. /\ DOMAIN blocks = {} /\ DOMAIN utxo = {} /\ DOMAIN txn = {} /\ pc = "idle"
  BY DEF Init, EmptyMap
<1>2. StoredTxs = {}
  BY <1>1 DEF StoredTxs, TxsOf
<1>3. BlocksPay
  BY <1>1, FS_EmptySet DEF BlocksPay
<1>4. Coins(utxo) /\ Coins(txn) /\ Held(utxo, Addresses) = 0
  BY <1>1, NothingHeld
<1>5. Cardinality(DOMAIN blocks) = 0
  BY <1>1, FS_EmptySet
<1>6. Totals
  BY <1>1, <1>4, <1>5 DEF Totals, Settled, Subsidy
<1> QED BY <1>1, <1>2, <1>3, <1>4, <1>6 DEF BooksBalance, IdsName, SpentOnce

LEMMA NextKeepsMoneyInv ==
  ASSUME Positive, IInv, SignInv, MoneyInv, [Next]_vars
  PROVE  MoneyInv'
<1> SUFFICES ASSUME reindexes' = 0, ~SelfPaid'
             PROVE  BooksBalance'
  BY DEF MoneyInv
<1>1. /\ reindexes = 0 /\ ~SelfPaid
      /\ MemoryAgrees /\ FirstWalk
  BY ConditionStays DEF SignInv
<1>2. BooksBalance
  BY <1>1 DEF MoneyInv
<1>3. CASE CreateBlockChain
  BY <1>2, <1>3, QuietKeepsBooks DEF CreateBlockChain, counts
<1>4. ASSUME NEW a \in Addresses, CommitGenesis(a)
      PROVE  BooksBalance'
  BY <1>1, <1>4, GenesisKeepsBooks
<1>5. CASE ReindexUTXO
  BY <1>1, <1>5 DEF ReindexUTXO
<1>6. CASE DeleteByPrefix
  BY <1>1, <1>6 DEF DeleteByPrefix, FirstWalk
<1>7. CASE StartWalk
  BY <1>2, <1>7, QuietKeepsBooks DEF StartWalk, disk, counts
<1>8. CASE WalkTx
  <2>1. FirstWalk'
    BY <1>1, NextKeepsFirstWalk
  <2> QED BY <1>2, <1>8, <2>1, WalkKeepsBooks
<1>9. CASE WriteIndex
  BY <1>1, <1>2, <1>9, WriteIndexKeepsBooks
<1>10. ASSUME NEW p \in Payments, Send(p)
       PROVE  BooksBalance'
  BY <1>1, <1>2, <1>10, SendKeepsBooks
<1>11. CASE UpdateInput
  BY <1>2, <1>11, UpdateInputKeepsBooks
<1>12. CASE UpdateOutputs
  BY <1>1, <1>2, <1>12, UpdateOutputsKeepsBooks
<1>13. CASE UpdateCommit
  BY <1>2, <1>13, CommitKeepsBooks
<1>14. CASE Crash
  BY <1>1, <1>2, <1>14, CrashKeepsBooks
<1>15. CASE UNCHANGED vars
  BY <1>2, <1>15, StutterKeepsBooks
<1> QED BY <1>3, <1>4, <1>5, <1>6, <1>7, <1>8, <1>9, <1>10, <1>11, <1>12, <1>13, <1>14, <1>15
        DEF Next, ReadOnly

(* While payments are positive, the books balance: whatever was mined,     *)
(* sent, killed half-way and sent again, and however far Update is.        *)
THEOREM BooksAlwaysBalance ==
  ASSUME Positive
  PROVE  Spec => []MoneyInv
<1>1. Init => IInv /\ SignInv /\ MoneyInv
  BY InitIInv, InitSignInv, InitMoneyInv
<1>2. (IInv /\ SignInv /\ MoneyInv) /\ [Next]_vars => (IInv /\ SignInv /\ MoneyInv)'
  BY NextKeepsIInv, NextKeepsSignInv, NextKeepsMoneyInv
<1> QED BY <1>1, <1>2, PTL DEF Spec

(* What getbalance could show of all addresses together is what the index  *)
(* holds.                                                                  *)
LEMMA SupplyIsHeld ==
  ASSUME IInv, BooksBalance
  PROVE  /\ Supply = Held(utxo, Addresses)
         /\ Settled \in Int /\ Settled <= Cardinality(DOMAIN blocks)
         /\ pc = "idle" => Settled = Cardinality(DOMAIN blocks)
<1>1. Supply = Held(utxo, Addresses)
  BY BooksArePurses, EverythingIsRefs DEF BooksBalance, Supply, Held
<1> QED BY <1>1, BlocksCount DEF BooksBalance, Settled

(* Of an index that was never rebuilt, on a chain where nobody paid        *)
(* themselves: crashes lose rewards and give spent coins back, but they    *)
(* never bring more into it than the coinbases of the chain.  With either  *)
(* of the two the code does create money.                                  *)
THEOREM SupplyIsNotInflated ==
  ASSUME Positive
  PROVE  Spec => []SupplyNotInflated
<1>1. IInv /\ MoneyInv => SupplyNotInflated
  <2> SUFFICES ASSUME IInv, BooksBalance
               PROVE  Supply <= Minted
    BY DEF MoneyInv, SupplyNotInflated
  <2>1. Held(utxo, Addresses) <= Subsidy * Settled
    BY DEF BooksBalance, Totals
  <2>2. Held(utxo, Addresses) \in Int /\ Cardinality(DOMAIN blocks) \in Int
    BY BooksArePurses, HeldIsNatural, BlocksCount DEF BooksBalance
  <2> QED BY <2>1, <2>2, SupplyIsHeld DEF Minted, Subsidy
<1> QED BY <1>1, LedgerInvariant, BooksAlwaysBalance, PTL

(* With no crash, no rebuild and nobody who paid themselves, every coin    *)
(* ever minted is in the index when no command is under way.               *)
THEOREM SupplyIsConserved ==
  ASSUME Positive
  PROVE  Spec => []SupplyConserved
<1>1. IInv /\ MoneyInv => SupplyConserved
  <2> SUFFICES ASSUME IInv, BooksBalance, pc = "idle", crashes = 0
               PROVE  Supply = Minted
    BY DEF MoneyInv, SupplyConserved
  <2>1. Held(utxo, Addresses) = Subsidy * Settled
    BY DEF BooksBalance, Totals
  <2> QED BY <2>1, SupplyIsHeld DEF Minted
<1> QED BY <1>1, LedgerInvariant, BooksAlwaysBalance, PTL

-----------------------------------------------------------------------------
(* The refinement: commands as transfers between accounts.                 *)

(* Nobody sends to themselves. *)
ToOthers == \A p \in Payments : p.from # p.to

(* Then no block has a transaction with two outputs of one owner. *)
LEMMA NobodyPaysThemselves ==
  ASSUME ToOthers, IInv, ~SelfPaid, [Next]_vars
  PROVE  ~SelfPaid'
<1> SUFFICES ASSUME NEW h \in DOMAIN blocks', NEW i \in DOMAIN blocks'[h].txs,
                    NEW outs, outs = blocks'[h].txs[i].outs
             PROVE  ~ (Cardinality({outs[n].owner : n \in DOMAIN outs}) < Len(outs))
  BY DEF SelfPaid
<1>1. CASE h \in DOMAIN blocks
  <2>1. blocks'[h] = blocks[h]
    BY <1>1, BlocksStay
  <2> QED BY <1>1, <2>1 DEF SelfPaid
<1>2. ASSUME NEW a, outs = <<Output(Subsidy, a)>>
      PROVE  ~ (Cardinality({outs[n].owner : n \in DOMAIN outs}) < Len(outs))
  <2>1. {outs[n].owner : n \in DOMAIN outs} = {a} /\ Len(outs) = 1
    BY <1>2 DEF Output
  <2>2. Cardinality({a}) = 1
    BY FS_Singleton
  <2> QED BY <2>1, <2>2
<1>3. ASSUME NEW a \in Addresses, CommitGenesis(a), h \notin DOMAIN blocks
      PROVE  outs = <<Output(Subsidy, a)>>
  <2>1. blocks' = Put(blocks, FreshHash, CreateBlock(<<CoinbaseTx(FreshId, a)>>, NoHash, 0))
    BY <1>3 DEF CommitGenesis
  <2>2. h = FreshHash /\ blocks'[h].txs = <<CoinbaseTx(FreshId, a)>>
    BY <1>3, <2>1 DEF Put, CreateBlock
  <2>3. i = 1
    BY <2>2
  <2> QED BY <2>2, <2>3 DEF CoinbaseTx
<1>4. ASSUME NEW p \in Payments, Send(p), h \notin DOMAIN blocks
      PROVE  \/ outs = <<Output(Subsidy, p.from)>>
             \/ \E acc : outs = PaymentOutputs(acc, p.from, p.to, p.amount)
  <2>1. PICK cb, tx, acc : /\ MineBlock(<<cb, tx>>)
                           /\ cb.outs = <<Output(Subsidy, p.from)>>
                           /\ tx.outs = PaymentOutputs(acc, p.from, p.to, p.amount)
    <3>1. PICK ins : \E id \in HashIds(StoredTxs, ins, p.from,
                       PaymentOutputs(Worth(utxo, ins), p.from, p.to, p.amount),
                       CHOOSE id \in TxIds \ (UsedIds \cup {FreshId}) : TRUE) :
            MineBlock(<<CoinbaseTx(FreshId, p.from),
                        [id |-> id, ins |-> ins, key |-> p.from,
                         outs |-> PaymentOutputs(Worth(utxo, ins), p.from, p.to, p.amount)]>>)
      BY <1>4 DEF Send
    <3>2. PICK id :
            MineBlock(<<CoinbaseTx(FreshId, p.from),
                        [id |-> id, ins |-> ins, key |-> p.from,
                         outs |-> PaymentOutputs(Worth(utxo, ins), p.from, p.to, p.amount)]>>)
      BY <3>1
    <3> DEFINE acc == Worth(utxo, ins)
               cb  == CoinbaseTx(FreshId, p.from)
               tx  == [id |-> id, ins |-> ins, key |-> p.from,
                       outs |-> PaymentOutputs(acc, p.from, p.to, p.amount)]
    <3>3. cb.outs = <<Output(Subsidy, p.from)>>
      BY DEF CoinbaseTx
    <3>4. tx.outs = PaymentOutputs(acc, p.from, p.to, p.amount)
      OBVIOUS
    <3>5. MineBlock(<<cb, tx>>)
      BY <3>2
    <3> HIDE DEF acc, cb, tx
    <3> QED BY <3>3, <3>4, <3>5
  <2>2. h = FreshHash /\ blocks'[h].txs = <<cb, tx>>
    BY <1>4, <2>1 DEF MineBlock, Put, CreateBlock
  <2>3. i = 1 \/ i = 2
    BY <2>2
  <2>4. <<cb, tx>>[1] = cb /\ <<cb, tx>>[2] = tx
    OBVIOUS
  <2> QED BY <2>1, <2>2, <2>3, <2>4
<1>5. ASSUME NEW p \in Payments, NEW acc, outs = PaymentOutputs(acc, p.from, p.to, p.amount)
      PROVE  ~ (Cardinality({outs[n].owner : n \in DOMAIN outs}) < Len(outs))
  <2>1. CASE outs = <<Output(p.amount, p.to), Output(acc - p.amount, p.from)>>
    <3>1. PICK S, x : S = {p.to} /\ x = p.from
      OBVIOUS
    <3>2. {outs[n].owner : n \in DOMAIN outs} = S \cup {x} /\ Len(outs) = 2
      BY <2>1, <3>1 DEF Output
    <3>3. x \notin S /\ IsFiniteSet(S) /\ Cardinality(S) = 1
      BY <3>1, FS_Singleton DEF ToOthers
    <3>4. Cardinality(S \cup {x}) = 1 + 1
      BY <3>3, FS_AddElement
    <3> DEFINE owners == {outs[n].owner : n \in DOMAIN outs}
    <3>5. owners = S \cup {x}
      BY <3>2
    <3>6. ~ (Cardinality(owners) < Len(outs))
      <4> HIDE DEF owners
      <4> QED BY <3>2, <3>4, <3>5
    <3> QED BY <3>6
  <2>2. CASE outs = <<Output(p.amount, p.to)>>
    <3> DEFINE owners == {outs[n].owner : n \in DOMAIN outs}
    <3>1. owners = {p.to} /\ Len(outs) = 1
      BY <2>2 DEF Output
    <3>2. Cardinality({p.to}) = 1
      BY FS_Singleton
    <3>3. ~ (Cardinality(owners) < Len(outs))
      <4> HIDE DEF owners
      <4> QED BY <3>1, <3>2
    <3> QED BY <3>3
  <2>3. \/ outs = <<Output(p.amount, p.to), Output(acc - p.amount, p.from)>>
        \/ outs = <<Output(p.amount, p.to)>>
    BY <1>5 DEF PaymentOutputs
  <2> QED BY <2>1, <2>2, <2>3
<1>6. \/ h \in DOMAIN blocks
      \/ \E a \in Addresses : CommitGenesis(a)
      \/ \E p \in Payments : Send(p)
  BY DEF Next, vars, disk, CreateBlockChain, ReindexUTXO, DeleteByPrefix, StartWalk, WalkTx,
         WriteIndex, UpdateInput, UpdateOutputs, UpdateCommit, Crash, ReadOnly
<1> QED BY <1>1, <1>2, <1>3, <1>4, <1>5, <1>6

(* What getbalance shows. *)
LEMMA BalanceIsHeld ==
  ASSUME NEW u, NEW a
  PROVE  Balance(u, a) = Held(u, {a})
BY OwnedIsRefs DEF Balance, Held

(* The rebuild that ends createblockchain opens the bank. *)
LEMMA WriteIndexOpens ==
  ASSUME FirstWalk, reindexes = 0, WriteIndex
  PROVE  \E a \in Addresses : Accounts!Open(a)
<1>1. /\ pc = "walk" /\ cursor = NoHash /\ utxo' = txn
  BY DEF WriteIndex
<1>2. PICK id \in TxIds, a \in Addresses : txn = Put(EmptyMap, id, <<Output(Subsidy, a)>>)
  BY <1>1 DEF FirstWalk
<1>3. DOMAIN utxo = {} /\ DOMAIN utxo' # {}
  BY <1>1, <1>2 DEF FirstWalk, Put
<1>4. \A x \in Addresses : Balance(utxo, x) = 0
  BY <1>3, NothingHeld, BalanceIsHeld
<1>5. \A x \in Addresses : Balance(utxo', x) = Share({x}, a, Subsidy)
  <2> SUFFICES ASSUME NEW x \in Addresses
               PROVE  Held(utxo', {x}) = Share({x}, a, Subsidy)
    BY BalanceIsHeld
  <2>1. id \notin DOMAIN EmptyMap /\ DOMAIN EmptyMap = {}
    BY DEF EmptyMap
  <2>2. Purse(EmptyMap) /\ Held(EmptyMap, {x}) = 0
    BY <2>1, NothingHeld
  <2>3. Held(Put(EmptyMap, id, <<Output(Subsidy, a)>>), {x}) = 0 + Share({x}, a, Subsidy)
    <3>1. PICK A, u, n : A = {x} /\ u = EmptyMap /\ n = Subsidy
      OBVIOUS
    <3>2. n \in Nat /\ Purse(u) /\ id \notin DOMAIN u
      BY <2>1, <2>2, <3>1 DEF Subsidy
    <3>3. Held(Put(u, id, <<Output(n, a)>>), A) = Held(u, A) + Share(A, a, n)
      BY <3>2, HeldPutOne
    <3> QED BY <2>2, <3>1, <3>3
  <2> QED BY <1>1, <1>2, <2>3 DEF Share, Subsidy
<1>6. [x \in Addresses |-> Balance(utxo', x)]
        = [[x \in Addresses |-> Balance(utxo, x)] EXCEPT ![a] = @ + Subsidy]
  <2> DEFINE f == [x \in Addresses |-> Balance(utxo, x)]
  <2>1. DOMAIN f = Addresses /\ \A x \in Addresses : f[x] = 0
    BY <1>4
  <2>2. \A x \in Addresses : Balance(utxo', x) = [f EXCEPT ![a] = @ + Subsidy][x]
    <3> HIDE DEF f
    <3> QED BY <1>5, <2>1 DEF Share, Subsidy
  <2> HIDE DEF f
  <2>3. [x \in Addresses |-> Balance(utxo', x)] = [f EXCEPT ![a] = @ + Subsidy]
    BY <2>1, <2>2
  <2> QED BY <2>3 DEF f
<1> QED BY <1>3, <1>6 DEF Accounts!Open

(* The commit of Update is the payment that its block recorded. *)
LEMMA CommitPays ==
  ASSUME IInv, BooksBalance, UpdateCommit
  PROVE  \E p \in Payments : Accounts!Pay(p)
<1>1. /\ pc = "update" /\ utxo' = txn /\ pos = 3 /\ todo = {}
  BY DEF UpdateCommit, IInv, UpdateReady
<1>2. PICK p \in Payments : Updating(p)
  BY <1>1 DEF BooksBalance
<1>3. PICK tx, acc : tx = blocks[cursor].txs[2] /\ acc = Worth(utxo, tx.ins)
  OBVIOUS
<1>4. /\ IsPayment(tx) /\ acc \in Nat /\ acc >= p.amount /\ tx.id \in DOMAIN txn
      /\ tx.ins \subseteq OwnedBy(utxo, p.from)
      /\ \A A \in SUBSET Addresses :
           Held(txn, A) = Held(utxo, A) + Share(A, p.from, Subsidy - acc + Worth(utxo, {}))
             + (Share(A, p.from, acc - p.amount) + Share(A, p.to, p.amount))
  <2>1. /\ IsPayment(tx) /\ acc \in Nat /\ acc >= p.amount
        /\ tx.ins \subseteq OwnedBy(utxo, p.from)
    BY <1>2, <1>3 DEF Updating, Recorded
  <2>2. tx.id \in DOMAIN txn
    BY <1>1, <1>2, <1>3 DEF Updating, Taken
  <2>3. \A A \in SUBSET Addresses :
           Held(txn, A) = Held(utxo, A) + Share(A, p.from, Subsidy - acc + Worth(utxo, {}))
             + (Share(A, p.from, acc - p.amount) + Share(A, p.to, p.amount))
    BY <1>1, <1>2, <1>3 DEF Updating, Moved
  <2> QED BY <2>1, <2>2, <2>3
<1>5. p.from \in Addresses /\ p.to \in Addresses /\ p.amount \in Int /\ Purse(utxo)
  BY LedgerAssumption, BooksArePurses DEF BooksBalance
<1>6. DOMAIN utxo # {} /\ DOMAIN utxo' # {}
  <2>1. PICK r \in tx.ins : TRUE
    BY <1>4 DEF IsPayment
  <2> QED BY <1>1, <1>4, <2>1, OwnedIsThere
<1>7. Balance(utxo, p.from) >= p.amount
  <2>1. tx.ins \in SUBSET RefsOf(utxo, {p.from})
    BY <1>4, OwnedIsRefs
  <2>2. acc <= Held(utxo, {p.from}) /\ Held(utxo, {p.from}) \in Nat
    BY <1>3, <1>5, <2>1, PartIsLess, HeldIsNatural
  <2> QED BY <1>4, <1>5, <2>2, BalanceIsHeld
<1>8. \A x \in Addresses :
        Balance(utxo', x) = Balance(utxo, x) + (IF x = p.from THEN Subsidy - p.amount ELSE 0)
                                             + (IF x = p.to THEN p.amount ELSE 0)
  <2> SUFFICES ASSUME NEW x \in Addresses
               PROVE  Held(txn, {x}) = Held(utxo, {x})
                        + (IF x = p.from THEN Subsidy - p.amount ELSE 0)
                        + (IF x = p.to THEN p.amount ELSE 0)
    BY <1>1, BalanceIsHeld
  <2>1. {x} \in SUBSET Addresses /\ Worth(utxo, {}) = 0 /\ Held(utxo, {x}) \in Nat
    BY <1>5, WorthOfNone, HeldIsNatural
  <2>2. Held(txn, {x}) = Held(utxo, {x}) + Share({x}, p.from, Subsidy - acc + 0)
             + (Share({x}, p.from, acc - p.amount) + Share({x}, p.to, p.amount))
    BY <1>4, <2>1
  <2> QED BY <1>4, <1>5, <2>1, <2>2 DEF Share, Subsidy
<1> QED BY <1>6, <1>7, <1>8, <1>5 DEF Accounts!Pay

(* Every other step leaves the index as it is. *)
LEMMA BankStep ==
  ASSUME IInv, SignInv, MoneyInv, reindexes = 0, ~SelfPaid, [Next]_vars
  PROVE  \/ Accounts!Next
         \/ UNCHANGED <<DOMAIN utxo # {}, [a \in Addresses |-> Balance(utxo, a)]>>
<1>1. CASE utxo' = utxo
  BY <1>1
<1>2. CASE DeleteByPrefix
  BY <1>2 DEF DeleteByPrefix, SignInv, FirstWalk
<1>3. CASE WriteIndex
  BY <1>3, WriteIndexOpens DEF Accounts!Next, SignInv
<1>4. CASE UpdateCommit
  BY <1>4, CommitPays DEF Accounts!Next, MoneyInv
<1>5. utxo' = utxo \/ DeleteByPrefix \/ WriteIndex \/ UpdateCommit
  BY DEF Next, vars, disk, CreateBlockChain, CommitGenesis, ReindexUTXO, StartWalk, WalkTx,
         Send, UpdateInput, UpdateOutputs, Crash, ReadOnly
<1> QED BY <1>1, <1>2, <1>3, <1>4, <1>5

(* Between different people and with positive amounts, what getbalance     *)
(* shows changes as the accounts of a bank do, wherever processes die.     *)
THEOREM LedgerImplementsBank ==
  ASSUME Positive, ToOthers, MaxReindexes = 0
  PROVE  Spec => ImplementsBank
<1> DEFINE Inv == IInv /\ SignInv /\ MoneyInv /\ reindexes = 0 /\ ~SelfPaid
<1>1. Init => Inv
  <2> SUFFICES ASSUME Init
               PROVE  reindexes = 0 /\ ~SelfPaid
    BY InitIInv, InitSignInv, InitMoneyInv
  <2> QED BY DEF Init, SelfPaid, EmptyMap
<1>2. Inv /\ [Next]_vars => Inv'
  <2> SUFFICES ASSUME Inv, [Next]_vars
               PROVE  Inv'
    OBVIOUS
  <2>1. (IInv /\ SignInv /\ MoneyInv)'
    BY NextKeepsIInv, NextKeepsSignInv, NextKeepsMoneyInv
  <2>2. reindexes' = 0
    BY <2>1 DEF SignInv, MemoryAgrees
  <2>3. ~SelfPaid'
    BY NobodyPaysThemselves
  <2> QED BY <2>1, <2>2, <2>3
<1>3. Init => Accounts!Init
  <2> SUFFICES ASSUME Init
               PROVE  Accounts!Init
    OBVIOUS
  <2>1. DOMAIN utxo = {}
    BY DEF Init, EmptyMap
  <2>2. \A a \in Addresses : Balance(utxo, a) = 0
    BY <2>1, NothingHeld, BalanceIsHeld
  <2> QED BY <2>1, <2>2 DEF Accounts!Init
<1>4. Inv /\ [Next]_vars =>
        [Accounts!Next]_<<DOMAIN utxo # {}, [a \in Addresses |-> Balance(utxo, a)]>>
  BY BankStep
<1> HIDE DEF Inv
<1> QED BY <1>1, <1>2, <1>3, <1>4, PTL DEF Spec, ImplementsBank, Accounts!Spec

-----------------------------------------------------------------------------
(* FindUTXO.  What it has listed are the unspent outputs of what it met.   *)

(* How many members of K are not above i. *)
Rank(K, i) == Cardinality({j \in K : j <= i})

(* t lists the elements of s at the positions K in order. *)
Picks(t, s, K) ==
  /\ Len(t) = Cardinality(K)
  /\ \A i \in K : Rank(K, i) \in 1..Cardinality(K) /\ t[Rank(K, i)] = s[i]

(* In a finite set of numbers a larger one has more of them below it.      *)
LEMMA RanksDiffer ==
  ASSUME NEW K, IsFiniteSet(K), K \subseteq Int, NEW i \in K, NEW k \in K,
         Rank(K, i) = Rank(K, k)
  PROVE  i = k
<1>1. ASSUME NEW a \in K, NEW b \in K, a < b,
             Rank(K, a) = Rank(K, b)
      PROVE  FALSE
  <2>1. PICK A, B : A = {j \in K : j <= a} /\ B = {j \in K : j <= b}
    OBVIOUS
  <2>2. a \in Int /\ b \in Int /\ \A j \in K : j \in Int
    OBVIOUS
  <2>3. A \in SUBSET B /\ B \in SUBSET K /\ b \in B /\ b \notin A
    <3>1. \A j \in K : j <= a => j <= b
      BY <1>1, <2>2
    <3>2. A \subseteq B
      BY <2>1, <3>1
    <3>3. B \subseteq K
      BY <2>1
    <3>4. b <= b /\ ~(b <= a)
      BY <1>1, <2>2
    <3>5. b \in B /\ b \notin A
      BY <2>1, <3>4
    <3> QED BY <3>2, <3>3, <3>5
  <2>4. IsFiniteSet(B)
    BY <2>3, FS_Subset
  <2>5. A = B
    BY <1>1, <2>1, <2>3, <2>4, FS_Subset DEF Rank
  <2> QED BY <2>3, <2>5
<1>2. i \in Int /\ k \in Int
  OBVIOUS
<1> QED BY <1>1, <1>2

(* FindUTXO's loop over the outputs of a transaction keeps them in order.  *)
LEMMA CompactKeeps ==
  ASSUME NEW s, Tuple(s), NEW gone,
         NEW K, \A i : i \in K <=> i \in DOMAIN s /\ i \notin gone,
         NEW c, c = Compact(s, gone)
  PROVE  IsFiniteSet(K) /\ Picks(c, s, K)
<1>1. Len(s) \in Nat /\ DOMAIN s = 1..Len(s)
  BY TupleDomain
<1>2. IsFiniteSet(1..Len(s))
  BY <1>1, FS_Interval
<1>3. K \in SUBSET (1..Len(s)) /\ K \subseteq Int
  BY <1>1
<1>4. IsFiniteSet(K)
  BY <1>2, <1>3, FS_Subset
<1>5. Cardinality(K) \in Nat
  BY <1>4, FS_CardinalityType
<1>6. c = [n \in 1..Cardinality(K) |-> s[CHOOSE i \in K : Rank(K, i) = n]]
  <2>1. K = DOMAIN s \ gone
    OBVIOUS
  <2> QED BY <2>1 DEF Compact, Rank
<1>7. Len(c) = Cardinality(K)
  <2>1. /\ Len(c) \in Nat
        /\ DOMAIN c = 1..Len(c)
    BY CompactTuple, TupleDomain
  <2>2. DOMAIN c = 1..Cardinality(K)
    BY <1>6
  <2> QED BY <1>5, <2>1, <2>2
<1>8. ASSUME NEW i \in K
      PROVE  /\ Rank(K, i) \in 1..Cardinality(K)
             /\ c[Rank(K, i)] = s[i]
  <2>1. PICK n : n = Rank(K, i)
    OBVIOUS
  <2>2. n \in 1..Cardinality(K)
    <3>1. PICK A : A = {j \in K : j <= i}
      OBVIOUS
    <3>2. A \in SUBSET K /\ i \in A
      BY <1>3, <3>1
    <3>3. IsFiniteSet(A) /\ Cardinality(A) <= Cardinality(K)
      BY <1>4, <3>2, FS_Subset
    <3>4. Cardinality(A) \in Nat /\ Cardinality(A) # 0
      BY <3>2, <3>3, FS_CardinalityType, FS_EmptySet
    <3>5. n = Cardinality(A)
      BY <2>1, <3>1 DEF Rank
    <3> QED BY <1>5, <3>3, <3>4, <3>5
  <2>3. \A k \in K : Rank(K, k) = n => k = i
    BY <1>3, <1>4, <2>1, RanksDiffer
  <2>4. (CHOOSE k \in K : Rank(K, k) = n) = i
    BY <2>1, <2>3
  <2>5. c[n] = s[CHOOSE k \in K : Rank(K, k) = n]
    BY <1>6, <2>2
  <2> QED BY <2>1, <2>2, <2>4, <2>5
<1> QED BY <1>4, <1>7, <1>8 DEF Picks

(* As many places as positions. *)
LEMMA PlacesCount ==
  ASSUME NEW o, NEW J, IsFiniteSet(J), NEW P, \A v : v \in P <=> \E j \in J : v = <<o, j>>
  PROVE  IsFiniteSet(P) /\ Cardinality(P) = Cardinality(J)
<1>1. PICK f, g : f = [j \in J |-> <<o, j>>] /\ g = [v \in P |-> v[2]]
  OBVIOUS
<1>2. f \in Surjection(J, P)
  <2>1. f \in [J -> P] /\ \A j \in J : f[j] = <<o, j>>
    BY <1>1
  <2> QED BY <2>1 DEF Surjection
<1>3. g \in Surjection(P, J)
  <2>1. \A v \in P : v[2] \in J
    OBVIOUS
  <2>2. g \in [P -> J]
    BY <1>1, <2>1
  <2>3. ASSUME NEW j \in J
        PROVE  \E v \in P : g[v] = j
    <3>1. <<o, j>> \in P /\ <<o, j>>[2] = j
      OBVIOUS
    <3>2. g[<<o, j>>] = j
      BY <1>1, <3>1
    <3> QED BY <3>1, <3>2
  <2> QED BY <2>2, <2>3 DEF Surjection
<1>4. IsFiniteSet(P) /\ Cardinality(P) <= Cardinality(J)
  BY <1>2, FS_Surjection
<1>5. Cardinality(J) <= Cardinality(P)
  BY <1>3, <1>4, FS_Surjection
<1> QED BY <1>4, <1>5, FS_CardinalityType

(* Behind a list of outputs go those of a transaction below them all.      *)
LEMMA ListsExtend ==
  ASSUME NEW s, NEW t, Tuple(s), Tuple(t), NEW C, Lists(s, C),
         NEW o, blocks[o[1]].height \in Int,
         NEW K, IsFiniteSet(K), K \subseteq Int,
         \A u \in C : /\ u[2] \in Int
                      /\ \A i \in K : Ahead(u, <<o, i>>) /\ ~ Ahead(<<o, i>>, u),
         Picks(t, TxAt(o).outs, K),
         NEW D, \A v : v \in D <=> \E i \in K : v = <<o, i>>
  PROVE  Lists(s \o t, C \cup D)
<1>1. IsFiniteSet(C) /\ Cardinality(C) \in Nat /\ Cardinality(K) \in Nat
  BY FS_CardinalityType DEF Lists
<1>2. IsFiniteSet(D) /\ Cardinality(D) = Cardinality(K)
  BY PlacesCount
<1>3. \A u \in C : u \notin D
  OBVIOUS
<1>4. IsFiniteSet(C \cup D) /\ Cardinality(C \cup D) = Cardinality(C) + Cardinality(K)
  <2>1. PICK E : E = C \cap D
    OBVIOUS
  <2>2. E = {}
    BY <1>3, <2>1
  <2>3. Cardinality(E) = 0
    BY <2>2, FS_EmptySet
  <2>4. /\ IsFiniteSet(C \cup D)
        /\ Cardinality(C \cup D) = Cardinality(C) + Cardinality(D) - Cardinality(E)
    BY <1>1, <1>2, <2>1, FS_Union
  <2> QED BY <1>1, <1>2, <2>3, <2>4
<1>5. Len(s) = Cardinality(C) /\ Len(t) = Cardinality(K)
  <2>1. Len(s) \in Nat /\ DOMAIN s = 1..Len(s) /\ DOMAIN s = 1..Cardinality(C)
    BY TupleDomain DEF Lists
  <2> QED BY <1>1, <2>1 DEF Picks
<1>6. /\ DOMAIN (s \o t) = 1..(Cardinality(C) + Cardinality(K))
      /\ \A n \in 1..Cardinality(C) : (s \o t)[n] = s[n]
      /\ \A n \in 1..Cardinality(K) : (s \o t)[Cardinality(C) + n] = t[n]
  <2>1. PICK S : s \in Seq(S) /\ t \in Seq(S)
    <3>1. PICK S : S = {s[i] : i \in DOMAIN s} \cup {t[i] : i \in DOMAIN t}
      OBVIOUS
    <3>2. s \in Seq(S) /\ t \in Seq(S)
      BY <3>1, SeqMonotonic DEF Tuple
    <3> QED BY <3>2
  <2>2. /\ s \o t \in Seq(S)
        /\ Len(s \o t) = Len(s) + Len(t)
        /\ \A n \in 1..(Len(s) + Len(t)) :
             (s \o t)[n] = IF n <= Len(s) THEN s[n] ELSE t[n - Len(s)]
    BY <2>1, ConcatProperties
  <2>3. DOMAIN (s \o t) = 1..Len(s \o t)
    BY <2>2, LenProperties
  <2>4. ASSUME NEW n \in 1..Cardinality(C)
        PROVE  (s \o t)[n] = s[n]
    BY <1>1, <1>5, <2>2
  <2>5. ASSUME NEW n \in 1..Cardinality(K)
        PROVE  (s \o t)[Cardinality(C) + n] = t[n]
    <3>1. PICK m : m = Cardinality(C) + n
      OBVIOUS
    <3>2. m \in 1..(Len(s) + Len(t)) /\ ~(m <= Len(s)) /\ m - Len(s) = n
      BY <1>1, <1>5, <3>1
    <3>3. (s \o t)[m] = t[m - Len(s)]
      BY <2>2, <3>2
    <3> QED BY <3>1, <3>2, <3>3
  <2> QED BY <1>5, <2>2, <2>3, <2>4, <2>5
<1>7. ASSUME NEW v \in C
      PROVE  (s \o t)[Cardinality({u \in C \cup D : Ahead(u, v)})] = OutputAt(v)
  <2>1. PICK A : A = {u \in C : Ahead(u, v)}
    OBVIOUS
  <2>2. {u \in C \cup D : Ahead(u, v)} = A
    BY <2>1
  <2>3. v \in A /\ A \in SUBSET C
    BY <2>1 DEF Ahead
  <2>4. IsFiniteSet(A) /\ Cardinality(A) <= Cardinality(C)
    BY <1>1, <2>3, FS_Subset
  <2>5. Cardinality(A) \in Nat /\ Cardinality(A) # 0
    BY <2>3, <2>4, FS_CardinalityType, FS_EmptySet
  <2>6. Cardinality(A) \in 1..Cardinality(C)
    BY <1>1, <2>4, <2>5
  <2>7. s[Cardinality(A)] = OutputAt(v)
    BY <2>1 DEF Lists
  <2> QED BY <1>6, <2>2, <2>6, <2>7
<1>8. ASSUME NEW v \in D
      PROVE  (s \o t)[Cardinality({u \in C \cup D : Ahead(u, v)})] = OutputAt(v)
  <2>1. PICK i \in K : v = <<o, i>>
    OBVIOUS
  <2> DEFINE J == {j \in K : j <= i}
             P == {<<o, j>> : j \in J}
  <2>2. /\ \A j : j \in J <=> j \in K /\ j <= i
        /\ \A w : w \in P <=> \E j \in J : w = <<o, j>>
        /\ Cardinality(J) = Rank(K, i)
    BY DEF Rank
  <2> HIDE DEF J, P
  <2>3. P \in SUBSET D /\ J \in SUBSET K
    BY <2>2
  <2>4. \A j \in K : Ahead(<<o, j>>, v) <=> j <= i
    BY <2>1 DEF Ahead, After
  <2>5. {u \in C \cup D : Ahead(u, v)} = C \cup P
    <3>1. ASSUME NEW u
          PROVE  u \in C \cup D /\ Ahead(u, v) <=> u \in C \cup P
      <4>1. CASE u \in C
        BY <2>1, <4>1
      <4>2. CASE u \notin C
        <5>1. u \in D /\ Ahead(u, v) <=> \E j \in K : u = <<o, j>> /\ j <= i
          BY <2>4
        <5>2. u \in P <=> \E j \in K : u = <<o, j>> /\ j <= i
          BY <2>2
        <5> QED BY <4>2, <5>1, <5>2
      <4> QED BY <4>1, <4>2
    <3> QED BY <3>1
  <2>6. IsFiniteSet(P) /\ Cardinality(P) = Cardinality(J)
    <3>1. IsFiniteSet(J)
      BY <2>3, FS_Subset
    <3>2. \A w : w \in P <=> \E j \in J : w = <<o, j>>
      BY <2>2
    <3> QED BY <3>1, <3>2, PlacesCount
  <2>7. Cardinality(C \cup P) = Cardinality(C) + Cardinality(J) /\ Cardinality(J) = Rank(K, i)
    <3>1. PICK E : E = C \cap P
      OBVIOUS
    <3>2. E = {}
      BY <1>3, <2>3, <3>1
    <3>3. Cardinality(E) = 0
      BY <3>2, FS_EmptySet
    <3>4. Cardinality(C \cup P) = Cardinality(C) + Cardinality(P) - Cardinality(E)
      BY <1>1, <2>6, <3>1, FS_Union
    <3>5. Cardinality(J) = Rank(K, i) /\ Cardinality(J) \in 1..Cardinality(K)
      BY <2>2 DEF Picks
    <3> QED BY <1>1, <2>6, <3>3, <3>4, <3>5
  <2>8. Cardinality(J) \in 1..Cardinality(K) /\ t[Cardinality(J)] = TxAt(o).outs[i]
    BY <2>7 DEF Picks
  <2>9. OutputAt(v) = TxAt(o).outs[i]
    BY <2>1 DEF OutputAt
  <2> QED BY <1>6, <2>5, <2>7, <2>8, <2>9
<1> QED BY <1>4, <1>6, <1>7, <1>8 DEF Lists

(* Every command leaves the blocks a coinbase and at most one payment. *)
LEMMA NextKeepsShape == IInv /\ ChainShape /\ [Next]_vars => ChainShape'
<1> SUFFICES ASSUME IInv, ChainShape, [Next]_vars
             PROVE  ChainShape'
  OBVIOUS
<1>1. CASE blocks' = blocks
  BY <1>1 DEF ChainShape, Spend, IsCoinbase
<1>2. ASSUME NEW a \in Addresses, CommitGenesis(a)
      PROVE  ChainShape'
  <2>1. PICK cb : cb = CoinbaseTx(FreshId, a)
    OBVIOUS
  <2>2. PICK b : b = CreateBlock(<<cb>>, NoHash, 0)
    OBVIOUS
  <2>3. blocks' = Put(blocks, FreshHash, b)
    BY <1>2, <2>1, <2>2 DEF CommitGenesis
  <2>4. b.txs = <<cb>> /\ DOMAIN b.txs = 1..1 /\ Len(b.txs) = 1 /\ b.txs[1] = cb
    BY <2>2 DEF CreateBlock
  <2>5. Spend(cb) = {}
    BY <2>1 DEF Spend, IsCoinbase, CoinbaseTx
  <2>6. ASSUME NEW h \in DOMAIN blocks'
        PROVE  LET txs == blocks'[h].txs
               IN  /\ Len(txs) \in 1..2
                   /\ Spend(txs[1]) = {}
                   /\ \A i \in DOMAIN txs : \A r \in Spend(txs[i]) : r = [id |-> r.id, out |-> r.out]
                   /\ \A i, j \in DOMAIN txs : txs[i].id = txs[j].id => i = j
    <3>1. CASE h = FreshHash
      <4>1. blocks'[h] = b
        BY <2>3, <3>1 DEF Put
      <4>2. \A i \in 1..1 : i = 1
        OBVIOUS
      <4> QED BY <2>4, <2>5, <4>1, <4>2
    <3>2. CASE h # FreshHash
      <4>1. h \in DOMAIN blocks /\ blocks'[h] = blocks[h]
        BY <2>3, <3>2 DEF Put
      <4> QED BY <4>1 DEF ChainShape
    <3> QED BY <3>1, <3>2
  <2> QED BY <2>6 DEF ChainShape, Spend, IsCoinbase
<1>3. ASSUME NEW p \in Payments, Send(p)
      PROVE  ChainShape'
  <2> DEFINE outs(ins) == PaymentOutputs(Worth(utxo, ins), p.from, p.to, p.amount)
             other == CHOOSE id \in TxIds \ (UsedIds \cup {FreshId}) : TRUE
  <2>1. PICK cb : cb = CoinbaseTx(FreshId, p.from)
    OBVIOUS
  <2>2. PICK ins \in FindSpendableOutputs(utxo, p.from, p.amount) :
          \E id \in HashIds(StoredTxs, ins, p.from, outs(ins), other) :
            MineBlock(<<cb, [id |-> id, ins |-> ins, key |-> p.from, outs |-> outs(ins)]>>)
    BY <1>3, <2>1 DEF Send
  <2>3. PICK id \in HashIds(StoredTxs, ins, p.from, outs(ins), other) :
          MineBlock(<<cb, [id |-> id, ins |-> ins, key |-> p.from, outs |-> outs(ins)]>>)
    BY <2>2
  <2>4. PICK tx : tx = [id |-> id, ins |-> ins, key |-> p.from, outs |-> outs(ins)]
    OBVIOUS
  <2>5. PICK b : b = CreateBlock(<<cb, tx>>, lastHash, blocks[lastHash].height + 1)
    OBVIOUS
  <2>6. blocks' = Put(blocks, FreshHash, b)
    BY <2>3, <2>4, <2>5 DEF MineBlock
  <2>7. DOMAIN b.txs = 1..2 /\ Len(b.txs) = 2 /\ b.txs[1] = cb /\ b.txs[2] = tx
    BY <2>5 DEF CreateBlock
  <2>8. Spend(cb) = {} /\ cb.id = FreshId
    BY <2>1 DEF Spend, IsCoinbase, CoinbaseTx
  <2>9. \A r \in Spend(tx) : r = [id |-> r.id, out |-> r.out]
    BY <2>4, SelectionIsIndexed DEF Spend
  <2>10. id # FreshId
    <3>1. Cardinality(TxIds \ UsedIds) >= 2
      BY <1>3 DEF Send
    <3>2. TxIds \ UsedIds # {} /\ TxIds \ UsedIds # {FreshId}
      BY <3>1, FS_EmptySet, FS_Singleton
    <3>3. FreshId \in TxIds /\ FreshId \notin UsedIds
      BY <3>2, FreshIdIsNew
    <3>4. TxIds \ (UsedIds \cup {FreshId}) # {}
      BY <3>2, <3>3
    <3>5. other # FreshId
      BY <3>4
    <3> HIDE DEF other
    <3>6. id = other \/ id \in {t.id : t \in StoredTxs}
      BY DEF HashIds
    <3> QED BY <3>3, <3>5, <3>6 DEF UsedIds
  <2>11. ASSUME NEW h \in DOMAIN blocks'
         PROVE  LET txs == blocks'[h].txs
                IN  /\ Len(txs) \in 1..2
                    /\ Spend(txs[1]) = {}
                    /\ \A i \in DOMAIN txs : \A r \in Spend(txs[i]) : r = [id |-> r.id, out |-> r.out]
                    /\ \A i, j \in DOMAIN txs : txs[i].id = txs[j].id => i = j
    <3>1. CASE h = FreshHash
      <4>1. blocks'[h] = b
        BY <2>6, <3>1 DEF Put
      <4>2. \A i \in 1..2 : i = 1 \/ i = 2
        OBVIOUS
      <4>3. tx.id # cb.id
        BY <2>4, <2>8, <2>10
      <4>4. \A r \in Spend(cb) : r = [id |-> r.id, out |-> r.out]
        BY <2>8
      <4> QED BY <2>7, <2>8, <2>9, <4>1, <4>2, <4>3, <4>4
    <3>2. CASE h # FreshHash
      <4>1. h \in DOMAIN blocks /\ blocks'[h] = blocks[h]
        BY <2>6, <3>2 DEF Put
      <4> QED BY <4>1 DEF ChainShape
    <3> QED BY <3>1, <3>2
  <2> QED BY <2>11 DEF ChainShape, Spend, IsCoinbase
<1>4. \/ blocks' = blocks
      \/ \E a \in Addresses : CommitGenesis(a)
      \/ \E p \in Payments : Send(p)
  BY DEF Next, vars, disk, CreateBlockChain, ReindexUTXO, DeleteByPrefix, StartWalk, WalkTx,
         WriteIndex, UpdateInput, UpdateOutputs, UpdateCommit, Crash, ReadOnly
<1> QED BY <1>1, <1>2, <1>3, <1>4

(* A chain that stays has its transactions, and what of them is unspent,   *)
(* where it had them.                                                      *)
LEMMA ChainStays ==
  ASSUME UNCHANGED <<blocks, lastHash>>
  PROVE  /\ Occurrences' = Occurrences
         /\ \A id : Unspent(id)' = Unspent(id)
         /\ \A s, C : Lists(s, C) => Lists(s, C)'
<1>1. Occurrences' = Occurrences
  BY DEF Occurrences, OnChain
<1>2. ASSUME NEW id
      PROVE  Unspent(id)' = Unspent(id)
  BY <1>1 DEF Unspent, UnspentPositions, After, TxAt
<1>3. ASSUME NEW s, NEW C, Lists(s, C)
      PROVE  Lists(s, C)'
  BY <1>3 DEF Lists, Ahead, After, OutputAt, TxAt
<1> QED BY <1>1, <1>2, <1>3

(* FindUTXO's iterator starts before all of the chain. *)
LEMMA StartMeetsNothing ==
  ASSUME IInv, MemoryAgrees, StartWalk
  PROVE  MetIsListed'
<1>1. /\ pc' = "walk" /\ cursor' = lastHash /\ pos' = 1 /\ lastHash # NoHash
      /\ blocks' = blocks /\ lastHash' = lastHash /\ txn' = txn /\ spent' = spent
      /\ DOMAIN txn = {} /\ spent = {}
  BY DEF StartWalk, disk, MemoryAgrees, IInv, PhaseAgrees
<1>2. Occurrences' = Occurrences
  BY <1>1, ChainStays
<1>3. ASSUME NEW o \in Met'
      PROVE  FALSE
  <2>1. /\ o \in Occurrences
        /\ blocks[o[1]].height > blocks[lastHash].height \/ o[2] < 1
    BY <1>1, <1>2 DEF Met
  <2>2. PICK h \in OnChain : \E i \in DOMAIN blocks[h].txs : o = <<h, i>>
    BY <2>1 DEF Occurrences
  <2>3. PICK i \in DOMAIN blocks[h].txs : o = <<h, i>>
    BY <2>2
  <2>4. h \in DOMAIN blocks
    BY DEF OnChain
  <2>5. blocks[h].height \in Nat /\ blocks[lastHash].height \in Nat
        /\ blocks[h].height <= blocks[lastHash].height
    BY <1>1, <2>4 DEF IInv, ChainLinked
  <2>6. i \in Nat /\ i >= 1
    BY <2>4, TupleDomain DEF IInv, BlocksWellFormed
  <2> QED BY <2>1, <2>3, <2>5, <2>6
<1>4. Met' = {}
  BY <1>3
<1>5. ASSUME NEW id \in TxIds, NEW C, C = {}
      PROVE  Lists(<<>>, C)'
  <2>1. IsFiniteSet(C) /\ Cardinality(C) = 0
    BY <1>5, FS_EmptySet
  <2>2. DOMAIN <<>> = 1..0
    OBVIOUS
  <2> QED BY <1>5, <2>1, <2>2 DEF Lists
<1>6. ASSUME NEW id \in TxIds
      PROVE  Lists(Entry(txn, id), {u \in Unspent(id) : u[1] \in Met})'
  <2>1. Entry(txn', id) = <<>>
    BY <1>1 DEF Entry
  <2>2. {u \in Unspent(id)' : u[1] \in Met'} = {}
    BY <1>4
  <2> QED BY <1>5, <2>1, <2>2 DEF Lists, Entry
<1>7. spent' = UNION {Spend(TxAt(o))' : o \in Met'}
  BY <1>1, <1>4
<1> QED BY <1>6, <1>7 DEF MetIsListed

(* An occurrence is a transaction of a stored block. *)
LEMMA OccurrencesAre ==
  ASSUME IInv, lastHash # NoHash
  PROVE  \A o : o \in Occurrences <=>
           \E h \in DOMAIN blocks : \E i \in DOMAIN blocks[h].txs : o = <<h, i>>
<1>1. OnChain = DOMAIN blocks
  BY LinkedHasNoOrphan DEF IInv, NoOrphan
<1> QED BY <1>1 DEF Occurrences

(* The step of FindUTXO's iterator: it has met one transaction more. *)
LEMMA MeetOne ==
  ASSUME IInv, WalkTx
  PROVE  /\ <<cursor, pos>> \in Occurrences /\ <<cursor, pos>> \notin Met
         /\ Met' = Met \cup {<<cursor, pos>>}
<1>1. /\ pc = "walk" /\ cursor # NoHash /\ blocks' = blocks /\ lastHash' = lastHash
      /\ cursor' = IF pos < Len(blocks[cursor].txs) THEN cursor ELSE blocks[cursor].prev
      /\ pos' = IF pos < Len(blocks[cursor].txs) THEN pos + 1 ELSE 1
  BY DEF WalkTx, disk
<1>2. lastHash # NoHash
  BY <1>1 DEF IInv, PhaseAgrees
<1>3. cursor \in DOMAIN blocks /\ pos \in DOMAIN blocks[cursor].txs
  BY <1>1 DEF IInv, WalkOnChain
<1>4. <<cursor, pos>> \in Occurrences
  BY <1>2, <1>3, OccurrencesAre
<1>5. \A h \in DOMAIN blocks : /\ blocks[h].height \in Nat
                               /\ Len(blocks[h].txs) \in Nat
                               /\ DOMAIN blocks[h].txs = 1..Len(blocks[h].txs)
  BY TupleDomain DEF IInv, ChainLinked, BlocksWellFormed
<1>6. <<cursor, pos>> \notin Met
  BY <1>1, <1>3, <1>5 DEF Met
<1>7. Occurrences' = Occurrences
  BY <1>1, ChainStays
<1>8. ASSUME NEW o \in Occurrences
      PROVE  o \in Met' <=> o \in Met \/ o = <<cursor, pos>>
  <2>1. PICK h \in DOMAIN blocks : \E i \in DOMAIN blocks[h].txs : o = <<h, i>>
    BY <1>2, OccurrencesAre
  <2>2. PICK i \in DOMAIN blocks[h].txs : o = <<h, i>>
    BY <2>1
  <2>3. blocks[h].height \in Nat /\ blocks[cursor].height \in Nat /\ i \in 1..Len(blocks[h].txs)
        /\ Len(blocks[cursor].txs) \in Nat /\ pos \in 1..Len(blocks[cursor].txs)
    BY <1>3, <1>5
  <2>4. o \in Met <=> blocks[h].height > blocks[cursor].height \/ (h = cursor /\ i < pos)
    BY <1>1, <2>2 DEF Met
  <2>5. o \in Met' <=> (cursor' # NoHash => \/ blocks[h].height > blocks[cursor'].height
                                            \/ h = cursor' /\ i < pos')
    BY <1>1, <1>7, <2>2 DEF Met
  <2>6. o = <<cursor, pos>> <=> h = cursor /\ i = pos
    BY <2>2
  <2>7. CASE pos < Len(blocks[cursor].txs)
    <3>1. cursor' = cursor /\ pos' = pos + 1
      BY <1>1, <2>7
    <3> QED BY <1>1, <2>3, <2>4, <2>5, <2>6, <3>1
  <2>8. CASE ~(pos < Len(blocks[cursor].txs))
    <3>1. cursor' = blocks[cursor].prev /\ pos' = 1
      BY <1>1, <2>8
    <3>2. pos = Len(blocks[cursor].txs)
      BY <2>3, <2>8
    <3>3. blocks[h].height = blocks[cursor].height => h = cursor
      BY <1>3 DEF IInv, ChainLinked
    <3>4. CASE blocks[cursor].height = 0
      <4>1. cursor' = NoHash
        BY <1>3, <3>1, <3>4 DEF IInv, ChainLinked
      <4>2. o \in Met'
        BY <2>5, <4>1
      <4>3. blocks[h].height > blocks[cursor].height \/ h = cursor
        BY <2>3, <3>3, <3>4
      <4>4. h = cursor => i < pos \/ i = pos
        BY <2>3, <3>2
      <4> QED BY <2>4, <2>6, <4>2, <4>3, <4>4
    <3>5. CASE blocks[cursor].height # 0
      <4>1. cursor' \in DOMAIN blocks /\ blocks[cursor].height = blocks[cursor'].height + 1
        BY <1>3, <3>1, <3>5 DEF IInv, ChainLinked
      <4>2. cursor' # NoHash /\ blocks[cursor'].height \in Nat
        BY <1>5, <4>1, LedgerAssumption DEF IInv, BlocksWellFormed
      <4>3. ~(i < pos')
        BY <2>3, <3>1
      <4>4. o \in Met' <=> blocks[h].height > blocks[cursor'].height
        BY <2>5, <4>2, <4>3
      <4>5. blocks[h].height > blocks[cursor'].height
            <=> blocks[h].height > blocks[cursor].height \/ blocks[h].height = blocks[cursor].height
        BY <2>3, <4>1, <4>2
      <4>6. blocks[h].height = blocks[cursor].height <=> h = cursor
        BY <3>3
      <4>7. h = cursor => i < pos \/ i = pos
        BY <2>3, <3>2
      <4> QED BY <2>4, <2>6, <4>4, <4>5, <4>6, <4>7
    <3> QED BY <3>4, <3>5
  <2> QED BY <2>7, <2>8
<1>9. Met' \subseteq Occurrences /\ Met \subseteq Occurrences
  BY <1>7 DEF Met
<1> QED BY <1>4, <1>6, <1>8, <1>9

(* What FindUTXO was told of the spending of a transaction it comes to is  *)
(* what later blocks spend: the payment it met in the same block, or the   *)
(* coinbase, spends nothing of it.                                         *)
LEMMA SpentIsKnown ==
  ASSUME IInv, ChainShape, MetIsListed, pc = "walk", cursor # NoHash,
         NEW o, o = <<cursor, pos>>, NEW gone,
         \A i : i \in gone <=> \E r \in spent : r.id = TxAt(o).id /\ r.out = i
  PROVE  UnspentPositions(o) = DOMAIN TxAt(o).outs \ gone
<1>1. lastHash # NoHash /\ cursor \in DOMAIN blocks /\ pos \in DOMAIN blocks[cursor].txs
  BY DEF IInv, PhaseAgrees, WalkOnChain
<1>2. spent = UNION {Spend(TxAt(q)) : q \in Met}
  BY DEF MetIsListed
<1>3. ASSUME NEW i
      PROVE  i \in gone <=>
               \E q \in Occurrences : After(q, o) /\ [id |-> TxAt(o).id, out |-> i] \in Spend(TxAt(q))
  <2>1. ASSUME NEW q \in Occurrences
        PROVE  \A r \in Spend(TxAt(q)) : /\ r = [id |-> r.id, out |-> r.out]
                                         /\ q \in Met <=> After(q, o)
    <3> SUFFICES ASSUME NEW r \in Spend(TxAt(q))
                 PROVE  /\ r = [id |-> r.id, out |-> r.out]
                        /\ q \in Met <=> After(q, o)
      OBVIOUS
    <3>1. PICK h \in DOMAIN blocks : \E j \in DOMAIN blocks[h].txs : q = <<h, j>>
      BY <1>1, OccurrencesAre
    <3>2. PICK j \in DOMAIN blocks[h].txs : q = <<h, j>>
      BY <3>1
    <3>3. TxAt(q) = blocks[h].txs[j]
      BY <3>2 DEF TxAt
    <3>4. r = [id |-> r.id, out |-> r.out] /\ j # 1
      BY <3>3 DEF ChainShape
    <3>5. j \in 1..2 /\ pos \in 1..2
      BY <1>1, TupleDomain DEF IInv, BlocksWellFormed, ChainShape
    <3>6. ~(j < pos)
      BY <3>4, <3>5
    <3>7. q \in Met <=> After(q, o)
      BY <3>2, <3>6 DEF Met, After
    <3> QED BY <3>4, <3>7
  <2>2. Met \subseteq Occurrences
    BY DEF Met
  <2>3. ASSUME NEW r \in spent, r.id = TxAt(o).id, r.out = i
        PROVE  \E q \in Occurrences : After(q, o) /\ [id |-> TxAt(o).id, out |-> i] \in Spend(TxAt(q))
    <3>1. PICK q \in Met : r \in Spend(TxAt(q))
      BY <1>2
    <3>2. q \in Occurrences /\ After(q, o) /\ r = [id |-> r.id, out |-> r.out]
      BY <2>1, <2>2, <3>1
    <3> QED BY <2>3, <3>1, <3>2
  <2>4. ASSUME NEW q \in Occurrences, After(q, o), [id |-> TxAt(o).id, out |-> i] \in Spend(TxAt(q))
        PROVE  i \in gone
    <3>1. q \in Met
      BY <2>1, <2>4
    <3>2. [id |-> TxAt(o).id, out |-> i] \in spent
      BY <1>2, <2>4, <3>1
    <3>3. PICK r \in spent : r = [id |-> TxAt(o).id, out |-> i]
      BY <3>2
    <3>4. r.id = TxAt(o).id /\ r.out = i
      BY <3>3
    <3> QED BY <3>4
  <2> QED BY <2>3, <2>4
<1> QED BY <1>3 DEF UnspentPositions

(* So what it appends are the unspent outputs of that transaction, behind  *)
(* those it has of later ones with the same id.                            *)
LEMMA WalkKeepsListed ==
  ASSUME IInv, ChainShape, MetIsListed, WalkTx
  PROVE  MetIsListed'
<1>1. PICK o, tx : o = <<cursor, pos>> /\ tx = blocks[cursor].txs[pos]
  OBVIOUS
<1>2. PICK gone, left, had :
        /\ gone = {r.out : r \in {s \in spent : s.id = tx.id}}
        /\ left = Compact(tx.outs, gone)
        /\ had = Entry(txn, tx.id)
  OBVIOUS
<1>3. /\ pc = "walk" /\ pc' = "walk" /\ cursor # NoHash /\ blocks' = blocks /\ lastHash' = lastHash
      /\ txn' = IF left = <<>> THEN txn ELSE Put(txn, tx.id, had \o left)
      /\ spent' = spent \cup Spend(tx)
  BY <1>1, <1>2 DEF WalkTx, disk, Entry, Remember
<1>4. lastHash # NoHash /\ cursor \in DOMAIN blocks /\ pos \in DOMAIN blocks[cursor].txs
  BY <1>3 DEF IInv, PhaseAgrees, WalkOnChain
<1>5. o \in Occurrences /\ o \notin Met /\ Met' = Met \cup {o}
  BY <1>1, MeetOne
<1>6. TxAt(o) = tx /\ o[1] = cursor /\ o[2] = pos
  BY <1>1 DEF TxAt
<1>7. PICK K : K = DOMAIN tx.outs \ gone
  OBVIOUS
<1>8. UnspentPositions(o) = K
  <2>1. \A i : i \in gone <=> \E r \in spent : r.id = TxAt(o).id /\ r.out = i
    BY <1>2, <1>6
  <2>2. UnspentPositions(o) = DOMAIN TxAt(o).outs \ gone
    BY <1>1, <1>3, <2>1, SpentIsKnown
  <2> QED BY <1>6, <1>7, <2>2
<1>9. Tuple(tx.outs) /\ DOMAIN tx.outs = 1..Len(tx.outs) /\ Len(tx.outs) \in Nat
  BY <1>1, <1>4, TupleDomain DEF IInv, BlocksWellFormed
<1>10. Tuple(left) /\ Tuple(had)
  <2>1. Tuple(left)
    BY <1>2, <1>9, CompactTuple
  <2>2. Tuple(<<>>)
    BY DEF Tuple
  <2>3. Tuple(had)
    BY <1>2, <2>2 DEF Entry, IInv, IndexWellFormed
  <2> QED BY <2>1, <2>3
<1>11. IsFiniteSet(K) /\ K \subseteq Int /\ Picks(left, tx.outs, K)
  <2>1. \A i : i \in K <=> i \in DOMAIN tx.outs /\ i \notin gone
    BY <1>7
  <2>2. IsFiniteSet(K) /\ Picks(left, tx.outs, K)
    BY <1>2, <1>9, <2>1, CompactKeeps
  <2>3. K \subseteq Int
    BY <1>7, <1>9
  <2> QED BY <2>2, <2>3
<1>12. ASSUME NEW u \in Unspent(tx.id), u[1] \in Met
       PROVE  u[2] \in Int /\ \A i \in K : Ahead(u, <<o, i>>) /\ ~ Ahead(<<o, i>>, u)
  <2>1. PICK q \in Occurrences : TxAt(q).id = tx.id /\ \E i \in UnspentPositions(q) : u = <<q, i>>
    BY DEF Unspent
  <2>2. PICK i \in UnspentPositions(q) : u = <<q, i>>
    BY <2>1
  <2>3. PICK h \in DOMAIN blocks : \E j \in DOMAIN blocks[h].txs : q = <<h, j>>
    BY <1>4, OccurrencesAre
  <2>4. PICK j \in DOMAIN blocks[h].txs : q = <<h, j>>
    BY <2>3
  <2>5. i \in Int
    <3>1. Tuple(TxAt(q).outs)
      BY <2>4 DEF TxAt, IInv, BlocksWellFormed
    <3>2. DOMAIN TxAt(q).outs = 1..Len(TxAt(q).outs) /\ i \in DOMAIN TxAt(q).outs
      BY <3>1, TupleDomain DEF UnspentPositions
    <3> QED BY <3>2
  <2>6. blocks[h].height > blocks[cursor].height
    <3>1. blocks[h].height > blocks[cursor].height \/ (h = cursor /\ j < pos)
      BY <1>3, <1>12, <2>2, <2>4 DEF Met
    <3>2. h = cursor => j = pos
      BY <1>1, <1>4, <2>1, <2>4 DEF ChainShape, TxAt
    <3>3. pos \in Int
      BY <1>4, TupleDomain DEF IInv, BlocksWellFormed
    <3> QED BY <3>1, <3>2, <3>3
  <2>7. blocks[h].height \in Int /\ blocks[cursor].height \in Int
    BY <1>4 DEF IInv, ChainLinked
  <2>8. q[1] = h /\ u[1] = q /\ u[2] = i /\ q # o
    BY <1>6, <2>2, <2>4, <2>6, <2>7
  <2>9. After(q, o) /\ ~After(o, q)
    BY <1>6, <2>6, <2>7, <2>8 DEF After
  <2> QED BY <2>5, <2>8, <2>9 DEF Ahead
<1>13. ASSUME NEW id \in TxIds
       PROVE  Lists(Entry(txn', id), {u \in Unspent(id) : u[1] \in Met'})
  <2>1. PICK C : C = {u \in Unspent(id) : u[1] \in Met}
    OBVIOUS
  <2>2. Lists(Entry(txn, id), C)
    BY <1>3, <2>1 DEF MetIsListed
  <2>3. \A u \in Unspent(id) : u[1] = o => id = tx.id /\ \E i \in K : u = <<o, i>>
    BY <1>6, <1>8 DEF Unspent
  <2>4. CASE id # tx.id
    <3>1. {u \in Unspent(id) : u[1] \in Met'} = C
      BY <1>5, <2>1, <2>3, <2>4
    <3>2. Entry(txn', id) = Entry(txn, id)
      BY <1>3, <2>4 DEF Entry, Put
    <3> QED BY <2>2, <3>1, <3>2
  <2>5. CASE id = tx.id
    <3>1. \A i \in K : <<o, i>> \in Unspent(id)
      BY <1>5, <1>6, <1>8, <2>5 DEF Unspent
    <3>2. PICK D : \A v : v \in D <=> \E i \in K : v = <<o, i>>
      <4>1. PICK D : D = {<<o, i>> : i \in K}
        OBVIOUS
      <4> QED BY <4>1
    <3>3. {u \in Unspent(id) : u[1] \in Met'} = C \cup D
      BY <1>5, <2>1, <2>3, <3>1, <3>2
    <3>4. blocks[o[1]].height \in Int
      BY <1>4, <1>6 DEF IInv, ChainLinked
    <3>5. \A u \in C : u[2] \in Int /\ \A i \in K : Ahead(u, <<o, i>>) /\ ~ Ahead(<<o, i>>, u)
      BY <1>12, <2>1, <2>5
    <3>6. Lists(had, C)
      BY <1>2, <2>2, <2>5
    <3>7. Lists(had \o left, C \cup D)
      <4>1. Picks(left, TxAt(o).outs, K)
        BY <1>6, <1>11
      <4> QED BY <1>10, <1>11, <3>2, <3>4, <3>5, <3>6, <4>1, ListsExtend
    <3>8. CASE left = <<>>
      <4>1. Cardinality(K) = 0
        BY <1>11, <3>8 DEF Picks
      <4>2. K = {}
        BY <1>11, <4>1, FS_EmptySet
      <4>3. C \cup D = C
        BY <3>2, <4>2
      <4> QED BY <1>3, <2>2, <3>3, <3>8, <4>3
    <3>9. CASE left # <<>>
      <4>1. Entry(txn', id) = had \o left
        BY <1>3, <2>5, <3>9 DEF Entry, Put
      <4> QED BY <3>3, <3>7, <4>1
    <3> QED BY <3>8, <3>9
  <2> QED BY <2>4, <2>5
<1>14. spent' = UNION {Spend(TxAt(q)) : q \in Met'}
  <2>1. spent = UNION {Spend(TxAt(q)) : q \in Met}
    BY <1>3 DEF MetIsListed
  <2> QED BY <1>3, <1>5, <1>6, <2>1
<1>15. Occurrences' = Occurrences /\ \A id : Unspent(id)' = Unspent(id)
  BY <1>3, ChainStays
<1>16. ASSUME NEW id \in TxIds
       PROVE  Lists(Entry(txn, id), {u \in Unspent(id) : u[1] \in Met})'
  <2>1. PICK s, C : s = Entry(txn', id) /\ C = {u \in Unspent(id) : u[1] \in Met'}
    OBVIOUS
  <2>2. Lists(s, C)'
    BY <1>3, <1>13, <2>1, ChainStays
  <2>3. Entry(txn, id)' = s
    BY <2>1 DEF Entry
  <2>4. {u \in Unspent(id) : u[1] \in Met}' = C
    BY <1>15, <2>1
  <2> QED BY <2>2, <2>3, <2>4 DEF Lists
<1>17. spent' = (UNION {Spend(TxAt(q)) : q \in Met})'
  BY <1>3, <1>14 DEF TxAt, Spend, IsCoinbase
<1> QED BY <1>16, <1>17 DEF MetIsListed

(* What FindUTXO has found when it is through is what is unspent. *)
LEMMA NextKeepsListed ==
  IInv /\ MemoryAgrees /\ ChainShape /\ MetIsListed /\ [Next]_vars => MetIsListed'
<1> SUFFICES ASSUME IInv, MemoryAgrees, ChainShape, MetIsListed, [Next]_vars
             PROVE  MetIsListed'
  OBVIOUS
<1>1. CASE pc' # "walk"
  BY <1>1 DEF MetIsListed
<1>2. CASE StartWalk
  BY <1>2, StartMeetsNothing
<1>3. CASE WalkTx
  BY <1>3, WalkKeepsListed
<1>4. CASE UNCHANGED vars
  <2>1. UNCHANGED <<blocks, lastHash, txn, spent, pc, cursor, pos>>
    BY <1>4 DEF vars, disk, command
  <2>2. Occurrences' = Occurrences /\ \A id : Unspent(id)' = Unspent(id)
    BY <2>1, ChainStays
  <2>3. Met' = Met
    BY <2>1, <2>2 DEF Met
  <2>4. ASSUME pc = "walk", NEW id \in TxIds
        PROVE  Lists(Entry(txn, id), {u \in Unspent(id) : u[1] \in Met})'
    <3>1. PICK s, C : s = Entry(txn, id) /\ C = {u \in Unspent(id) : u[1] \in Met}
      OBVIOUS
    <3>2. Lists(s, C)'
      BY <2>1, <2>4, <3>1, ChainStays DEF MetIsListed
    <3>3. Entry(txn, id)' = s
      BY <2>1, <3>1 DEF Entry
    <3>4. {u \in Unspent(id) : u[1] \in Met}' = C
      BY <2>2, <2>3, <3>1
    <3> QED BY <3>2, <3>3, <3>4 DEF Lists
  <2>5. pc = "walk" => spent' = (UNION {Spend(TxAt(q)) : q \in Met})'
    BY <2>1, <2>3 DEF MetIsListed, TxAt, Spend, IsCoinbase
  <2> QED BY <2>1, <2>4, <2>5 DEF MetIsListed
<1>5. CASE ReadOnly
  BY <1>4, <1>5 DEF ReadOnly
<1>6. pc' # "walk" \/ StartWalk \/ WalkTx \/ UNCHANGED vars \/ ReadOnly
  BY DEF Next, CreateBlockChain, CommitGenesis, ReindexUTXO, ContinueBlockChain, DeleteByPrefix,
         command, WriteIndex, Exit, Send, UpdateInput, UpdateOutputs, UpdateCommit, Crash
<1> QED BY <1>1, <1>2, <1>3, <1>4, <1>5, <1>6

(* When it is through it has met the whole chain. *)
LEMMA MetIsAll == MetIsListed => FindUTXOIsUnspent
<1> SUFFICES ASSUME MetIsListed, pc = "walk", cursor = NoHash, NEW id \in TxIds
             PROVE  Lists(Entry(txn, id), Unspent(id))
  BY DEF FindUTXOIsUnspent
<1>1. PICK C : C = {u \in Unspent(id) : u[1] \in Met}
  OBVIOUS
<1>2. C = Unspent(id)
  BY <1>1 DEF Met, Unspent
<1> QED BY <1>1, <1>2 DEF MetIsListed

(* FindUTXO ends with exactly the outputs no later block spends, whatever  *)
(* crashed before it ran and whatever transactions are twice on the chain. *)
THEOREM FindUTXOFindsUnspent == Spec => []FindUTXOIsUnspent
<1>1. Init => MemoryAgrees /\ ChainShape /\ MetIsListed
  BY InitSignInv DEF SignInv, Init, ChainShape, MetIsListed, EmptyMap
<1>2. Spec => [](IInv /\ MemoryAgrees /\ ChainShape /\ MetIsListed)
  BY <1>1, InitIInv, NextKeepsIInv, NextKeepsMemory, NextKeepsShape, NextKeepsListed, PTL DEF Spec
<1> QED BY <1>2, MetIsAll, PTL

-----------------------------------------------------------------------------
(* The index and the chain.  Payments of positive amounts spend nothing    *)
(* twice while the index is what the chain leaves.                         *)

(* What send stores: a coinbase and the payment of what it selected, which *)
(* has an old id only if it has the inputs of an old transaction.          *)
LEMMA SendMines ==
  ASSUME IInv, NEW p \in Payments, Send(p)
  PROVE  \E tx :
           /\ tx.ins \in FindSpendableOutputs(utxo, p.from, p.amount)
           /\ SignTransaction(tx.ins)
           /\ tx.outs = PaymentOutputs(Worth(utxo, tx.ins), p.from, p.to, p.amount)
           /\ tx.id \in TxIds \cup UsedIds /\ tx.id # FreshId
           /\ (tx.id \in UsedIds /\ tx.ins # {}) =>
                \E t \in StoredTxs : t.ins = tx.ins /\ t.id = tx.id
           /\ FreshId \in TxIds /\ FreshId \notin UsedIds
           /\ FreshHash \in Hashes /\ FreshHash \notin DOMAIN blocks
           /\ DOMAIN blocks' = DOMAIN blocks \cup {FreshHash}
           /\ \A h \in DOMAIN blocks : blocks'[h] = blocks[h]
           /\ blocks'[FreshHash].txs = <<CoinbaseTx(FreshId, p.from), tx>>
           /\ blocks'[FreshHash].height = blocks[lastHash].height + 1
<1> DEFINE outs(ins) == PaymentOutputs(Worth(utxo, ins), p.from, p.to, p.amount)
           other == CHOOSE id \in TxIds \ (UsedIds \cup {FreshId}) : TRUE
<1>1. PICK cb : cb = CoinbaseTx(FreshId, p.from)
  OBVIOUS
<1>2. PICK ins \in FindSpendableOutputs(utxo, p.from, p.amount) :
        /\ SignTransaction(ins)
        /\ \E id \in HashIds(StoredTxs, ins, p.from, outs(ins), other) :
             MineBlock(<<cb, [id |-> id, ins |-> ins, key |-> p.from, outs |-> outs(ins)]>>)
  BY <1>1 DEF Send
<1>3. PICK id \in HashIds(StoredTxs, ins, p.from, outs(ins), other) :
        MineBlock(<<cb, [id |-> id, ins |-> ins, key |-> p.from, outs |-> outs(ins)]>>)
  BY <1>2
<1>4. PICK tx : tx = [id |-> id, ins |-> ins, key |-> p.from, outs |-> outs(ins)]
  OBVIOUS
<1>5. tx.id = id /\ tx.ins = ins /\ tx.outs = outs(ins)
  BY <1>4
<1>6. PICK b : b = CreateBlock(<<cb, tx>>, lastHash, blocks[lastHash].height + 1)
  OBVIOUS
<1>7. blocks' = Put(blocks, FreshHash, b) /\ FreshHash \in Hashes /\ FreshHash \notin DOMAIN blocks
  BY <1>3, <1>4, <1>6, FreshHashIsNew DEF MineBlock, Send
<1>8. /\ DOMAIN blocks' = DOMAIN blocks \cup {FreshHash}
      /\ \A h \in DOMAIN blocks : blocks'[h] = blocks[h]
      /\ blocks'[FreshHash] = b
  BY <1>7 DEF Put
<1>9. b.txs = <<cb, tx>> /\ b.height = blocks[lastHash].height + 1
  BY <1>6 DEF CreateBlock
<1>10. FreshId \in TxIds /\ FreshId \notin UsedIds
       /\ other \in TxIds /\ other \notin UsedIds /\ other # FreshId
  <2>1. Cardinality(TxIds \ UsedIds) >= 2
    BY DEF Send
  <2>2. TxIds \ UsedIds # {} /\ TxIds \ UsedIds # {FreshId}
    BY <2>1, FS_EmptySet, FS_Singleton
  <2>3. FreshId \in TxIds /\ FreshId \notin UsedIds
    BY <2>2, FreshIdIsNew
  <2>4. TxIds \ (UsedIds \cup {FreshId}) # {}
    BY <2>2, <2>3
  <2> QED BY <2>3, <2>4
<1> HIDE DEF other
<1>11. id = other \/ \E t \in StoredTxs : t.ins = ins /\ t.id = id
  BY DEF HashIds
<1>12. \A t \in StoredTxs : t.id \in UsedIds
  BY DEF UsedIds
<1>13. /\ id \in TxIds \cup UsedIds /\ id # FreshId
       /\ id \in UsedIds => \E t \in StoredTxs : t.ins = ins /\ t.id = id
  BY <1>10, <1>11, <1>12
<1> HIDE DEF outs
<1>14. tx.outs = PaymentOutputs(Worth(utxo, ins), p.from, p.to, p.amount)
  BY <1>5 DEF outs
<1> QED BY <1>1, <1>2, <1>5, <1>7, <1>8, <1>9, <1>10, <1>13, <1>14

(* A payment spends what SignTransaction found in a lower block. *)
LEMMA NextKeepsSpendsBack == IInv /\ SpendsBack /\ [Next]_vars => SpendsBack'
<1> SUFFICES ASSUME IInv, SpendsBack, [Next]_vars
             PROVE  SpendsBack'
  OBVIOUS
<1> DEFINE Back(bs, h, r) ==
      \E g \in DOMAIN bs : \E j \in DOMAIN bs[g].txs :
        /\ bs[g].txs[j].id = r.id
        /\ r.out \in DOMAIN bs[g].txs[j].outs
        /\ bs[g].height < bs[h].height
<1>1. CASE blocks' = blocks
  BY <1>1 DEF SpendsBack, Spend, IsCoinbase, UsedIds, StoredTxs, TxsOf
<1>2. ASSUME NEW a \in Addresses, CommitGenesis(a)
      PROVE  SpendsBack'
  <2>1. PICK cb : cb = CoinbaseTx(FreshId, a)
    OBVIOUS
  <2>2. /\ blocks' = Put(blocks, FreshHash, CreateBlock(<<cb>>, NoHash, 0))
        /\ FreshId \in TxIds /\ pc = "genesis"
    BY <1>2, <2>1, FreshIdIsNew DEF CommitGenesis
  <2>3. DOMAIN blocks = {}
    BY <2>2 DEF IInv, PhaseAgrees, ChainLinked
  <2>4. DOMAIN blocks' = {FreshHash} /\ blocks'[FreshHash].txs = <<cb>>
    BY <2>2, <2>3 DEF Put, CreateBlock
  <2>5. Spend(cb) = {} /\ cb.id = FreshId
    BY <2>1 DEF Spend, IsCoinbase, CoinbaseTx
  <2>6. \A t \in StoredTxs' : t = cb
    BY <2>4 DEF StoredTxs, TxsOf
  <2>7. UsedIds' \in SUBSET {FreshId}
    BY <2>5, <2>6 DEF UsedIds
  <2>8. IsFiniteSet(UsedIds') /\ UsedIds' \subseteq TxIds
    BY <2>2, <2>7, FS_Singleton, FS_Subset
  <2>9. \A h \in DOMAIN blocks' : \A i \in DOMAIN blocks'[h].txs : Spend(blocks'[h].txs[i]) = {}
    BY <2>4, <2>5
  <2> QED BY <2>8, <2>9 DEF SpendsBack, Spend, IsCoinbase
<1>3. ASSUME NEW p \in Payments, Send(p)
      PROVE  SpendsBack'
  <2>1. PICK cb : cb = CoinbaseTx(FreshId, p.from)
    OBVIOUS
  <2>2. PICK tx :
          /\ SignTransaction(tx.ins)
          /\ tx.id \in TxIds \cup UsedIds
          /\ FreshId \in TxIds
          /\ FreshHash \notin DOMAIN blocks
          /\ DOMAIN blocks' = DOMAIN blocks \cup {FreshHash}
          /\ \A h \in DOMAIN blocks : blocks'[h] = blocks[h]
          /\ blocks'[FreshHash].txs = <<cb, tx>>
          /\ blocks'[FreshHash].height = blocks[lastHash].height + 1
    BY <1>3, <2>1, SendMines
  <2>3. Spend(cb) = {} /\ cb.id = FreshId
    BY <2>1 DEF Spend, IsCoinbase, CoinbaseTx
  <2>4. ASSUME NEW t \in StoredTxs'
        PROVE  t \in StoredTxs \/ t = cb \/ t = tx
    <3>1. PICK h \in DOMAIN blocks' : \E i \in DOMAIN blocks'[h].txs : t = blocks'[h].txs[i]
      BY DEF StoredTxs, TxsOf
    <3>2. CASE h = FreshHash
      BY <2>2, <3>1, <3>2
    <3>3. CASE h # FreshHash
      BY <2>2, <3>1, <3>3 DEF StoredTxs, TxsOf
    <3> QED BY <3>2, <3>3
  <2>5. UsedIds' \in SUBSET (UsedIds \cup {FreshId} \cup {tx.id})
    BY <2>3, <2>4 DEF UsedIds
  <2>6. IsFiniteSet(UsedIds \cup {FreshId} \cup {tx.id})
    <3>1. IsFiniteSet(UsedIds \cup {FreshId})
      BY FS_AddElement DEF SpendsBack
    <3> QED BY <3>1, FS_AddElement
  <2>7. IsFiniteSet(UsedIds') /\ UsedIds' \subseteq TxIds
    <3>1. IsFiniteSet(UsedIds')
      BY <2>5, <2>6, FS_Subset
    <3> QED BY <2>2, <2>5, <3>1 DEF SpendsBack
  <2>8. ASSUME NEW h \in DOMAIN blocks', NEW i \in DOMAIN blocks'[h].txs,
               NEW r \in Spend(blocks'[h].txs[i])
        PROVE  Back(blocks', h, r)
    <3>1. CASE h # FreshHash
      <4>1. h \in DOMAIN blocks /\ blocks'[h] = blocks[h]
        BY <2>2, <3>1
      <4>2. PICK g \in DOMAIN blocks : \E j \in DOMAIN blocks[g].txs :
              /\ blocks[g].txs[j].id = r.id
              /\ r.out \in DOMAIN blocks[g].txs[j].outs
              /\ blocks[g].height < blocks[h].height
        BY <2>8, <4>1 DEF SpendsBack
      <4>3. g \in DOMAIN blocks' /\ blocks'[g] = blocks[g]
        BY <2>2
      <4> QED BY <4>1, <4>2, <4>3
    <3>2. CASE h = FreshHash
      <4>1. DOMAIN blocks'[h].txs = 1..2 /\ blocks'[h].txs[1] = cb /\ blocks'[h].txs[2] = tx
        BY <2>2, <3>2
      <4>2. r \in tx.ins
        <5>1. i = 1 \/ i = 2
          BY <4>1
        <5>2. r \in Spend(tx)
          BY <2>3, <2>8, <4>1, <5>1
        <5> QED BY <5>2 DEF Spend
      <4>3. PICK t \in TxsOf(OnChain) : t.id = r.id /\ r.out \in DOMAIN t.outs
        BY <2>2, <4>2 DEF SignTransaction
      <4>4. PICK g \in OnChain : \E j \in DOMAIN blocks[g].txs : t = blocks[g].txs[j]
        BY DEF TxsOf
      <4>5. g \in DOMAIN blocks
        BY DEF OnChain
      <4>6. g \in DOMAIN blocks' /\ blocks'[g] = blocks[g]
        BY <2>2, <4>5
      <4>7. blocks[g].height < blocks[lastHash].height + 1
        BY <4>5 DEF IInv, ChainLinked
      <4> QED BY <2>2, <3>2, <4>3, <4>4, <4>6, <4>7
    <3> QED BY <3>1, <3>2
  <2> QED BY <2>7, <2>8 DEF SpendsBack, Spend, IsCoinbase
<1>4. \/ blocks' = blocks
      \/ \E a \in Addresses : CommitGenesis(a)
      \/ \E p \in Payments : Send(p)
  BY DEF Next, vars, disk, CreateBlockChain, ReindexUTXO, DeleteByPrefix, StartWalk, WalkTx,
         WriteIndex, UpdateInput, UpdateOutputs, UpdateCommit, Crash, ReadOnly
<1> QED BY <1>1, <1>2, <1>3, <1>4

(* The list of no places, and that of all outputs of a transaction. *)
LEMMA NoneListed ==
  ASSUME NEW s, Tuple(s), NEW C, C = {}
  PROVE  Lists(s, C) <=> s = <<>>
<1>1. IsFiniteSet(C) /\ Cardinality(C) = 0
  BY FS_EmptySet
<1>2. Len(s) \in Nat /\ DOMAIN s = 1..Len(s) /\ s \in Seq({s[i] : i \in DOMAIN s})
  BY TupleDomain DEF Tuple
<1>3. DOMAIN s = 1..0 <=> s = <<>>
  <2>1. ASSUME DOMAIN s = 1..0
        PROVE  s = <<>>
    <3>1. Len(s) = 0
      BY <1>2, <2>1
    <3> QED BY <1>2, <3>1, EmptySeq
  <2> QED BY <2>1
<1> QED BY <1>1, <1>3 DEF Lists

(* Its positions are their own ranks. *)
LEMMA AllListed ==
  ASSUME NEW s, Tuple(s), NEW o, Tuple(TxAt(o).outs), blocks[o[1]].height \in Int,
         NEW C, \A v : v \in C <=> \E i \in DOMAIN TxAt(o).outs : v = <<o, i>>
  PROVE  Lists(s, C) <=> s = TxAt(o).outs
<1>1. PICK t, n : t = TxAt(o).outs /\ n = Len(t)
  OBVIOUS
<1>2. /\ n \in Nat /\ DOMAIN t = 1..n /\ DOMAIN s = 1..Len(s) /\ Len(s) \in Nat
      /\ t \in Seq({t[i] : i \in DOMAIN t}) /\ s \in Seq({s[i] : i \in DOMAIN s})
  BY <1>1, TupleDomain DEF Tuple
<1>3. \A i \in 0..n : IsFiniteSet(1..i) /\ Cardinality(1..i) = i
  <2> SUFFICES ASSUME NEW i \in 0..n
               PROVE  IsFiniteSet(1..i) /\ Cardinality(1..i) = i
    OBVIOUS
  <2>1. IsFiniteSet(1..i) /\ Cardinality(1..i) = IF 1 > i THEN 0 ELSE i - 1 + 1
    <3>1. 1 \in Int /\ i \in Int
      BY <1>2
    <3> QED BY <3>1, FS_Interval
  <2> QED BY <1>2, <2>1
<1>4. \A v : v \in C <=> \E i \in 1..n : v = <<o, i>>
  BY <1>1, <1>2
<1>5. IsFiniteSet(C) /\ Cardinality(C) = n
  <2>1. n \in 0..n
    BY <1>2
  <2>2. IsFiniteSet(1..n) /\ Cardinality(1..n) = n
    BY <1>3, <2>1
  <2> QED BY <1>4, <2>2, PlacesCount
<1>6. ASSUME NEW i \in 1..n
      PROVE  /\ Cardinality({u \in C : Ahead(u, <<o, i>>)}) = i
             /\ OutputAt(<<o, i>>) = t[i]
  <2>1. PICK P : P = {u \in C : Ahead(u, <<o, i>>)}
    OBVIOUS
  <2>2. \A j \in 1..n : Ahead(<<o, j>>, <<o, i>>) <=> j <= i
    BY DEF Ahead, After
  <2>3. \A v : v \in P <=> \E j \in 1..i : v = <<o, j>>
    <3>1. \A j : j \in 1..i <=> j \in 1..n /\ j <= i
      BY <1>2
    <3> QED BY <1>4, <2>1, <2>2, <3>1
  <2>4. IsFiniteSet(1..i) /\ Cardinality(1..i) = i
    <3>1. i \in 0..n
      OBVIOUS
    <3> QED BY <1>3, <3>1
  <2>5. Cardinality(P) = i
    BY <2>3, <2>4, PlacesCount
  <2>6. OutputAt(<<o, i>>) = t[i]
    BY <1>1 DEF OutputAt
  <2> QED BY <2>1, <2>5, <2>6
<1>7. Lists(s, C) <=> DOMAIN s = 1..n /\ \A i \in 1..n : s[i] = t[i]
  <2>1. ASSUME Lists(s, C)
        PROVE  DOMAIN s = 1..n /\ \A i \in 1..n : s[i] = t[i]
    <3>1. ASSUME NEW i \in 1..n
          PROVE  s[i] = t[i]
      <4>1. PICK v : v = <<o, i>>
        OBVIOUS
      <4>2. v \in C
        BY <1>4, <4>1
      <4>3. s[Cardinality({u \in C : Ahead(u, v)})] = OutputAt(v)
        BY <2>1, <4>2 DEF Lists
      <4> QED BY <1>6, <4>1, <4>3
    <3> QED BY <1>5, <2>1, <3>1 DEF Lists
  <2>2. ASSUME DOMAIN s = 1..n, \A i \in 1..n : s[i] = t[i]
        PROVE  Lists(s, C)
    <3>1. ASSUME NEW v \in C
          PROVE  s[Cardinality({u \in C : Ahead(u, v)})] = OutputAt(v)
      <4>1. PICK i \in 1..n : v = <<o, i>>
        BY <1>4
      <4> QED BY <1>6, <2>2, <4>1
    <3> QED BY <1>5, <2>2, <3>1 DEF Lists
  <2> QED BY <2>1, <2>2
<1>8. DOMAIN s = 1..n /\ (\A i \in 1..n : s[i] = t[i]) => s = t
  <2> SUFFICES ASSUME DOMAIN s = 1..n, \A i \in 1..n : s[i] = t[i]
               PROVE  s = t
    OBVIOUS
  <2>1. Len(s) = n /\ Len(t) = n
    BY <1>1, <1>2
  <2>2. PICK S, T : s \in Seq(S) /\ t \in Seq(T)
    BY <1>2
  <2>3. s \in [1..n -> S] /\ t \in [1..n -> T]
    BY <2>1, <2>2, LenProperties
  <2>4. s = [i \in 1..n |-> s[i]] /\ t = [i \in 1..n |-> t[i]]
    BY <2>3
  <2>5. [i \in 1..n |-> s[i]] = [i \in 1..n |-> t[i]]
    OBVIOUS
  <2> QED BY <2>4, <2>5
<1> QED BY <1>1, <1>2, <1>7, <1>8

(* While what was spent was all of its transaction: all outputs of one are *)
(* unspent, or none is.                                                    *)
LEMMA UnspentAltogether ==
  ASSUME IInv, ChainShape, SpendsBack, NoRepeat, SpentWhole, lastHash # NoHash,
         NEW h \in DOMAIN blocks, NEW i \in DOMAIN blocks[h].txs,
         NEW t, t = blocks[h].txs[i], NEW o, o = <<h, i>>
  PROVE  \A v : v \in Unspent(t.id) <=>
           /\ [id |-> t.id, out |-> 1] \notin SpentIn(DOMAIN blocks)
           /\ \E n \in DOMAIN t.outs : v = <<o, n>>
<1>1. TxAt(o) = t /\ o \in Occurrences
  BY OccurrencesAre DEF TxAt
<1>2. \A q \in Occurrences : TxAt(q).id = t.id => q = o
  <2> SUFFICES ASSUME NEW q \in Occurrences, TxAt(q).id = t.id
               PROVE  q = o
    OBVIOUS
  <2>1. PICK g \in DOMAIN blocks : \E j \in DOMAIN blocks[g].txs : q = <<g, j>>
    BY OccurrencesAre
  <2>2. PICK j \in DOMAIN blocks[g].txs : q = <<g, j>>
    BY <2>1
  <2> QED BY <2>2 DEF TxAt, NoRepeat
<1>3. \A v : v \in Unspent(t.id) <=> \E n \in UnspentPositions(o) : v = <<o, n>>
  <2>1. ASSUME NEW v, v \in Unspent(t.id)
        PROVE  \E n \in UnspentPositions(o) : v = <<o, n>>
    BY <1>2, <2>1 DEF Unspent
  <2>2. ASSUME NEW n \in UnspentPositions(o)
        PROVE  <<o, n>> \in Unspent(t.id)
    BY <1>1 DEF Unspent
  <2> QED BY <2>1, <2>2
<1>4. ASSUME NEW q \in Occurrences, NEW n, [id |-> t.id, out |-> n] \in Spend(TxAt(q))
      PROVE  After(q, o) /\ n = 1 /\ Len(t.outs) = 1 /\ [id |-> t.id, out |-> 1] \in SpentIn(DOMAIN blocks)
  <2>1. PICK g \in DOMAIN blocks : \E j \in DOMAIN blocks[g].txs : q = <<g, j>>
    BY OccurrencesAre
  <2>2. PICK j \in DOMAIN blocks[g].txs : q = <<g, j>>
    BY <2>1
  <2>3. PICK s : s = blocks[g].txs[j]
    OBVIOUS
  <2>4. TxAt(q) = s /\ s \in StoredTxs /\ t \in StoredTxs
    BY <2>2, <2>3 DEF TxAt, StoredTxs, TxsOf
  <2>5. PICK r \in Spend(s) : r = [id |-> t.id, out |-> n]
    BY <1>4, <2>4
  <2>6. r.id = t.id /\ r.out = n
    BY <2>5
  <2>7. PICK f \in DOMAIN blocks : \E k \in DOMAIN blocks[f].txs :
          /\ blocks[f].txs[k].id = r.id
          /\ r.out \in DOMAIN blocks[f].txs[k].outs
          /\ blocks[f].height < blocks[g].height
    BY <2>3, <2>5 DEF SpendsBack
  <2>8. f = h /\ n \in DOMAIN t.outs /\ blocks[h].height < blocks[g].height
    BY <2>6, <2>7 DEF NoRepeat
  <2>9. After(q, o)
    <3>1. blocks[h].height \in Int /\ blocks[g].height \in Int
      BY DEF IInv, ChainLinked
    <3> QED BY <2>2, <2>8, <3>1 DEF After
  <2>10. Len(t.outs) = 1
    BY <2>4, <2>5, <2>6 DEF SpentWhole
  <2>11. n = 1
    <3>1. DOMAIN t.outs = 1..Len(t.outs)
      BY TupleDomain DEF IInv, BlocksWellFormed
    <3> QED BY <2>8, <2>10, <3>1
  <2>12. [id |-> t.id, out |-> 1] \in SpentIn(DOMAIN blocks)
    BY <1>4, <2>4, <2>11 DEF SpentIn, StoredTxs
  <2> QED BY <2>9, <2>10, <2>11, <2>12
<1>5. ASSUME [id |-> t.id, out |-> 1] \in SpentIn(DOMAIN blocks)
      PROVE  \E q \in Occurrences : [id |-> t.id, out |-> 1] \in Spend(TxAt(q))
  <2>1. PICK s \in StoredTxs : [id |-> t.id, out |-> 1] \in Spend(s)
    BY <1>5 DEF SpentIn, StoredTxs
  <2>2. PICK g \in DOMAIN blocks : \E j \in DOMAIN blocks[g].txs : s = blocks[g].txs[j]
    BY DEF StoredTxs, TxsOf
  <2>3. PICK j \in DOMAIN blocks[g].txs : s = blocks[g].txs[j]
    BY <2>2
  <2>4. <<g, j>> \in Occurrences /\ TxAt(<<g, j>>) = s
    BY <2>3, OccurrencesAre DEF TxAt
  <2> QED BY <2>1, <2>4
<1>6. ASSUME NEW n \in DOMAIN t.outs
      PROVE  n \in UnspentPositions(o) <=> [id |-> t.id, out |-> 1] \notin SpentIn(DOMAIN blocks)
  <2>1. ASSUME [id |-> t.id, out |-> 1] \in SpentIn(DOMAIN blocks)
        PROVE  n \notin UnspentPositions(o)
    <3>1. PICK q \in Occurrences : [id |-> t.id, out |-> 1] \in Spend(TxAt(q))
      BY <1>5, <2>1
    <3>2. After(q, o) /\ Len(t.outs) = 1
      BY <1>4, <3>1
    <3>3. n = 1
      <4>1. DOMAIN t.outs = 1..Len(t.outs)
        BY TupleDomain DEF IInv, BlocksWellFormed
      <4> QED BY <3>2, <4>1
    <3> QED BY <1>1, <3>1, <3>2, <3>3 DEF UnspentPositions
  <2>2. ASSUME [id |-> t.id, out |-> 1] \notin SpentIn(DOMAIN blocks)
        PROVE  n \in UnspentPositions(o)
    <3>1. \A q \in Occurrences : [id |-> t.id, out |-> n] \notin Spend(TxAt(q))
      BY <1>4, <2>2
    <3> QED BY <1>1, <3>1 DEF UnspentPositions
  <2> QED BY <2>1, <2>2
<1>7. UnspentPositions(o) \subseteq DOMAIN t.outs
  BY <1>1 DEF UnspentPositions
<1> QED BY <1>3, <1>6, <1>7

(* So an index that lists what is unspent is one that has what the chain   *)
(* leaves.                                                                 *)
LEMMA LeavesAreListed ==
  ASSUME IInv, ChainShape, SpendsBack, NoRepeat, SpentWhole, lastHash # NoHash,
         NEW u, DOMAIN u \subseteq UsedIds, \A id \in DOMAIN u : Tuple(u[id])
  PROVE  Leaves(u, DOMAIN blocks, SpentIn(DOMAIN blocks))
         <=> \A id \in TxIds : Lists(Entry(u, id), Unspent(id))
<1>1. \A id : Tuple(Entry(u, id))
  <2>1. Tuple(<<>>)
    BY DEF Tuple
  <2> QED BY <2>1 DEF Entry
<1>2. ASSUME NEW h \in DOMAIN blocks, NEW i \in DOMAIN blocks[h].txs
      PROVE  LET t == blocks[h].txs[i]
             IN  Lists(Entry(u, t.id), Unspent(t.id))
                 <=> Entry(u, t.id) = IF [id |-> t.id, out |-> 1] \in SpentIn(DOMAIN blocks)
                                      THEN <<>> ELSE t.outs
  <2>1. PICK t, o, e, C : /\ t = blocks[h].txs[i] /\ o = <<h, i>>
                          /\ e = Entry(u, t.id) /\ C = Unspent(t.id)
    OBVIOUS
  <2>2. TxAt(o) = t /\ Tuple(t.outs) /\ blocks[o[1]].height \in Int /\ Tuple(e)
    BY <1>1, <2>1 DEF TxAt, IInv, BlocksWellFormed, ChainLinked
  <2>3. \A v : v \in C <=> /\ [id |-> t.id, out |-> 1] \notin SpentIn(DOMAIN blocks)
                           /\ \E n \in DOMAIN t.outs : v = <<o, n>>
    BY <2>1, UnspentAltogether
  <2>4. CASE [id |-> t.id, out |-> 1] \in SpentIn(DOMAIN blocks)
    <3>1. C = {}
      BY <2>3, <2>4
    <3>2. Lists(e, C) <=> e = <<>>
      BY <2>2, <3>1, NoneListed
    <3> QED BY <2>1, <2>4, <3>2
  <2>5. CASE [id |-> t.id, out |-> 1] \notin SpentIn(DOMAIN blocks)
    <3>1. \A v : v \in C <=> \E n \in DOMAIN TxAt(o).outs : v = <<o, n>>
      BY <2>2, <2>3, <2>5
    <3>2. Lists(e, C) <=> e = TxAt(o).outs
      BY <2>2, <3>1, AllListed
    <3> QED BY <2>1, <2>2, <2>5, <3>2
  <2> QED BY <2>4, <2>5
<1>3. ASSUME NEW id \in TxIds, id \notin UsedIds
      PROVE  Lists(Entry(u, id), Unspent(id))
  <2>1. Entry(u, id) = <<>>
    BY <1>3 DEF Entry
  <2>2. ASSUME NEW v \in Unspent(id)
        PROVE  FALSE
    <3>1. PICK o \in Occurrences : TxAt(o).id = id
      BY DEF Unspent
    <3>2. PICK h \in DOMAIN blocks : \E i \in DOMAIN blocks[h].txs : o = <<h, i>>
      BY OccurrencesAre
    <3> QED BY <1>3, <3>1, <3>2 DEF TxAt, UsedIds, StoredTxs, TxsOf
  <2>3. PICK C : C = Unspent(id) /\ C = {}
    BY <2>2
  <2>4. Lists(Entry(u, id), C)
    BY <1>1, <2>1, <2>3, NoneListed
  <2> QED BY <2>3, <2>4
<1>4. ASSUME NEW id, id \in UsedIds
      PROVE  \E h \in DOMAIN blocks : \E i \in DOMAIN blocks[h].txs : id = blocks[h].txs[i].id
  BY <1>4 DEF UsedIds, StoredTxs, TxsOf
<1>5. ASSUME Leaves(u, DOMAIN blocks, SpentIn(DOMAIN blocks)), NEW id \in TxIds
      PROVE  Lists(Entry(u, id), Unspent(id))
  <2>1. CASE id \in UsedIds
    <3>1. PICK h \in DOMAIN blocks : \E i \in DOMAIN blocks[h].txs : id = blocks[h].txs[i].id
      BY <1>4, <2>1
    <3>2. PICK i \in DOMAIN blocks[h].txs : id = blocks[h].txs[i].id
      BY <3>1
    <3>3. PICK t : t = blocks[h].txs[i]
      OBVIOUS
    <3>4. Entry(u, t.id) = IF [id |-> t.id, out |-> 1] \in SpentIn(DOMAIN blocks) THEN <<>> ELSE t.outs
      BY <1>5, <3>3 DEF Leaves, TxsOf
    <3> QED BY <1>2, <3>2, <3>3, <3>4
  <2> QED BY <1>3, <2>1
<1>6. ASSUME \A id \in TxIds : Lists(Entry(u, id), Unspent(id)),
             NEW h \in DOMAIN blocks, NEW i \in DOMAIN blocks[h].txs
      PROVE  LET t == blocks[h].txs[i]
             IN  Entry(u, t.id) = IF [id |-> t.id, out |-> 1] \in SpentIn(DOMAIN blocks)
                                  THEN <<>> ELSE t.outs
  <2>1. blocks[h].txs[i].id \in TxIds
    BY StoredIsUsed DEF SpendsBack
  <2> QED BY <1>2, <1>6, <2>1
<1>7. ASSUME \A id \in TxIds : Lists(Entry(u, id), Unspent(id))
      PROVE  Leaves(u, DOMAIN blocks, SpentIn(DOMAIN blocks))
  BY <1>6, <1>7 DEF Leaves, TxsOf
<1> QED BY <1>5, <1>7

(* What was all of its transaction stays so in the past. *)
LEMMA WholeBefore ==
  ASSUME IInv, MemoryAgrees, [Next]_vars, crashes' = 0, SpentWhole'
  PROVE  crashes = 0 /\ SpentWhole
<1>1. crashes = 0
  <2>1. crashes \in Nat
    BY DEF MemoryAgrees
  <2>2. crashes' = crashes \/ crashes' = crashes + 1
    BY DEF Next, vars, counts, CreateBlockChain, CommitGenesis, ReindexUTXO, DeleteByPrefix,
           StartWalk, WalkTx, WriteIndex, Send, UpdateInput, UpdateOutputs, UpdateCommit, Crash,
           ReadOnly
  <2> QED BY <2>1, <2>2
<1>2. StoredTxs \subseteq StoredTxs'
  BY BlocksStay DEF StoredTxs, TxsOf
<1>3. SpentWhole
  BY <1>2 DEF SpentWhole, Spend, IsCoinbase
<1> QED BY <1>1, <1>3

(* While the chain stays, so does what blocks of it leave. *)
LEMMA LeavesStays ==
  ASSUME blocks' = blocks
  PROVE  /\ \A u, hs, refs : Leaves(u, hs, refs) => Leaves(u, hs, refs)'
         /\ \A hs : SpentIn(hs)' = SpentIn(hs)
         /\ NoRepeat => NoRepeat'
         /\ StoredTxs' = StoredTxs
<1>1. ASSUME NEW hs
      PROVE  TxsOf(hs)' = TxsOf(hs) /\ SpentIn(hs)' = SpentIn(hs)
  BY DEF TxsOf, SpentIn, Spend, IsCoinbase
<1>2. ASSUME NEW u, NEW hs, NEW refs, Leaves(u, hs, refs)
      PROVE  Leaves(u, hs, refs)'
  <2>1. TxsOf(hs)' = TxsOf(hs)
    BY <1>1
  <2> QED BY <1>2, <2>1 DEF Leaves, Entry
<1>3. NoRepeat => NoRepeat'
  BY DEF NoRepeat
<1>4. StoredTxs' = StoredTxs
  BY DEF StoredTxs, TxsOf
<1> QED BY <1>1, <1>2, <1>3, <1>4

(* Steps that begin no Update and end none. *)
LEMMA QuietAgrees ==
  ASSUME IInv, IndexAgrees, blocks' = blocks, crashes' = 0 => crashes = 0,
         pc' \notin {"idle", "update"} \/ UNCHANGED vars
  PROVE  IndexAgrees'
<1> SUFFICES ASSUME crashes' = 0, SpentWhole'
             PROVE  /\ NoRepeat'
                    /\ (\A t \in StoredTxs : \A i \in DOMAIN t.outs : t.outs[i].val \in Int)'
                    /\ pc' = "idle" => Leaves(utxo, DOMAIN blocks, SpentIn(DOMAIN blocks))'
                    /\ pc' = "update" => UpdateLeaves'
  BY DEF IndexAgrees
<1>1. StoredTxs' = StoredTxs
  BY LeavesStays
<1>2. SpentWhole
  BY <1>1 DEF SpentWhole, Spend, IsCoinbase
<1>3. IndexAgrees /\ crashes = 0 /\ SpentWhole
  BY <1>2
<1>4. NoRepeat' /\ (\A t \in StoredTxs : \A i \in DOMAIN t.outs : t.outs[i].val \in Int)'
  BY <1>1, <1>3, LeavesStays DEF IndexAgrees
<1>5. CASE pc' \notin {"idle", "update"}
  BY <1>4, <1>5
<1>6. CASE UNCHANGED vars
  <2>1. UNCHANGED <<blocks, utxo, pc, cursor, pos, txn, todo, lastHash>>
    BY <1>6 DEF vars, disk, command
  <2>2. \A hs : TxsOf(hs)' = TxsOf(hs) /\ SpentIn(hs)' = SpentIn(hs)
    BY <2>1 DEF TxsOf, SpentIn, Spend, IsCoinbase
  <2>3. pc = "idle" => Leaves(utxo, DOMAIN blocks, SpentIn(DOMAIN blocks))'
    BY <1>3, <2>1, <2>2 DEF IndexAgrees, Leaves, Entry
  <2>4. pc = "update" => UpdateLeaves'
    <3>1. ASSUME pc = "update"
          PROVE  UpdateLeaves
      BY <1>3, <3>1 DEF IndexAgrees
    <3> QED BY <2>1, <2>2, <3>1 DEF UpdateLeaves, Leaves, Entry, Spend, IsCoinbase
  <2> QED BY <1>4, <2>1, <2>3, <2>4
<1> QED BY <1>5, <1>6

(* createblockchain stores a single coinbase. *)
LEMMA GenesisAgrees ==
  ASSUME IInv, NEW a \in Addresses, CommitGenesis(a)
  PROVE  IndexAgrees'
<1>1. PICK cb : cb = CoinbaseTx(FreshId, a)
  OBVIOUS
<1>2. pc = "genesis" /\ pc' = "delete"
      /\ blocks' = Put(blocks, FreshHash, CreateBlock(<<cb>>, NoHash, 0))
  BY <1>1 DEF CommitGenesis
<1>3. DOMAIN blocks = {}
  BY <1>2 DEF IInv, PhaseAgrees, ChainLinked
<1>4. DOMAIN blocks' = {FreshHash} /\ blocks'[FreshHash].txs = <<cb>>
  BY <1>2, <1>3 DEF Put, CreateBlock
<1>5. NoRepeat'
  BY <1>4 DEF NoRepeat
<1>6. \A t \in StoredTxs' : t = cb
  BY <1>4 DEF StoredTxs, TxsOf
<1>7. \A i \in DOMAIN cb.outs : cb.outs[i].val \in Int
  BY <1>1 DEF CoinbaseTx, Output, Subsidy
<1> QED BY <1>2, <1>5, <1>6, <1>7 DEF IndexAgrees

(* What FindUTXO has found when it is through is what the chain leaves. *)
LEMMA RebuildAgrees ==
  ASSUME IInv, ChainShape, SpendsBack, MetIsListed, IndexAgrees, MemoryAgrees, WriteIndex
  PROVE  IndexAgrees'
<1> SUFFICES ASSUME crashes' = 0, SpentWhole'
             PROVE  /\ NoRepeat'
                    /\ (\A t \in StoredTxs : \A i \in DOMAIN t.outs : t.outs[i].val \in Int)'
                    /\ pc' = "idle" => Leaves(utxo, DOMAIN blocks, SpentIn(DOMAIN blocks))'
                    /\ pc' = "update" => UpdateLeaves'
  BY DEF IndexAgrees
<1>1. /\ pc = "walk" /\ cursor = NoHash /\ utxo' = txn /\ pc' = "idle"
      /\ blocks' = blocks /\ crashes = 0
  BY DEF WriteIndex, Exit, counts
<1>2. StoredTxs' = StoredTxs
  BY <1>1, LeavesStays
<1>3. SpentWhole
  BY <1>2 DEF SpentWhole, Spend, IsCoinbase
<1>4. lastHash # NoHash
  BY <1>1 DEF IInv, PhaseAgrees
<1>5. NoRepeat /\ \A t \in StoredTxs : \A i \in DOMAIN t.outs : t.outs[i].val \in Int
  BY <1>1, <1>3 DEF IndexAgrees
<1>6. \A id \in TxIds : Lists(Entry(txn, id), Unspent(id))
  BY <1>1, MetIsAll DEF FindUTXOIsUnspent
<1>7. Leaves(txn, DOMAIN blocks, SpentIn(DOMAIN blocks))
  <2>1. DOMAIN txn \subseteq UsedIds /\ \A id \in DOMAIN txn : Tuple(txn[id])
    BY DEF IInv, IndexStored, IndexWellFormed
  <2> QED BY <1>3, <1>4, <1>5, <1>6, <2>1, LeavesAreListed
<1>8. \A hs : TxsOf(hs)' = TxsOf(hs) /\ SpentIn(hs)' = SpentIn(hs)
  BY <1>1 DEF TxsOf, SpentIn, Spend, IsCoinbase
<1>9. Leaves(utxo, DOMAIN blocks, SpentIn(DOMAIN blocks))'
  BY <1>1, <1>7, <1>8 DEF Leaves, Entry
<1> QED BY <1>1, <1>2, <1>5, <1>9, LeavesStays

(* While the index is what the chain leaves, an entry that has an output   *)
(* has all those of its transaction, which nothing spent.                  *)
LEMMA IndexedIsWhole ==
  ASSUME IInv, Leaves(utxo, DOMAIN blocks, SpentIn(DOMAIN blocks)),
         NEW id \in DOMAIN utxo, NEW n \in DOMAIN utxo[id]
  PROVE  \E t \in StoredTxs :
           t.id = id /\ utxo[id] = t.outs /\ [id |-> id, out |-> 1] \notin SpentIn(DOMAIN blocks)
<1>1. PICK t \in StoredTxs : t.id = id
  BY DEF IInv, IndexStored, UsedIds
<1>2. Entry(utxo, id) = IF [id |-> id, out |-> 1] \in SpentIn(DOMAIN blocks) THEN <<>> ELSE t.outs
  BY <1>1 DEF Leaves, StoredTxs
<1>3. Entry(utxo, id) = utxo[id] /\ utxo[id] # <<>>
  BY DEF Entry
<1> QED BY <1>1, <1>2, <1>3

(* A payment that selects from it is a new one. *)
LEMMA SendAgrees ==
  ASSUME Positive, IInv, SpendsBack, MemoryAgrees, IndexAgrees, NEW p \in Payments, Send(p)
  PROVE  IndexAgrees'
<1> SUFFICES ASSUME crashes' = 0, SpentWhole'
             PROVE  /\ NoRepeat'
                    /\ (\A t \in StoredTxs : \A i \in DOMAIN t.outs : t.outs[i].val \in Int)'
                    /\ pc' = "idle" => Leaves(utxo, DOMAIN blocks, SpentIn(DOMAIN blocks))'
                    /\ pc' = "update" => UpdateLeaves'
  BY DEF IndexAgrees
<1>1. crashes = 0 /\ SpentWhole
  BY WholeBefore DEF Next
<1>2. PICK hash, fid, cb : hash = FreshHash /\ fid = FreshId /\ cb = CoinbaseTx(fid, p.from)
  OBVIOUS
<1>3. PICK tx :
        /\ tx.ins \in FindSpendableOutputs(utxo, p.from, p.amount)
        /\ tx.outs = PaymentOutputs(Worth(utxo, tx.ins), p.from, p.to, p.amount)
        /\ tx.id # fid
        /\ (tx.id \in UsedIds /\ tx.ins # {}) => \E t \in StoredTxs : t.ins = tx.ins /\ t.id = tx.id
        /\ fid \notin UsedIds /\ hash \notin DOMAIN blocks
        /\ DOMAIN blocks' = DOMAIN blocks \cup {hash}
        /\ \A h \in DOMAIN blocks : blocks'[h] = blocks[h]
        /\ blocks'[hash].txs = <<cb, tx>>
  BY <1>2, SendMines
<1>4. /\ pc = "idle" /\ pc' = "update" /\ utxo' = utxo /\ txn' = utxo
      /\ cursor' = hash /\ pos' = 1 /\ lastHash' = hash
  BY <1>2 DEF Send, MineBlock, ContinueBlockChain
<1>5. /\ NoRepeat /\ Leaves(utxo, DOMAIN blocks, SpentIn(DOMAIN blocks))
      /\ \A t \in StoredTxs : \A i \in DOMAIN t.outs : t.outs[i].val \in Int
  BY <1>1, <1>4 DEF IndexAgrees
<1>6. ~ (p.amount <= 0) /\ p.amount \in Int
  BY LedgerAssumption DEF Positive
<1>7. tx.ins \in SUBSET OwnedBy(utxo, p.from) /\ tx.ins # {}
  BY <1>3, <1>6 DEF FindSpendableOutputs
<1>8. ASSUME NEW r \in tx.ins
      PROVE  /\ r = [id |-> r.id, out |-> r.out] /\ r.id \in UsedIds
             /\ \E t \in StoredTxs :
                  /\ t.id = r.id /\ utxo[r.id] = t.outs /\ r.out \in DOMAIN t.outs
                  /\ [id |-> r.id, out |-> 1] \notin SpentIn(DOMAIN blocks)
  <2>1. r.id \in DOMAIN utxo /\ r.out \in DOMAIN utxo[r.id] /\ r = [id |-> r.id, out |-> r.out]
    BY <1>3, SelectionIsIndexed
  <2> QED BY <1>5, <2>1, IndexedIsWhole DEF UsedIds
<1>9. tx.id \notin UsedIds
  <2> SUFFICES ASSUME tx.id \in UsedIds
               PROVE  FALSE
    OBVIOUS
  <2>1. PICK s \in StoredTxs : s.ins = tx.ins
    BY <1>3, <1>7
  <2>2. PICK r : r \in tx.ins
    BY <1>7
  <2>3. PICK t \in StoredTxs :
          /\ t.id = r.id /\ r.out \in DOMAIN t.outs
          /\ [id |-> r.id, out |-> 1] \notin SpentIn(DOMAIN blocks)
    BY <1>8, <2>2
  <2>4. r \in Spend(s)
    <3>1. CoinbaseInput.id = NoTx
      BY DEF CoinbaseInput
    <3>2. CoinbaseInput # r
      BY <1>8, <2>2, <3>1, NoTxAssumption DEF SpendsBack
    <3> QED BY <2>1, <2>2, <3>2 DEF Spend, IsCoinbase
  <2>5. Len(t.outs) = 1
    BY <1>1, <2>3, <2>4 DEF SpentWhole
  <2>6. r.out = 1
    <3>1. Tuple(t.outs)
      BY DEF StoredTxs, TxsOf, IInv, BlocksWellFormed
    <3>2. DOMAIN t.outs = 1..1
      BY <2>5, <3>1, TupleDomain
    <3> QED BY <2>3, <3>2
  <2>7. r = [id |-> r.id, out |-> 1]
    BY <1>8, <2>2, <2>6
  <2>8. r \in SpentIn(DOMAIN blocks)
    BY <2>4 DEF SpentIn, StoredTxs
  <2> QED BY <2>3, <2>7, <2>8
<1>10. cb.id = fid
  BY <1>2 DEF CoinbaseTx
<1>11. NoRepeat'
  <2>1. ASSUME NEW g \in DOMAIN blocks, NEW i \in DOMAIN blocks[g].txs
        PROVE  blocks[g].txs[i].id \in UsedIds
    BY StoredIsUsed
  <2>2. DOMAIN blocks'[hash].txs = 1..2 /\ blocks'[hash].txs[1] = cb /\ blocks'[hash].txs[2] = tx
    BY <1>3
  <2>3. ASSUME NEW g \in DOMAIN blocks', NEW h \in DOMAIN blocks',
               NEW i \in DOMAIN blocks'[g].txs, NEW j \in DOMAIN blocks'[h].txs,
               blocks'[g].txs[i].id = blocks'[h].txs[j].id
        PROVE  g = h /\ i = j
    <3>1. CASE g # hash /\ h # hash
      <4>1. g \in DOMAIN blocks /\ h \in DOMAIN blocks
            /\ blocks'[g] = blocks[g] /\ blocks'[h] = blocks[h]
        BY <1>3, <3>1
      <4> QED BY <1>5, <2>3, <4>1 DEF NoRepeat
    <3>2. CASE g = hash /\ h = hash
      BY <1>3, <1>10, <2>2, <2>3, <3>2
    <3>3. CASE g # hash /\ h = hash
      <4>1. g \in DOMAIN blocks /\ blocks'[g] = blocks[g]
        BY <1>3, <3>3
      <4>2. blocks'[g].txs[i].id \in UsedIds
        BY <2>1, <2>3, <4>1
      <4> QED BY <1>3, <1>9, <1>10, <2>2, <2>3, <3>3, <4>2
    <3>4. CASE g = hash /\ h # hash
      <4>1. h \in DOMAIN blocks /\ blocks'[h] = blocks[h]
        BY <1>3, <3>4
      <4>2. blocks'[h].txs[j].id \in UsedIds
        BY <2>1, <2>3, <4>1
      <4> QED BY <1>3, <1>9, <1>10, <2>2, <2>3, <3>4, <4>2
    <3> QED BY <3>1, <3>2, <3>3, <3>4
  <2> QED BY <2>3 DEF NoRepeat
<1>12. ASSUME NEW t \in StoredTxs'
       PROVE  t \in StoredTxs \/ t = cb \/ t = tx
  <2>1. PICK h \in DOMAIN blocks' : \E i \in DOMAIN blocks'[h].txs : t = blocks'[h].txs[i]
    BY DEF StoredTxs, TxsOf
  <2>2. CASE h = hash
    BY <1>3, <2>1, <2>2
  <2>3. CASE h # hash
    BY <1>3, <2>1, <2>3 DEF StoredTxs, TxsOf
  <2> QED BY <2>2, <2>3
<1>13. Worth(utxo, tx.ins) \in Int
  <2>1. IsFiniteSet(tx.ins)
    <3>1. IsFiniteSet(DOMAIN utxo)
      BY FS_Subset DEF IInv, IndexStored, SpendsBack
    <3>2. IsFiniteSet(OwnedBy(utxo, p.from))
      BY <3>1, OwnedIsRefs, RefsAreFinite DEF IInv, IndexWellFormed
    <3> QED BY <1>7, <3>2, FS_Subset
  <2>2. \A r \in tx.ins : Value(utxo, r) \in Int
    BY <1>5, <1>8 DEF Value
  <2> QED BY <2>1, <2>2, WorthType
<1>14. \A i \in DOMAIN tx.outs : tx.outs[i].val \in Int
  <2>1. PICK acc : acc = Worth(utxo, tx.ins) /\ acc \in Int
    BY <1>13
  <2> QED BY <1>3, <1>6, <2>1 DEF PaymentOutputs, Output
<1>15. \A i \in DOMAIN cb.outs : cb.outs[i].val \in Int
  BY <1>2 DEF CoinbaseTx, Output, Subsidy
<1>16. UpdateLeaves'
  <2>1. PICK older : older = DOMAIN blocks
    OBVIOUS
  <2>2. DOMAIN blocks' \ {lastHash'} = older
    BY <1>3, <1>4, <2>1
  <2>3. TxsOf(older)' = TxsOf(older)
    BY <1>3, <2>1 DEF TxsOf
  <2>4. SpentIn(older)' = SpentIn(older)
    BY <2>3 DEF SpentIn, Spend, IsCoinbase
  <2>5. Leaves(txn, older, SpentIn(older))'
    BY <1>4, <1>5, <2>1, <2>3, <2>4 DEF Leaves, Entry
  <2> QED BY <1>4, <2>2, <2>4, <2>5 DEF UpdateLeaves
<1> QED BY <1>4, <1>5, <1>11, <1>12, <1>14, <1>15, <1>16

(* What the last block brought is new, and nothing spends it yet. *)
LEMMA TipIsUnspent ==
  ASSUME IInv, SpendsBack, NoRepeat, lastHash \in DOMAIN blocks,
         NEW i \in DOMAIN blocks[lastHash].txs, NEW n
  PROVE  /\ [id |-> blocks[lastHash].txs[i].id, out |-> n] \notin SpentIn(DOMAIN blocks)
         /\ \A t \in TxsOf(DOMAIN blocks \ {lastHash}) : t.id # blocks[lastHash].txs[i].id
<1>1. PICK tx, r : tx = blocks[lastHash].txs[i] /\ r = [id |-> tx.id, out |-> n]
  OBVIOUS
<1>2. r \notin SpentIn(DOMAIN blocks)
  <2> SUFFICES ASSUME r \in SpentIn(DOMAIN blocks)
               PROVE  FALSE
    OBVIOUS
  <2>1. PICK s \in TxsOf(DOMAIN blocks) : r \in Spend(s)
    BY DEF SpentIn
  <2>2. PICK h \in DOMAIN blocks : \E j \in DOMAIN blocks[h].txs : s = blocks[h].txs[j]
    BY DEF TxsOf
  <2>3. PICK j \in DOMAIN blocks[h].txs : s = blocks[h].txs[j]
    BY <2>2
  <2>4. PICK g \in DOMAIN blocks : \E k \in DOMAIN blocks[g].txs :
          blocks[g].txs[k].id = r.id /\ blocks[g].height < blocks[h].height
    BY <2>1, <2>3 DEF SpendsBack
  <2>5. g = lastHash
    BY <1>1, <2>4 DEF NoRepeat
  <2>6. blocks[h].height <= blocks[lastHash].height
        /\ blocks[h].height \in Int /\ blocks[lastHash].height \in Int
    BY DEF IInv, ChainLinked
  <2> QED BY <2>4, <2>5, <2>6
<1>3. ASSUME NEW t \in TxsOf(DOMAIN blocks \ {lastHash}), t.id = tx.id
      PROVE  FALSE
  <2>1. PICK h \in DOMAIN blocks \ {lastHash} : \E j \in DOMAIN blocks[h].txs : t = blocks[h].txs[j]
    BY DEF TxsOf
  <2> QED BY <1>1, <1>3, <2>1 DEF NoRepeat
<1> QED BY <1>1, <1>2, <1>3

(* An input of Update was all its transaction had: the entry goes. *)
LEMMA UpdateInputAgrees ==
  ASSUME IInv, SpendsBack, MemoryAgrees, IndexAgrees, UpdateInput
  PROVE  IndexAgrees'
<1> SUFFICES ASSUME crashes' = 0, SpentWhole'
             PROVE  /\ NoRepeat'
                    /\ (\A t \in StoredTxs : \A i \in DOMAIN t.outs : t.outs[i].val \in Int)'
                    /\ pc' = "idle" => Leaves(utxo, DOMAIN blocks, SpentIn(DOMAIN blocks))'
                    /\ pc' = "update" => UpdateLeaves'
  BY DEF IndexAgrees
<1>1. crashes = 0 /\ SpentWhole
  BY WholeBefore DEF Next
<1>2. PICK r \in todo :
        /\ r.id \in DOMAIN txn
        /\ txn' = WriteBack(r.id, Without(txn[r.id], r.out))
        /\ todo' = todo \ {r}
  BY DEF UpdateInput
<1>3. /\ pc = "update" /\ pc' = "update" /\ blocks' = blocks /\ lastHash' = lastHash
      /\ cursor' = cursor /\ pos' = pos
  BY DEF UpdateInput, disk
<1>4. PICK txs, older : txs = blocks[lastHash].txs /\ older = DOMAIN blocks \ {lastHash}
  OBVIOUS
<1>5. /\ NoRepeat /\ UpdateLeaves
      /\ \A t \in StoredTxs : \A i \in DOMAIN t.outs : t.outs[i].val \in Int
  BY <1>1, <1>3 DEF IndexAgrees
<1>6. /\ cursor = lastHash /\ lastHash \in DOMAIN blocks /\ pos = 2 /\ DOMAIN txs = 1..2
      /\ r = [id |-> r.id, out |-> r.out] /\ Len(txn[r.id]) >= 1
  <2>1. /\ cursor = lastHash /\ cursor \in DOMAIN blocks /\ Len(txs) = 2 /\ pos = 2
        /\ r = [id |-> r.id, out |-> r.out] /\ Len(txn[r.id]) >= 1
    BY <1>3, <1>4, <1>5 DEF IInv, UpdateReady, UpdateLeaves
  <2>2. Tuple(txs)
    BY <1>4, <2>1 DEF IInv, BlocksWellFormed
  <2> QED BY <2>1, <2>2, TupleDomain
<1>7. PICK paid : paid = Spend(txs[2])
  OBVIOUS
<1>8. PICK refs : refs = SpentIn(older) \cup (paid \ todo)
  OBVIOUS
<1>9. todo \subseteq paid /\ Leaves(txn, older, refs) /\ Entry(txn, txs[1].id) = txs[1].outs
  BY <1>4, <1>5, <1>6, <1>7, <1>8 DEF UpdateLeaves
<1>10. PICK t \in TxsOf(older) : t.id = r.id /\ r.out \in DOMAIN t.outs
  <2>1. PICK g \in DOMAIN blocks : \E j \in DOMAIN blocks[g].txs :
          /\ blocks[g].txs[j].id = r.id
          /\ r.out \in DOMAIN blocks[g].txs[j].outs
          /\ blocks[g].height < blocks[lastHash].height
    BY <1>4, <1>6, <1>7, <1>9 DEF SpendsBack
  <2>2. g \in older
    <3>1. blocks[lastHash].height \in Int
      BY <1>6 DEF IInv, ChainLinked
    <3> QED BY <1>4, <2>1, <3>1
  <2> QED BY <2>1, <2>2 DEF TxsOf
<1>11. Tuple(t.outs) /\ Len(t.outs) = 1 /\ r.out = 1
  <2>1. txs[2] \in StoredTxs /\ t \in StoredTxs
    BY <1>4, <1>6 DEF StoredTxs, TxsOf
  <2>2. Tuple(t.outs)
    BY <2>1 DEF StoredTxs, TxsOf, IInv, BlocksWellFormed
  <2>3. Len(t.outs) = 1
    BY <1>1, <1>7, <1>9, <1>10, <2>1 DEF SpentWhole
  <2>4. DOMAIN t.outs = 1..1
    BY <2>2, <2>3, TupleDomain
  <2> QED BY <1>10, <2>2, <2>3, <2>4
<1>12. txn[r.id] = t.outs
  <2>1. Entry(txn, r.id) = IF [id |-> r.id, out |-> 1] \in refs THEN <<>> ELSE t.outs
    BY <1>9, <1>10 DEF Leaves
  <2>2. txn[r.id] # <<>>
    BY <1>6
  <2> QED BY <1>2, <2>1, <2>2 DEF Entry
<1>13. Without(txn[r.id], r.out) = <<>>
  <2>1. PICK left : left = Without(t.outs, 1)
    OBVIOUS
  <2>2. Tuple(left) /\ Len(left) = IF 1 \in 1..1 THEN 1 - 1 ELSE 1
    BY <1>11, <2>1, WithoutTuple
  <2>3. Len(left) = 0
    BY <2>2
  <2>4. left = <<>>
    BY <2>2, <2>3, EmptySeq DEF Tuple
  <2> QED BY <1>11, <1>12, <2>1, <2>4
<1>14. \A id : Entry(txn, id)' = IF id = r.id THEN <<>> ELSE Entry(txn, id)
  <2>1. txn' = Drop(txn, {r.id})
    BY <1>2, <1>13 DEF WriteBack
  <2> QED BY <2>1 DEF Entry, Drop
<1>15. SpentIn(older) \cup (paid \ todo') = refs \cup {r}
  BY <1>2, <1>8, <1>9
<1>16. Leaves(txn, older, refs \cup {r})'
  <2>1. TxsOf(older)' = TxsOf(older)
    BY <1>3 DEF TxsOf
  <2>2. ASSUME NEW s \in TxsOf(older)
        PROVE  Entry(txn, s.id)' = IF [id |-> s.id, out |-> 1] \in refs \cup {r}
                                   THEN <<>> ELSE s.outs
    <3>1. CASE s.id = r.id
      BY <1>6, <1>11, <1>14, <3>1
    <3>2. CASE s.id # r.id
      <4>1. [id |-> s.id, out |-> 1] # r
        BY <3>2
      <4>2. Entry(txn, s.id) = IF [id |-> s.id, out |-> 1] \in refs THEN <<>> ELSE s.outs
        BY <1>9 DEF Leaves
      <4> QED BY <1>14, <3>2, <4>1, <4>2
    <3> QED BY <3>1, <3>2
  <2> QED BY <2>1, <2>2 DEF Leaves
<1>17. Entry(txn, txs[1].id)' = txs[1].outs
  <2>1. 1 \in DOMAIN blocks[lastHash].txs
    BY <1>4, <1>6
  <2>2. \A s \in TxsOf(older) : s.id # txs[1].id
    BY <1>4, <1>5, <1>6, <2>1, TipIsUnspent
  <2>3. txs[1].id # r.id
    BY <1>10, <2>2
  <2> QED BY <1>9, <1>14, <2>3
<1>18. UpdateLeaves'
  <2>1. SpentIn(older)' = SpentIn(older)
    BY <1>3, LeavesStays
  <2>2. Spend(txs[2])' = paid
    BY <1>7 DEF Spend, IsCoinbase
  <2>3. /\ (DOMAIN blocks \ {lastHash})' = older /\ blocks'[lastHash'].txs = txs
        /\ cursor' = lastHash' /\ pos' = 2
    BY <1>3, <1>4, <1>6
  <2>4. todo' \subseteq paid
    BY <1>2, <1>9
  <2>5. Leaves(txn, older, SpentIn(older) \cup (Spend(txs[2]) \ todo))'
    BY <1>15, <1>16, <2>1, <2>2
  <2> QED BY <1>17, <2>2, <2>3, <2>4, <2>5 DEF UpdateLeaves
<1> QED BY <1>3, <1>5, <1>18, LeavesStays

(* The outputs of the last block come to what the others leave. *)
LEMMA UpdateOutputsAgrees ==
  ASSUME IInv, ChainShape, SpendsBack, MemoryAgrees, IndexAgrees, UpdateOutputs
  PROVE  IndexAgrees'
<1> SUFFICES ASSUME crashes' = 0, SpentWhole'
             PROVE  /\ NoRepeat'
                    /\ (\A t \in StoredTxs : \A i \in DOMAIN t.outs : t.outs[i].val \in Int)'
                    /\ pc' = "idle" => Leaves(utxo, DOMAIN blocks, SpentIn(DOMAIN blocks))'
                    /\ pc' = "update" => UpdateLeaves'
  BY DEF IndexAgrees
<1>1. crashes = 0 /\ SpentWhole
  BY WholeBefore DEF Next
<1>2. /\ pc = "update" /\ pc' = "update" /\ blocks' = blocks /\ lastHash' = lastHash
      /\ cursor' = cursor /\ pos' = pos + 1 /\ todo = {}
  BY DEF UpdateOutputs, disk
<1>3. PICK txs, older : txs = blocks[lastHash].txs /\ older = DOMAIN blocks \ {lastHash}
  OBVIOUS
<1>4. /\ NoRepeat /\ UpdateLeaves
      /\ \A t \in StoredTxs : \A i \in DOMAIN t.outs : t.outs[i].val \in Int
  BY <1>1, <1>2 DEF IndexAgrees
<1>5. cursor = lastHash /\ lastHash \in DOMAIN blocks /\ DOMAIN txs = 1..2 /\ pos \in 1..2
      /\ Len(txs) = 2
  <2>1. cursor = lastHash /\ cursor \in DOMAIN blocks /\ Len(txs) = 2 /\ pos \in 1..3
    BY <1>2, <1>3, <1>4 DEF IInv, UpdateReady, UpdateLeaves
  <2>2. pos <= 2
    BY <1>3, <2>1 DEF UpdateOutputs
  <2>3. Tuple(txs)
    BY <1>3, <2>1 DEF IInv, BlocksWellFormed
  <2> QED BY <2>1, <2>2, <2>3, TupleDomain
<1>6. PICK cb, tx, paid : cb = txs[1] /\ tx = txs[2] /\ paid = Spend(txs[2])
  OBVIOUS
<1>7. 1 \in DOMAIN blocks[lastHash].txs /\ 2 \in DOMAIN blocks[lastHash].txs
  BY <1>3, <1>5
<1>8. /\ \A t \in TxsOf(older) : t.id # cb.id /\ t.id # tx.id
      /\ [id |-> cb.id, out |-> 1] \notin SpentIn(DOMAIN blocks)
      /\ [id |-> tx.id, out |-> 1] \notin SpentIn(DOMAIN blocks)
      /\ cb.id # tx.id
  <2>1. /\ [id |-> cb.id, out |-> 1] \notin SpentIn(DOMAIN blocks)
        /\ \A t \in TxsOf(older) : t.id # cb.id
    BY <1>3, <1>4, <1>5, <1>6, <1>7, TipIsUnspent
  <2>2. /\ [id |-> tx.id, out |-> 1] \notin SpentIn(DOMAIN blocks)
        /\ \A t \in TxsOf(older) : t.id # tx.id
    BY <1>3, <1>4, <1>5, <1>6, <1>7, TipIsUnspent
  <2>3. cb.id # tx.id
    BY <1>3, <1>4, <1>5, <1>6, <1>7 DEF NoRepeat
  <2> QED BY <2>1, <2>2, <2>3
<1>9. \A id : Entry(txn, id)' = IF id = txs[pos].id THEN txs[pos].outs ELSE Entry(txn, id)
  <2>1. txn' = Put(txn, txs[pos].id, txs[pos].outs)
    BY <1>3, <1>5 DEF UpdateOutputs
  <2> QED BY <2>1 DEF Entry, Put
<1>10. TxsOf(older)' = TxsOf(older) /\ SpentIn(older)' = SpentIn(older)
       /\ Spend(txs[2])' = paid
  <2>1. TxsOf(older)' = TxsOf(older)
    BY <1>2 DEF TxsOf
  <2>2. SpentIn(older)' = SpentIn(older)
    BY <1>2, LeavesStays
  <2> QED BY <1>6, <2>1, <2>2 DEF Spend, IsCoinbase
<1>11. /\ (DOMAIN blocks \ {lastHash})' = older /\ blocks'[lastHash'].txs = txs
       /\ cursor' = lastHash'
  BY <1>2, <1>3, <1>5
<1>12. CASE pos = 1
  <2>1. todo' = paid /\ pos' = 2
    BY <1>2, <1>3, <1>5, <1>6, <1>12 DEF UpdateOutputs
  <2>2. PICK refs : refs = SpentIn(older)
    OBVIOUS
  <2>3. Leaves(txn, older, refs)
    BY <1>3, <1>4, <1>12, <2>2 DEF UpdateLeaves
  <2>4. Leaves(txn, older, refs)'
    BY <1>6, <1>8, <1>9, <1>10, <1>12, <2>3 DEF Leaves
  <2>5. SpentIn(older)' \cup (Spend(txs[2])' \ todo') = refs
    BY <1>10, <2>1, <2>2
  <2>6. Leaves(txn, older, SpentIn(older) \cup (Spend(txs[2]) \ todo))'
    BY <2>4, <2>5
  <2>7. Entry(txn, txs[1].id)' = txs[1].outs
    BY <1>9, <1>12
  <2>8. UpdateLeaves'
    <3>1. Spend(txs[2])' = paid /\ todo' \subseteq paid /\ pos' = 2
      BY <1>10, <2>1
    <3> QED BY <1>11, <2>6, <2>7, <3>1 DEF UpdateLeaves
  <2> QED BY <1>2, <1>4, <2>8, LeavesStays
<1>13. CASE pos = 2
  <2>1. pos' = 3
    BY <1>2, <1>13
  <2>2. PICK refs : refs = SpentIn(DOMAIN blocks)
    OBVIOUS
  <2>3. ASSUME NEW t
        PROVE  t \in TxsOf(DOMAIN blocks) <=> t \in TxsOf(older) \/ t = cb \/ t = tx
    <3>1. \A i \in DOMAIN txs : txs[i] = cb \/ txs[i] = tx
      BY <1>5, <1>6
    <3>2. ASSUME t \in TxsOf(DOMAIN blocks)
          PROVE  t \in TxsOf(older) \/ t = cb \/ t = tx
      BY <1>3, <3>1, <3>2 DEF TxsOf
    <3>3. ASSUME t \in TxsOf(older) \/ t = cb \/ t = tx
          PROVE  t \in TxsOf(DOMAIN blocks)
      BY <1>3, <1>5, <1>6, <1>7, <3>3 DEF TxsOf
    <3> QED BY <3>2, <3>3
  <2>4. refs = SpentIn(older) \cup paid
    <3>1. Spend(cb) = {} /\ Spend(tx) = paid
      BY <1>3, <1>5, <1>6 DEF ChainShape
    <3>2. ASSUME NEW r
          PROVE  r \in refs <=> r \in SpentIn(older) \cup paid
      <4>1. r \in refs <=> \E t \in TxsOf(DOMAIN blocks) : r \in Spend(t)
        BY <2>2 DEF SpentIn
      <4>2. r \in SpentIn(older) <=> \E t \in TxsOf(older) : r \in Spend(t)
        BY DEF SpentIn
      <4> QED BY <2>3, <3>1, <4>1, <4>2
    <3> QED BY <3>2
  <2>5. Leaves(txn, older, refs) /\ Entry(txn, cb.id) = cb.outs
    BY <1>2, <1>3, <1>4, <1>6, <1>13, <2>4 DEF UpdateLeaves
  <2>6. ASSUME NEW t \in TxsOf(DOMAIN blocks)
        PROVE  Entry(txn, t.id)' = IF [id |-> t.id, out |-> 1] \in refs THEN <<>> ELSE t.outs
    <3>1. CASE t \in TxsOf(older)
      BY <1>6, <1>8, <1>9, <1>13, <2>5, <3>1 DEF Leaves
    <3>2. CASE t = cb
      BY <1>6, <1>8, <1>9, <1>13, <2>2, <2>5, <3>2
    <3>3. CASE t = tx
      BY <1>6, <1>8, <1>9, <1>13, <2>2, <3>3
    <3> QED BY <2>3, <3>1, <3>2, <3>3
  <2>7. PICK all : all = DOMAIN blocks
    OBVIOUS
  <2>8. TxsOf(all)' = TxsOf(all) /\ SpentIn(all)' = SpentIn(all)
    BY <1>2, LeavesStays DEF TxsOf
  <2>9. Leaves(txn, all, refs)'
    BY <2>6, <2>7, <2>8 DEF Leaves
  <2>10. Leaves(txn, DOMAIN blocks, SpentIn(DOMAIN blocks))'
    <3>1. (DOMAIN blocks)' = all /\ SpentIn(DOMAIN blocks)' = refs
      BY <1>2, <2>2, <2>7, <2>8
    <3> QED BY <2>9, <3>1
  <2>11. UpdateLeaves'
    BY <1>11, <2>1, <2>10 DEF UpdateLeaves
  <2> QED BY <1>2, <1>4, <2>11, LeavesStays
<1> QED BY <1>5, <1>12, <1>13

(* Update's commit. *)
LEMMA UpdateCommitAgrees ==
  ASSUME IInv, MemoryAgrees, IndexAgrees, UpdateCommit
  PROVE  IndexAgrees'
<1> SUFFICES ASSUME crashes' = 0, SpentWhole'
             PROVE  /\ NoRepeat'
                    /\ (\A t \in StoredTxs : \A i \in DOMAIN t.outs : t.outs[i].val \in Int)'
                    /\ pc' = "idle" => Leaves(utxo, DOMAIN blocks, SpentIn(DOMAIN blocks))'
                    /\ pc' = "update" => UpdateLeaves'
  BY DEF IndexAgrees
<1>1. crashes = 0 /\ SpentWhole
  BY WholeBefore DEF Next
<1>2. pc = "update" /\ pc' = "idle" /\ blocks' = blocks /\ utxo' = txn
  BY DEF UpdateCommit, Exit
<1>3. /\ NoRepeat /\ UpdateLeaves
      /\ \A t \in StoredTxs : \A i \in DOMAIN t.outs : t.outs[i].val \in Int
  BY <1>1, <1>2 DEF IndexAgrees
<1>4. pos = 3
  <2>1. Len(blocks[cursor].txs) = 2 /\ pos \in 1..3
    BY <1>2 DEF IInv, UpdateReady
  <2>2. pos > 2
    BY <2>1 DEF UpdateCommit
  <2> QED BY <2>1, <2>2
<1>5. PICK all, refs : all = DOMAIN blocks /\ refs = SpentIn(all)
  OBVIOUS
<1>6. Leaves(txn, all, refs)
  BY <1>3, <1>4, <1>5 DEF UpdateLeaves
<1>7. TxsOf(all)' = TxsOf(all) /\ SpentIn(all)' = SpentIn(all)
  BY <1>2, LeavesStays DEF TxsOf
<1>8. Leaves(utxo, all, refs)'
  BY <1>2, <1>6, <1>7 DEF Leaves, Entry
<1>9. (DOMAIN blocks)' = all /\ SpentIn(all)' = refs
  BY <1>2, <1>5, <1>7
<1> QED BY <1>2, <1>3, <1>8, <1>9, LeavesStays

(* All kinds of step together. *)
LEMMA NextKeepsIndexAgrees ==
  ASSUME Positive
  PROVE  IInv /\ MemoryAgrees /\ ChainShape /\ MetIsListed /\ SpendsBack /\ IndexAgrees
         /\ [Next]_vars => IndexAgrees'
<1> SUFFICES ASSUME IInv, MemoryAgrees, ChainShape, MetIsListed, SpendsBack, IndexAgrees, [Next]_vars
             PROVE  IndexAgrees'
  OBVIOUS
<1>1. crashes \in Nat
  BY DEF MemoryAgrees
<1>2. CASE CreateBlockChain \/ ReindexUTXO \/ DeleteByPrefix \/ StartWalk \/ WalkTx
  <2>1. blocks' = blocks /\ crashes' = crashes /\ pc' \notin {"idle", "update"}
    BY <1>2 DEF CreateBlockChain, ReindexUTXO, DeleteByPrefix, StartWalk, WalkTx, disk, command, counts
  <2> QED BY <2>1, QuietAgrees
<1>3. CASE UNCHANGED vars
  <2>1. blocks' = blocks /\ crashes' = crashes
    BY <1>3 DEF vars, disk, counts
  <2> QED BY <1>3, <2>1, QuietAgrees
<1>4. CASE Crash
  <2>1. crashes' = crashes + 1
    BY <1>4 DEF Crash
  <2>2. crashes' # 0
    BY <1>1, <2>1
  <2> QED BY <2>2 DEF IndexAgrees
<1>5. CASE ReadOnly
  BY <1>3, <1>5 DEF ReadOnly
<1>6. CASE \E a \in Addresses : CommitGenesis(a)
  BY <1>6, GenesisAgrees
<1>7. CASE WriteIndex
  BY <1>7, RebuildAgrees
<1>8. CASE \E p \in Payments : Send(p)
  BY <1>8, SendAgrees
<1>9. CASE UpdateInput
  BY <1>9, UpdateInputAgrees
<1>10. CASE UpdateOutputs
  BY <1>10, UpdateOutputsAgrees
<1>11. CASE UpdateCommit
  BY <1>11, UpdateCommitAgrees
<1> QED BY <1>2, <1>3, <1>4, <1>5, <1>6, <1>7, <1>8, <1>9, <1>10, <1>11 DEF Next

(* The inductive invariant: it starts with an empty chain, and every step   *)
(* keeps it.                                                               *)
LEMMA IndexAlwaysAgrees ==
  ASSUME Positive
  PROVE  Spec => [](IInv /\ AgreeInv)
<1>1. Init => AgreeInv
  <2> SUFFICES ASSUME Init
               PROVE  AgreeInv
    OBVIOUS
  <2>1. DOMAIN blocks = {} /\ pc = "idle"
    BY DEF Init, EmptyMap
  <2>2. StoredTxs = {}
    BY <2>1 DEF StoredTxs, TxsOf
  <2>3. SpendsBack
    <3>1. UsedIds = {}
      BY <2>2 DEF UsedIds
    <3> QED BY <2>1, <3>1, FS_EmptySet DEF SpendsBack
  <2>4. IndexAgrees
    BY <2>1, <2>2 DEF IndexAgrees, NoRepeat, Leaves, TxsOf
  <2> QED BY <2>1, <2>3, <2>4, InitSignInv DEF SignInv, AgreeInv, ChainShape, MetIsListed
<1>2. (IInv /\ AgreeInv) /\ [Next]_vars => (IInv /\ AgreeInv)'
  BY NextKeepsIInv, NextKeepsMemory, NextKeepsShape, NextKeepsListed, NextKeepsSpendsBack,
     NextKeepsIndexAgrees DEF AgreeInv
<1> QED BY <1>1, <1>2, InitIInv, PTL DEF Spec

(* As long as nothing crashed and what was spent was all of its            *)
(* transaction, Update and FindUTXO come to the same index: a Reindex      *)
(* changes nothing.                                                        *)
THEOREM IndexIsAlwaysUnspent ==
  ASSUME Positive
  PROVE  Spec => []IndexIsUnspent
<1>1. IInv /\ AgreeInv => IndexIsUnspent
  <2> SUFFICES ASSUME IInv, AgreeInv, pc = "idle", crashes = 0, lastHash # NoHash, SpentWhole
               PROVE  IndexListsUnspent
    BY DEF IndexIsUnspent
  <2>1. NoRepeat /\ Leaves(utxo, DOMAIN blocks, SpentIn(DOMAIN blocks))
    BY DEF AgreeInv, IndexAgrees
  <2>2. DOMAIN utxo \subseteq UsedIds /\ \A id \in DOMAIN utxo : Tuple(utxo[id])
    BY DEF IInv, IndexStored, IndexWellFormed
  <2> QED BY <2>1, <2>2, LeavesAreListed DEF AgreeInv, IndexListsUnspent
<1> QED BY <1>1, IndexAlwaysAgrees, PTL

(* The outputs in the index are the unspent ones. *)
LEMMA IndexedIsUnspent ==
  ASSUME IInv, ChainShape, SpendsBack, NoRepeat, SpentWhole, lastHash # NoHash,
         Leaves(utxo, DOMAIN blocks, SpentIn(DOMAIN blocks)),
         NEW o \in Occurrences, NEW id, id = TxAt(o).id, NEW n
  PROVE  /\ id \in DOMAIN utxo /\ n \in DOMAIN utxo[id] <=> <<o, n>> \in Unspent(id)
         /\ <<o, n>> \in Unspent(id) => utxo[id] = TxAt(o).outs
<1>1. PICK h \in DOMAIN blocks : \E i \in DOMAIN blocks[h].txs : o = <<h, i>>
  BY OccurrencesAre
<1>2. PICK i \in DOMAIN blocks[h].txs : o = <<h, i>>
  BY <1>1
<1>3. PICK t : t = blocks[h].txs[i]
  OBVIOUS
<1>4. t = TxAt(o) /\ t.id = id
  BY <1>2, <1>3 DEF TxAt
<1>5. PICK C : C = Unspent(id)
  OBVIOUS
<1>6. \A v : v \in C <=> /\ [id |-> id, out |-> 1] \notin SpentIn(DOMAIN blocks)
                         /\ \E m \in DOMAIN t.outs : v = <<o, m>>
  <2>1. \A v : v \in Unspent(t.id) <=> /\ [id |-> t.id, out |-> 1] \notin SpentIn(DOMAIN blocks)
                                       /\ \E m \in DOMAIN t.outs : v = <<o, m>>
    BY <1>2, <1>3, UnspentAltogether
  <2> QED BY <1>4, <1>5, <2>1
<1>7. <<o, n>> \in C <=> [id |-> id, out |-> 1] \notin SpentIn(DOMAIN blocks) /\ n \in DOMAIN t.outs
  BY <1>6
<1>8. Entry(utxo, id) = IF [id |-> id, out |-> 1] \in SpentIn(DOMAIN blocks) THEN <<>> ELSE t.outs
  <2>1. t \in TxsOf(DOMAIN blocks)
    BY <1>3 DEF TxsOf
  <2> QED BY <1>4, <2>1 DEF Leaves
<1>9. ASSUME id \in DOMAIN utxo, n \in DOMAIN utxo[id]
      PROVE  <<o, n>> \in C
  BY <1>7, <1>8, <1>9 DEF Entry
<1>10. ASSUME <<o, n>> \in C
      PROVE  id \in DOMAIN utxo /\ n \in DOMAIN utxo[id] /\ utxo[id] = t.outs
  BY <1>7, <1>8, <1>10 DEF Entry
<1> QED BY <1>4, <1>5, <1>9, <1>10

(* Where the transaction with an id is. *)
Where(id) == CHOOSE o \in Occurrences : TxAt(o).id = id

(* An id that is used is that of one transaction on the chain. *)
LEMMA UsedIsSomewhere ==
  ASSUME IInv, NoRepeat, lastHash # NoHash
  PROVE  /\ \A id \in UsedIds : Where(id) \in Occurrences /\ TxAt(Where(id)).id = id
         /\ \A o \in Occurrences : Where(TxAt(o).id) = o
<1>1. ASSUME NEW id \in UsedIds
      PROVE  Where(id) \in Occurrences /\ TxAt(Where(id)).id = id
  <2>1. PICK h \in DOMAIN blocks : \E i \in DOMAIN blocks[h].txs : id = blocks[h].txs[i].id
    BY DEF UsedIds, StoredTxs, TxsOf
  <2>2. PICK i \in DOMAIN blocks[h].txs : id = blocks[h].txs[i].id
    BY <2>1
  <2>3. <<h, i>> \in Occurrences /\ TxAt(<<h, i>>).id = id
    BY <2>2, OccurrencesAre DEF TxAt
  <2> QED BY <2>3 DEF Where
<1>2. ASSUME NEW o \in Occurrences
      PROVE  Where(TxAt(o).id) = o
  <2>1. ASSUME NEW q \in Occurrences, TxAt(q).id = TxAt(o).id
        PROVE  q = o
    <3>1. PICK g \in DOMAIN blocks : \E j \in DOMAIN blocks[g].txs : q = <<g, j>>
      BY OccurrencesAre
    <3>2. PICK h \in DOMAIN blocks : \E i \in DOMAIN blocks[h].txs : o = <<h, i>>
      BY OccurrencesAre
    <3> QED BY <2>1, <3>1, <3>2 DEF TxAt, NoRepeat
  <2> QED BY <2>1 DEF Where
<1> QED BY <1>1, <1>2

(* So what getbalance sums is what the chain has left for an address. *)
THEOREM BalanceIsAlwaysUnspent ==
  ASSUME Positive
  PROVE  Spec => []BalanceIsUnspent
<1>1. ASSUME IInv, AgreeInv, pc = "idle", crashes = 0, lastHash # NoHash, SpentWhole,
             NEW a \in Addresses,
             NEW v, v = [o \in Occurrences |-> TxAt(o).outs],
             NEW M, M = {u \in UNION {Unspent(id) : id \in TxIds} : OutputAt(u).owner = a},
             NEW T, T = {[id |-> u[1], out |-> u[2]] : u \in M}
      PROVE  Balance(utxo, a) = Worth(v, T)
  <2>1. PICK S : S = OwnedBy(utxo, a)
    OBVIOUS
  <2>2. /\ NoRepeat /\ Leaves(utxo, DOMAIN blocks, SpentIn(DOMAIN blocks))
        /\ \A t \in StoredTxs : \A i \in DOMAIN t.outs : t.outs[i].val \in Int
        /\ ChainShape /\ SpendsBack /\ DOMAIN utxo \subseteq UsedIds
    BY <1>1 DEF AgreeInv, IndexAgrees, IInv, IndexStored
  <2>3. IsFiniteSet(S)
    <3>1. IsFiniteSet(DOMAIN utxo)
      BY <2>2, FS_Subset DEF SpendsBack
    <3> QED BY <1>1, <2>1, <3>1, OwnedIsRefs, RefsAreFinite DEF IInv, IndexWellFormed
  <2>4. PICK f : f = [r \in S |-> [id |-> Where(r.id), out |-> r.out]]
    OBVIOUS
  <2>5. ASSUME NEW r \in S
        PROVE  /\ r.id \in DOMAIN utxo /\ r.out \in DOMAIN utxo[r.id]
               /\ r = [id |-> r.id, out |-> r.out] /\ utxo[r.id][r.out].owner = a
               /\ r.id \in UsedIds /\ r.id \in TxIds
               /\ Where(r.id) \in Occurrences /\ TxAt(Where(r.id)).id = r.id
               /\ <<Where(r.id), r.out>> \in Unspent(r.id)
               /\ utxo[r.id] = TxAt(Where(r.id)).outs
    <3>1. /\ r.id \in DOMAIN utxo /\ r.out \in DOMAIN utxo[r.id]
          /\ r = [id |-> r.id, out |-> r.out] /\ utxo[r.id][r.out].owner = a
      BY <2>1, OwnedIsThere
    <3>2. r.id \in UsedIds /\ r.id \in TxIds
      BY <2>2, <3>1 DEF SpendsBack
    <3>3. PICK o \in Occurrences : o = Where(r.id) /\ TxAt(o).id = r.id
      BY <1>1, <2>2, <3>2, UsedIsSomewhere
    <3>4. <<o, r.out>> \in Unspent(r.id) /\ utxo[r.id] = TxAt(o).outs
      BY <1>1, <2>2, <3>1, <3>3, IndexedIsUnspent
    <3> QED BY <3>1, <3>2, <3>3, <3>4
  <2>6. ASSUME NEW r \in S
        PROVE  /\ f[r] = [id |-> Where(r.id), out |-> r.out]
               /\ f[r].id = Where(r.id) /\ f[r].out = r.out
    <3>1. PICK x : x = [id |-> Where(r.id), out |-> r.out]
      OBVIOUS
    <3>2. x.id = Where(r.id) /\ x.out = r.out
      BY <3>1
    <3>3. f[r] = x
      BY <2>4, <3>1
    <3> QED BY <3>1, <3>2, <3>3
  <2>7. ASSUME NEW r \in S
        PROVE  f[r] \in T
    <3>1. PICK u : u = <<Where(r.id), r.out>>
      OBVIOUS
    <3>2. u \in Unspent(r.id) /\ OutputAt(u) = utxo[r.id][r.out]
      BY <2>5, <3>1 DEF OutputAt
    <3>3. u \in M
      <4>1. PICK X : X = UNION {Unspent(id) : id \in TxIds}
        OBVIOUS
      <4>2. u \in X
        BY <2>5, <3>2, <4>1
      <4>3. OutputAt(u).owner = a
        BY <2>5, <3>2
      <4>4. M = {w \in X : OutputAt(w).owner = a}
        BY <1>1, <4>1
      <4> QED BY <4>2, <4>3, <4>4
    <3>4. [id |-> u[1], out |-> u[2]] \in T
      BY <1>1, <3>3
    <3>5. u[1] = Where(r.id) /\ u[2] = r.out
      BY <3>1
    <3>6. f[r] = [id |-> u[1], out |-> u[2]]
      BY <2>6, <3>5
    <3> QED BY <3>4, <3>6
  <2>8. ASSUME NEW t \in T
        PROVE  \E r \in S : f[r] = t
    <3>1. PICK u \in M : t = [id |-> u[1], out |-> u[2]]
      BY <1>1
    <3>2. PICK id \in TxIds : u \in Unspent(id) /\ OutputAt(u).owner = a
      BY <1>1
    <3>3. PICK o \in Occurrences : TxAt(o).id = id /\ \E i \in UnspentPositions(o) : u = <<o, i>>
      BY <3>2 DEF Unspent
    <3>4. PICK n : u = <<o, n>>
      BY <3>3
    <3>5. id \in DOMAIN utxo /\ n \in DOMAIN utxo[id] /\ utxo[id] = TxAt(o).outs
      BY <1>1, <2>2, <3>2, <3>3, <3>4, IndexedIsUnspent
    <3>6. OutputAt(u) = utxo[id][n]
      BY <3>4, <3>5 DEF OutputAt
    <3>7. PICK r : r = [id |-> id, out |-> n]
      OBVIOUS
    <3>8. r \in S
      <4>1. r.id = id /\ r.out = n
        BY <3>7
      <4>2. r \in RefsOf(utxo, {a})
        BY <3>2, <3>5, <3>6, <3>7, <4>1, RefsAreRefs
      <4> QED BY <2>1, <4>2, OwnedIsRefs
    <3>9. Where(id) = o
      BY <1>1, <2>2, <3>3, UsedIsSomewhere
    <3> QED BY <2>6, <3>1, <3>4, <3>7, <3>8, <3>9
  <2>9. ASSUME NEW q \in S, NEW r \in S, f[q] = f[r]
        PROVE  q = r
    <3>1. Where(q.id) = Where(r.id) /\ q.out = r.out
      <4>1. PICK x : x = f[q] /\ x = f[r]
        BY <2>9
      <4>2. x.id = Where(q.id) /\ x.out = q.out
        BY <2>6, <4>1
      <4>3. x.id = Where(r.id) /\ x.out = r.out
        BY <2>6, <4>1
      <4> QED BY <4>2, <4>3
    <3>2. q.id = r.id
      BY <2>5, <3>1
    <3> QED BY <2>5, <3>1, <3>2
  <2>10. IsFiniteSet(T)
    <3>1. f \in Surjection(S, T)
      BY <2>4, <2>7, <2>8 DEF Surjection
    <3> QED BY <2>3, <3>1, FS_Surjection DEF ExistsSurjection
  <2>11. ASSUME NEW r \in S
         PROVE  Value(utxo, r) \in Int /\ Value(v, f[r]) = Value(utxo, r)
    <3>1. PICK t \in StoredTxs : utxo[r.id] = t.outs
      BY <2>2, <2>5, IndexedIsWhole, <1>1
    <3>2. Value(utxo, r) \in Int
      BY <2>2, <2>5, <3>1 DEF Value
    <3>3. v[Where(r.id)] = utxo[r.id]
      <4>1. PICK o \in Occurrences : o = Where(r.id) /\ utxo[r.id] = TxAt(o).outs
        BY <2>5
      <4> QED BY <1>1, <4>1
    <3>4. f[r].id = Where(r.id) /\ f[r].out = r.out
      BY <2>6
    <3> QED BY <3>2, <3>3, <3>4 DEF Value
  <2>12. f \in [S -> T]
    BY <2>4, <2>7
  <2>13. Worth(v, T) = Worth(utxo, S)
    BY <2>3, <2>8, <2>9, <2>10, <2>11, <2>12, WorthMoved
  <2> QED BY <2>1, <2>13 DEF Balance
<1>2. IInv /\ AgreeInv => BalanceIsUnspent
  BY <1>1 DEF BalanceIsUnspent
<1> QED BY <1>2, IndexAlwaysAgrees, PTL
=============================================================================
