------------------------------- MODULE Ledger -------------------------------
(***************************************************************************)
(* One node's badger database and the commands of cmd/blockchain that      *)
(* change it: createblockchain, reindexutxo and send -mine.                *)
(*                                                                         *)
(* Badger's directory lock lets one process at a time open the database,   *)
(* so there is at most one command under way.  A command is a sequence of  *)
(* badger transactions, each atomic and durable; the process may die       *)
(* between any two of them (Crash), and the part of the state a process    *)
(* holds in memory is then lost.                                           *)
(***************************************************************************)
EXTENDS Transactions

CONSTANTS
  Addresses,      \* wallet addresses
  Payments,       \* the arguments of send: records [from, to, amount]
  Hashes,         \* block hashes; bounds the number of blocks
  NoHash,         \* the empty PrevHash of the genesis block
  CollectSize,    \* keys DeleteByPrefix deletes in one transaction (100000)
  MaxCrashes,     \* bound on Crash
  MaxReindexes    \* bound on the reindexutxo command

ASSUME LedgerAssumption ==
  /\ NoHash \notin Hashes
  /\ CollectSize \in Nat \ {0}
  /\ MaxCrashes \in Nat
  /\ MaxReindexes \in Nat
  /\ Payments \subseteq [from : Addresses, to : Addresses, amount : Int]

VARIABLES
  dbExists,    \* the MANIFEST file is there (DBExists)
  blocks,      \* hash -> [txs, prev, height], the blocks stored
  lastHash,    \* the key "last-hash"; NoHash while it was never written
  utxo,        \* the keys "utxo-<id>": id -> sequence of outputs
  pc,          \* where the command under way stands
  cursor,      \* the block it works on
  pos,         \* the transaction of that block it works on
  txn,         \* the index it is building in memory; in DeleteByPrefix, the
               \* part of its View the iterator has before it
  todo,        \* Update: inputs of that transaction not yet removed
  spent,       \* FindUTXO: spentTXOs, the references met so far
  crashes, reindexes    \* how often Crash and ReindexUTXO happened

disk    == <<dbExists, blocks, lastHash, utxo>>
command == <<pc, cursor, pos, txn, todo, spent>>
counts  == <<crashes, reindexes>>
vars    == <<disk, command, counts>>

Phases == {"idle", "genesis", "delete", "walk", "update"}

-----------------------------------------------------------------------------
(* The chain as the code reads it. *)

(* The hashes BlockChainIterator visits from the last one: the least set   *)
(* that has lastHash and, with a block, the block before it.               *)
OnChain ==
  {h \in DOMAIN blocks :
     \A S \in SUBSET DOMAIN blocks :
        (/\ lastHash \in S
         /\ \A g \in S : blocks[g].prev # NoHash => blocks[g].prev \in S) => h \in S}

TxsOf(hs) == UNION {{blocks[h].txs[i] : i \in DOMAIN blocks[h].txs} : h \in hs}

StoredTxs == TxsOf(DOMAIN blocks)

FreshHash == CHOOSE h \in Hashes \ DOMAIN blocks : TRUE
UsedIds   == {tx.id : tx \in StoredTxs}
FreshId   == CHOOSE id \in TxIds \ UsedIds : TRUE

(* FindTransaction for every input, and the output SignTransaction reads   *)
(* of it; otherwise the process panics before it writes anything.          *)
SignTransactionTipOnly(ins) ==   \* fault: FindTransaction does not iterate
  \A r \in ins : \E tx \in TxsOf({lastHash}) : tx.id = r.id /\ r.out \in DOMAIN tx.outs

SignTransaction(ins) ==
  \A r \in ins : \E tx \in TxsOf(OnChain) : tx.id = r.id /\ r.out \in DOMAIN tx.outs

-----------------------------------------------------------------------------
Init ==
  /\ dbExists = FALSE
  /\ blocks = EmptyMap
  /\ lastHash = NoHash
  /\ utxo = EmptyMap
  /\ pc = "idle"
  /\ cursor = NoHash
  /\ pos = 0
  /\ txn = EmptyMap
  /\ todo = {}
  /\ spent = {}
  /\ crashes = 0
  /\ reindexes = 0

(* The process ends, or dies: what it held in memory is gone. *)
Exit ==
  /\ pc' = "idle"
  /\ cursor' = NoHash
  /\ pos' = 0
  /\ txn' = EmptyMap
  /\ todo' = {}
  /\ spent' = {}

(* createblockchain, InitBlockChain: refuses an existing database; opening *)
(* one creates its MANIFEST before anything is stored in it.               *)
CreateBlockChain ==
  /\ pc = "idle"
  /\ ~dbExists
  /\ dbExists' = TRUE
  /\ pc' = "genesis"
  /\ UNCHANGED <<blocks, lastHash, utxo, cursor, pos, txn, todo, spent, counts>>

CreateBlock(txs, prev, height) == [txs |-> txs, prev |-> prev, height |-> height]

(* InitBlockChain's transaction: the genesis block for the -address of the *)
(* command, and "last-hash".  createBlockChain then calls Reindex.         *)
CommitGenesis(a) ==
  /\ pc = "genesis"
  /\ Hashes \ DOMAIN blocks # {}
  /\ TxIds \ UsedIds # {}
  /\ blocks' = Put(blocks, FreshHash, CreateBlock(<<CoinbaseTx(FreshId, a)>>, NoHash, 0))
  /\ lastHash' = FreshHash
  /\ pc' = "delete"
  /\ UNCHANGED <<dbExists, utxo, cursor, pos, txn, todo, spent, counts>>

(* ContinueBlockChain: the database is there and has a last hash. *)
ContinueBlockChain ==
  /\ pc = "idle"
  /\ dbExists
  /\ lastHash # NoHash

ReindexUTXO ==
  /\ ContinueBlockChain
  /\ reindexes < MaxReindexes
  /\ reindexes' = reindexes + 1
  /\ pc' = "delete"
  /\ txn' = utxo
  /\ UNCHANGED <<disk, cursor, pos, todo, spent, crashes>>

(* it.Next(), after keys were visited: what the iterator has before it.    *)
AheadAgain(keys) == txn   \* fault: the iterator does not move on
AheadOf(keys)    == Drop(txn, keys)

(* deleteKeys: what its transaction leaves of the index. *)
DeleteKeys(keys) == Drop(utxo, keys)

(* One deleteKeys transaction of DeleteByPrefix: CollectSize keys, or the  *)
(* rest.  The iterator is over a View of the index as it was at the start, *)
(* and visits keys in byte order, which for hashes is any order.           *)
DeleteByPrefix ==
  /\ pc = "delete"
  /\ \E keys \in SUBSET DOMAIN txn :
       /\ keys # {}
       /\ Cardinality(keys) = CollectSize \/ (keys = DOMAIN txn /\ Cardinality(keys) < CollectSize)
       /\ utxo' = DeleteKeys(keys)
       /\ txn' = AheadOf(keys)
  /\ UNCHANGED <<dbExists, blocks, lastHash, pc, cursor, pos, todo, spent, counts>>

(* The iterator is at its end and FindUTXO begins, with one of its own at  *)
(* the last block.                                                         *)
StartWalk ==
  /\ pc = "delete"
  /\ DOMAIN txn = {}
  /\ pc' = "walk"
  /\ cursor' = lastHash
  /\ pos' = 1
  /\ UNCHANGED <<disk, txn, todo, spent, counts>>

Spend(tx) == IF IsCoinbase(tx) THEN {} ELSE tx.ins

RememberLastOnly(tx) == Spend(tx)   \* fault: spentTXOs does not accumulate
Remember(tx)         == spent \cup Spend(tx)

(* FindUTXO on one transaction: its outputs not in spentTXOs are appended  *)
(* to what the map has for its id, then its inputs go into spentTXOs.      *)
WalkTx ==
  /\ pc = "walk"
  /\ cursor # NoHash
  /\ LET b    == blocks[cursor]
         tx   == b.txs[pos]
         left == Compact(tx.outs, {r.out : r \in {s \in spent : s.id = tx.id}})
         had  == IF tx.id \in DOMAIN txn THEN txn[tx.id] ELSE <<>>
     IN  /\ txn' = IF left = <<>> THEN txn ELSE Put(txn, tx.id, had \o left)
         /\ spent' = Remember(tx)
         /\ cursor' = IF pos < Len(b.txs) THEN cursor ELSE b.prev
         /\ pos' = IF pos < Len(b.txs) THEN pos + 1 ELSE 1
  /\ UNCHANGED <<disk, pc, todo, counts>>

(* Reindex's transaction: what FindUTXO found is the index now. *)
WriteIndex ==
  /\ pc = "walk"
  /\ cursor = NoHash
  /\ utxo' = txn
  /\ Exit
  /\ UNCHANGED <<dbExists, blocks, lastHash, counts>>

(* MineBlock: a block above the last one, and "last-hash", in one          *)
(* transaction.                                                            *)
MineBlockSameHeight(txs) ==   \* fault: the height of the last block again
  /\ blocks' = Put(blocks, FreshHash, CreateBlock(txs, lastHash, blocks[lastHash].height))
  /\ lastHash' = FreshHash

MineBlockKeepsTip(txs) ==   \* fault: "last-hash" is not written
  /\ blocks' = Put(blocks, FreshHash, CreateBlock(txs, lastHash, blocks[lastHash].height + 1))
  /\ lastHash' = lastHash

MineBlock(txs) ==
  /\ blocks' = Put(blocks, FreshHash, CreateBlock(txs, lastHash, blocks[lastHash].height + 1))
  /\ lastHash' = FreshHash

(* send -mine up to MineBlock's commit: NewTransaction selects, pays and   *)
(* signs (too few funds or a failed signature panic, and nothing changes), *)
(* and a block with a fresh coinbase for the sender and the payment is     *)
(* stored.  Update begins on the coinbase, whose input it skips.           *)
Send(p) ==
  /\ ContinueBlockChain
  /\ Hashes \ DOMAIN blocks # {}
  /\ Cardinality(TxIds \ UsedIds) >= 2
  /\ \E ins \in FindSpendableOutputs(utxo, p.from, p.amount) :
       /\ SignTransaction(ins)
       /\ LET outs  == PaymentOutputs(Worth(utxo, ins), p.from, p.to, p.amount)
              other == CHOOSE id \in TxIds \ (UsedIds \cup {FreshId}) : TRUE
          IN  \E id \in HashIds(StoredTxs, ins, p.from, outs, other) :
                MineBlock(<<CoinbaseTx(FreshId, p.from),
                            [id |-> id, ins |-> ins, key |-> p.from, outs |-> outs]>>)
  /\ pc' = "update"
  /\ cursor' = FreshHash
  /\ pos' = 1
  /\ txn' = utxo
  /\ UNCHANGED <<dbExists, utxo, todo, spent, counts>>

(* What Update writes back for a key: the outputs left, or nothing. *)
WriteBackNever(id, left)  == Drop(txn, {id})          \* fault: the key always goes
WriteBack(id, left) ==
  IF left = <<>> THEN Drop(txn, {id}) ELSE Put(txn, id, left)

(* Update, one input: the stored outputs of its transaction, without the   *)
(* position it names; the key goes when none is left.                      *)
UpdateInput ==
  /\ pc = "update"
  /\ \E r \in todo :
       /\ \A s \in todo : s.id = r.id => r.out <= s.out
       /\ r.id \in DOMAIN txn
       /\ txn' = WriteBack(r.id, Without(txn[r.id], r.out))
       /\ todo' = todo \ {r}
  /\ UNCHANGED <<disk, pc, cursor, pos, spent, counts>>

(* Update, after the inputs of a transaction: its outputs are indexed. *)
UpdateOutputs ==
  /\ pc = "update"
  /\ todo = {}
  /\ pos <= Len(blocks[cursor].txs)
  /\ LET txs == blocks[cursor].txs
     IN  /\ txn' = Put(txn, txs[pos].id, txs[pos].outs)
         /\ todo' = IF pos < Len(txs) THEN Spend(txs[pos + 1]) ELSE {}
  /\ pos' = pos + 1
  /\ UNCHANGED <<disk, pc, cursor, spent, counts>>

(* Update's transaction commits. *)
UpdateCommit ==
  /\ pc = "update"
  /\ pos > Len(blocks[cursor].txs)
  /\ utxo' = txn
  /\ Exit
  /\ UNCHANGED <<dbExists, blocks, lastHash, counts>>

Crash ==
  /\ pc # "idle"
  /\ crashes < MaxCrashes
  /\ crashes' = crashes + 1
  /\ Exit
  /\ UNCHANGED <<disk, reindexes>>

(* getbalance, print and listaddresses write nothing, nor does a command   *)
(* that refuses its arguments or panics before its first commit.           *)
ReadOnly ==
  /\ pc = "idle"
  /\ UNCHANGED vars

Next ==
  \/ CreateBlockChain
  \/ \E a \in Addresses : CommitGenesis(a)
  \/ ReindexUTXO
  \/ DeleteByPrefix
  \/ StartWalk
  \/ WalkTx
  \/ WriteIndex
  \/ \E p \in Payments : Send(p)
  \/ UpdateInput
  \/ UpdateOutputs
  \/ UpdateCommit
  \/ Crash
  \/ ReadOnly

Spec == Init /\ [][Next]_vars

(* A process that runs keeps running; nothing makes anyone start a command *)
(* or kill one.                                                            *)
Step ==
  \/ \E a \in Addresses : CommitGenesis(a)
  \/ DeleteByPrefix
  \/ StartWalk
  \/ WalkTx
  \/ WriteIndex
  \/ UpdateInput
  \/ UpdateOutputs
  \/ UpdateCommit

FairSpec == Spec /\ WF_vars(Step)
=============================================================================
