-------------------------- MODULE LedgerProperties --------------------------
(***************************************************************************)
(* What should be true of Ledger, whatever command is under way.           *)
(***************************************************************************)
EXTENDS Ledger

(* "last-hash" names the newest block and every stored block is on the     *)
(* chain behind it, one per height down to a genesis block at height 0:    *)
(* the crash points of InitBlockChain and MineBlock leave no orphan and no *)
(* dangling link for the iterator to panic on.                             *)
ChainLinked ==
  /\ lastHash = NoHash <=> DOMAIN blocks = {}
  /\ lastHash # NoHash => lastHash \in DOMAIN blocks
  /\ \A h \in DOMAIN blocks :
       /\ blocks[h].height \in Nat
       /\ blocks[h].height <= blocks[lastHash].height
       /\ IF blocks[h].height = 0
          THEN blocks[h].prev = NoHash
          ELSE /\ blocks[h].prev \in DOMAIN blocks
               /\ blocks[h].height = blocks[blocks[h].prev].height + 1
  /\ \A g, h \in DOMAIN blocks : blocks[g].height = blocks[h].height => g = h
  /\ \A h \in DOMAIN blocks : h # lastHash => \E g \in DOMAIN blocks : blocks[g].prev = h

(* The iterator reaches every block that was ever stored. *)
NoOrphan == lastHash # NoHash => OnChain = DOMAIN blocks

(* Whatever is indexed, half deleted, half rebuilt or being updated, is    *)
(* the id of a transaction on the chain: FindTransaction, which panics on  *)
(* an unknown id, finds every input a payment can select.                  *)
IndexOnChain ==
  DOMAIN utxo \cup DOMAIN txn \subseteq {tx.id : tx \in TxsOf(OnChain)}

(* Update panics when an input's key is not in the index, after the block  *)
(* is already on the chain.  The index it starts from is the one the       *)
(* inputs were selected from, and removing an input of the same            *)
(* transaction never drops the key of one still to come.                   *)
UpdateFindsInputs ==
  pc = "update" => \A r \in todo : r.id \in DOMAIN txn

(* The position an input has in the compacted entry is one its transaction *)
(* has on the chain, so that SignTransaction, which reads the previous     *)
(* transaction at that position, does not index past its outputs.  Left    *)
(* out is a Reindex of a chain that has an id twice (a payment sent again, *)
(* because the first attempt died before its Update): FindUTXO appends the *)
(* outputs of both to one entry.                                           *)
NoRepeat ==
  \A g, h \in DOMAIN blocks : \A i \in DOMAIN blocks[g].txs, j \in DOMAIN blocks[h].txs :
    blocks[g].txs[i].id = blocks[h].txs[j].id => g = h /\ i = j

SelectedIsSignable ==
  (pc = "idle" /\ lastHash # NoHash /\ (reindexes = 0 \/ NoRepeat)) =>
    \A p \in Payments : \A ins \in FindSpendableOutputs(utxo, p.from, p.amount) :
      SignTransaction(ins)

(* A command that is not killed ends: the walk down the chain and the      *)
(* loops over keys and inputs are finite.                                  *)
CommandEnds == pc # "idle" ~> pc = "idle"

-----------------------------------------------------------------------------
(* What makes the structural properties inductive. *)

Tuple(s) == s \in Seq({s[i] : i \in DOMAIN s})

(* Every stored block has transactions. *)
BlocksWellFormed ==
  /\ DOMAIN blocks \subseteq Hashes
  /\ \A h \in DOMAIN blocks :
       /\ Tuple(blocks[h].txs)
       /\ Len(blocks[h].txs) >= 1
       /\ \A i \in DOMAIN blocks[h].txs : Tuple(blocks[h].txs[i].outs)

(* IndexOnChain, of the blocks that are stored. *)
IndexStored == DOMAIN utxo \cup DOMAIN txn \subseteq UsedIds

(* Every entry of the index is a sequence. *)
IndexWellFormed ==
  /\ \A id \in DOMAIN utxo : Tuple(utxo[id])
  /\ \A id \in DOMAIN txn : Tuple(txn[id])

(* A chain is there exactly once the genesis block was committed. *)
PhaseAgrees ==
  /\ pc \in Phases
  /\ ~dbExists => pc = "idle" /\ lastHash = NoHash
  /\ pc = "genesis" => lastHash = NoHash
  /\ pc \in {"delete", "walk", "update"} => lastHash # NoHash
  /\ pc # "update" => todo = {}

(* FindUTXO's iterator is at a transaction of a stored block, or done. *)
WalkOnChain ==
  (pc = "walk" /\ cursor # NoHash) =>
    cursor \in DOMAIN blocks /\ pos \in DOMAIN blocks[cursor].txs

(* What Update still has to remove is there to be removed: an input of     *)
(* position 1 is the first of its transaction, and as long as it is to     *)
(* come nothing was removed from that entry yet.                           *)
UpdateReady ==
  pc = "update" =>
    /\ cursor \in DOMAIN blocks
    /\ Len(blocks[cursor].txs) = 2
    /\ pos \in 1..3
    /\ pos # 2 => todo = {}
    /\ pos = 1 =>
         LET txs == blocks[cursor].txs
         IN  \A r \in Spend(txs[2]) :
               /\ r.id \in DOMAIN txn /\ r.id # txs[1].id
               /\ r.out \in DOMAIN txn[r.id]
               /\ r = [id |-> r.id, out |-> r.out]
    /\ \A r \in todo :
         /\ r.id \in DOMAIN txn
         /\ r.out \in Nat \ {0}
         /\ r = [id |-> r.id, out |-> r.out]
         /\ Len(txn[r.id]) >= 1
         /\ r.out = 1 => \A s \in todo : s.id = r.id => s.out <= Len(txn[r.id])

IInv ==
  /\ BlocksWellFormed
  /\ IndexWellFormed
  /\ PhaseAgrees
  /\ ChainLinked
  /\ IndexStored
  /\ WalkOnChain
  /\ UpdateReady

(* The index a command builds is in memory only while it builds it, and    *)
(* what is still indexed are the keys DeleteByPrefix has before it.        *)
MemoryAgrees ==
  /\ pc \notin {"delete", "walk", "update"} => DOMAIN txn = {}
  /\ pc = "delete" => DOMAIN txn = DOMAIN utxo
  /\ pc # "walk" => spent = {}
  /\ reindexes \in 0..MaxReindexes
  /\ crashes \in Nat

(* The rebuild that ends createblockchain sees the genesis block alone,    *)
(* and nothing in the index.                                               *)
FirstWalk ==
  (reindexes = 0 /\ pc \in {"delete", "walk"}) =>
    /\ DOMAIN blocks = {lastHash} /\ blocks[lastHash].prev = NoHash
    /\ DOMAIN utxo = {}
    /\ \E id \in TxIds, a \in Addresses :
         /\ blocks[lastHash].txs = <<CoinbaseTx(id, a)>>
         /\ IF pc = "walk" /\ cursor = NoHash
            THEN txn = Put(EmptyMap, id, <<Output(Subsidy, a)>>)
            ELSE DOMAIN txn = {} /\ spent = {}

(* FindUTXO has not met the transactions that are still before it. *)
WalkFresh ==
  (pc = "walk" /\ NoRepeat /\ cursor # NoHash) =>
    \A h \in DOMAIN blocks : \A i \in DOMAIN blocks[h].txs :
      (blocks[h].height < blocks[cursor].height \/ (h = cursor /\ i >= pos)) =>
        blocks[h].txs[i].id \notin DOMAIN txn

(* An entry of the index is no longer than the outputs of its transaction. *)
Fits(f) ==
  \A id \in DOMAIN f : \E h \in DOMAIN blocks : \E i \in DOMAIN blocks[h].txs :
    blocks[h].txs[i].id = id /\ Len(f[id]) <= Len(blocks[h].txs[i].outs)

IndexFits == (reindexes = 0 \/ NoRepeat) => Fits(utxo) /\ Fits(txn)

SignInv == MemoryAgrees /\ FirstWalk /\ WalkFresh /\ IndexFits

-----------------------------------------------------------------------------
(* A declarative account of which outputs on the chain are unspent. *)

Occurrences == UNION {{<<h, i>> : i \in DOMAIN blocks[h].txs} : h \in OnChain}
TxAt(o) == blocks[o[1]].txs[o[2]]

(* Occurrence o comes after occurrence q in time. *)
After(o, q) == blocks[o[1]].height > blocks[q[1]].height

UnspentPositions(o) ==
  {i \in DOMAIN TxAt(o).outs :
     ~ \E q \in Occurrences : After(q, o) /\ [id |-> TxAt(o).id, out |-> i] \in Spend(TxAt(q))}

(* The unspent outputs of the transactions with an id, by where they are.  *)
(* An id is twice on the chain when a payment was mined again.             *)
Unspent(id) ==
  UNION {{<<o, i>> : i \in UnspentPositions(o)} : o \in {q \in Occurrences : TxAt(q).id = id}}

OutputAt(u) == TxAt(u[1]).outs[u[2]]

(* s lists the outputs at the places C, newest transaction first, those of *)
(* one transaction in their order.                                         *)
Ahead(u, v) == After(u[1], v[1]) \/ (u[1] = v[1] /\ u[2] <= v[2])

Lists(s, C) ==
  /\ IsFiniteSet(C)
  /\ DOMAIN s = 1..Cardinality(C)
  /\ \A v \in C : s[Cardinality({u \in C : Ahead(u, v)})] = OutputAt(v)

Entry(f, id) == IF id \in DOMAIN f THEN f[id] ELSE <<>>

(* The loop of FindUTXO, which learns of a spending before it meets the    *)
(* output because it walks backwards, ends with exactly the outputs no     *)
(* later block spends.                                                     *)
FindUTXOIsUnspent ==
  (pc = "walk" /\ cursor = NoHash) => \A id \in TxIds : Lists(Entry(txn, id), Unspent(id))

(* A block is a coinbase and at most one payment, of different ids. *)
ChainShape ==
  \A h \in DOMAIN blocks :
    LET txs == blocks[h].txs
    IN  /\ Len(txs) \in 1..2
        /\ Spend(txs[1]) = {}
        /\ \A i \in DOMAIN txs : \A r \in Spend(txs[i]) : r = [id |-> r.id, out |-> r.out]
        /\ \A i, j \in DOMAIN txs : txs[i].id = txs[j].id => i = j

(* The transactions FindUTXO has met, and what it has made of them. *)
Met ==
  {o \in Occurrences :
     cursor # NoHash => \/ blocks[o[1]].height > blocks[cursor].height
                        \/ o[1] = cursor /\ o[2] < pos}

MetIsListed ==
  pc = "walk" =>
    /\ spent = UNION {Spend(TxAt(o)) : o \in Met}
    /\ \A id \in TxIds : Lists(Entry(txn, id), {u \in Unspent(id) : u[1] \in Met})

-----------------------------------------------------------------------------
(* Money. *)

Everything(u) == UNION {{[id |-> id, out |-> i] : i \in DOMAIN u[id]} : id \in DOMAIN u}
Supply == Worth(utxo, Everything(utxo))
Minted == Subsidy * Cardinality(DOMAIN blocks)

(* A transaction with two outputs of one owner: somebody paid themselves.  *)
SelfPaid ==
  \E h \in DOMAIN blocks : \E i \in DOMAIN blocks[h].txs :
    LET outs == blocks[h].txs[i].outs
    IN  Cardinality({outs[n].owner : n \in DOMAIN outs}) < Len(outs)

(* Whatever crashes, no money appears: the index never holds more than the *)
(* coinbases of the chain.  A crash before Update loses the reward and     *)
(* gives the spent outputs back.  Left out are the two ways in which the   *)
(* positions that Update shifts do create money: a Reindex after it        *)
(* (RebuildChangesNothing), and two inputs from one transaction, the       *)
(* second of which Update then no longer finds.                            *)
SupplyNotInflated == (reindexes = 0 /\ ~SelfPaid) => Supply <= Minted

(* While no process died and none is under way, the index holds every      *)
(* coin ever minted: what a block spends and what it creates balance.      *)
(* Left out is what SupplyNotInflated leaves out.                          *)
SupplyConserved ==
  (pc = "idle" /\ crashes = 0 /\ reindexes = 0 /\ ~SelfPaid) => Supply = Minted

(* A send that mined moves money like a transfer between accounts: seen    *)
(* through getbalance, the commands implement Bank.                        *)
Accounts == INSTANCE Bank WITH
  Reward  <- Subsidy,
  open    <- DOMAIN utxo # {},
  balance <- [a \in Addresses |-> Balance(utxo, a)]
ImplementsBank == Accounts!Spec

-----------------------------------------------------------------------------
(* What makes the properties about money inductive, as long as payments    *)
(* are positive: no output is ever spent twice, so the positions that      *)
(* Update shifts do no harm.                                               *)

(* The references to the outputs of index u whose owner is in A. *)
RefsOf(u, A) ==
  UNION {{[id |-> id, out |-> i] : i \in {j \in DOMAIN u[id] : u[id][j].owner \in A}}
         : id \in DOMAIN u}

Held(u, A) == Worth(u, RefsOf(u, A))

(* Of n coins that go to a, what goes to the owners in A. *)
Share(A, a, n) == IF a \in A THEN n ELSE 0

IsReward(tx, a) == tx.id \in TxIds /\ tx = CoinbaseTx(tx.id, a)

(* tx spends outputs of transactions that are stored. *)
IsPayment(tx) ==
  /\ tx = [id |-> tx.id, ins |-> tx.ins, key |-> tx.key, outs |-> tx.outs]
  /\ tx.id \in TxIds
  /\ tx.ins # {} /\ \A r \in tx.ins : r.id \in UsedIds

(* A block is a reward and, after the first one, a payment. *)
BlocksPay ==
  /\ IsFiniteSet(DOMAIN blocks)
  /\ \A h \in DOMAIN blocks :
       LET txs == blocks[h].txs
       IN  /\ Len(txs) \in 1..2
           /\ \E a \in Addresses : IsReward(txs[1], a)
           /\ Len(txs) = 2 => IsPayment(txs[2])

(* Only a transaction with the same content has the same id. *)
IdsName == \A s, t \in StoredTxs : s.id = t.id => s = t

(* An entry of the index has at most one coin of an owner. *)
Coins(u) ==
  /\ IsFiniteSet(DOMAIN u)
  /\ \A id \in DOMAIN u : \A i \in DOMAIN u[id] :
       /\ u[id][i] \in [val : Nat, owner : Addresses]
       /\ \A j \in DOMAIN u[id] : u[id][i].owner = u[id][j].owner => i = j

Referred(id) == \E t \in StoredTxs : \E r \in t.ins : r.id = id

(* A payment whose outputs are in the index, or once were, has taken its   *)
(* inputs out of it: sending it again would find others.                   *)
SpentOnce(u) ==
  \A t \in StoredTxs :
    (t.id \in DOMAIN u \/ Referred(t.id)) =>
      \A r \in t.ins : r.id \in DOMAIN u =>
        \A j \in DOMAIN u[r.id] : u[r.id][j].owner # t.key

(* What Update of payment p works on: its block, and the index in which    *)
(* its inputs were selected.                                               *)
Recorded(p) ==
  LET cb  == blocks[cursor].txs[1]
      tx  == blocks[cursor].txs[2]
      acc == Worth(utxo, tx.ins)
  IN  /\ IsReward(cb, p.from) /\ IsPayment(tx)
      /\ tx.key = p.from /\ tx.outs = PaymentOutputs(acc, p.from, p.to, p.amount)
      /\ acc \in Nat /\ acc >= p.amount
      /\ cb.id # tx.id /\ ~Referred(cb.id) /\ ~Referred(tx.id)
      /\ tx.ins \subseteq OwnedBy(utxo, p.from)

(* How far it is. *)
Taken(p) ==
  LET cb == blocks[cursor].txs[1]
      tx == blocks[cursor].txs[2]
  IN  /\ pos = 1 => txn = utxo /\ cb.id \notin DOMAIN utxo
      /\ pos <= 2 <=> tx.id \notin DOMAIN txn
      /\ todo \subseteq tx.ins
      /\ \A r \in todo : r.id \in DOMAIN txn /\ txn[r.id] = utxo[r.id]
      /\ pos >= 2 =>
           \A r \in tx.ins \ todo : r.id \in DOMAIN txn =>
             \A j \in DOMAIN txn[r.id] : txn[r.id][j].owner # p.from

(* What it has moved of the money of any set of owners. *)
Moved(p) ==
  LET acc == Worth(utxo, blocks[cursor].txs[2].ins)
  IN  \A A \in SUBSET Addresses :
        Held(txn, A) = Held(utxo, A)
          + (IF pos >= 2 THEN Share(A, p.from, Subsidy - acc + Worth(utxo, todo)) ELSE 0)
          + (IF pos = 3 THEN Share(A, p.from, acc - p.amount) + Share(A, p.to, p.amount) ELSE 0)

Updating(p) == Recorded(p) /\ Taken(p) /\ Moved(p)

(* The blocks whose Update is not still to come. *)
Settled == Cardinality(DOMAIN blocks) - (IF pc = "update" THEN 1 ELSE 0)

Totals ==
  /\ Held(utxo, Addresses) <= Subsidy * Settled
  /\ (crashes = 0 /\ pc \notin {"delete", "walk"}) => Held(utxo, Addresses) = Subsidy * Settled

BooksBalance ==
  /\ BlocksPay
  /\ IdsName
  /\ Coins(utxo) /\ Coins(txn)
  /\ SpentOnce(utxo) /\ SpentOnce(txn)
  /\ pc = "update" => \E p \in Payments : Updating(p)
  /\ Totals

MoneyInv == (reindexes = 0 /\ ~SelfPaid) => BooksBalance

-----------------------------------------------------------------------------
(* The index and the chain. *)

IndexListsUnspent == \A id \in TxIds : Lists(Entry(utxo, id), Unspent(id))

(* reindexutxo "Rebuilds the UTXO set": run when nothing crashed, it finds *)
(* the set it replaces.                                                    *)
RebuildChangesNothing ==
  (pc = "idle" /\ crashes = 0 /\ lastHash # NoHash) => IndexListsUnspent

(* What was spent so far was the only output of its transaction. *)
SpentWhole ==
  \A s, t \in StoredTxs : \A r \in Spend(s) : r.id = t.id => Len(t.outs) = 1

(* As long as that is so and nothing crashed, it does: Update, with the    *)
(* inputs of one payment, and FindUTXO, with those of all, come to the     *)
(* same index, whatever change is waiting in it.                           *)
IndexIsUnspent ==
  (pc = "idle" /\ crashes = 0 /\ lastHash # NoHash /\ SpentWhole) => IndexListsUnspent

(* getbalance "finds all UTXO" of an address and sums them: it shows what  *)
(* the chain has left for the address, under the same conditions.          *)
BalanceIsUnspent ==
  (pc = "idle" /\ crashes = 0 /\ lastHash # NoHash /\ SpentWhole) =>
    \A a \in Addresses :
      LET outsAt == [o \in Occurrences |-> TxAt(o).outs]
          mine   == {u \in UNION {Unspent(id) : id \in TxIds} : OutputAt(u).owner = a}
      IN  Balance(utxo, a) = Worth(outsAt, {[id |-> u[1], out |-> u[2]] : u \in mine})

-----------------------------------------------------------------------------
(* What makes them inductive, as long as payments are positive. *)

(* A payment spends outputs of transactions in lower blocks. *)
SpendsBack ==
  /\ IsFiniteSet(UsedIds)
  /\ UsedIds \subseteq TxIds
  /\ \A h \in DOMAIN blocks : \A i \in DOMAIN blocks[h].txs : \A r \in Spend(blocks[h].txs[i]) :
       \E g \in DOMAIN blocks : \E j \in DOMAIN blocks[g].txs :
         /\ blocks[g].txs[j].id = r.id
         /\ r.out \in DOMAIN blocks[g].txs[j].outs
         /\ blocks[g].height < blocks[h].height

SpentIn(hs) == UNION {Spend(t) : t \in TxsOf(hs)}

(* Of the transactions in the blocks hs, index u has those of which refs   *)
(* does not name the first output, with all their outputs.                 *)
Leaves(u, hs, refs) ==
  \A t \in TxsOf(hs) :
    Entry(u, t.id) = IF [id |-> t.id, out |-> 1] \in refs THEN <<>> ELSE t.outs

(* Update is at the last block: the index it works on has what the other   *)
(* blocks leave, without the inputs it removed, and the outputs it added.  *)
UpdateLeaves ==
  LET older == DOMAIN blocks \ {lastHash}
      txs   == blocks[lastHash].txs
  IN  /\ cursor = lastHash
      /\ pos = 1 => Leaves(txn, older, SpentIn(older))
      /\ pos = 2 => /\ todo \subseteq Spend(txs[2])
                    /\ Leaves(txn, older, SpentIn(older) \cup (Spend(txs[2]) \ todo))
                    /\ Entry(txn, txs[1].id) = txs[1].outs
      /\ pos = 3 => Leaves(txn, DOMAIN blocks, SpentIn(DOMAIN blocks))

IndexAgrees ==
  (crashes = 0 /\ SpentWhole) =>
    /\ NoRepeat
    /\ \A t \in StoredTxs : \A i \in DOMAIN t.outs : t.outs[i].val \in Int
    /\ pc = "idle" => Leaves(utxo, DOMAIN blocks, SpentIn(DOMAIN blocks))
    /\ pc = "update" => UpdateLeaves

(* The chain, what a walk has found on it, and the index, together. *)
AgreeInv == MemoryAgrees /\ ChainShape /\ MetIsListed /\ SpendsBack /\ IndexAgrees
=============================================================================
