---------------------------- MODULE Transactions ----------------------------
(***************************************************************************)
(* Transactions and the outputs index, as pure operators:                  *)
(* internal/domain/transaction and the read side of                        *)
(* internal/domain/chain/utxo.go.                                          *)
(*                                                                         *)
(* A transaction is [id, ins, key, outs].  `outs' is a sequence; `ins' is  *)
(* a set of references [id, out], because NewTransaction ranges over a Go  *)
(* map: across transactions the inputs have no order, within one           *)
(* transaction they are in ascending order of `out'.  `key' is the public  *)
(* key that every input carries, named by the address it belongs to; a     *)
(* coinbase's input carries random bytes.  Positions count from 1 (from 0  *)
(* in the code).  The index maps a transaction id to the *compacted*       *)
(* sequence of its outputs that are left: positions are not kept with the  *)
(* outputs, in the model as in TxOutputs.                                  *)
(***************************************************************************)
EXTENDS Integers, Sequences, FiniteSets, FiniteSetsExt

CONSTANTS
  TxIds,      \* the values SHA-256 may give as transaction ids
  NoTx        \* the empty id of a coinbase input

ASSUME NoTxAssumption == NoTx \notin TxIds

Subsidy == 10

CoinbaseInput == [id |-> NoTx, out |-> -1]
RandomData == "random data"

IsCoinbase(tx) == tx.ins = {CoinbaseInput}

Output(value, address) == [val |-> value, owner |-> address]

CoinbaseTx(id, to) ==
  [id |-> id, ins |-> {CoinbaseInput}, key |-> RandomData, outs |-> <<Output(Subsidy, to)>>]

IsLockedWithKey(out, a) == out.owner = a

(* The references to the outputs of index u that address a can unlock. *)
OwnedBy(u, a) ==
  UNION {{[id |-> id, out |-> i] : i \in {j \in DOMAIN u[id] : IsLockedWithKey(u[id][j], a)}}
         : id \in DOMAIN u}

(* The sum of the outputs the references in refs name in index u. *)
Worth(u, refs) == MapThenSumSet(LAMBDA r : u[r.id][r.out].val, refs)

(* getbalance: what FindUnspentTransactions returns for a, summed. *)
Balance(u, a) == Worth(u, OwnedBy(u, a))

(* The selections FindSpendableOutputs can return with enough funds.  It   *)
(* walks the index in the byte order of the ids, which are hashes, and     *)
(* takes owned outputs while what it has is below amount: the transactions *)
(* it met before the last one are taken whole, the last one up to the      *)
(* output that reached the amount.                                         *)
FindSpendableOutputs(u, a, amount) ==
  LET owned == OwnedBy(u, a)
  IN  IF amount <= 0
      THEN {{}}
      ELSE {sel \in SUBSET owned :
              /\ Worth(u, sel) >= amount
              /\ \E last \in sel :
                   /\ Worth(u, sel \ {last}) < amount
                   /\ \A r \in owned :
                        r \in sel <=> IF r.id = last.id
                                      THEN r.out <= last.out
                                      ELSE \E s \in sel : s.id = r.id}

(* NewTransaction's outputs: the payment, then the change if there is any. *)
PaymentOutputsNoChange(acc, from, to, amount) ==   \* fault: change is lost
  <<Output(amount, to)>>

PaymentOutputsToReceiver(acc, from, to, amount) ==   \* fault: change to the receiver
  IF acc > amount
  THEN <<Output(amount, to), Output(acc - amount, to)>>
  ELSE <<Output(amount, to)>>

PaymentOutputs(acc, from, to, amount) ==
  IF acc > amount
  THEN <<Output(amount, to), Output(acc - amount, from)>>
  ELSE <<Output(amount, to)>>

(* Hash(): the id is a function of the inputs in their order, with the key *)
(* they carry, and of the outputs.  A transaction with the content of a    *)
(* known one gets its id again; when its inputs come from several          *)
(* transactions their order may differ, and then so does the hash.         *)
HashIds(known, ins, key, outs, fresh) ==
  LET equal == {t \in known : /\ t.ins = ins
                              /\ t.outs = outs
                              /\ (ins = {} \/ t.key = key)}
      same  == {t.id : t \in equal}
  IN  IF same = {} \/ Cardinality({r.id : r \in ins}) > 1
      THEN same \cup {fresh}
      ELSE same

(* The sequence s without position i: Update's copying loop.  A position   *)
(* past the end leaves it as it is.                                        *)
WithoutNothing(s, i) == s   \* fault: every output is copied

Without(s, i) ==
  IF i \in DOMAIN s THEN SubSeq(s, 1, i - 1) \o SubSeq(s, i + 1, Len(s)) ELSE s

(* The elements of s whose position is not in gone, in order. *)
Compact(s, gone) ==
  LET kept == DOMAIN s \ gone
  IN  [n \in 1..Cardinality(kept) |->
         s[CHOOSE i \in kept : Cardinality({j \in kept : j <= i}) = n]]

(* Badger's Set and Delete on a key-value map. *)
Put(f, k, v)  == [x \in DOMAIN f \cup {k} |-> IF x = k THEN v ELSE f[x]]
Drop(f, keys) == [x \in DOMAIN f \ keys |-> f[x]]
EmptyMap == [x \in {} |-> x]
=============================================================================
