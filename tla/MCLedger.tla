------------------------------ MODULE MCLedger ------------------------------
(* Small instances of Ledger. *)
EXTENDS LedgerProperties

CONSTANTS alice, bob

Pays(from, to, amount) == [from |-> from, to |-> to, amount |-> amount]

(* 4 leaves change, 10 is a whole coinbase, 14 takes several outputs. *)
Transfers ==
  {Pays(alice, bob, 4), Pays(alice, bob, 10), Pays(alice, bob, 14),
   Pays(bob, alice, 4), Pays(bob, alice, 14)}

(* Also whole coinbases, one and two of them, with which every output that *)
(* is spent may be the only one of its transaction, and a sender that pays *)
(* itself: both outputs of a transaction are its own.                      *)
AllTransfers ==
  Transfers \cup {Pays(alice, bob, 20), Pays(bob, alice, 10), Pays(bob, alice, 20),
                  Pays(alice, alice, 4)}
=============================================================================
