---------------------------- MODULE MCWalletFile ----------------------------
(* Small instances of WalletFile. *)
EXTENDS WalletFile, FiniteSetsExt, TLC

CONSTANTS k1, k2, k3, k4

(* Addresses and keys lose leading zeros: wallets differ in length. *)
Width == k1 :> 3 @@ k2 :> 4 @@ k3 :> 3 @@ k4 :> 5

Sizes == [ks \in SUBSET Keys |-> MapThenSumSet(LAMBDA k : Width[k], ks)]
=============================================================================
