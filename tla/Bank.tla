-------------------------------- MODULE Bank --------------------------------
(***************************************************************************)
(* What the ledger promises its users: accounts.  The first command gives  *)
(* one address the reward; a payment moves an amount its sender has, and   *)
(* mints one more reward for the sender, who mines the block.              *)
(***************************************************************************)
EXTENDS Integers

CONSTANTS Addresses, Payments, Reward

VARIABLES open, balance

Init ==
  /\ open = FALSE
  /\ balance = [a \in Addresses |-> 0]

Open(a) ==
  /\ ~open
  /\ open' = TRUE
  /\ balance' = [balance EXCEPT ![a] = @ + Reward]

Pay(p) ==
  /\ open
  /\ balance[p.from] >= p.amount
  /\ open' = open
  /\ balance' = [a \in Addresses |->
                   balance[a] + (IF a = p.from THEN Reward - p.amount ELSE 0)
                              + (IF a = p.to THEN p.amount ELSE 0)]

Next ==
  \/ \E a \in Addresses : Open(a)
  \/ \E p \in Payments : Pay(p)

Spec == Init /\ [][Next]_<<open, balance>>
=============================================================================
