------------------------------ MODULE MCBlock ------------------------------
(* Small instances of Block.  createblockchain makes blocks of one         *)
(* transaction, send -mine of two, MineTx of three and more.               *)
EXTENDS Block
=============================================================================
