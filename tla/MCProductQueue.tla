--------------------------- MODULE MCProductQueue ---------------------------
(* Two messages, so that a batch has a rest; SeqOf enumerates the batches. *)
EXTENDS ProductQueue
=============================================================================
