------------------------------- MODULE MCNode -------------------------------
(* A small network around one node. *)
EXTENDS Node

CONSTANTS b1, b9, n1

(* The chain the node has: an own download is one block long. *)
Genesis == <<b1>>

(* A peer that is a block ahead: one more block is in transit while the    *)
(* first is on its way.                                                    *)
Ahead == {<<b9, b1>>}

(* A peer that never reached the central node has it no more in its list.  *)
Alone == {<<n1>>}
=============================================================================
