----------------------------- MODULE MCServices -----------------------------
(* One call that may be anything, and a second one to be in its way. *)
EXTENDS Services

CONSTANTS c1, c2
AnyAndOne == [c \in {c1, c2} |-> IF c = c1 THEN Methods \cup Streams ELSE {"ListDeliveries"}]
One       == [c \in {c1} |-> {"GetProducts"}]
=============================================================================
