-------------------------- MODULE MCTopicConsumer --------------------------
(* A small instance of TopicConsumer. *)
EXTENDS TopicConsumer

CONSTANTS p1, p2

(* Two consumers, and a third message no handler accepts. *)
TwoProcs == {p1, p2}
LastIsPoison == {3}
=============================================================================
