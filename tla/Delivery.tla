------------------------------ MODULE Delivery ------------------------------
(***************************************************************************)
(* What a topic consumer promises: the messages of a partition are handled *)
(* at least once, the first time each in their order, and only what was    *)
(* handled is acknowledged, after which it is never offered again.         *)
(***************************************************************************)
EXTENDS Integers

VARIABLES
  produced,    \* messages written, 1..produced
  done,        \* the messages handled at least once
  acked        \* 1..acked are acknowledged

Init ==
  /\ produced = 0
  /\ done = {}
  /\ acked = 0

Produce ==
  /\ produced' = produced + 1
  /\ UNCHANGED <<done, acked>>

Deliver(m) ==
  /\ 1..(m - 1) \subseteq done
  /\ done' = done \cup {m}
  /\ UNCHANGED <<produced, acked>>

Ack(m) ==
  /\ m > acked
  /\ 1..m \subseteq done
  /\ acked' = m
  /\ UNCHANGED <<produced, done>>

Next ==
  \/ Produce
  \/ \E m \in 1..produced : Deliver(m) \/ Ack(m)

Spec == Init /\ [][Next]_<<produced, done, acked>>
=============================================================================
