----------------------------- MODULE WorkQueue -----------------------------
(***************************************************************************)
(* What a queue and its consumers promise about each message: it is there  *)
(* once it was sent, it may be worked on as often as it is there, or while *)
(* a consumer still has it, and it goes only after that succeeded.         *)
(***************************************************************************)
CONSTANT Msgs

VARIABLES
  waiting,   \* messages in the queue, offered or not
  done       \* messages that were worked on with success

Init == waiting = {} /\ done = {}

Send(m) ==
  /\ m \notin waiting \cup done
  /\ waiting' = waiting \cup {m}
  /\ UNCHANGED done

Work(m) ==
  /\ m \in waiting
  /\ done' = done \cup {m}
  /\ UNCHANGED waiting

Remove(m) ==
  /\ m \in waiting \cap done
  /\ waiting' = waiting \ {m}
  /\ UNCHANGED done

Next == \E m \in Msgs : Send(m) \/ Work(m) \/ Remove(m)

Spec == Init /\ [][Next]_<<waiting, done>>
=============================================================================
