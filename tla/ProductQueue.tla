---------------------------- MODULE ProductQueue ----------------------------
(***************************************************************************)
(* The queue product_inited: a product is created and its message sent in  *)
(* one RunInTx (pkg/db/postgres), and the processes that run               *)
(* RunSQSConsumer (pkg/consumerutils) with CheckProduct read it.           *)
(*                                                                         *)
(* The queue is external.  A message that was received is hidden for the   *)
(* visibility timeout and then offered again, with another receipt handle; *)
(* what a call with an older handle does is up to the queue.  The business *)
(* layer is external too: that the message is sent inside the transaction  *)
(* is what reader.go says of it, and CheckProduct fails while there is no  *)
(* such product.                                                           *)
(***************************************************************************)
EXTENDS Naturals, Sequences, FiniteSets, SequencesExt

CONSTANTS
  Msgs,         \* the message of each product
  Consumers,    \* processes that run RunSQSConsumer
  Singles,      \* callers of ReadAndProcessMessageFromSQS
  Nobody,
  MaxNumberOfMessages,   \* of one ReadMessages
  MaxFaults,    \* bound on failed calls, kills, and timeouts that hit a consumer at work
  MaxCalls      \* bound on ReadAndProcessMessageFromSQS

Procs == Consumers \cup Singles

ASSUME QueueAssumption ==
  /\ Consumers \cap Singles = {} /\ Nobody \notin Procs
  /\ MaxNumberOfMessages \in Nat \ {0}
  /\ MaxFaults \in Nat /\ MaxCalls \in Nat

VARIABLES
  row,        \* where the transaction of each product stands
  place,      \* where its message is
  receiver,   \* who has its newest receipt handle, while it is in flight
  pc,         \* where each process stands
  batch,      \* the messages of the last ReadMessages still to be worked on
  cancelled,  \* consumers whose context is done
  times,      \* how often CheckProduct accepted the message
  faults, calls    \* how often these happened

queue  == <<place, receiver>>
proc   == <<pc, batch, cancelled>>
counts == <<faults, calls>>
vars   == <<row, queue, proc, times, counts>>

Rows    == {"open", "sent", "committed", "rolled back"}
Places  == {"none", "delayed", "visible", "in flight", "gone"}
Phases  == {"poll", "take", "return", "delete", "stopped"}

Init ==
  /\ row = [m \in Msgs |-> "open"]
  /\ place = [m \in Msgs |-> "none"]
  /\ receiver = [m \in Msgs |-> Nobody]
  /\ pc = [p \in Procs |-> IF p \in Consumers THEN "poll" ELSE "stopped"]
  /\ batch = [p \in Procs |-> <<>>]
  /\ cancelled = {}
  /\ times = [m \in Msgs |-> 0]
  /\ faults = 0 /\ calls = 0

Goto(p, phase) == pc' = [pc EXCEPT ![p] = phase]

Fault == faults < MaxFaults /\ faults' = faults + 1

(* Where the queue has a message that no receipt handle is out for. *)
Move(m, to) ==
  /\ place' = [place EXCEPT ![m] = to]
  /\ receiver' = [receiver EXCEPT ![m] = Nobody]

-----------------------------------------------------------------------------
(* RunInTx, with a function that writes the product and sends its message. *)

(* Writer.SendMessage, with DelaySeconds. *)
SendMessage(m) ==
  /\ row[m] = "open"
  /\ row' = [row EXCEPT ![m] = "sent"]
  /\ Move(m, "delayed")
  /\ UNCHANGED <<proc, times, counts>>

Commit(m) ==
  /\ row[m] = "sent"
  /\ row' = [row EXCEPT ![m] = "committed"]
  /\ UNCHANGED <<queue, proc, times, counts>>

(* The function fails before or after the message was sent, or Commit      *)
(* does: RunInTx returns the error, and its deferred Rollback runs on what *)
(* may be committed nonetheless when only the answer to Commit was lost.   *)
Rollback(m) ==
  /\ row[m] \in {"open", "sent"}
  /\ Fault
  /\ \E r \in {"rolled back"} \cup (IF row[m] = "sent" THEN {"committed"} ELSE {}) :
       row' = [row EXCEPT ![m] = r]
  /\ UNCHANGED <<queue, proc, times, calls>>

-----------------------------------------------------------------------------
(* The queue. *)

(* DelaySeconds, or the second MakeMessageVisible asks for, is over. *)
Appear(m) ==
  /\ place[m] = "delayed"
  /\ Move(m, "visible")
  /\ UNCHANGED <<row, proc, times, counts>>

(* The consumer that received the message still has to do with it. *)
Working(m) == \E p \in Procs : receiver[m] = p /\ \E i \in DOMAIN batch[p] : batch[p][i] = m

(* The visibility timeout: nobody works on the message any more, *)
Expire(m) ==
  /\ place[m] = "in flight"
  /\ ~Working(m)
  /\ Move(m, "visible")
  /\ UNCHANGED <<row, proc, times, counts>>

(* or its consumer is late. *)
ExpireEarly(m) ==
  /\ place[m] = "in flight"
  /\ Working(m)
  /\ Fault
  /\ Move(m, "visible")
  /\ UNCHANGED <<row, proc, times, calls>>

Visible == {m \in Msgs : place[m] = "visible"}

-----------------------------------------------------------------------------
(* RunSQSConsumer. *)

(* The signal, or another goroutine of the errgroup failed. *)
Cancel(p) ==
  /\ p \in Consumers \ cancelled
  /\ cancelled' = cancelled \cup {p}
  /\ UNCHANGED <<row, queue, pc, batch, times, counts>>

(* ctx.Done is looked at before ReadMessages only. *)
StopNot(p) == p \in {} /\ UNCHANGED vars   \* fault: the background context is looked at

Stop(p) ==
  /\ pc[p] = "poll"
  /\ p \in cancelled
  /\ Goto(p, "stopped")
  /\ UNCHANGED <<row, queue, batch, cancelled, times, counts>>

(* Reader.ReadMessages: messages that are visible, in any order; an error, *)
(* or none in WaitTimeSeconds, changes nothing.                            *)
Receive(p, s) ==
  /\ place' = [m \in Msgs |-> IF m \in ToSet(s) THEN "in flight" ELSE place[m]]
  /\ receiver' = [m \in Msgs |-> IF m \in ToSet(s) THEN p ELSE receiver[m]]

Batches == {s \in SeqOf(Visible, MaxNumberOfMessages) : s # <<>> /\ IsInjective(s)}

ReadMessages(p) ==
  /\ pc[p] = "poll"
  /\ p \in Consumers \ cancelled
  /\ \E s \in Batches :
       /\ Receive(p, s)
       /\ batch' = [batch EXCEPT ![p] = s]
  /\ Goto(p, "take")
  /\ UNCHANGED <<row, cancelled, times, counts>>

Done(p)    == batch' = [batch EXCEPT ![p] = Tail(@)]
NextOfDone(p) ==   \* fault: ctx.Done is looked at between messages
  IF p \in cancelled \cup Singles THEN "stopped" ELSE IF Len(batch[p]) > 1 THEN "take" ELSE "poll"

NextOf(p)  == IF Len(batch[p]) > 1 THEN "take" ELSE IF p \in Consumers THEN "poll" ELSE "stopped"
Current(p) == Head(batch[p])

(* A message without id or body is passed over. *)
Skip(p) ==
  /\ pc[p] = "take" /\ p \in Consumers
  /\ Fault
  /\ Done(p)
  /\ Goto(p, NextOf(p))
  /\ UNCHANGED <<row, queue, cancelled, times, calls>>

(* CheckProduct: the message names a product, and the service finds it. *)
CheckProduct(m) == row[m] = "committed"

(* It accepts the message of a product that is there, *)
Handle(p) ==
  /\ pc[p] = "take"
  /\ CheckProduct(Current(p))
  /\ times' = [times EXCEPT ![Current(p)] = @ + 1]
  /\ Goto(p, "delete")
  /\ UNCHANGED <<row, queue, batch, cancelled, counts>>

HandleFailsDeletes(p) ==   \* fault: no continue after the error
  /\ pc[p] = "take" /\ p \in Consumers
  /\ IF CheckProduct(Current(p)) THEN Fault ELSE UNCHANGED faults
  /\ Goto(p, "delete")
  /\ UNCHANGED <<row, queue, batch, cancelled, times, calls>>

HandleFailsAgain(p) ==   \* fault: retried in place, as RunYDBConsumer does
  /\ pc[p] = "take" /\ p \in Consumers
  /\ IF CheckProduct(Current(p)) THEN Fault ELSE UNCHANGED faults
  /\ UNCHANGED <<row, queue, proc, times, calls>>

(* and fails, or panics, for any other; it may fail for this one, too. *)
HandleFails(p) ==
  /\ pc[p] = "take" /\ p \in Consumers
  /\ IF CheckProduct(Current(p)) THEN Fault ELSE UNCHANGED faults
  /\ Goto(p, "return")
  /\ UNCHANGED <<row, queue, batch, cancelled, times, calls>>

Holds(p, m) == place[m] = "in flight" /\ receiver[m] = p
Stale(p, m) == place[m] = "in flight" /\ receiver[m] # p

(* Reader.MakeMessageVisible: the handle is the newest one, or the queue   *)
(* decides what it is worth.                                               *)
ChangeMessageVisibility(p, m) ==
  \/ (Holds(p, m) \/ Stale(p, m)) /\ Move(m, "delayed")
  \/ ~Holds(p, m) /\ UNCHANGED queue

MakeMessageVisible(p) ==
  /\ pc[p] = "return"
  /\ ChangeMessageVisibility(p, Current(p))
  /\ Done(p)
  /\ Goto(p, NextOf(p))
  /\ UNCHANGED <<row, cancelled, times, counts>>

HandBack(p) ==   \* fault: a handled message is returned to the queue
  /\ pc[p] = "delete"
  /\ (Holds(p, Current(p)) /\ Move(Current(p), "delayed")) \/ (~Holds(p, Current(p)) /\ UNCHANGED queue)
  /\ Done(p)
  /\ Goto(p, NextOf(p))
  /\ UNCHANGED <<row, cancelled, times, counts>>

(* Reader.DeleteMessage *)
DeleteFromQueue(p, m) ==
  \/ place[m] # "gone" /\ Move(m, "gone")
  \/ ~Holds(p, m) /\ UNCHANGED queue

DeleteMessage(p) ==
  /\ pc[p] = "delete"
  /\ DeleteFromQueue(p, Current(p))
  /\ Done(p)
  /\ Goto(p, NextOf(p))
  /\ UNCHANGED <<row, cancelled, times, counts>>

(* Either call fails: logged, and the next message. *)
CallFails(p) ==
  /\ pc[p] \in {"return", "delete"}
  /\ Fault
  /\ Done(p)
  /\ Goto(p, NextOf(p))
  /\ UNCHANGED <<row, queue, cancelled, times, calls>>

(* The process dies, and is started again. *)
Kill(p) ==
  /\ p \in Consumers
  /\ Fault
  /\ Goto(p, "poll")
  /\ batch' = [batch EXCEPT ![p] = <<>>]
  /\ cancelled' = cancelled \ {p}
  /\ UNCHANGED <<row, queue, times, calls>>

-----------------------------------------------------------------------------
(* ReadAndProcessMessageFromSQS: one call of it. *)

(* Exactly one message, or an error, and what was received stays hidden. *)
ReadOne(p) ==
  /\ p \in Singles
  /\ pc[p] = "stopped"
  /\ calls < MaxCalls
  /\ calls' = calls + 1
  /\ \E s \in Batches :
       /\ Receive(p, s)
       /\ IF Len(s) = 1
          THEN batch' = [batch EXCEPT ![p] = s] /\ Goto(p, "take")
          ELSE UNCHANGED <<batch, pc>>
  /\ UNCHANGED <<row, cancelled, times, faults>>

(* A message it cannot parse or process is left where it is. *)
GiveUp(p) ==
  /\ p \in Singles
  /\ pc[p] = "take"
  /\ IF CheckProduct(Current(p)) THEN Fault ELSE UNCHANGED faults
  /\ Done(p)
  /\ Goto(p, "stopped")
  /\ UNCHANGED <<row, queue, cancelled, times, calls>>

-----------------------------------------------------------------------------
Work(p) ==
  \/ Stop(p) \/ Skip(p) \/ Handle(p) \/ HandleFails(p)
  \/ MakeMessageVisible(p) \/ DeleteMessage(p) \/ CallFails(p) \/ GiveUp(p)

Next ==
  \/ \E m \in Msgs : SendMessage(m) \/ Commit(m) \/ Rollback(m)
  \/ \E m \in Msgs : Appear(m) \/ Expire(m) \/ ExpireEarly(m)
  \/ \E p \in Procs : Work(p) \/ ReadMessages(p) \/ ReadOne(p) \/ Cancel(p) \/ Kill(p)

Spec == Init /\ [][Next]_vars

(* Processes run and time passes; the queue hands every message it keeps   *)
(* offering to some consumer at last.  Nothing makes a caller begin a      *)
(* transaction or end one, and no failure has to happen.                   *)
FairSpec ==
  /\ Spec
  /\ \A p \in Procs : WF_vars(Work(p))
  /\ \A m \in Msgs :
       /\ WF_vars(Appear(m)) /\ WF_vars(Expire(m))
       /\ SF_vars(\E p \in Consumers : ReadMessages(p) /\ place'[m] # place[m])

-----------------------------------------------------------------------------
(* The types of the variables; a message in flight was received by         *)
(* somebody, a batch is there while it is worked on, and that of a single  *)
(* reader is one message.                                                  *)
QueueTyped ==
  /\ row \in [Msgs -> Rows]
  /\ place \in [Msgs -> Places]
  /\ receiver \in [Msgs -> Procs \cup {Nobody}]
  /\ \A m \in Msgs : place[m] = "in flight" <=> receiver[m] # Nobody

ProcsTyped ==
  /\ pc \in [Procs -> Phases]
  /\ batch \in [Procs -> Seq(Msgs)]
  /\ \A p \in Procs : batch[p] = <<>> <=> pc[p] \in {"poll", "stopped"}
  /\ \A p \in Singles : batch[p] = <<>> \/ Len(batch[p]) = 1

CountsTyped ==
  /\ cancelled \subseteq Consumers
  /\ times \in [Msgs -> Nat]
  /\ faults \in 0..MaxFaults
  /\ calls \in 0..MaxCalls

TypeOK == QueueTyped /\ ProcsTyped /\ CountsTyped

(* Whatever times out, is killed or fails, and whichever of two handles of *)
(* a message is used: it leaves the queue only after CheckProduct accepted *)
(* it, and a message of a transaction that did not commit never does.      *)
Promise == INSTANCE WorkQueue WITH
  waiting <- {m \in Msgs : place[m] \notin {"none", "gone"}},
  done    <- {m \in Msgs : times[m] > 0}
ImplementsWorkQueue == Promise!Spec

(* While no call fails, no process dies and no timeout hits a consumer at  *)
(* work, a message is handled once.                                        *)
OnceWithoutFaults ==
  faults = 0 => \A m \in Msgs : times[m] <= 1

(* A consumer that was told to stop finishes its batch first: no message   *)
(* has to wait for its visibility timeout because of a shutdown.           *)
StopLeavesNothing ==
  \A p \in Consumers :
    pc[p] = "stopped" /\ faults = 0 => \A m \in Msgs : receiver[m] # p

(* A consumer that is told to stop does, whatever it is fed. *)
CancelStops == \A p \in Consumers : p \in cancelled ~> (pc[p] = "stopped" \/ p \notin cancelled)

(* As long as some consumer is not told to stop, the message of every      *)
(* product that was committed is handled and goes, even one that was read  *)
(* before the commit, and whatever messages never can be handled.          *)
CommittedIsHandled ==
  <>[](\E p \in Consumers : p \notin cancelled) =>
    \A m \in Msgs : row[m] = "committed" ~> (times[m] > 0 /\ place[m] = "gone")
=============================================================================
