---------------------------- MODULE TopicProofs ----------------------------
(***************************************************************************)
(* Proofs about TopicConsumer for any processes, messages and bounds.      *)
(***************************************************************************)
EXTENDS TopicConsumer, TLAPS

(* The parts of IInv that relate the topic, the processes and the handler. *)
Core == CommittedIsHandled /\ HandledInOrder /\ SessionContiguous /\ FreshIsLast /\ PendingHandled /\ HandIsNext

(* The step p takes in the loop of RunYDBConsumer without a message being  *)
(* read, accepted or committed.                                            *)
Idle(p) ==
  \/ Start(p) \/ ReadCanceled(p) \/ ReadFails(p)
  \/ HandlerFails(p) \/ HandlerCanceled(p) \/ Retry(p) \/ CommitExpired(p)

-----------------------------------------------------------------------------
(* The types hold before any process has started. *)
LEMMA TypeInit == Init => TypeOK
BY TopicAssumption DEF Init, TypeOK, Messages, Phases

(* What the topic does keeps the types. *)
LEMMA TypeTopic ==
  ASSUME TypeOK, NEW p \in Procs,
         Write \/ Assign(p) \/ LoseSession(p) \/ SendCommit(p) \/ Start(p) \/ Kill(p) \/ Cancel(p)
  PROVE  TypeOK'
<1> USE TopicAssumption DEF TypeOK, Messages, Phases, topic, proc, counts
<1>1. CASE Write BY <1>1 DEF Write
<1>2. CASE Assign(p) BY <1>2 DEF Assign
<1>3. CASE LoseSession(p) BY <1>3 DEF LoseSession, DropSession
<1>4. CASE SendCommit(p) BY <1>4 DEF SendCommit
<1>5. CASE Start(p) BY <1>5 DEF Start, Goto
<1>6. CASE Kill(p) BY <1>6 DEF Kill, DropSession, Goto
<1>7. CASE Cancel(p) BY <1>7 DEF Cancel
<1> QED BY <1>1, <1>2, <1>3, <1>4, <1>5, <1>6, <1>7

(* What a consumer does keeps the types. *)
LEMMA TypeConsumer ==
  ASSUME TypeOK, HandIsNext, NEW p \in Procs, Consumer(p) \/ ReadFails(p)
  PROVE  TypeOK'
<1> USE TopicAssumption DEF TypeOK, Messages, Phases, topic, proc, counts
<1>1. CASE Read(p) BY <1>1 DEF Read, Goto
<1>2. CASE ReadCanceled(p) BY <1>2 DEF ReadCanceled, Goto
<1>3. CASE ReadFails(p) BY <1>3 DEF ReadFails, Goto
<1>4. CASE HandlerSucceeds(p)
  <2>1. msg[p] \in Messages
    BY <1>4 DEF HandlerSucceeds, HandIsNext
  <2> QED BY <1>4, <2>1 DEF HandlerSucceeds, Goto
<1>5. CASE HandlerFails(p) BY <1>5 DEF HandlerFails, AfterFailure, Goto
<1>6. CASE HandlerCanceled(p) BY <1>6 DEF HandlerCanceled, Goto
<1>7. CASE Retry(p) BY <1>7 DEF Retry, Goto
<1>8. CASE Commit(p) BY <1>8 DEF Commit, Commits, Goto
<1>9. CASE CommitExpired(p) BY <1>9 DEF CommitExpired, Goto
<1>10. CASE Close(p) BY <1>10 DEF Close, Flushed, DropSession, Goto
<1> QED BY <1>1, <1>2, <1>3, <1>4, <1>5, <1>6, <1>7, <1>8, <1>9, <1>10 DEF Consumer

-----------------------------------------------------------------------------
(* Core, one lemma per kind of step. *)

(* Nothing is committed, handled or in hand at first. *)
LEMMA CoreInit == Init => Core
BY TopicAssumption
   DEF Init, Core, CommittedIsHandled, HandledInOrder, SessionContiguous, FreshIsLast,
       PendingHandled, HandIsNext, Messages

(* A new message is behind everything. *)
LEMMA WriteKeepsCore ==
  ASSUME IInv, Write
  PROVE  Core'
BY DEF IInv, TypeOK, Core, Write, CommittedIsHandled, HandledInOrder, SessionContiguous, FreshIsLast,
       PendingHandled, HandIsNext, Messages, proc, counts

(* A session begins behind the committed messages, all of them handled. *)
LEMMA AssignKeepsCore ==
  ASSUME IInv, NEW p \in Procs, Assign(p)
  PROVE  Core'
<1> USE TopicAssumption DEF IInv, Assign, proc, counts
<1>1. fresh = {} /\ \A q \in Procs : pending[q] = 0
  BY DEF FreshIsLast, PendingHandled, TypeOK
<1>2. SessionContiguous' BY DEF TypeOK, CommittedIsHandled, SessionContiguous
<1>3. FreshIsLast' /\ PendingHandled' BY <1>1 DEF FreshIsLast, PendingHandled
<1>4. CommittedIsHandled' /\ HandledInOrder' /\ HandIsNext'
  BY DEF CommittedIsHandled, HandledInOrder, HandIsNext
<1> QED BY <1>2, <1>3, <1>4 DEF Core

(* Losing the session loses the buffered commit and nothing else. *)
LEMMA DropKeepsCore ==
  ASSUME IInv, NEW p \in Procs, LoseSession(p) \/ Kill(p)
  PROVE  Core'
<1> USE TopicAssumption DEF IInv, TypeOK, LoseSession, Kill, DropSession, Goto
<1>1. CommittedIsHandled' /\ HandledInOrder'
  BY DEF CommittedIsHandled, HandledInOrder
<1>2. HandIsNext' BY DEF HandIsNext
<1>3. SessionContiguous' BY DEF SessionContiguous
<1>4. FreshIsLast' /\ PendingHandled' BY DEF FreshIsLast, PendingHandled
<1> QED BY <1>1, <1>2, <1>3, <1>4 DEF Core

(* A commit that is sent is of handled messages, and ahead of the last. *)
LEMMA SendKeepsCore ==
  ASSUME IInv, NEW p \in Procs, SendCommit(p)
  PROVE  Core'
<1> USE TopicAssumption DEF IInv, TypeOK, SendCommit, counts
<1>1. CommittedIsHandled' /\ HandledInOrder' /\ HandIsNext'
  BY DEF CommittedIsHandled, HandledInOrder, HandIsNext, PendingHandled
<1>2. SessionContiguous' BY DEF SessionContiguous, PendingHandled
<1>3. FreshIsLast' /\ PendingHandled' BY DEF FreshIsLast, PendingHandled
<1> QED BY <1>1, <1>2, <1>3 DEF Core

(* Steps within the loop that neither read, accept nor commit. *)
LEMMA IdleKeepsCore ==
  ASSUME IInv, NEW p \in Procs, Idle(p) \/ Cancel(p)
  PROVE  Core'
<1> USE TopicAssumption
    DEF IInv, TypeOK, Idle, Start, ReadCanceled, ReadFails, HandlerFails, AfterFailure,
        HandlerCanceled, Retry, CommitExpired, Cancel, Goto, topic, counts
<1>1. CommittedIsHandled' /\ HandledInOrder'
  BY DEF CommittedIsHandled, HandledInOrder
<1>2. HandIsNext' BY DEF HandIsNext
<1>3. SessionContiguous' BY DEF SessionContiguous
<1>4. FreshIsLast' /\ PendingHandled' BY DEF FreshIsLast, PendingHandled
<1> QED BY <1>1, <1>2, <1>3, <1>4 DEF Core

(* The next message of the session, when everything before it was handled. *)
LEMMA ReadKeepsCore ==
  ASSUME IInv, NEW p \in Procs, Read(p)
  PROVE  Core'
<1> USE TopicAssumption DEF IInv, TypeOK, Read, Goto, counts
<1>1. p \notin fresh BY DEF HandIsNext
<1>2. \A m \in 1..(next - 1) : times[m] > 0 BY <1>1 DEF SessionContiguous
<1>3. CommittedIsHandled' /\ HandledInOrder'
  BY DEF CommittedIsHandled, HandledInOrder
<1>4. HandIsNext' BY <1>2 DEF HandIsNext
<1>5. SessionContiguous' BY <1>2 DEF SessionContiguous
<1>6. FreshIsLast' BY DEF FreshIsLast, SessionContiguous
<1>7. PendingHandled' BY DEF PendingHandled
<1> QED BY <1>3, <1>4, <1>5, <1>6, <1>7 DEF Core

(* An accepted message: everything before it was accepted already. *)
LEMMA HandleKeepsCore ==
  ASSUME IInv, NEW p \in Procs, HandlerSucceeds(p)
  PROVE  Core'
<1> USE TopicAssumption DEF IInv, TypeOK, HandlerSucceeds, Goto, topic, counts, Messages
<1>1. /\ msg[p] \in Messages
      /\ \A k \in 1..(msg[p] - 1) : times[k] > 0
  BY DEF HandIsNext
<1>2. \A m \in Messages : times'[m] \in Nat /\ times'[m] >= times[m] /\ (m # msg[p] => times'[m] = times[m])
  BY <1>1
<1>3. times'[msg[p]] > 0 BY <1>1
<1>4. CommittedIsHandled' /\ HandledInOrder'
  BY <1>1, <1>2, <1>3 DEF CommittedIsHandled, HandledInOrder
<1>5. HandIsNext' BY <1>1, <1>2, <1>3 DEF HandIsNext
<1>6. SessionContiguous' BY <1>1, <1>2, <1>3 DEF SessionContiguous
<1>7. FreshIsLast' BY DEF FreshIsLast
<1>8. PendingHandled' BY <1>2 DEF PendingHandled
<1> QED BY <1>4, <1>5, <1>6, <1>7, <1>8 DEF Core

(* The commit is of the message in hand, which was accepted. *)
LEMMA CommitKeepsCore ==
  ASSUME IInv, NEW p \in Procs, Commit(p)
  PROVE  Core'
<1> USE TopicAssumption DEF IInv, TypeOK, Commit, Commits, Goto, topic, counts
<1>1. /\ holder = p /\ msg[p] = next - 1 /\ committed < msg[p]
      /\ \A m \in 1..msg[p] : times[m] > 0
  BY DEF FreshIsLast, HandIsNext
<1>2. CommittedIsHandled' /\ HandledInOrder'
  BY DEF CommittedIsHandled, HandledInOrder
<1>3. HandIsNext' BY DEF HandIsNext
<1>4. SessionContiguous' BY <1>1 DEF SessionContiguous
<1>5. FreshIsLast' BY DEF FreshIsLast
<1>6. PendingHandled' BY <1>1 DEF PendingHandled
<1> QED BY <1>2, <1>3, <1>4, <1>5, <1>6 DEF Core

(* Closing the reader sends what is buffered and gives the session back. *)
LEMMA CloseKeepsCore ==
  ASSUME IInv, NEW p \in Procs, Close(p)
  PROVE  Core'
<1> USE TopicAssumption DEF IInv, TypeOK, Close, Flushed, DropSession, Goto, counts
<1>1. CommittedIsHandled' /\ HandledInOrder'
  BY DEF CommittedIsHandled, HandledInOrder, PendingHandled
<1>2. HandIsNext' BY DEF HandIsNext
<1>3. pending[p] # 0 => holder' = NoProc BY DEF PendingHandled
<1>4. SessionContiguous'
  <2>1. committed' \in 0..MaxMessages /\ committed' <= written'
    BY DEF SessionContiguous, PendingHandled
  <2>2. CASE holder = p
    BY <2>1, <2>2 DEF SessionContiguous
  <2>3. CASE holder # p
    BY <1>3, <2>1, <2>3 DEF SessionContiguous
  <2> QED BY <2>2, <2>3
<1>5. FreshIsLast' BY <1>3 DEF FreshIsLast
<1>6. PendingHandled' BY <1>3 DEF PendingHandled
<1> QED BY <1>1, <1>2, <1>4, <1>5, <1>6 DEF Core

-----------------------------------------------------------------------------
(* IInv is inductive. *)
LEMMA StepKeepsIInv == IInv /\ [Next]_vars => IInv'
<1> SUFFICES ASSUME IInv, [Next]_vars PROVE IInv'
  OBVIOUS
<1>0. TypeOK /\ HandIsNext
  BY DEF IInv
<1>1. CASE Write
  <2>1. TypeOK' BY <1>0, <1>1, TopicAssumption DEF Write, TypeOK, proc, counts
  <2> QED BY <1>1, <2>1, WriteKeepsCore DEF IInv, Core
<1>2. ASSUME NEW p \in Procs, Consumer(p) \/ Environment(p) PROVE IInv'
  <2>1. TypeOK'
    BY <1>0, <1>2, TypeTopic, TypeConsumer DEF Environment
  <2>2. Core'
    BY <1>2, AssignKeepsCore, DropKeepsCore, SendKeepsCore, IdleKeepsCore, ReadKeepsCore,
       HandleKeepsCore, CommitKeepsCore, CloseKeepsCore
    DEF Consumer, Environment, Idle
  <2> QED BY <2>1, <2>2 DEF IInv, Core
<1>3. CASE UNCHANGED vars
  BY <1>3 DEF vars, topic, proc, counts, IInv, TypeOK, CommittedIsHandled, HandledInOrder,
     SessionContiguous, FreshIsLast, PendingHandled, HandIsNext
<1> QED BY <1>1, <1>2, <1>3 DEF Next

(* The inductive invariant: where session, buffered commits and messages   *)
(* in hand stand to each other, for any number of consumer processes       *)
(* (RunYDBConsumer).                                                       *)
THEOREM TopicInvariant == Spec => []IInv
<1>1. Init => IInv
  BY TypeInit, CoreInit DEF IInv, Core
<1> QED BY <1>1, StepKeepsIInv, PTL DEF Spec

(* No message is lost: what is committed was accepted by the handler,      *)
(* whatever is killed, stopped or loses the partition                      *)
(* (run_ydb_consumer.go:56-70).                                            *)
THEOREM NothingIsLost == Spec => []CommittedIsHandled
<1>1. IInv => CommittedIsHandled
  BY DEF IInv
<1> QED BY <1>1, TopicInvariant, PTL

(* Messages are first accepted in their order (run_ydb_consumer.go:39-71). *)
THEOREM FirstTimeInOrder == Spec => []HandledInOrder
<1>1. IInv => HandledInOrder
  BY DEF IInv
<1> QED BY <1>1, TopicInvariant, PTL

-----------------------------------------------------------------------------
(* Until a process is killed or a session is lost, who has a message has   *)
(* read it in the session it still has, and what was accepted is committed *)
(* or about to be by the one who has the partition.                        *)
InHandIsFresh ==
  \A p \in Procs : pc[p] \in {"handle", "wait", "commit"} => p \in fresh

AcceptedIsKept ==
  \A m \in Messages : times[m] > 0 =>
    \/ m <= committed
    \/ /\ holder # NoProc
       /\ m <= pending[holder] \/ (pc[holder] = "commit" /\ m = msg[holder])

AcceptedOnce == \A m \in Messages : times[m] <= 1

Kept == kills = 0 /\ losses = 0 => InHandIsFresh /\ AcceptedIsKept /\ AcceptedOnce

LEMMA KeptInit == Init => Kept
BY DEF Init, Kept, InHandIsFresh, AcceptedIsKept, AcceptedOnce

(* A message that is about to be given to the handler is new to it. *)
LEMMA HandIsNew ==
  ASSUME IInv, InHandIsFresh, AcceptedIsKept, NEW p \in Procs, pc[p] \in {"handle", "wait"}
  PROVE  holder = p /\ msg[p] \in Messages /\ times[msg[p]] = 0
<1>1. p \in fresh /\ holder = p /\ committed < msg[p]
  BY DEF InHandIsFresh, IInv, FreshIsLast
<1>2. msg[p] \in 1..written /\ written \in 0..MaxMessages /\ MaxMessages \in Nat
  BY TopicAssumption DEF IInv, HandIsNext, TypeOK
<1>3. msg[p] \in Messages /\ committed \in Nat /\ pending[p] \in Nat /\ times[msg[p]] \in Nat
  BY <1>2 DEF IInv, TypeOK, Messages
<1>4. pending[p] = 0 \/ pending[p] < msg[p]
  BY <1>1 DEF IInv, PendingHandled
<1>5. ~(times[msg[p]] > 0)
  BY <1>1, <1>2, <1>3, <1>4 DEF AcceptedIsKept
<1> QED BY <1>1, <1>3, <1>5

LEMMA StepKeepsKept == IInv /\ Kept /\ [Next]_vars => Kept'
<1> SUFFICES ASSUME IInv, Kept, [Next]_vars, kills' = 0, losses' = 0
             PROVE  InHandIsFresh' /\ AcceptedIsKept' /\ AcceptedOnce'
  BY DEF Kept
<1>1. TypeOK /\ MaxMessages \in Nat /\ NoProc \notin Procs
  BY TopicAssumption DEF IInv
<1> USE <1>1 DEF TypeOK
<1>2. CASE UNCHANGED vars \/ Write
  BY <1>2 DEF vars, topic, proc, counts, Write, Kept, InHandIsFresh, AcceptedIsKept, AcceptedOnce
<1>3. ASSUME NEW p \in Procs, LoseSession(p) \/ Kill(p) PROVE FALSE
  BY <1>3 DEF LoseSession, Kill
<1>4. ASSUME NEW p \in Procs, (Consumer(p) \/ Environment(p)) /\ ~LoseSession(p) /\ ~Kill(p)
      PROVE  kills = 0 /\ losses = 0
  BY <1>4 DEF Consumer, Environment, Assign, SendCommit, Start, Cancel, Read, ReadCanceled, ReadFails,
     HandlerSucceeds, HandlerFails, HandlerCanceled, Retry, Commit, CommitExpired, Close, counts
<1>5. ASSUME NEW p \in Procs, (Consumer(p) \/ Environment(p)) /\ ~LoseSession(p) /\ ~Kill(p)
      PROVE  InHandIsFresh' /\ AcceptedIsKept' /\ AcceptedOnce'
  <2>1. InHandIsFresh /\ AcceptedIsKept /\ AcceptedOnce
    BY <1>4, <1>5 DEF Kept
  <2> USE <2>1 DEF InHandIsFresh, AcceptedOnce
  <2>2. CASE Assign(p)
    BY <2>2 DEF Assign, AcceptedIsKept, proc
  <2>3. CASE SendCommit(p)
    <3>1. holder = p /\ committed < pending[p]
      BY <2>3 DEF SendCommit, IInv, PendingHandled
    <3> QED BY <2>3, <3>1 DEF SendCommit, AcceptedIsKept, Messages
  <2>4. CASE Start(p) \/ Cancel(p) \/ ReadCanceled(p) \/ ReadFails(p) \/ HandlerFails(p)
               \/ HandlerCanceled(p) \/ Retry(p)
    BY <2>4 DEF Start, Cancel, ReadCanceled, ReadFails, HandlerFails, AfterFailure, HandlerCanceled,
       Retry, Goto, topic, AcceptedIsKept
  <2>5. CASE Read(p)
    BY <2>5 DEF Read, Goto, AcceptedIsKept
  <2>6. CASE HandlerSucceeds(p)
    <3>1. holder = p /\ msg[p] \in Messages /\ times[msg[p]] = 0
      BY <2>6, HandIsNew DEF HandlerSucceeds
    <3>2. /\ times' = [times EXCEPT ![msg[p]] = 1] /\ pc' = [pc EXCEPT ![p] = "commit"]
          /\ UNCHANGED <<committed, holder, msg, fresh, pending>> /\ pc[p] = "handle"
      BY <2>6, <3>1 DEF HandlerSucceeds, Goto, topic
    <3>3. \A m \in Messages : times'[m] = IF m = msg[p] THEN 1 ELSE times[m]
      BY <3>1, <3>2
    <3>4. AcceptedIsKept'
      BY <3>1, <3>2, <3>3 DEF AcceptedIsKept
    <3> QED BY <3>2, <3>3, <3>4
  <2>7. CASE Commit(p)
    <3>1. holder = p /\ (pending[p] = 0 \/ pending[p] < msg[p])
      BY <2>7 DEF Commit, IInv, FreshIsLast, PendingHandled
    <3>2. /\ pending' = [pending EXCEPT ![p] = msg[p]] /\ pc' = [pc EXCEPT ![p] = "read"]
          /\ UNCHANGED <<committed, holder, msg, times>> /\ fresh' = fresh \ {p}
      BY <2>7 DEF Commit, Commits, Goto, topic
    <3>3. AcceptedIsKept'
      BY <3>1, <3>2 DEF AcceptedIsKept, Messages
    <3> QED BY <3>2, <3>3
  <2>8. ~CommitExpired(p)
    BY DEF CommitExpired
  <2>9. CASE Close(p)
    <3>1. pending[p] # 0 => holder = p /\ committed < pending[p]
      BY DEF IInv, PendingHandled
    <3>2. /\ pc[p] = "closing" /\ pc' = [pc EXCEPT ![p] = "down"] /\ pending' = [pending EXCEPT ![p] = 0]
          /\ holder' = (IF holder = p THEN NoProc ELSE holder) /\ fresh' = fresh \ {p}
          /\ committed' = (IF pending[p] # 0 THEN pending[p] ELSE committed) /\ UNCHANGED <<msg, times>>
      BY <2>9 DEF Close, Flushed, DropSession, Goto
    <3>3. AcceptedIsKept'
      BY <3>1, <3>2 DEF AcceptedIsKept, Messages
    <3> QED BY <3>2, <3>3
  <2> QED BY <1>5, <2>2, <2>3, <2>4, <2>5, <2>6, <2>7, <2>8, <2>9 DEF Consumer, Environment
<1> QED BY <1>2, <1>3, <1>5 DEF Next

(* Without a kill or a lost session the handler accepts no message twice,  *)
(* whatever is interrupted, fails and starts again (Commit in a background *)
(* context and the reader closed last, run_ydb_consumer.go:68).            *)
THEOREM HandledOnceIfNothingFails == Spec => []OnceWithoutFaults
<1>1. Kept => OnceWithoutFaults
  BY DEF Kept, OnceWithoutFaults, AcceptedOnce
<1> QED BY <1>1, KeptInit, StepKeepsKept, TopicInvariant, PTL DEF Spec

-----------------------------------------------------------------------------
Done == {m \in Messages : times[m] > 0}

(* A step of the consumers is a step of Delivery or changes nothing it     *)
(* sees.                                                                   *)
LEMMA StepIsDelivery ==
  IInv /\ [Next]_vars => [Promise!Next]_<<written, Done, committed>>
<1> SUFFICES ASSUME IInv, [Next]_vars PROVE [Promise!Next]_<<written, Done, committed>>
  OBVIOUS
<1> USE DEF Done
<1>1. CASE Write
  BY <1>1 DEF Write, Promise!Next, Promise!Produce
<1>2. ASSUME NEW p \in Procs, HandlerSucceeds(p) PROVE Promise!Next
  <2>1. /\ msg[p] \in 1..written /\ written \in 0..MaxMessages
        /\ \A k \in 1..(msg[p] - 1) : times[k] > 0
    BY <1>2 DEF HandlerSucceeds, IInv, TypeOK, HandIsNext
  <2>2. 1..(msg[p] - 1) \subseteq Done
    BY <2>1, TopicAssumption DEF Messages
  <2>3. Done' = Done \cup {msg[p]} /\ written' = written /\ committed' = committed
    BY <1>2, <2>1, TopicAssumption DEF HandlerSucceeds, IInv, TypeOK, Messages, topic
  <2> QED BY <2>1, <2>2, <2>3 DEF Promise!Next, Promise!Deliver
<1>3. ASSUME NEW p \in Procs, SendCommit(p) \/ Close(p)
      PROVE  Promise!Next \/ UNCHANGED <<written, Done, committed>>
  <2>1. written' = written /\ Done' = Done
    BY <1>3 DEF SendCommit, Close, Messages
  <2>2. CASE pending[p] = 0
    BY <1>3, <2>1, <2>2 DEF SendCommit, Close, Flushed
  <2>3. CASE pending[p] # 0
    <3>1. /\ pending[p] \in 1..MaxMessages /\ pending[p] > committed /\ holder = p
          /\ \A m \in 1..pending[p] : times[m] > 0
      BY <2>3, TopicAssumption DEF IInv, TypeOK, PendingHandled
    <3>2. committed' = pending[p]
      BY <1>3, <2>3 DEF SendCommit, Close, Flushed
    <3>3. 1..pending[p] \subseteq Done
      BY <3>1, TopicAssumption DEF Messages
    <3>4. pending[p] \in 1..written
      BY <2>3, <3>1, TopicAssumption DEF IInv, TypeOK, PendingHandled, SessionContiguous
    <3> QED BY <2>1, <3>1, <3>2, <3>3, <3>4 DEF Promise!Next, Promise!Ack
  <2> QED BY <2>2, <2>3
<1>4. ASSUME NEW p \in Procs, Idle(p) \/ Assign(p) \/ LoseSession(p) \/ Kill(p) \/ Cancel(p) \/ Read(p) \/ Commit(p)
      PROVE  UNCHANGED <<written, Done, committed>>
  BY <1>4 DEF Idle, Assign, LoseSession, Kill, Cancel, Read, Commit, Start, ReadCanceled, ReadFails,
     HandlerFails, HandlerCanceled, Retry, CommitExpired, topic
<1>5. CASE UNCHANGED vars
  BY <1>5 DEF vars, topic
<1> QED BY <1>1, <1>2, <1>3, <1>4, <1>5 DEF Next, Consumer, Environment, Idle

(* The consumers implement at-least-once delivery in order                 *)
(* (RunYDBConsumer against module Delivery).                               *)
THEOREM DeliveryIsImplemented == Spec => ImplementsDelivery
<1>1. Init => Promise!Init
  BY DEF Init, Promise!Init, Messages
<1>2. IInv /\ [Next]_vars => [Promise!Next]_<<written, {m \in Messages : times[m] > 0}, committed>>
  BY StepIsDelivery DEF Done
<1> QED BY <1>1, <1>2, TopicInvariant, PTL DEF Spec, Promise!Spec, ImplementsDelivery
=============================================================================
