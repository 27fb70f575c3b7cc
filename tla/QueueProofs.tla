---------------------------- MODULE QueueProofs ----------------------------
(***************************************************************************)
(* Proofs about ProductQueue for any messages, consumers, single readers,  *)
(* batch size and bounds.                                                  *)
(***************************************************************************)
EXTENDS ProductQueue, SequenceTheorems, TLAPS

(* The steps of the queue and of transactions, and those of processes: the *)
(* ones that keep the batch, that go on to its next message, that fill it. *)
Outside(m) ==
  SendMessage(m) \/ Commit(m) \/ Rollback(m) \/ Appear(m) \/ Expire(m) \/ ExpireEarly(m)
Keeping(p) == Stop(p) \/ Handle(p) \/ HandleFails(p) \/ Cancel(p)
Passing(p) == Skip(p) \/ MakeMessageVisible(p) \/ DeleteMessage(p) \/ CallFails(p) \/ GiveUp(p)
Filling(p) == ReadMessages(p) \/ ReadOne(p)

LEMMA NextCases ==
  ASSUME [Next]_vars
  PROVE  \/ UNCHANGED vars
         \/ \E m \in Msgs : Outside(m)
         \/ \E p \in Procs : Keeping(p) \/ Passing(p) \/ Filling(p) \/ Kill(p)
BY DEF Next, Work, Outside, Keeping, Passing, Filling

-----------------------------------------------------------------------------
(* A counter stays below its bound. *)
LEMMA CountUp ==
  ASSUME NEW N \in Nat, NEW n \in 0..N, NEW new, new = n \/ (n < N /\ new = n + 1)
  PROVE  new \in 0..N
OBVIOUS

LEMMA EmptyIsZero ==
  ASSUME NEW S, NEW s \in Seq(S)
  PROVE  Len(s) \in Nat /\ (s = <<>> <=> Len(s) = 0)
BY EmptySeq

(* A batch that is received is a sequence of visible messages, each once.  *)
LEMMA BatchesAreSequences ==
  ASSUME NEW s \in Batches
  PROVE  /\ s \in Seq(Msgs) /\ s # <<>>
         /\ \A i \in DOMAIN s : s[i] \in Visible
         /\ \A i, j \in DOMAIN s : s[i] = s[j] => i = j
         /\ ToSet(s) = {s[i] : i \in DOMAIN s}
<1>1. s \in SeqOf(Visible, MaxNumberOfMessages) /\ s # <<>> /\ IsInjective(s)
  BY DEF Batches
<1>2. PICK n \in 0..MaxNumberOfMessages : s \in [1..n -> Visible]
  BY <1>1 DEF SeqOf
<1>3. s \in Seq(Msgs)
  BY <1>2, QueueAssumption DEF Visible
<1>4. \A i, j \in DOMAIN s : s[i] = s[j] => i = j
  BY <1>1 DEF IsInjective
<1>5. \A i \in DOMAIN s : s[i] \in Visible
  BY <1>2
<1> QED BY <1>1, <1>3, <1>4, <1>5 DEF ToSet

(* Who works on a message has it at the head of a batch. *)
LEMMA CurrentIsFirst ==
  ASSUME TypeOK, NEW p \in Procs, pc[p] \notin {"poll", "stopped"}
  PROVE  /\ Current(p) = batch[p][1] /\ Current(p) \in Msgs
         /\ Len(batch[p]) \in Nat \ {0} /\ DOMAIN batch[p] = 1..Len(batch[p])
<1>1. batch[p] \in Seq(Msgs) /\ batch[p] # <<>>
  BY DEF TypeOK, ProcsTyped
<1> QED BY <1>1, HeadTailProperties, EmptySeq DEF Current

(* Going on leaves the rest of the batch, and nothing of one message. *)
LEMMA PassingLeavesRest ==
  ASSUME TypeOK, NEW p \in Procs, Passing(p)
  PROVE  /\ pc[p] \in {"take", "return", "delete"}
         /\ batch' \in [Procs -> Seq(Msgs)] /\ Len(batch'[p]) = Len(batch[p]) - 1
         /\ \A i \in DOMAIN batch'[p] : i + 1 \in DOMAIN batch[p] /\ batch'[p][i] = batch[p][i + 1]
         /\ \A q \in Procs \ {p} : batch'[q] = batch[q]
         /\ batch'[p] = <<>> <=> Len(batch[p]) = 1
         /\ pc' = [pc EXCEPT ![p] = IF batch'[p] # <<>> THEN "take"
                                    ELSE IF p \in Consumers THEN "poll" ELSE "stopped"]
<1>1. pc[p] \in {"take", "return", "delete"} /\ batch' = [batch EXCEPT ![p] = Tail(@)]
  BY DEF Passing, Skip, MakeMessageVisible, DeleteMessage, CallFails, GiveUp, Done
<1>2. batch[p] \in Seq(Msgs) /\ batch[p] # <<>> /\ batch \in [Procs -> Seq(Msgs)]
  BY <1>1 DEF TypeOK, ProcsTyped
<1>3. batch'[p] = Tail(batch[p]) /\ \A q \in Procs \ {p} : batch'[q] = batch[q]
  BY <1>1, <1>2
<1>4. /\ Tail(batch[p]) \in Seq(Msgs) /\ Len(Tail(batch[p])) = Len(batch[p]) - 1
      /\ \A i \in 1..Len(Tail(batch[p])) : Tail(batch[p])[i] = batch[p][i + 1]
  BY <1>2, HeadTailProperties
<1>5. Len(batch[p]) \in Nat \ {0} /\ DOMAIN batch[p] = 1..Len(batch[p])
  BY <1>2, EmptySeq
<1>6. DOMAIN batch'[p] = 1..(Len(batch[p]) - 1)
  BY <1>3, <1>4, <1>5
<1>7. \A i \in DOMAIN batch'[p] : i + 1 \in DOMAIN batch[p] /\ batch'[p][i] = batch[p][i + 1]
  BY <1>3, <1>4, <1>5, <1>6
<1>8. batch'[p] = <<>> <=> Len(batch[p]) = 1
  <2>1. batch'[p] = <<>> <=> Len(Tail(batch[p])) = 0
    BY <1>3, <1>4, EmptyIsZero
  <2> QED BY <2>1, <1>4, <1>5
<1>9. batch' \in [Procs -> Seq(Msgs)]
  BY <1>1, <1>2, <1>4
<1>10. p \in Singles => Len(batch[p]) = 1 /\ p \notin Consumers
  BY <1>2, QueueAssumption DEF TypeOK, ProcsTyped
<1>11. NextOf(p) = IF batch'[p] # <<>> THEN "take" ELSE IF p \in Consumers THEN "poll" ELSE "stopped"
  <2>1. \A n \in Nat \ {0} : n > 1 <=> n # 1
    OBVIOUS
  <2>2. Len(batch[p]) > 1 <=> Len(batch[p]) # 1
    BY <1>5, <2>1
  <2>3. Len(batch[p]) > 1 <=> batch'[p] # <<>>
    BY <1>8, <2>2
  <2> QED BY <2>3 DEF NextOf
<1>12. pc' = [pc EXCEPT ![p] = NextOf(p)]
  BY <1>10, <1>11, <1>8
     DEF Passing, Skip, MakeMessageVisible, DeleteMessage, CallFails, GiveUp, Goto
<1> QED BY <1>1, <1>3, <1>4, <1>7, <1>8, <1>9, <1>11, <1>12

-----------------------------------------------------------------------------
(* The types. *)

LEMMA TypeInit == Init => TypeOK
<1> SUFFICES ASSUME Init PROVE TypeOK
  OBVIOUS
<1>1. <<>> \in Seq(Msgs)
  BY EmptySeq
<1>2. QueueTyped
  BY QueueAssumption DEF Init, QueueTyped, Rows, Places
<1>3. ProcsTyped
  BY <1>1 DEF Init, ProcsTyped, Phases, Procs
<1>4. CountsTyped
  BY QueueAssumption DEF Init, CountsTyped
<1> QED BY <1>2, <1>3, <1>4 DEF TypeOK

(* Transactions and the queue, *)
LEMMA TypeOutside ==
  ASSUME TypeOK, NEW m \in Msgs, Outside(m)
  PROVE  TypeOK'
<1>1. UNCHANGED <<proc, times, calls>>
  BY DEF Outside, SendMessage, Commit, Rollback, Appear, Expire, ExpireEarly, counts
<1>2. faults' = faults \/ (faults < MaxFaults /\ faults' = faults + 1)
  BY DEF Outside, SendMessage, Commit, Rollback, Appear, Expire, ExpireEarly, counts, Fault
<1>3. faults' \in 0..MaxFaults
  BY <1>2, CountUp, QueueAssumption DEF TypeOK, CountsTyped
<1>4. QueueTyped'
  <2> USE DEF TypeOK, QueueTyped, Rows, Places, queue, Move
  <2>1. CASE SendMessage(m) BY <2>1 DEF SendMessage
  <2>2. CASE Commit(m) BY <2>2 DEF Commit
  <2>3. CASE Rollback(m) BY <2>3 DEF Rollback
  <2>4. CASE Appear(m) BY <2>4 DEF Appear
  <2>5. CASE Expire(m) BY <2>5 DEF Expire
  <2>6. CASE ExpireEarly(m) BY <2>6 DEF ExpireEarly
  <2> QED BY <2>1, <2>2, <2>3, <2>4, <2>5, <2>6 DEF Outside
<1> QED BY <1>1, <1>3, <1>4 DEF TypeOK, ProcsTyped, CountsTyped, proc

(* a process that keeps its batch, *)
LEMMA TypeKeeping ==
  ASSUME TypeOK, NEW p \in Procs, Keeping(p)
  PROVE  TypeOK'
<1>1. UNCHANGED <<row, place, receiver, batch, calls>>
  BY DEF Keeping, Stop, Handle, HandleFails, Cancel, queue, counts
<1>2. faults' = faults \/ (faults < MaxFaults /\ faults' = faults + 1)
  BY DEF Keeping, Stop, Handle, HandleFails, Cancel, counts, Fault
<1>3. faults' \in 0..MaxFaults
  BY <1>2, CountUp, QueueAssumption DEF TypeOK, CountsTyped
<1>4. times' \in [Msgs -> Nat]
  <2>1. CASE Handle(p)
    <3>1. Current(p) \in Msgs
      BY <2>1, CurrentIsFirst DEF Handle
    <3> QED BY <2>1, <3>1 DEF TypeOK, CountsTyped, Handle
  <2> QED BY <2>1 DEF Keeping, TypeOK, CountsTyped, Stop, HandleFails, Cancel
<1>5. cancelled' \subseteq Consumers
  BY DEF TypeOK, CountsTyped, Keeping, Stop, Handle, HandleFails, Cancel
<1>6. PICK phase \in Phases :
        /\ pc' = [pc EXCEPT ![p] = phase]
        /\ phase \in {"poll", "stopped"} <=> pc[p] \in {"poll", "stopped"}
  <2>1. CASE Cancel(p) BY <2>1 DEF Cancel, TypeOK, ProcsTyped, proc
  <2> QED BY <2>1 DEF Keeping, Stop, Handle, HandleFails, Goto, Phases
<1>7. ProcsTyped'
  BY <1>1, <1>6 DEF TypeOK, ProcsTyped
<1> QED BY <1>1, <1>3, <1>4, <1>5, <1>7 DEF TypeOK, QueueTyped, CountsTyped

(* goes on to the next message, *)
LEMMA TypePassing ==
  ASSUME TypeOK, NEW p \in Procs, Passing(p)
  PROVE  TypeOK'
<1>1. UNCHANGED <<row, cancelled, times, calls>>
  BY DEF Passing, Skip, MakeMessageVisible, DeleteMessage, CallFails, GiveUp, counts
<1>2. faults' = faults \/ (faults < MaxFaults /\ faults' = faults + 1)
  BY DEF Passing, Skip, MakeMessageVisible, DeleteMessage, CallFails, GiveUp, counts, Fault
<1>3. faults' \in 0..MaxFaults
  BY <1>2, CountUp, QueueAssumption DEF TypeOK, CountsTyped
<1>4. Current(p) \in Msgs
  BY PassingLeavesRest, CurrentIsFirst
<1>5. QueueTyped'
  <2>1. UNCHANGED queue \/ \E to \in {"delayed", "gone"} : Move(Current(p), to)
    BY DEF Passing, Skip, MakeMessageVisible, ChangeMessageVisibility, DeleteMessage,
           DeleteFromQueue, CallFails, GiveUp
  <2> QED BY <1>1, <1>4, <2>1 DEF TypeOK, QueueTyped, Places, Move, queue
<1>6. ProcsTyped'
  <2>1. /\ batch' \in [Procs -> Seq(Msgs)] /\ \A q \in Procs \ {p} : batch'[q] = batch[q]
        /\ batch'[p] = <<>> <=> Len(batch[p]) = 1
        /\ pc' = [pc EXCEPT ![p] = IF batch'[p] # <<>> THEN "take"
                                   ELSE IF p \in Consumers THEN "poll" ELSE "stopped"]
        /\ pc[p] \in {"take", "return", "delete"}
    BY PassingLeavesRest
  <2>2. pc' \in [Procs -> Phases]
    BY <2>1 DEF TypeOK, ProcsTyped, Phases
  <2>3. \A q \in Procs : batch'[q] = <<>> <=> pc'[q] \in {"poll", "stopped"}
    BY <2>1 DEF TypeOK, ProcsTyped
  <2>4. \A q \in Singles : batch'[q] = <<>> \/ Len(batch'[q]) = 1
    BY <2>1 DEF TypeOK, ProcsTyped, Procs
  <2> QED BY <2>1, <2>2, <2>3, <2>4 DEF ProcsTyped
<1> QED BY <1>1, <1>3, <1>5, <1>6 DEF TypeOK, CountsTyped

(* receives messages, *)
LEMMA TypeFilling ==
  ASSUME TypeOK, NEW p \in Procs, Filling(p)
  PROVE  TypeOK'
<1>1. PICK s \in Batches :
        /\ Receive(p, s)
        /\ \/ /\ batch' = [batch EXCEPT ![p] = s] /\ pc' = [pc EXCEPT ![p] = "take"]
              /\ p \in Singles => Len(s) = 1
           \/ UNCHANGED <<batch, pc>>
  BY QueueAssumption DEF Filling, ReadMessages, ReadOne, Goto
<1>2. s \in Seq(Msgs) /\ s # <<>>
  BY <1>1, BatchesAreSequences
<1>3. UNCHANGED <<row, cancelled, times, faults>>
  BY DEF Filling, ReadMessages, ReadOne, counts
<1>4. calls' = calls \/ (calls < MaxCalls /\ calls' = calls + 1)
  BY DEF Filling, ReadMessages, ReadOne, counts
<1>5. calls' \in 0..MaxCalls
  BY <1>4, CountUp, QueueAssumption DEF TypeOK, CountsTyped
<1>6. QueueTyped'
  BY <1>1, <1>3, QueueAssumption DEF TypeOK, QueueTyped, Places, Receive
<1>7. CASE UNCHANGED <<batch, pc>>
  BY <1>3, <1>5, <1>6, <1>7 DEF TypeOK, ProcsTyped, CountsTyped
<1>8. CASE /\ batch' = [batch EXCEPT ![p] = s] /\ pc' = [pc EXCEPT ![p] = "take"]
           /\ p \in Singles => Len(s) = 1
  <2>1. /\ batch'[p] = s /\ pc'[p] = "take"
        /\ \A q \in Procs \ {p} : batch'[q] = batch[q] /\ pc'[q] = pc[q]
    BY <1>8 DEF TypeOK, ProcsTyped
  <2>2. batch' \in [Procs -> Seq(Msgs)] /\ pc' \in [Procs -> Phases]
    BY <1>2, <1>8 DEF TypeOK, ProcsTyped, Phases
  <2>3. \A q \in Procs : batch'[q] = <<>> <=> pc'[q] \in {"poll", "stopped"}
    BY <1>2, <2>1 DEF TypeOK, ProcsTyped
  <2>4. \A q \in Singles : batch'[q] = <<>> \/ Len(batch'[q]) = 1
    BY <1>8, <2>1 DEF TypeOK, ProcsTyped, Procs
  <2> QED BY <1>3, <1>5, <1>6, <2>2, <2>3, <2>4 DEF TypeOK, ProcsTyped, CountsTyped
<1> QED BY <1>1, <1>7, <1>8

(* or dies. *)
LEMMA TypeKill ==
  ASSUME TypeOK, NEW p \in Procs, Kill(p)
  PROVE  TypeOK'
<1>1. <<>> \in Seq(Msgs)
  BY EmptySeq
<1>2. batch' \in [Procs -> Seq(Msgs)] /\ pc' \in [Procs -> Phases]
  BY <1>1 DEF Kill, Goto, TypeOK, ProcsTyped, Phases
<1>3. /\ p \notin Singles /\ batch'[p] = <<>> /\ pc'[p] = "poll"
      /\ \A q \in Procs \ {p} : batch'[q] = batch[q] /\ pc'[q] = pc[q]
  BY QueueAssumption DEF Kill, Goto, TypeOK, ProcsTyped
<1>4. ProcsTyped'
  BY <1>2, <1>3 DEF TypeOK, ProcsTyped, Procs
<1>5. QueueTyped'
  BY DEF Kill, TypeOK, QueueTyped, queue
<1>6. faults' \in 0..MaxFaults
  BY CountUp, QueueAssumption DEF Kill, Fault, TypeOK, CountsTyped
<1> QED BY <1>4, <1>5, <1>6 DEF Kill, TypeOK, CountsTyped

LEMMA TypeStep == TypeOK /\ [Next]_vars => TypeOK'
<1> SUFFICES ASSUME TypeOK, [Next]_vars PROVE TypeOK'
  OBVIOUS
<1>1. CASE UNCHANGED vars
  BY <1>1 DEF TypeOK, QueueTyped, ProcsTyped, CountsTyped, vars, queue, proc, counts
<1> QED BY <1>1, NextCases, TypeOutside, TypeKeeping, TypePassing, TypeFilling, TypeKill

(* The types of the queue, the processes and the counters.                 *)
THEOREM QueueTypes == Spec => []TypeOK
BY TypeInit, TypeStep, PTL DEF Spec

-----------------------------------------------------------------------------
(* The promise of the queue. *)

(* A product whose transaction has done nothing yet has sent no message. *)
Unsent == \A m \in Msgs : row[m] = "open" => place[m] = "none"

(* What a process has in its batch was sent. *)
BatchesSent == \A p \in Procs : \A i \in DOMAIN batch[p] : place[batch[p][i]] # "none"

(* What is about to be deleted was handled. *)
DeletesHandled == \A p \in Procs : pc[p] = "delete" => times[Current(p)] > 0

(* A message that was handled was sent, and one that is gone was handled. *)
HandledBetween ==
  \A m \in Msgs : (place[m] = "none" => times[m] = 0) /\ (place[m] = "gone" => times[m] > 0)

PromiseInv == TypeOK /\ Unsent /\ BatchesSent /\ DeletesHandled /\ HandledBetween

(* Times only grow, and no message comes back from where it is not sent. *)
LEMMA Monotone ==
  ASSUME TypeOK, [Next]_vars, NEW m \in Msgs
  PROVE  /\ times[m] \in Nat /\ times'[m] \in Nat /\ times'[m] >= times[m]
         /\ place[m] # "none" => place'[m] # "none"
<1>1. times[m] \in Nat /\ times'[m] \in Nat
  BY TypeStep DEF TypeOK, CountsTyped
<1>2. times'[m] >= times[m]
  <2>1. CASE \E p \in Procs : Handle(p)
    <3>1. PICK p \in Procs : Handle(p) BY <2>1
    <3>2. Current(p) \in Msgs BY <3>1, CurrentIsFirst DEF Handle
    <3>3. times'[m] = times[m] \/ times'[m] = times[m] + 1
      BY <3>1, <3>2 DEF Handle, TypeOK, CountsTyped
    <3> QED BY <1>1, <3>3
  <2>2. CASE ~ \E p \in Procs : Handle(p)
    <3>1. times' = times
      BY <2>2 DEF Next, Work, SendMessage, Commit, Rollback, Appear, Expire, ExpireEarly, Stop, Skip,
                  HandleFails, MakeMessageVisible, DeleteMessage, CallFails, GiveUp, ReadMessages,
                  ReadOne, Cancel, Kill, vars
    <3> QED BY <1>1, <3>1
  <2> QED BY <2>1, <2>2
<1>3. place[m] # "none" => place'[m] # "none"
  <2>1. CASE UNCHANGED vars
    BY <2>1 DEF vars, queue
  <2>2. CASE \E n \in Msgs : Outside(n)
    <3>1. PICK n \in Msgs : Outside(n) BY <2>2
    <3>2. place' = place \/ \E to \in Places \ {"none"} : place' = [place EXCEPT ![n] = to]
      BY <3>1 DEF Outside, SendMessage, Commit, Rollback, Appear, Expire, ExpireEarly, Move, queue, Places
    <3> QED BY <3>2 DEF TypeOK, QueueTyped
  <2>3. CASE \E p \in Procs : Keeping(p) \/ Kill(p)
    BY <2>3 DEF Keeping, Stop, Handle, HandleFails, Cancel, Kill, queue
  <2>4. CASE \E p \in Procs : Passing(p)
    <3>1. PICK p \in Procs : Passing(p) BY <2>4
    <3>2. place' = place \/ \E to \in Places \ {"none"} : place' = [place EXCEPT ![Current(p)] = to]
      BY <3>1 DEF Passing, Skip, MakeMessageVisible, ChangeMessageVisibility, DeleteMessage,
                  DeleteFromQueue, CallFails, GiveUp, Move, queue, Places
    <3> QED BY <3>2 DEF TypeOK, QueueTyped
  <2>5. CASE \E p \in Procs : Filling(p)
    <3>1. PICK s \in Batches : place' = [n \in Msgs |-> IF n \in ToSet(s) THEN "in flight" ELSE place[n]]
      BY <2>5 DEF Filling, ReadMessages, ReadOne, Receive
    <3> QED BY <3>1
  <2> QED BY <2>1, <2>2, <2>3, <2>4, <2>5, NextCases
<1> QED BY <1>1, <1>2, <1>3

LEMMA PromiseInit == Init => PromiseInv
<1> SUFFICES ASSUME Init PROVE PromiseInv
  OBVIOUS
<1>1. BatchesSent BY DEF Init, BatchesSent
<1>2. Unsent /\ DeletesHandled /\ HandledBetween
  BY DEF Init, Unsent, DeletesHandled, HandledBetween
<1> QED BY <1>1, <1>2, TypeInit DEF PromiseInv

LEMMA UnsentStep ==
  ASSUME PromiseInv, [Next]_vars
  PROVE  Unsent'
<1> USE DEF PromiseInv
<1> SUFFICES ASSUME NEW m \in Msgs, row'[m] = "open" PROVE place'[m] = "none"
  BY DEF Unsent
<1>1. CASE UNCHANGED vars
  BY <1>1 DEF vars, queue, Unsent
<1>2. CASE \E n \in Msgs : Outside(n)
  <2>1. PICK n \in Msgs : Outside(n) BY <1>2
  <2>2. row[m] = "open"
    BY <2>1 DEF Outside, SendMessage, Commit, Rollback, Appear, Expire, ExpireEarly, TypeOK, QueueTyped
  <2>3. place[m] = "none" BY <2>2 DEF Unsent
  <2>4. CASE n = m
    BY <2>1, <2>3, <2>4 DEF Outside, SendMessage, Commit, Rollback, Appear, Expire, ExpireEarly,
                            TypeOK, QueueTyped, queue
  <2>5. CASE n # m
    BY <2>1, <2>3, <2>5 DEF Outside, SendMessage, Commit, Rollback, Appear, Expire, ExpireEarly,
                            Move, TypeOK, QueueTyped, queue
  <2> QED BY <2>4, <2>5
<1>3. CASE \E p \in Procs : Keeping(p) \/ Kill(p)
  BY <1>3 DEF Keeping, Stop, Handle, HandleFails, Cancel, Kill, queue, Unsent
<1>4. CASE \E p \in Procs : Passing(p)
  <2>1. PICK p \in Procs : Passing(p) BY <1>4
  <2>2. UNCHANGED row
    BY <2>1 DEF Passing, Skip, MakeMessageVisible, DeleteMessage, CallFails, GiveUp
  <2>3. place[m] = "none" BY <2>2 DEF Unsent
  <2>4. Current(p) # m
    <3>1. 1 \in DOMAIN batch[p] /\ batch[p][1] = Current(p)
      BY <2>1, PassingLeavesRest, CurrentIsFirst
    <3>2. place[Current(p)] # "none"
      BY <3>1 DEF BatchesSent
    <3> QED BY <2>3, <3>2
  <2>5. UNCHANGED queue \/ \E to \in {"delayed", "gone"} : Move(Current(p), to)
    BY <2>1 DEF Passing, Skip, MakeMessageVisible, ChangeMessageVisibility, DeleteMessage,
                DeleteFromQueue, CallFails, GiveUp
  <2> QED BY <2>3, <2>4, <2>5 DEF Move, queue, TypeOK, QueueTyped
<1>5. CASE \E p \in Procs : Filling(p)
  <2>1. PICK s \in Batches : place' = [n \in Msgs |-> IF n \in ToSet(s) THEN "in flight" ELSE place[n]]
    BY <1>5 DEF Filling, ReadMessages, ReadOne, Receive
  <2>2. UNCHANGED row BY <1>5 DEF Filling, ReadMessages, ReadOne
  <2>3. place[m] = "none" BY <2>2 DEF Unsent
  <2>4. m \notin ToSet(s) BY <2>3, BatchesAreSequences DEF Visible
  <2> QED BY <2>1, <2>3, <2>4
<1> QED BY <1>1, <1>2, <1>3, <1>4, <1>5, NextCases

LEMMA BatchesSentStep ==
  ASSUME PromiseInv, [Next]_vars
  PROVE  BatchesSent'
<1> USE DEF PromiseInv
<1> SUFFICES ASSUME NEW q \in Procs, NEW i \in DOMAIN batch'[q] PROVE place'[batch'[q][i]] # "none"
  BY DEF BatchesSent
<1>1. CASE UNCHANGED batch
  <2>1. batch[q][i] \in Msgs /\ place[batch[q][i]] # "none"
    BY <1>1 DEF TypeOK, ProcsTyped, BatchesSent
  <2> QED BY <1>1, <2>1, Monotone
<1>2. CASE \E p \in Procs : Passing(p)
  <2>1. PICK p \in Procs : Passing(p) BY <1>2
  <2>2. PICK j \in DOMAIN batch[q] : batch'[q][i] = batch[q][j]
    BY <2>1, PassingLeavesRest
  <2>3. batch[q][j] \in Msgs /\ place[batch[q][j]] # "none"
    BY DEF TypeOK, ProcsTyped, BatchesSent
  <2> QED BY <2>2, <2>3, Monotone
<1>3. CASE \E p \in Procs : Filling(p)
  <2>1. PICK p \in Procs, s \in Batches :
          /\ place' = [n \in Msgs |-> IF n \in ToSet(s) THEN "in flight" ELSE place[n]]
          /\ batch' = batch \/ batch' = [batch EXCEPT ![p] = s]
    BY <1>3 DEF Filling, ReadMessages, ReadOne, Receive
  <2>2. CASE batch' = [batch EXCEPT ![p] = s] /\ q = p
    <3>1. batch'[q] = s BY <2>2 DEF TypeOK, ProcsTyped
    <3>2. s[i] \in ToSet(s) /\ s[i] \in Msgs BY <3>1, BatchesAreSequences
    <3>3. place'[s[i]] = "in flight" BY <2>1, <3>2
    <3> QED BY <3>1, <3>3
  <2>3. CASE batch'[q] = batch[q]
    <3>1. batch[q][i] \in Msgs /\ place[batch[q][i]] # "none"
      BY <2>3 DEF TypeOK, ProcsTyped, BatchesSent
    <3> QED BY <2>3, <3>1, Monotone
  <2> QED BY <2>1, <2>2, <2>3 DEF TypeOK, ProcsTyped
<1>4. CASE \E p \in Procs : Kill(p)
  <2>1. PICK p \in Procs : Kill(p) BY <1>4
  <2>2. q # p BY <2>1 DEF Kill, TypeOK, ProcsTyped
  <2>3. batch'[q] = batch[q] BY <2>1, <2>2 DEF Kill, TypeOK, ProcsTyped
  <2>4. batch[q][i] \in Msgs /\ place[batch[q][i]] # "none"
    BY <2>3 DEF TypeOK, ProcsTyped, BatchesSent
  <2> QED BY <2>3, <2>4, Monotone
<1>5. CASE UNCHANGED vars \/ (\E m \in Msgs : Outside(m)) \/ (\E p \in Procs : Keeping(p))
  <2>1. UNCHANGED batch
    BY <1>5 DEF Outside, SendMessage, Commit, Rollback, Appear, Expire, ExpireEarly,
                Keeping, Stop, Handle, HandleFails, Cancel, vars, proc
  <2> QED BY <1>1, <2>1
<1> QED BY <1>2, <1>3, <1>4, <1>5, NextCases

LEMMA DeletesHandledStep ==
  ASSUME PromiseInv, [Next]_vars
  PROVE  DeletesHandled'
<1> USE DEF PromiseInv
<1> SUFFICES ASSUME NEW q \in Procs, pc'[q] = "delete" PROVE times'[Current(q)'] > 0
  BY DEF DeletesHandled
<1>1. CASE Handle(q)
  <2>1. Current(q) \in Msgs /\ Current(q)' = Current(q)
    BY <1>1, CurrentIsFirst DEF Handle, Current
  <2>2. times'[Current(q)] = times[Current(q)] + 1 /\ times[Current(q)] \in Nat
    BY <1>1, <2>1 DEF Handle, TypeOK, CountsTyped
  <2> QED BY <2>1, <2>2
<1>2. CASE ~Handle(q)
  <2>1. pc[q] = "delete" /\ batch'[q] = batch[q]
    <3>1. CASE \E p \in Procs : Passing(p)
      <4>1. PICK p \in Procs : Passing(p) BY <3>1
      <4> QED BY <4>1, PassingLeavesRest DEF TypeOK, ProcsTyped
    <3>2. CASE \E p \in Procs : Keeping(p)
      BY <1>2, <3>2 DEF Keeping, Stop, Handle, HandleFails, Cancel, Goto, proc, TypeOK, ProcsTyped
    <3>3. CASE \E p \in Procs : Filling(p) \/ Kill(p)
      BY <3>3 DEF Filling, ReadMessages, ReadOne, Kill, Goto, TypeOK, ProcsTyped
    <3>4. CASE UNCHANGED vars \/ \E m \in Msgs : Outside(m)
      BY <3>4 DEF Outside, SendMessage, Commit, Rollback, Appear, Expire, ExpireEarly, vars, proc
    <3> QED BY <3>1, <3>2, <3>3, <3>4, NextCases
  <2>2. Current(q)' = Current(q) /\ Current(q) \in Msgs /\ times[Current(q)] > 0
    BY <2>1, CurrentIsFirst DEF DeletesHandled, Current
  <2>3. times[Current(q)] \in Nat /\ times'[Current(q)] \in Nat /\ times'[Current(q)] >= times[Current(q)]
    BY <2>2, Monotone
  <2> QED BY <2>2, <2>3
<1> QED BY <1>1, <1>2

LEMMA HandledBetweenStep ==
  ASSUME PromiseInv, [Next]_vars
  PROVE  HandledBetween'
<1> USE DEF PromiseInv
<1> SUFFICES ASSUME NEW m \in Msgs
             PROVE  /\ place'[m] = "none" => times'[m] = 0
                    /\ place'[m] = "gone" => times'[m] > 0
  BY DEF HandledBetween
<1>1. place'[m] = "none" => times'[m] = 0
  <2> SUFFICES ASSUME place'[m] = "none" PROVE times'[m] = 0
    OBVIOUS
  <2>1. place[m] = "none" /\ times[m] = 0
    BY Monotone DEF HandledBetween
  <2>2. CASE \E p \in Procs : Handle(p)
    <3>1. PICK p \in Procs : Handle(p) BY <2>2
    <3>2. Current(p) # m
      BY <2>1, <3>1, CurrentIsFirst DEF Handle, BatchesSent
    <3> QED BY <2>1, <3>1, <3>2 DEF Handle, TypeOK, CountsTyped
  <2>3. CASE ~ \E p \in Procs : Handle(p)
    <3>1. times' = times
      BY <2>3 DEF Next, Work, SendMessage, Commit, Rollback, Appear, Expire, ExpireEarly, Stop, Skip,
                  HandleFails, MakeMessageVisible, DeleteMessage, CallFails, GiveUp, ReadMessages,
                  ReadOne, Cancel, Kill, vars
    <3> QED BY <2>1, <3>1
  <2> QED BY <2>2, <2>3
<1>2. place'[m] = "gone" => times'[m] > 0
  <2> SUFFICES ASSUME place'[m] = "gone" PROVE times'[m] > 0
    OBVIOUS
  <2>1. times[m] > 0
    <3>1. CASE place[m] = "gone" BY <3>1 DEF HandledBetween
    <3>2. CASE place[m] # "gone"
      <4>1. PICK p \in Procs : Passing(p)
        <5>1. ~ UNCHANGED place BY <3>2
        <5>2. ~ UNCHANGED vars BY <5>1 DEF vars, queue
        <5>3. \A p \in Procs : ~Keeping(p) /\ ~Kill(p)
          BY <5>1 DEF Keeping, Stop, Handle, HandleFails, Cancel, Kill, queue
        <5>4. \A n \in Msgs : ~Outside(n)
          BY <3>2, <5>1 DEF Outside, SendMessage, Commit, Rollback, Appear, Expire, ExpireEarly,
                            Move, queue, TypeOK, QueueTyped
        <5>5. \A q \in Procs : ~Filling(q)
          BY <3>2 DEF Filling, ReadMessages, ReadOne, Receive
        <5> QED BY <5>2, <5>3, <5>4, <5>5, NextCases
      <4>2. pc[p] = "delete" /\ Current(p) = m
        BY <3>2, <4>1 DEF Passing, Skip, MakeMessageVisible, ChangeMessageVisibility, DeleteMessage,
                DeleteFromQueue, CallFails, GiveUp, Move, queue, TypeOK, QueueTyped
      <4> QED BY <4>2 DEF DeletesHandled
    <3> QED BY <3>1, <3>2
  <2>2. times[m] \in Nat /\ times'[m] \in Nat /\ times'[m] >= times[m]
    BY Monotone
  <2> QED BY <2>1, <2>2
<1> QED BY <1>1, <1>2

LEMMA PromiseStep == PromiseInv /\ [Next]_vars => PromiseInv'
BY TypeStep, UnsentStep, BatchesSentStep, DeletesHandledStep, HandledBetweenStep DEF PromiseInv

LEMMA PromiseHolds == Spec => []PromiseInv
BY PromiseInit, PromiseStep, PTL DEF Spec

Waiting == {m \in Msgs : place[m] \notin {"none", "gone"}}
Handled == {m \in Msgs : times[m] > 0}

(* Every step is one of WorkQueue, or none. *)
LEMMA StepIsWork ==
  ASSUME PromiseInv, [Next]_vars
  PROVE  [Promise!Next]_<<Waiting, Handled>>
<1> USE DEF PromiseInv
<1>1. \A m \in Msgs : m \in Handled => m \in Handled'
  BY Monotone DEF Handled
<1>2. CASE UNCHANGED vars
  BY <1>2 DEF vars, queue, Waiting, Handled
<1>3. CASE \E m \in Msgs : Outside(m)
  <2>1. PICK m \in Msgs : Outside(m) BY <1>3
  <2>2. UNCHANGED Handled
    BY <2>1 DEF Outside, SendMessage, Commit, Rollback, Appear, Expire, ExpireEarly, Handled
  <2>3. CASE SendMessage(m)
    <3>1. m \notin Waiting \cup Handled
      BY <2>3 DEF SendMessage, Unsent, HandledBetween, Waiting, Handled
    <3>2. Waiting' = Waiting \cup {m}
      BY <2>3 DEF SendMessage, Move, Waiting, TypeOK, QueueTyped
    <3> QED BY <2>2, <3>1, <3>2 DEF Promise!Next, Promise!Send, Waiting, Handled
  <2>4. CASE ~SendMessage(m)
    <3>1. Waiting' = Waiting
      BY <2>1, <2>4 DEF Outside, Commit, Rollback, Appear, Expire, ExpireEarly, Move, queue, Waiting,
                        TypeOK, QueueTyped
    <3> QED BY <2>2, <3>1
  <2> QED BY <2>3, <2>4
<1>4. CASE \E p \in Procs : Keeping(p) \/ Kill(p)
  <2>1. PICK p \in Procs : Keeping(p) \/ Kill(p) BY <1>4
  <2>2. UNCHANGED Waiting
    BY <2>1 DEF Keeping, Stop, Handle, HandleFails, Cancel, Kill, queue, Waiting
  <2>3. CASE Handle(p)
    <3>1. Current(p) \in Msgs BY <2>3, CurrentIsFirst DEF Handle
    <3>2. times'[Current(p)] > 0 /\ \A m \in Msgs \ {Current(p)} : times'[m] = times[m]
      BY <2>3, <3>1 DEF Handle, TypeOK, CountsTyped
    <3>3. Handled' = Handled \cup {Current(p)}
      BY <1>1, <3>1, <3>2 DEF Handled
    <3>4. CASE Current(p) \in Waiting
      BY <2>2, <3>1, <3>3, <3>4 DEF Promise!Next, Promise!Work, Waiting, Handled
    <3>5. CASE Current(p) \notin Waiting
      <4>1. place[Current(p)] = "gone"
        BY <2>3, <3>1, <3>5, CurrentIsFirst DEF Handle, BatchesSent, Waiting
      <4>2. Current(p) \in Handled BY <3>1, <4>1 DEF HandledBetween, Handled
      <4> QED BY <2>2, <3>3, <4>2
    <3> QED BY <3>4, <3>5
  <2>4. CASE ~Handle(p)
    <3>1. UNCHANGED Handled
      BY <2>1, <2>4 DEF Keeping, Stop, HandleFails, Cancel, Kill, Handled
    <3> QED BY <2>2, <3>1
  <2> QED BY <2>3, <2>4
<1>5. CASE \E p \in Procs : Passing(p)
  <2>1. PICK p \in Procs : Passing(p) BY <1>5
  <2>2. UNCHANGED Handled
    BY <2>1 DEF Passing, Skip, MakeMessageVisible, DeleteMessage, CallFails, GiveUp, Handled
  <2>3. Current(p) \in Msgs /\ place[Current(p)] # "none"
    BY <2>1, PassingLeavesRest, CurrentIsFirst DEF BatchesSent
  <2>4. CASE pc[p] = "delete" /\ Current(p) \in Waiting /\ Move(Current(p), "gone")
    <3>1. Current(p) \in Handled BY <2>3, <2>4 DEF DeletesHandled, Handled
    <3>2. Waiting' = Waiting \ {Current(p)}
      BY <2>3, <2>4 DEF Move, Waiting, TypeOK, QueueTyped
    <3> QED BY <2>2, <2>3, <2>4, <3>1, <3>2 DEF Promise!Next, Promise!Remove, Waiting, Handled
  <2>5. CASE place[Current(p)] = "in flight" /\ Move(Current(p), "delayed")
    <3>1. Waiting' = Waiting
      BY <2>3, <2>5 DEF Move, Waiting, TypeOK, QueueTyped
    <3> QED BY <2>2, <3>1
  <2>6. CASE UNCHANGED queue
    BY <2>2, <2>6 DEF queue, Waiting
  <2> QED BY <2>1, <2>3, <2>4, <2>5, <2>6
          DEF Passing, Skip, MakeMessageVisible, ChangeMessageVisibility, DeleteMessage,
              DeleteFromQueue, CallFails, GiveUp, Holds, Stale, Waiting
<1>6. CASE \E p \in Procs : Filling(p)
  <2>1. PICK s \in Batches : place' = [n \in Msgs |-> IF n \in ToSet(s) THEN "in flight" ELSE place[n]]
    BY <1>6 DEF Filling, ReadMessages, ReadOne, Receive
  <2>2. \A n \in ToSet(s) : n \in Msgs /\ place[n] = "visible"
    BY BatchesAreSequences DEF Visible
  <2>3. Waiting' = Waiting
    BY <2>1, <2>2 DEF Waiting
  <2>4. UNCHANGED Handled
    BY <1>6 DEF Filling, ReadMessages, ReadOne, Handled
  <2> QED BY <2>3, <2>4
<1> QED BY <1>2, <1>3, <1>4, <1>5, <1>6, NextCases

(* Whatever times out, is killed or fails, and whichever receipt handle is *)
(* used: a message leaves the queue only after it was handled.  For any    *)
(* number of messages, consumers, single readers and failures.             *)
THEOREM QueueIsImplemented == Spec => ImplementsWorkQueue
<1>1. Init => Promise!Init
  BY DEF Init, Promise!Init
<1>2. PromiseInv /\ [Next]_vars =>
        [Promise!Next]_<<{m \in Msgs : place[m] \notin {"none", "gone"}}, {m \in Msgs : times[m] > 0}>>
  BY StepIsWork DEF Waiting, Handled
<1> QED BY <1>1, <1>2, PromiseHolds, PTL DEF Spec, Promise!Spec, ImplementsWorkQueue

-----------------------------------------------------------------------------
(* What holds while nothing goes wrong.  Whoever has a message in its      *)
(* batch has the newest handle of it, and no message twice;                *)
InHand ==
  \A p \in Procs : \A i \in DOMAIN batch[p] :
    place[batch[p][i]] = "in flight" /\ receiver[batch[p][i]] = p
Apart == \A p \in Procs : \A i, j \in DOMAIN batch[p] : batch[p][i] = batch[p][j] => i = j

(* a message that was handled is gone, or about to be deleted;             *)
Deleting(m) == \E p \in Procs : pc[p] = "delete" /\ Current(p) = m
HandledOnce ==
  \A m \in Msgs : times[m] = 0 \/ (times[m] = 1 /\ (place[m] = "gone" \/ Deleting(m)))

(* and a consumer has no handle but of the messages in its batch.          *)
Kept ==
  \A p \in Consumers : \A m \in Msgs :
    receiver[m] = p => \E i \in DOMAIN batch[p] : batch[p][i] = m

Held    == InHand /\ Apart /\ HandledOnce /\ Kept
HeldInv == faults = 0 => Held

LEMMA HeldInit == Init => HeldInv
<1> SUFFICES ASSUME Init PROVE Held
  BY DEF HeldInv
<1>1. \A p \in Procs : DOMAIN batch[p] = {}
  BY DEF Init
<1>2. \A p \in Consumers, m \in Msgs : receiver[m] # p
  BY QueueAssumption DEF Init, Procs
<1>3. HandledOnce
  BY DEF Init, HandledOnce
<1>4. InHand /\ Apart
  BY <1>1 DEF InHand, Apart
<1>5. Kept
  BY <1>2 DEF Kept
<1> QED BY <1>3, <1>4, <1>5 DEF Held

LEMMA NoFaultBefore ==
  ASSUME TypeOK, [Next]_vars, faults' = 0
  PROVE  faults = 0
<1>1. faults \in Nat
  BY QueueAssumption DEF TypeOK, CountsTyped
<1>2. faults' = faults \/ faults' = faults + 1
  BY DEF Next, Work, SendMessage, Commit, Rollback, Appear, Expire, ExpireEarly, Stop, Skip, Handle,
         HandleFails, MakeMessageVisible, DeleteMessage, CallFails, GiveUp, ReadMessages, ReadOne,
         Cancel, Kill, vars, counts, Fault
<1> QED BY <1>1, <1>2

LEMMA BatchTyped ==
  ASSUME TypeOK, NEW p \in Procs, NEW i \in DOMAIN batch[p]
  PROVE  batch[p][i] \in Msgs
<1>1. batch[p] \in Seq(Msgs)
  BY DEF TypeOK, ProcsTyped
<1> QED BY <1>1

(* Steps that leave the messages and the batches where they are. *)
LEMMA HeldUnchanged ==
  ASSUME Held, UNCHANGED <<place, receiver, batch, times>>,
         \A p \in Procs : pc[p] = "delete" => pc'[p] = "delete"
  PROVE  Held'
<1>1. InHand'
  <2> SUFFICES ASSUME NEW p \in Procs, NEW i \in DOMAIN batch'[p]
               PROVE  place'[batch'[p][i]] = "in flight" /\ receiver'[batch'[p][i]] = p
    BY DEF InHand
  <2>1. i \in DOMAIN batch[p] /\ batch'[p][i] = batch[p][i]
    OBVIOUS
  <2>2. place[batch[p][i]] = "in flight" /\ receiver[batch[p][i]] = p
    BY <2>1 DEF Held, InHand
  <2> QED BY <2>1, <2>2
<1>2. Apart'
  BY DEF Held, Apart
<1>3. Kept'
  BY DEF Held, Kept
<1>4. \A p \in Procs : Current(p)' = Current(p)
  BY DEF Current
<1>5. HandledOnce'
  BY <1>4 DEF Held, HandledOnce, Deleting
<1> QED BY <1>1, <1>2, <1>3, <1>5 DEF Held

(* A message nobody has in its batch moves on in the queue. *)
LEMMA HeldMove ==
  ASSUME TypeOK, Held, NEW m \in Msgs, NEW to \in Places, Move(m, to),
         UNCHANGED <<pc, batch, times>>, place[m] \notin {"in flight", "gone"} \/ ~Working(m),
         place[m] # "gone"
  PROVE  Held'
<1>1. /\ place'[m] = to /\ receiver'[m] = Nobody
      /\ \A n \in Msgs \ {m} : place'[n] = place[n] /\ receiver'[n] = receiver[n]
  BY DEF Move, TypeOK, QueueTyped
<1>2. \A p \in Procs : \A i \in DOMAIN batch[p] : batch[p][i] \in Msgs
  BY BatchTyped
<1>3. \A p \in Procs : \A i \in DOMAIN batch[p] : batch[p][i] # m
  <2> SUFFICES ASSUME NEW p \in Procs, NEW i \in DOMAIN batch[p], batch[p][i] = m PROVE FALSE
    OBVIOUS
  <2>1. place[m] = "in flight" /\ receiver[m] = p
    BY DEF Held, InHand
  <2> QED BY <2>1 DEF Working
<1>4. InHand'
  <2> SUFFICES ASSUME NEW p \in Procs, NEW i \in DOMAIN batch'[p]
               PROVE  place'[batch'[p][i]] = "in flight" /\ receiver'[batch'[p][i]] = p
    BY DEF InHand
  <2>0. batch' = batch /\ i \in DOMAIN batch[p]
    OBVIOUS
  <2>1. batch[p][i] \in Msgs \ {m}
    BY <1>2, <1>3, <2>0
  <2>2. place[batch[p][i]] = "in flight" /\ receiver[batch[p][i]] = p
    BY <2>0 DEF Held, InHand
  <2> QED BY <1>1, <2>0, <2>1, <2>2
<1>5. Apart'
  BY DEF Held, Apart
<1>6. Kept'
  <2> SUFFICES ASSUME NEW p \in Consumers, NEW n \in Msgs, receiver'[n] = p
               PROVE  \E i \in DOMAIN batch[p] : batch[p][i] = n
    BY DEF Kept
  <2>1. n # m
    BY <1>1, QueueAssumption DEF Procs
  <2>2. receiver[n] = p
    BY <1>1, <2>1
  <2> QED BY <2>2 DEF Held, Kept
<1>7. HandledOnce'
  <2> SUFFICES ASSUME NEW n \in Msgs, times[n] # 0
               PROVE  times[n] = 1 /\ (place'[n] = "gone" \/ Deleting(n)')
    BY DEF HandledOnce
  <2>1. times[n] = 1 /\ (place[n] = "gone" \/ Deleting(n))
    BY DEF Held, HandledOnce
  <2>2. Deleting(n)' <=> Deleting(n)
    BY DEF Deleting, Current
  <2>3. n # m \/ Deleting(n)
    BY <2>1
  <2> QED BY <1>1, <2>1, <2>2, <2>3
<1> QED BY <1>4, <1>5, <1>6, <1>7 DEF Held

(* What a process is at is in its hand, and in nobody else's. *)
LEMMA CurrentInHand ==
  ASSUME TypeOK, Held, NEW p \in Procs, pc[p] \notin {"poll", "stopped"}
  PROVE  /\ place[Current(p)] = "in flight" /\ receiver[Current(p)] = p
         /\ \A q \in Procs : \A i \in DOMAIN batch[q] : batch[q][i] = Current(p) => q = p /\ i = 1
<1>1. Current(p) = batch[p][1] /\ 1 \in DOMAIN batch[p]
  BY CurrentIsFirst
<1>2. place[batch[p][1]] = "in flight" /\ receiver[batch[p][1]] = p
  BY <1>1 DEF Held, InHand
<1>3. ASSUME NEW q \in Procs, NEW i \in DOMAIN batch[q], batch[q][i] = Current(p)
      PROVE  q = p /\ i = 1
  <2>1. receiver[batch[q][i]] = q
    BY DEF Held, InHand
  <2>2. q = p
    BY <1>1, <1>2, <1>3, <2>1
  <2> QED BY <1>1, <1>3, <2>2 DEF Held, Apart
<1> QED BY <1>1, <1>2, <1>3

LEMMA HeldHandle ==
  ASSUME TypeOK, Held, NEW p \in Procs, Handle(p)
  PROVE  Held'
<1>1. /\ Current(p) \in Msgs
      /\ pc[p] = "take" /\ UNCHANGED <<place, receiver, batch>>
  BY CurrentIsFirst DEF Handle, queue
<1>2. /\ times'[Current(p)] = times[Current(p)] + 1
      /\ \A n \in Msgs \ {Current(p)} : times'[n] = times[n]
      /\ pc'[p] = "delete" /\ \A q \in Procs \ {p} : pc'[q] = pc[q]
  BY <1>1 DEF Handle, Goto, TypeOK, ProcsTyped, CountsTyped
<1>3. \A q \in Procs : Current(q)' = Current(q)
  BY <1>1 DEF Current
<1>4. times[Current(p)] = 0
  <2> SUFFICES ASSUME times[Current(p)] # 0 PROVE FALSE
    OBVIOUS
  <2>1. place[Current(p)] = "in flight" /\ receiver[Current(p)] = p
    BY <1>1, CurrentInHand
  <2>2. PICK q \in Procs : pc[q] = "delete" /\ Current(q) = Current(p)
    BY <1>1, <2>1 DEF Held, HandledOnce, Deleting
  <2>3. receiver[Current(q)] = q
    BY <2>2, CurrentInHand
  <2> QED BY <1>1, <2>1, <2>2, <2>3
<1>5. HandledOnce'
  <2> SUFFICES ASSUME NEW n \in Msgs, times'[n] # 0
               PROVE  times'[n] = 1 /\ (place'[n] = "gone" \/ Deleting(n)')
    BY DEF HandledOnce
  <2>1. CASE n = Current(p)
    <3>1. times'[n] = 1
      BY <1>2, <1>4, <2>1
    <3>2. Deleting(n)'
      BY <1>2, <1>3, <2>1 DEF Deleting
    <3> QED BY <3>1, <3>2
  <2>2. CASE n # Current(p)
    <3>1. times[n] = 1 /\ times'[n] = 1 /\ (place[n] = "gone" \/ Deleting(n))
      BY <1>2, <2>2 DEF Held, HandledOnce
    <3>2. Deleting(n) => Deleting(n)'
      BY <1>1, <1>2, <1>3 DEF Deleting
    <3> QED BY <1>1, <3>1, <3>2
  <2> QED BY <2>1, <2>2
<1>6. InHand'
  BY <1>1 DEF Held, InHand
<1>7. Apart'
  BY <1>1 DEF Held, Apart
<1>8. Kept'
  BY <1>1 DEF Held, Kept
<1> QED BY <1>5, <1>6, <1>7, <1>8 DEF Held

(* Without a fault, going on is deleting what was handled, handing back    *)
(* what was not, or giving it up.                                          *)
LEMMA HeldPassing ==
  ASSUME TypeOK, Held, faults' = 0, faults = 0, NEW p \in Procs, Passing(p)
  PROVE  Held'
<1> DEFINE m == Current(p)
<1>1. /\ pc[p] \in {"take", "return", "delete"}
      /\ batch' \in [Procs -> Seq(Msgs)]
      /\ \A i \in DOMAIN batch'[p] : i + 1 \in DOMAIN batch[p] /\ batch'[p][i] = batch[p][i + 1]
      /\ \A q \in Procs \ {p} : batch'[q] = batch[q]
      /\ pc' = [pc EXCEPT ![p] = IF batch'[p] # <<>> THEN "take"
                                 ELSE IF p \in Consumers THEN "poll" ELSE "stopped"]
  BY PassingLeavesRest
<1>2. /\ m \in Msgs /\ m = batch[p][1] /\ DOMAIN batch[p] = 1..Len(batch[p]) /\ Len(batch[p]) \in Nat \ {0}
  BY <1>1, CurrentIsFirst
<1>3. /\ place[m] = "in flight" /\ receiver[m] = p
      /\ \A q \in Procs : \A i \in DOMAIN batch[q] : batch[q][i] = m => q = p /\ i = 1
  BY <1>1, CurrentInHand
<1>4. UNCHANGED times
  BY DEF Passing, Skip, MakeMessageVisible, DeleteMessage, CallFails, GiveUp
<1>5. \/ pc[p] = "return" /\ Move(m, "delayed")
      \/ pc[p] = "delete" /\ Move(m, "gone")
      \/ pc[p] = "take" /\ p \in Singles /\ UNCHANGED <<place, receiver>>
  <2>1. ~Skip(p) /\ ~CallFails(p)
    BY DEF Skip, CallFails, Fault
  <2>2. Holds(p, m)
    BY <1>3 DEF Holds
  <2> QED BY <2>1, <2>2 DEF Passing, MakeMessageVisible, DeleteMessage, GiveUp,
             ChangeMessageVisibility, DeleteFromQueue, queue
<1>6. /\ \A n \in Msgs \ {m} : place'[n] = place[n] /\ receiver'[n] = receiver[n]
      /\ receiver'[m] = Nobody \/ (p \in Singles /\ receiver'[m] = receiver[m])
      /\ pc[p] = "delete" => place'[m] = "gone"
  <2>1. ASSUME NEW to, Move(m, to)
        PROVE  /\ \A n \in Msgs \ {m} : place'[n] = place[n] /\ receiver'[n] = receiver[n]
               /\ receiver'[m] = Nobody /\ place'[m] = to
    BY <1>2, <2>1 DEF Move, TypeOK, QueueTyped
  <2> QED BY <1>5, <2>1
<1>7. \A q \in Procs : \A i \in DOMAIN batch'[q] :
        \E j \in DOMAIN batch[q] : batch'[q][i] = batch[q][j] /\ (q # p \/ j # 1)
  <2> SUFFICES ASSUME NEW q \in Procs, NEW i \in DOMAIN batch'[q]
               PROVE  \E j \in DOMAIN batch[q] : batch'[q][i] = batch[q][j] /\ (q # p \/ j # 1)
    OBVIOUS
  <2>1. CASE q # p BY <1>1, <2>1
  <2>2. CASE q = p
    <3>1. i \in Nat \ {0} BY <1>1, LenProperties
    <3>2. i + 1 # 1 BY <3>1
    <3> QED BY <1>1, <2>2, <3>2
  <2> QED BY <2>1, <2>2
<1>8. \A q \in Procs : \A i \in DOMAIN batch[q] : batch[q][i] \in Msgs
  BY BatchTyped
<1>9. InHand'
  <2> SUFFICES ASSUME NEW q \in Procs, NEW i \in DOMAIN batch'[q]
               PROVE  place'[batch'[q][i]] = "in flight" /\ receiver'[batch'[q][i]] = q
    BY DEF InHand
  <2>1. PICK j \in DOMAIN batch[q] : batch'[q][i] = batch[q][j] /\ (q # p \/ j # 1)
    BY <1>7
  <2>2. batch[q][j] \in Msgs \ {m}
    BY <1>3, <1>8, <2>1
  <2>3. place[batch[q][j]] = "in flight" /\ receiver[batch[q][j]] = q
    BY DEF Held, InHand
  <2> QED BY <1>6, <2>1, <2>2, <2>3
<1>10. Apart'
  <2> SUFFICES ASSUME NEW q \in Procs, NEW i \in DOMAIN batch'[q], NEW j \in DOMAIN batch'[q],
                      batch'[q][i] = batch'[q][j]
               PROVE  i = j
    BY DEF Apart
  <2>1. CASE q # p
    BY <1>1, <2>1 DEF Held, Apart
  <2>2. CASE q = p
    <3>1. i + 1 = j + 1
      <4>1. /\ i + 1 \in DOMAIN batch[p] /\ j + 1 \in DOMAIN batch[p]
            /\ batch[p][i + 1] = batch[p][j + 1]
        BY <1>1, <2>2
      <4> QED BY <4>1 DEF Held, Apart
    <3>2. i \in Nat /\ j \in Nat
      BY <1>1, LenProperties
    <3> QED BY <3>1, <3>2
  <2> QED BY <2>1, <2>2
<1>11. Kept'
  <2> SUFFICES ASSUME NEW q \in Consumers, NEW n \in Msgs, receiver'[n] = q
               PROVE  \E i \in DOMAIN batch'[q] : batch'[q][i] = n
    BY DEF Kept
  <2>1. q \in Procs /\ q # Nobody /\ q \notin Singles
    BY QueueAssumption DEF Procs
  <2>2. receiver[n] = q /\ (q = p => n # m)
    <3>1. n # m
      BY <1>3, <1>6, <2>1
    <3> QED BY <1>6, <3>1
  <2>3. PICK i \in DOMAIN batch[q] : batch[q][i] = n
    BY <2>2 DEF Held, Kept
  <2>4. CASE q # p
    BY <1>1, <2>1, <2>3, <2>4
  <2>5. CASE q = p
    <3>1. i # 1 /\ i \in 1..Len(batch[p])
      BY <1>2, <2>2, <2>3, <2>5
    <3>2. DOMAIN batch'[p] = 1..(Len(batch[p]) - 1)
      <4>1. batch'[p] \in Seq(Msgs) /\ Len(batch'[p]) = Len(batch[p]) - 1
        BY <1>1, PassingLeavesRest
      <4> QED BY <4>1, LenProperties
    <3>3. i - 1 \in DOMAIN batch'[p] /\ (i - 1) + 1 = i
      BY <1>2, <3>1, <3>2
    <3>4. batch'[p][i - 1] = n
      BY <1>1, <2>3, <2>5, <3>3
    <3> QED BY <2>5, <3>3, <3>4
  <2> QED BY <2>4, <2>5
<1>12. HandledOnce'
  <2> SUFFICES ASSUME NEW n \in Msgs, times[n] # 0
               PROVE  times[n] = 1 /\ (place'[n] = "gone" \/ Deleting(n)')
    BY <1>4 DEF HandledOnce
  <2>1. times[n] = 1 /\ (place[n] = "gone" \/ Deleting(n))
    BY DEF Held, HandledOnce
  <2>2. CASE place[n] = "gone"
    <3>1. n # m BY <1>3, <2>2
    <3> QED BY <1>6, <2>1, <2>2, <3>1
  <2>3. CASE place[n] # "gone"
    <3>1. PICK q \in Procs : pc[q] = "delete" /\ Current(q) = n
      BY <2>1, <2>3 DEF Deleting
    <3>2. CASE q = p
      BY <1>6, <2>1, <3>1, <3>2
    <3>3. CASE q # p
      <4>1. pc'[q] = "delete" /\ Current(q)' = n
        BY <1>1, <3>1, <3>3 DEF TypeOK, ProcsTyped, Current
      <4> QED BY <2>1, <4>1 DEF Deleting
    <3> QED BY <3>2, <3>3
  <2> QED BY <2>2, <2>3
<1> QED BY <1>9, <1>10, <1>11, <1>12 DEF Held

LEMMA HeldFilling ==
  ASSUME TypeOK, Held, NEW p \in Procs, Filling(p)
  PROVE  Held'
<1>1. PICK s \in Batches :
        /\ Receive(p, s)
        /\ \/ /\ batch' = [batch EXCEPT ![p] = s] /\ pc' = [pc EXCEPT ![p] = "take"]
           \/ UNCHANGED <<batch, pc>> /\ p \in Singles
  BY DEF Filling, ReadMessages, ReadOne, Goto
<1>2. /\ s \in Seq(Msgs) /\ ToSet(s) = {s[i] : i \in DOMAIN s}
      /\ \A i \in DOMAIN s : s[i] \in Msgs /\ place[s[i]] = "visible"
      /\ \A i, j \in DOMAIN s : s[i] = s[j] => i = j
  BY <1>1, BatchesAreSequences DEF Visible
<1>3. UNCHANGED times /\ pc[p] \in {"poll", "stopped"} /\ batch[p] = <<>>
  BY DEF Filling, ReadMessages, ReadOne, TypeOK, ProcsTyped
<1>4. /\ \A n \in Msgs : n \in ToSet(s) => place'[n] = "in flight" /\ receiver'[n] = p
      /\ \A n \in Msgs : n \notin ToSet(s) => place'[n] = place[n] /\ receiver'[n] = receiver[n]
      /\ \A n \in ToSet(s) : place[n] = "visible"
  BY <1>1, <1>2 DEF Receive
<1>5. /\ \A q \in Procs \ {p} : batch'[q] = batch[q] /\ pc'[q] = pc[q]
      /\ batch'[p] = s \/ (batch'[p] = <<>> /\ p \in Singles)
  BY <1>1, <1>3 DEF TypeOK, ProcsTyped
<1>6. InHand'
  <2> SUFFICES ASSUME NEW q \in Procs, NEW i \in DOMAIN batch'[q]
               PROVE  place'[batch'[q][i]] = "in flight" /\ receiver'[batch'[q][i]] = q
    BY DEF InHand
  <2>1. CASE q # p
    <3>1. batch'[q][i] = batch[q][i] /\ i \in DOMAIN batch[q]
      BY <1>5, <2>1
    <3>2. /\ batch[q][i] \in Msgs
          /\ place[batch[q][i]] = "in flight" /\ receiver[batch[q][i]] = q
      BY <3>1, BatchTyped DEF Held, InHand
    <3>3. batch[q][i] \notin ToSet(s)
      BY <1>4, <3>2
    <3> QED BY <1>4, <3>1, <3>2, <3>3
  <2>2. CASE q = p
    <3>1. batch'[p] = s
      BY <1>5, <2>2
    <3>2. s[i] \in ToSet(s) /\ s[i] \in Msgs
      BY <1>2, <2>2, <3>1
    <3> QED BY <1>4, <2>2, <3>1, <3>2
  <2> QED BY <2>1, <2>2
<1>7. Apart'
  <2> SUFFICES ASSUME NEW q \in Procs, NEW i \in DOMAIN batch'[q], NEW j \in DOMAIN batch'[q],
                      batch'[q][i] = batch'[q][j]
               PROVE  i = j
    BY DEF Apart
  <2>1. CASE q # p BY <1>5, <2>1 DEF Held, Apart
  <2>2. CASE q = p /\ batch'[p] = s BY <1>2, <2>2
  <2>3. CASE q = p /\ batch'[p] = <<>> BY <2>3
  <2> QED BY <1>5, <2>1, <2>2, <2>3
<1>8. Kept'
  <2> SUFFICES ASSUME NEW q \in Consumers, NEW n \in Msgs, receiver'[n] = q
               PROVE  \E i \in DOMAIN batch'[q] : batch'[q][i] = n
    BY DEF Kept
  <2>1. q \in Procs /\ q \notin Singles
    BY QueueAssumption DEF Procs
  <2>2. CASE n \in ToSet(s)
    <3>1. q = p /\ batch'[q] = s
      BY <1>4, <1>5, <2>1, <2>2
    <3> QED BY <1>2, <2>2, <3>1
  <2>3. CASE n \notin ToSet(s)
    <3>1. PICK i \in DOMAIN batch[q] : batch[q][i] = n
      BY <1>4, <2>3 DEF Held, Kept
    <3>2. q # p
      BY <1>3, <3>1
    <3> QED BY <1>5, <2>1, <3>1, <3>2
  <2> QED BY <2>2, <2>3
<1>9. HandledOnce'
  <2> SUFFICES ASSUME NEW n \in Msgs, times[n] # 0
               PROVE  times[n] = 1 /\ (place'[n] = "gone" \/ Deleting(n)')
    BY <1>3 DEF HandledOnce
  <2>1. times[n] = 1 /\ (place[n] = "gone" \/ Deleting(n))
    BY DEF Held, HandledOnce
  <2>2. CASE place[n] = "gone"
    <3>1. n \notin ToSet(s)
      BY <1>4, <2>2
    <3> QED BY <1>4, <2>1, <2>2, <3>1
  <2>3. CASE place[n] # "gone"
    <3>1. PICK q \in Procs : pc[q] = "delete" /\ Current(q) = n
      BY <2>1, <2>3 DEF Deleting
    <3>2. q # p
      BY <1>3, <3>1
    <3>3. pc'[q] = "delete" /\ Current(q)' = n
      BY <1>5, <3>1, <3>2 DEF Current
    <3> QED BY <2>1, <3>3 DEF Deleting
  <2> QED BY <2>2, <2>3
<1> QED BY <1>6, <1>7, <1>8, <1>9 DEF Held

LEMMA HeldStep ==
  ASSUME PromiseInv, HeldInv, [Next]_vars
  PROVE  HeldInv'
<1> SUFFICES ASSUME faults' = 0 PROVE Held'
  BY DEF HeldInv
<1>1. TypeOK /\ faults = 0 /\ Held
  BY NoFaultBefore DEF PromiseInv, HeldInv
<1>2. CASE UNCHANGED vars
  BY <1>1, <1>2, HeldUnchanged DEF vars, queue, proc
<1>3. CASE \E m \in Msgs : Outside(m)
  <2>1. PICK m \in Msgs : Outside(m) BY <1>3
  <2>2. ~Rollback(m) /\ ~ExpireEarly(m)
    BY <1>1 DEF Rollback, ExpireEarly, Fault
  <2>3. CASE Commit(m)
    BY <1>1, <2>3, HeldUnchanged DEF Commit, queue, proc
  <2>4. CASE SendMessage(m)
    <3>1. place[m] = "none"
      BY <2>4 DEF SendMessage, PromiseInv, Unsent
    <3> QED BY <1>1, <2>4, <3>1, HeldMove DEF SendMessage, proc, Places
  <2>5. CASE Appear(m)
    BY <1>1, <2>5, HeldMove DEF Appear, proc, Places
  <2>6. CASE Expire(m)
    BY <1>1, <2>6, HeldMove DEF Expire, proc, Places
  <2> QED BY <2>1, <2>2, <2>3, <2>4, <2>5, <2>6 DEF Outside
<1>4. CASE \E p \in Procs : Keeping(p)
  <2>1. PICK p \in Procs : Keeping(p) BY <1>4
  <2>2. CASE Handle(p)
    BY <1>1, <2>2, HeldHandle
  <2>3. CASE ~Handle(p)
    <3>1. UNCHANGED <<place, receiver, batch, times>>
      BY <2>1, <2>3 DEF Keeping, Stop, HandleFails, Cancel, queue
    <3>2. \A q \in Procs : pc[q] = "delete" => pc'[q] = "delete"
      BY <1>1, <2>1, <2>3 DEF Keeping, Stop, HandleFails, Cancel, Goto, TypeOK, ProcsTyped
    <3> QED BY <1>1, <3>1, <3>2, HeldUnchanged
  <2> QED BY <2>2, <2>3
<1>5. CASE \E p \in Procs : Passing(p)
  BY <1>1, <1>5, HeldPassing
<1>6. CASE \E p \in Procs : Filling(p)
  BY <1>1, <1>6, HeldFilling
<1>7. CASE \E p \in Procs : Kill(p)
  BY <1>1, <1>7 DEF Kill, Fault
<1> QED BY <1>2, <1>3, <1>4, <1>5, <1>6, <1>7, NextCases

LEMMA HeldHolds == Spec => []HeldInv
BY PromiseHolds, HeldInit, HeldStep, PTL DEF Spec

(* A message is handled once while no call fails, no process dies and no   *)
(* timeout hits a consumer at work.                                        *)
THEOREM HandledOnceWithoutFaults == Spec => []OnceWithoutFaults
<1>1. TypeOK /\ HeldInv => OnceWithoutFaults
  BY DEF HeldInv, Held, HandledOnce, OnceWithoutFaults
<1> QED BY <1>1, QueueTypes, HeldHolds, PTL

(* A consumer that stops has finished its batch: no message waits for its  *)
(* visibility timeout because of a shutdown.                               *)
THEOREM ShutdownLeavesNothing == Spec => []StopLeavesNothing
<1>1. TypeOK /\ HeldInv => StopLeavesNothing
  <2> SUFFICES ASSUME TypeOK, HeldInv, NEW p \in Consumers, pc[p] = "stopped", faults = 0,
                      NEW m \in Msgs, receiver[m] = p
               PROVE  FALSE
    BY DEF StopLeavesNothing
  <2>1. batch[p] = <<>>
    BY DEF TypeOK, ProcsTyped, Procs
  <2> QED BY <2>1 DEF HeldInv, Held, Kept
<1> QED BY <1>1, QueueTypes, HeldHolds, PTL
=============================================================================
